----------------------------- MODULE DriverWork -----------------------------
(***************************************************************************)
(* The bounded work queue of the drivers (src/Rust/driver/work.rs and      *)
(* work_queue.rs): tickets that tasks and interrupt handlers submit, two   *)
(* worker tasks that run them, and cancel, wait, release and the owner's   *)
(* cleanup, which other tasks call at the same time.                       *)
(*                                                                         *)
(* What lies between Critical::enter() and leave() is one step, and so is  *)
(* each call of the event or the completion; between two of them any other *)
(* task, on this or another processor, may run.  at[a] says where actor a  *)
(* is between such sections and which ticket (slot and generation) its     *)
(* call is about.  A task that is parked in a completion is "blocked"; the *)
(* operation or the timeout that releases it makes it "woken".  A worker   *)
(* is "asleep" in its event until it is rung, or "napping": until the next *)
(* tick at the latest.                                                     *)
(*                                                                         *)
(* A continuation that returned driver_work_result_wait has resume_tick    *)
(* one ahead of the clock: it is deferred until the next tick.  Lists of   *)
(* ended work, owner ledgers and metrics are left out: nothing here reads  *)
(* them.                                                                   *)
(***************************************************************************)
EXTENDS Naturals, FiniteSetsExt, SequencesExt

CONSTANTS Task,          \* the tasks and interrupt handlers that call
          Owner,         \* drivers with work
          NoOwner,
          Slots,         \* CAP
          Spare,         \* slots that only deadline work may take (2)
          DeadlineRoom,  \* queued deadline work admitted (4)
          IrqBurst,      \* IRQ selections in a row before a task's turn (4)
          Deadlines,     \* deadline ticks in use
          MaxTickets,    \* bound: tickets altogether
          MaxTurns       \* bound: turns of a continuation

ASSUME DriverWorkAssumption ==
    /\ Slots \in Nat /\ Spare \in 0..(Slots - 1)
    /\ DeadlineRoom \in Nat /\ IrqBurst \in Nat \ {0}
    /\ Deadlines \subseteq Nat \ {0} /\ Deadlines # {}
    /\ NoOwner \notin Owner

VARIABLES item,      \* the slots
          queue,     \* the queued slots of each class, in order
          burst,     \* current_irq_burst, as far as it is compared
          bell,      \* queue_event and deadline_event, both auto-reset
          posted,    \* the count of each slot's completion
          closed,    \* the slots whose completion is closed
          at,        \* where every actor is
          cleaning   \* the owner a task is cleaning up after

vars == <<item, queue, burst, bell, posted, closed, at, cleaning>>

Slot == 1..Slots
Class == {"Task", "Irq", "Deadline"}
Lane == {"normal", "deadline"}
Actor == Lane \cup Task

EmptyItem(g) ==
    [state |-> "Free", class |-> "Task", owner |-> NoOwner, generation |-> g,
     continues |-> FALSE, deadline |-> 0, turns |-> 0, deferred |-> FALSE,
     published |-> FALSE, claimed |-> FALSE, waiters |-> 0]

\* good: the wait was released by the completion.
Idle == [pc |-> "idle", slot |-> 0, generation |-> 0, good |-> FALSE]

Init ==
    /\ item = [s \in Slot |-> EmptyItem(0)]
    /\ queue = [c \in Class |-> <<>>]
    /\ burst = 0
    /\ bell = [l \in Lane |-> FALSE]
    /\ posted = [s \in Slot |-> 0]
    /\ closed = {}
    /\ at = [a \in Actor |-> IF a \in Lane THEN [Idle EXCEPT !.pc = "take"] ELSE Idle]
    /\ cleaning = [t \in Task |-> NoOwner]

-----------------------------------------------------------------------------
(* Tickets and where their users are. *)

Ended(s) == item[s].state \in {"Completed", "Cancelled"}

\* A ticket ends, unpublished; what nobody reads any more is cleared here, in
\* the code when the slot is released.
End(i, state) ==
    [EmptyItem(i.generation) EXCEPT !.state = state, !.owner = i.owner, !.waiters = i.waiters]

\* lookup: the slot still has this generation and is in use.
lookup(s, g) == item[s].generation = g /\ item[s].state # "Free"

Goto(a, pc) == at' = [at EXCEPT ![a].pc = pc]
Start(a, pc, s) ==
    at' = [at EXCEPT ![a].pc = pc, ![a].slot = s, ![a].generation = item[s].generation]

\* Where an actor goes on after a call: a worker with its loop, a cleanup with
\* its next scan, any other caller at home.
Home(a) ==
    IF a \in Lane THEN [Idle EXCEPT !.pc = "take"]
    ELSE IF cleaning[a] # NoOwner THEN [Idle EXCEPT !.pc = "scan"]
    ELSE Idle

Return(a) == at' = [at EXCEPT ![a] = Home(a)]

Calls(t) == at[t].pc = "idle"

\* A caller names any ticket it was ever given, ended and released ones too.
Issued == {h \in Slot \X (1..MaxTickets) : h[2] <= item[h[1]].generation}

-----------------------------------------------------------------------------
(* The completion of a slot (module Completion) and the workers' events.   *)

Parked(s) == {a \in Task : at[a].pc = "blocked" /\ at[a].slot = s}

Wake(S, good) ==
    [a \in Actor |-> IF a \in S THEN [at[a] EXCEPT !.pc = "woken", !.good = good] ELSE at[a]]

\* Operation 0 of an auto event: its one waiter, or the flag.
signal(l) ==
    IF at[l].pc \in {"asleep", "napping"}
    THEN [flags |-> bell, pc |-> "take"]
    ELSE [flags |-> [bell EXCEPT ![l] = TRUE], pc |-> at[l].pc]

-----------------------------------------------------------------------------
(* The queue. *)

FreeSlots == {s \in Slot : item[s].state = "Free"}

reserve(c) ==
    /\ FreeSlots # {}
    /\ IF c = "Deadline" THEN Len(queue[c]) < DeadlineRoom
       ELSE Cardinality(FreeSlots) > Spare

Generations == [s \in Slot |-> item[s].generation]

\* submit: a rejected one changes statistics only.
submit(t, c, o, continues, d) ==
    /\ Calls(t)
    /\ reserve(c)
    /\ continues => c = "Task"
    /\ LET s == Min(FreeSlots) IN
       /\ SumFunction(Generations) < MaxTickets
       /\ item' = [item EXCEPT ![s] =
                      [EmptyItem(@.generation + 1) EXCEPT
                          !.state = "Queued", !.class = c, !.owner = o,
                          !.continues = continues,
                          !.deadline = IF c = "Deadline" THEN d ELSE 0]]
       /\ queue' = [queue EXCEPT ![c] = Append(@, s)]
       /\ posted' = [posted EXCEPT ![s] = 0]
       /\ closed' = closed \ {s}
    /\ Goto(t, IF c = "Deadline" THEN "ring deadline" ELSE "ring")
    /\ UNCHANGED <<burst, bell, cleaning>>

\* ... and then, outside the section, the event of the class's worker.
ring(t) ==
    /\ at[t].pc \in {"ring", "ring deadline"}
    /\ LET l == IF at[t].pc = "ring" THEN "normal" ELSE "deadline" IN
       /\ bell' = signal(l).flags
       /\ at' = [at EXCEPT ![t] = Home(t), ![l].pc = signal(l).pc]
    /\ UNCHANGED <<item, queue, burst, posted, closed, cleaning>>

-----------------------------------------------------------------------------
(* The workers. *)

\* select_ready: deferred heads go to the tail.
Ready(q) == {i \in DOMAIN q : ~item[q[i]].deferred}
Rotated(q) ==
    IF Ready(q) = {} THEN q
    ELSE LET i == Min(Ready(q)) IN SubSeq(q, i, Len(q)) \o SubSeq(q, 1, i - 1)

\* deadline_candidate: the earliest deadline, the first of equals.
deadline_candidate(q) ==
    Min({i \in DOMAIN q : \A j \in DOMAIN q : item[q[i]].deadline <= item[q[j]].deadline})

Run(l, s) ==
    /\ item' = [item EXCEPT ![s].state = "Running", ![s].turns = @ + 1]
    /\ Start(l, "run", s)

take_deadline ==
    /\ at["deadline"].pc = "take"
    /\ queue["Deadline"] # <<>>
    /\ LET i == deadline_candidate(queue["Deadline"]) IN
       /\ queue' = [queue EXCEPT !["Deadline"] = RemoveAt(@, i)]
       /\ Run("deadline", queue["Deadline"][i])
    /\ UNCHANGED <<burst, bell, posted, closed, cleaning>>

IrqTurn ==
    /\ queue["Irq"] # <<>>
    /\ Ready(queue["Task"]) = {} \/ burst < IrqBurst

take_irq ==
    /\ at["normal"].pc = "take"
    /\ IrqTurn
    /\ burst' = Min({burst + 1, IrqBurst})
    /\ queue' = [queue EXCEPT !["Irq"] = Tail(@), !["Task"] = Rotated(@)]
    /\ Run("normal", Head(queue["Irq"]))
    /\ UNCHANGED <<bell, posted, closed, cleaning>>

take_task ==
    /\ at["normal"].pc = "take"
    /\ ~IrqTurn
    /\ Ready(queue["Task"]) # {}
    /\ burst' = 0
    /\ queue' = [queue EXCEPT !["Task"] = Tail(Rotated(@))]
    /\ Run("normal", Head(Rotated(queue["Task"])))
    /\ UNCHANGED <<bell, posted, closed, cleaning>>

take_nothing(l) ==
    /\ at[l].pc = "take"
    /\ IF l = "deadline" THEN queue["Deadline"] = <<>>
       ELSE queue["Irq"] = <<>> /\ Ready(queue["Task"]) = {}
    /\ Goto(l, IF l = "deadline" THEN "doze" ELSE "delay")
    /\ UNCHANGED <<item, queue, burst, bell, posted, closed, cleaning>>

\* Mutant: deferred continuations do not bound the worker's sleep.
normal_wait_for_ever ==
    /\ at["normal"].pc = "delay"
    /\ Goto("normal", IF Ready(queue["Task"]) # {} THEN "take" ELSE "doze")
    /\ UNCHANGED <<item, queue, burst, bell, posted, closed, cleaning>>

\* normal_wait_ticks: no delay for task work that has become ready, a tick for
\* deferred work, no limit without task work.
normal_wait_ticks ==
    /\ at["normal"].pc = "delay"
    /\ Goto("normal", IF Ready(queue["Task"]) # {} THEN "take"
                      ELSE IF queue["Task"] # <<>> THEN "nap" ELSE "doze")
    /\ UNCHANGED <<item, queue, burst, bell, posted, closed, cleaning>>

\* The wait for the event: an auto event's flag is consumed.
doze(l) ==
    /\ at[l].pc \in {"doze", "nap"}
    /\ bell' = [bell EXCEPT ![l] = FALSE]
    /\ Goto(l, IF bell[l] THEN "take" ELSE IF at[l].pc = "nap" THEN "napping" ELSE "asleep")
    /\ UNCHANGED <<item, queue, burst, posted, closed, cleaning>>

\* The handler returned, and not to be called again: finish.
finish(l) ==
    /\ at[l].pc = "run"
    /\ IF item[at[l].slot].state = "Running"
       THEN item' = [item EXCEPT ![at[l].slot] = End(@, "Completed")] /\ Goto(l, "publish")
       ELSE Return(l) /\ UNCHANGED item
    /\ UNCHANGED <<queue, burst, bell, posted, closed, cleaning>>

\* resume_result: driver_work_result_continue, or _wait for the next tick.
resume_result(l, deferred) ==
    /\ at[l].pc = "run"
    /\ LET s == at[l].slot IN
       /\ item[s].continues /\ item[s].turns < MaxTurns
       /\ item' = [item EXCEPT ![s].state = "Queued", ![s].deferred = deferred]
       /\ queue' = [queue EXCEPT !["Task"] = Append(@, s)]
    /\ Return(l)
    /\ UNCHANGED <<burst, bell, posted, closed, cleaning>>

\* The clock: deferred work is due, and a worker that sleeps for it wakes.
tick ==
    /\ at["normal"].pc = "napping" \/ \E s \in Slot : item[s].deferred
    /\ item' = [s \in Slot |-> [item[s] EXCEPT !.deferred = FALSE]]
    /\ at' = [at EXCEPT !["normal"].pc =
                 IF at["normal"].pc = "napping" THEN "take" ELSE at["normal"].pc]
    /\ UNCHANGED <<queue, burst, bell, posted, closed, cleaning>>

-----------------------------------------------------------------------------
(* publish, by a worker after finish and by whoever cancelled. *)

\* complete_all: every parked waiter, or the counter.
publish(a) ==
    /\ at[a].pc = "publish"
    /\ LET s == at[a].slot
           open == s \notin closed
       IN /\ at' = [Wake(IF open THEN Parked(s) ELSE {}, TRUE) EXCEPT ![a].pc = "mark"]
          /\ posted' = [posted EXCEPT ![s] = IF open /\ Parked(s) = {} THEN @ + 1 ELSE @]
    /\ UNCHANGED <<item, queue, burst, bell, closed, cleaning>>

\* completion_published, if the ticket is still there.
mark(a) ==
    /\ at[a].pc = "mark"
    /\ item' = IF lookup(at[a].slot, at[a].generation) /\ Ended(at[a].slot)
               THEN [item EXCEPT ![at[a].slot].published = TRUE] ELSE item
    /\ Return(a)
    /\ UNCHANGED <<queue, burst, bell, posted, closed, cleaning>>

-----------------------------------------------------------------------------
(* cancel, wait and release. *)

\* The section of cancel that succeeds.
Cancel(t, s, g) ==
    /\ lookup(s, g) /\ item[s].state = "Queued"
    /\ item' = [item EXCEPT ![s] = End(@, "Cancelled")]
    /\ queue' = [queue EXCEPT ![item[s].class] = SelectSeq(@, LAMBDA x : x # s)]
    /\ Start(t, "publish", s)

cancel(t, s, g) ==
    /\ Calls(t)
    /\ Cancel(t, s, g)
    /\ UNCHANGED <<burst, bell, posted, closed, cleaning>>

\* wait on a ticket that has not ended; for one that has, it returns the
\* result at once.
wait(t, s, g) ==
    /\ Calls(t)
    /\ lookup(s, g) /\ item[s].state \in {"Queued", "Running"}
    /\ item' = [item EXCEPT ![s].waiters = @ + 1]
    /\ at' = [at EXCEPT ![t] = [Idle EXCEPT !.pc = "enroll", !.slot = s, !.generation = g]]
    /\ UNCHANGED <<queue, burst, bell, posted, closed, cleaning>>

\* Operation 4 of the completion.
enroll(t) ==
    /\ at[t].pc = "enroll"
    /\ LET s == at[t].slot IN
       /\ at' = IF s \in closed THEN Wake({t}, FALSE)
                ELSE IF posted[s] > 0 THEN Wake({t}, TRUE)
                ELSE [at EXCEPT ![t].pc = "blocked"]
       /\ posted' = [posted EXCEPT ![s] = IF s \notin closed /\ @ > 0 THEN @ - 1 ELSE @]
    /\ UNCHANGED <<item, queue, burst, bell, closed, cleaning>>

\* The timeout of any wait.
expire(t) ==
    /\ at[t].pc = "blocked"
    /\ at' = Wake({t}, FALSE)
    /\ UNCHANGED <<item, queue, burst, bell, posted, closed, cleaning>>

\* The end of wait, or of a cleanup's wait: the waiter is counted out if the
\* ticket is still there.  A cleanup whose wait failed gives up.
leave(t) ==
    /\ at[t].pc = "woken"
    /\ item' = IF lookup(at[t].slot, at[t].generation) /\ item[at[t].slot].waiters # 0
               THEN [item EXCEPT ![at[t].slot].waiters = @ - 1] ELSE item
    /\ IF at[t].good
       THEN Return(t) /\ UNCHANGED cleaning
       ELSE /\ at' = [at EXCEPT ![t] = Idle]
            /\ cleaning' = [cleaning EXCEPT ![t] = NoOwner]
    /\ UNCHANGED <<queue, burst, bell, posted, closed>>

\* Mutant: release does not look at the waiters.
release_despite_waiters(s) == Ended(s) /\ item[s].published /\ ~item[s].claimed

\* Mutant: release does not wait for the publication.
release_unpublished(s) == Ended(s) /\ item[s].waiters = 0 /\ ~item[s].claimed

\* r4os_rust_work_release_decision.
release_decision(s) ==
    Ended(s) /\ item[s].published /\ item[s].waiters = 0 /\ ~item[s].claimed

\* The claim, the first section of release.
Claim(t, s, g) ==
    /\ lookup(s, g) /\ release_decision(s)
    /\ item' = [item EXCEPT ![s].claimed = TRUE]
    /\ Start(t, "close", s)

release(t, s, g) ==
    /\ Calls(t)
    /\ Claim(t, s, g)
    /\ UNCHANGED <<queue, burst, bell, posted, closed, cleaning>>

\* Operation 3 of the completion, outside the section.
close(t) ==
    /\ at[t].pc = "close"
    /\ at' = [Wake(Parked(at[t].slot), FALSE) EXCEPT ![t].pc = "free"]
    /\ posted' = [posted EXCEPT ![at[t].slot] = 0]
    /\ closed' = closed \cup {at[t].slot}
    /\ UNCHANGED <<item, queue, burst, bell, cleaning>>

\* The second section: the slot is free and its item empty.
free(t) ==
    /\ at[t].pc = "free"
    /\ LET s == at[t].slot
           ours == lookup(s, at[t].generation) /\ item[s].claimed /\ Ended(s)
       IN /\ item' = IF ours THEN [item EXCEPT ![s] = EmptyItem(@.generation)] ELSE item
          /\ posted' = IF ours THEN [posted EXCEPT ![s] = 0] ELSE posted
          /\ closed' = IF ours THEN closed \ {s} ELSE closed
    /\ Return(t)
    /\ UNCHANGED <<queue, burst, bell, cleaning>>

-----------------------------------------------------------------------------
(* cleanup of an owner. *)

begin_cleanup(t, o) ==
    /\ Calls(t)
    /\ cleaning' = [cleaning EXCEPT ![t] = o]
    /\ Goto(t, "scan")
    /\ UNCHANGED <<item, queue, burst, bell, posted, closed>>

\* find_owner: queued work first, then running, then ended.
Owned(o, states) == {s \in Slot : item[s].owner = o /\ item[s].state \in states}
find_owner(o) ==
    LET queued == Owned(o, {"Queued"})
        running == Owned(o, {"Running"})
        ended == Owned(o, {"Completed", "Cancelled"})
    IN IF queued # {} THEN {Min(queued)}
       ELSE IF running # {} THEN {Min(running)}
       ELSE IF ended # {} THEN {Min(ended)} ELSE {}

\* One pass: quiesced, or out of time, or wait for the running ticket.  A
\* queued or an ended one is remembered for the call that follows.
scan(t) ==
    /\ at[t].pc = "scan"
    /\ \/ /\ at' = [at EXCEPT ![t] = Idle]
          /\ cleaning' = [cleaning EXCEPT ![t] = NoOwner]
          /\ UNCHANGED item
       \/ \E s \in find_owner(cleaning[t]) :
             /\ at' = [at EXCEPT
                          ![t] = [Idle EXCEPT
                              !.pc = CASE item[s].state = "Queued" -> "revoke"
                                       [] item[s].state = "Running" -> "enroll"
                                       [] OTHER -> "reclaim",
                              !.slot = s, !.generation = item[s].generation]]
             /\ item' = IF item[s].state = "Running"
                        THEN [item EXCEPT ![s].waiters = @ + 1] ELSE item
             /\ UNCHANGED cleaning
    /\ UNCHANGED <<queue, burst, bell, posted, closed>>

\* cancel(handle), called by cleanup; a ticket that started meanwhile is left.
revoke(t) ==
    /\ at[t].pc = "revoke"
    /\ LET s == at[t].slot
           g == at[t].generation
       IN \/ Cancel(t, s, g)
          \/ /\ ~(lookup(s, g) /\ item[s].state = "Queued")
             /\ Return(t)
             /\ UNCHANGED <<item, queue>>
    /\ UNCHANGED <<burst, bell, posted, closed, cleaning>>

\* release(handle), called by cleanup; if that is busy, the next pass retries.
reclaim(t) ==
    /\ at[t].pc = "reclaim"
    /\ LET s == at[t].slot
           g == at[t].generation
       IN \/ Claim(t, s, g)
          \/ /\ ~(lookup(s, g) /\ release_decision(s))
             /\ Return(t)
             /\ UNCHANGED item
    /\ UNCHANGED <<queue, burst, bell, posted, closed, cleaning>>

-----------------------------------------------------------------------------
Work(l) ==
    \/ l = "deadline" /\ take_deadline
    \/ l = "normal" /\ (take_irq \/ take_task \/ normal_wait_ticks)
    \/ take_nothing(l) \/ doze(l) \/ finish(l) \/ publish(l) \/ mark(l)

\* The steps a caller takes by itself until its call has returned.
Proceed(t) ==
    \/ ring(t) \/ publish(t) \/ mark(t)
    \/ enroll(t) \/ leave(t)
    \/ close(t) \/ free(t)
    \/ scan(t) \/ revoke(t) \/ reclaim(t)

Next ==
    \/ \E l \in Lane : Work(l)
    \/ \E l \in Lane, deferred \in BOOLEAN : resume_result(l, deferred)
    \/ \E t \in Task, c \in Class, o \in Owner, b \in BOOLEAN, d \in Deadlines :
          submit(t, c, o, b, d)
    \/ \E t \in Task, h \in Issued :
          cancel(t, h[1], h[2]) \/ wait(t, h[1], h[2]) \/ release(t, h[1], h[2])
    \/ \E t \in Task, o \in Owner : begin_cleanup(t, o)
    \/ \E t \in Task : Proceed(t) \/ expire(t)
    \/ tick

Spec == Init /\ [][Next]_vars

-----------------------------------------------------------------------------
(* Properties. *)

Waiting(t) == at[t].pc \in {"enroll", "blocked", "woken"}

\* A ticket stays what it is for everybody who is in the middle of using it:
\* the slot a worker runs is Running and no other worker's, whoever waits finds
\* the same ticket when it returns and is counted once, and a slot that is being
\* freed belongs to the one who claimed it.
TicketsKept ==
    /\ \A l \in Lane : at[l].pc = "run" =>
          /\ lookup(at[l].slot, at[l].generation)
          /\ item[at[l].slot].state = "Running"
          /\ \A k \in Lane \ {l} : at[k].pc = "run" => at[k].slot # at[l].slot
    /\ \A t \in Task : Waiting(t) \/ at[t].pc \in {"close", "free"} =>
          lookup(at[t].slot, at[t].generation)
    /\ \A s \in Slot :
          item[s].waiters = Cardinality({t \in Task : Waiting(t) /\ at[t].slot = s})

\* Every ticket that ended is published once: until it is marked there is
\* exactly one actor on its way to do so, and nobody ever posts to the
\* completion of a later ticket in the same slot.
OnePublisher ==
    \A s \in Slot :
        LET publishers == {a \in Actor : at[a].pc \in {"publish", "mark"} /\ at[a].slot = s} IN
        /\ Cardinality(publishers) = IF Ended(s) /\ ~item[s].published THEN 1 ELSE 0
        /\ \A a \in publishers : at[a].generation = item[s].generation
        /\ posted[s] > 0 => Ended(s)

\* No doorbell is lost and no deferred turn forgotten: while a worker sleeps,
\* queued work that has not started has a submitter on its way to the event, and
\* a continuation between two turns has a tick that ends the sleep.
NoForgottenWork ==
    \A s \in Slot : item[s].state = "Queued" =>
        LET deadline == item[s].class = "Deadline"
            worker == at[IF deadline THEN "deadline" ELSE "normal"].pc
            rung == \E t \in Task : at[t].pc = IF deadline THEN "ring deadline" ELSE "ring"
        IN /\ worker = "asleep" => item[s].turns = 0 /\ rung
           /\ worker = "napping" => item[s].turns > 0 \/ rung

\* What publication is for: once the end of a ticket is published, nobody is
\* parked in its completion any more.
PublicationReleases == \A s \in Slot : item[s].published => Parked(s) = {}
=============================================================================
