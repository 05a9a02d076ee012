------------------------------ MODULE SyncLocks ------------------------------
(***************************************************************************)
(* The recursive mutex (src/Rust/sched/sync_locks.rs) and the unwind guard *)
(* (src/Rust/sched/sync_guard.rs), which share one waits-for graph         *)
(* (mutex_pi.rs bind and acyclic).                                         *)
(*                                                                         *)
(* Both hand over to a queued task before it runs.  A mutex is transferred *)
(* outright (handoff_pending) to the best-ranked waiter, and its           *)
(* held_lock_count keeps the new owner alive.  A guard is only offered to  *)
(* the FIFO head: until the task claims it the offer can time out, be      *)
(* cancelled or die with the task, and then passes to the next waiter.     *)
(*                                                                         *)
(* A lock is named by its wait queue.  granted is a history variable: the  *)
(* acquisitions of a lock that were reported to a caller and not yet       *)
(* undone by it.                                                           *)
(***************************************************************************)
EXTENDS TaskWait

CONSTANTS Mutexes, Guards,   \* the two kinds of Queue
          NoTask,            \* owner 0
          Boot,              \* the boot context, before there is a task
          NoOffer,
          MaxDepth,          \* u32::MAX of depth
          MaxHeld,           \* u32::MAX of held_lock_count
          MaxOther,          \* bound on the mutexes a task holds besides Mutexes
          MaxUnwind,         \* u32::MAX of unwind_guard_count
          MaxEpoch,          \* handoff_epoch is counted modulo this width
          ValidationSteps    \* VALIDATION_STEPS of acyclic

Offer == [guard : Guards, generation : 1..(MaxGen - 1), epoch : 1..(MaxEpoch - 1)]

ASSUME SyncLocksAssumption ==
    /\ IsFiniteSet(Queue)
    /\ Mutexes \cap Guards = {} /\ Mutexes \cup Guards = Queue
    /\ NoTask \notin Task /\ Boot \notin Task /\ Boot # NoTask
    /\ NoOffer \notin Offer
    /\ MaxDepth \in Nat \ {0} /\ MaxHeld \in Nat \ {0} /\ MaxUnwind \in Nat \ {0}
    /\ MaxOther \in 0..MaxHeld
    /\ MaxEpoch \in Nat \ {0, 1} /\ ValidationSteps \in Nat

VARIABLES owner,      \* owner and owner_generation; Boot for boot_owner
          depth,
          handoff,    \* handoff_pending of a mutex
          epoch,      \* handoff_epoch of a guard
          offer,      \* guard_offer of a task
          held,       \* held_lock_count
          other,      \* how many of them are mutexes other than Mutexes, all the time
          unwind,     \* unwind_guard_count
          pc, want,   \* where a task is inside mutex_lock or guard_enter, and for which lock
          granted

lockVars == <<owner, depth, handoff, epoch, offer, held, other, unwind, pc, want, granted>>
vars == <<waitVars, lockVars>>

TypeOK ==
    /\ WaitTypeOK
    /\ owner \in [Queue -> Task \cup {NoTask, Boot}]
    /\ depth \in [Queue -> 0..MaxDepth]
    /\ handoff \in [Queue -> BOOLEAN]
    /\ epoch \in [Queue -> 0..(MaxEpoch - 1)]
    /\ offer \in [Task -> Offer \cup {NoOffer}]
    /\ held \in [Task -> 0..MaxHeld]
    /\ other \in [Task -> 0..MaxOther]
    /\ unwind \in [Task -> 0..MaxUnwind]
    /\ pc \in [Task -> {"idle", "check", "wait", "parked", "retry"}]
    /\ want \in [Task -> Queue \cup {NoQueue}]
    /\ granted \in [Task \cup {Boot} -> [Queue -> 0..MaxDepth]]

Init ==
    /\ WaitInit
    /\ owner = [l \in Queue |-> NoTask]
    /\ depth = [l \in Queue |-> 0]
    /\ handoff = [l \in Queue |-> FALSE]
    /\ epoch = [l \in Queue |-> 0]
    /\ offer = [t \in Task |-> NoOffer]
    /\ other \in [Task -> 0..MaxOther]
    /\ held = other
    /\ unwind = [t \in Task |-> 0]
    /\ pc = [t \in Task |-> "idle"]
    /\ want = [t \in Task |-> NoQueue]
    /\ granted = [t \in Task \cup {Boot} |-> [l \in Queue |-> 0]]

-----------------------------------------------------------------------------
(* A task inside a call, and the ways the call can return.                  *)

Calls(t) == state[t] = "Running" /\ pc[t] = "idle"
At(t, place) == state[t] = "Running" /\ pc[t] = place

Goto(t, place, l) ==
    /\ pc' = [pc EXCEPT ![t] = place]
    /\ want' = [want EXCEPT ![t] = l]

Return(t) == Goto(t, "idle", NoQueue)
Grant(t, l) == granted' = [granted EXCEPT ![t][l] = @ + 1]
Undo(t, l) == granted' = [granted EXCEPT ![t][l] = @ - 1]

Free(l) == owner[l] = NoTask

-----------------------------------------------------------------------------
(* The waits-for graph: a queued task waits for the owner of its lock.      *)

WaitsFor(t) == owner[node[t].queue]

\* One step of acyclic(): the owners at which the walk for t ends well when it
\* ends well at every owner of Good: no task, a task that does not wait, or one
\* that waits in an open queue for an owner of Good.
EndsWell(t, Good) ==
    {u \in Task \cup {NoTask, Boot} :
        \/ u \notin Task
        \/ /\ u # t
           /\ \/ node[u].queue = NoQueue
              \/ ~closing[node[u].queue] /\ WaitsFor(u) \in Good}

\* acyclic(): follow owners from l; too long a chain counts as a cycle.
Acyclic(t, l) ==
    LET walk[n \in 0..ValidationSteps] == IF n = 0 THEN {} ELSE EndsWell(t, walk[n - 1])
    IN owner[l] \in walk[ValidationSteps]

\* Mutant: a lock wait is enrolled without the validation walk.
EnrollUnvalidated(t, l, bounded, r) == Block(t, l, bounded, r)

\* link_ranked, block_current_owned, bind: a rejected edge is undone at once
\* and the wait completes with Failed.
Enroll(t, l, bounded, r) ==
    IF Acyclic(t, l) THEN Block(t, l, bounded, r)
    ELSE /\ state' = [state EXCEPT ![t] = "Ready"]
         /\ timed' = [timed EXCEPT ![t] = FALSE]
         /\ result' = [result EXCEPT ![t] = "Failed"]
         /\ UNCHANGED node

-----------------------------------------------------------------------------
(* Mutex. *)

\* mutex_try: a free mutex, the end of a handoff, or one more level.
MutexTrySucceeds(t, m) ==
    \/ Free(m) /\ held[t] < MaxHeld
    \/ owner[m] = t /\ (handoff[m] \/ depth[m] < MaxDepth)

\* Mutant: the end of a handoff is counted as a recursive acquisition.
MutexTakeTwice(t, m) ==
    /\ MutexTrySucceeds(t, m)
    /\ owner' = [owner EXCEPT ![m] = t]
    /\ depth' = [depth EXCEPT ![m] = @ + 1]
    /\ held' = [held EXCEPT ![t] = IF Free(m) THEN @ + 1 ELSE @]
    /\ handoff' = [handoff EXCEPT ![m] = FALSE]
    /\ Grant(t, m)
    /\ UNCHANGED <<waitVars, epoch, offer, unwind>>

MutexTake(t, m) ==
    /\ MutexTrySucceeds(t, m)
    /\ owner' = [owner EXCEPT ![m] = t]
    /\ depth' = [depth EXCEPT ![m] = IF handoff[m] THEN @ ELSE @ + 1]
    /\ held' = [held EXCEPT ![t] = IF Free(m) THEN @ + 1 ELSE @]
    /\ handoff' = [handoff EXCEPT ![m] = FALSE]
    /\ Grant(t, m)
    /\ UNCHANGED <<waitVars, epoch, offer, unwind>>

MutexTry(t, m) ==
    /\ Calls(t)
    /\ MutexTake(t, m)
    /\ UNCHANGED <<pc, want, other>>

\* mutex_lock after a failed mutex_try.
MutexContended(t, m) ==
    /\ Calls(t)
    /\ ~MutexTrySucceeds(t, m)
    /\ Goto(t, "check", m)
    /\ UNCHANGED <<waitVars, owner, depth, handoff, epoch, offer, held, unwind, granted, other>>

\* mutex_permanent, in a critical section of its own.
MutexPermanent(t, m) ==
    \/ Free(m) /\ held[t] = MaxHeld
    \/ owner[m] = t /\ depth[m] = MaxDepth

MutexCheck(t) ==
    /\ At(t, "check")
    /\ IF MutexPermanent(t, want[t]) THEN Return(t) ELSE Goto(t, "wait", want[t])
    /\ UNCHANGED <<waitVars, owner, depth, handoff, epoch, offer, held, unwind, granted, other>>

\* A zero timeout, or a deadline that has passed.
MutexGiveUp(t) ==
    /\ At(t, "check")
    /\ Return(t)
    /\ UNCHANGED <<waitVars, owner, depth, handoff, epoch, offer, held, unwind, granted, other>>

\* wait_mutex: the predicate is evaluated again under the admission that
\* enrolls, so a mutex freed since the failed try is seen here.
MutexWait(t, bounded, r) ==
    /\ At(t, "wait")
    /\ want[t] \in Mutexes
    /\ \/ /\ closing[want[t]]
          /\ Return(t)
          /\ UNCHANGED <<state, node, timed, result>>
       \/ /\ ~closing[want[t]]
          /\ Free(want[t])
          /\ Goto(t, "retry", want[t])
          /\ UNCHANGED <<state, node, timed, result>>
       \/ /\ ~closing[want[t]]
          /\ ~Free(want[t])
          /\ Enroll(t, want[t], bounded, r)
          /\ Goto(t, "parked", want[t])
    /\ UNCHANGED <<closing, generation, owner, depth, handoff, epoch, offer, held, unwind, granted, other>>

\* Mutant: the woken task returns without taking up the handoff.
MutexResumeEmptyHanded(t) ==
    /\ At(t, "parked")
    /\ want[t] \in Mutexes
    /\ Return(t)
    /\ UNCHANGED <<waitVars, owner, depth, handoff, epoch, offer, held, unwind, granted, other>>

MutexResume(t) ==
    /\ At(t, "parked")
    /\ want[t] \in Mutexes
    /\ IF result[t] = "Signaled" THEN Goto(t, "retry", want[t]) ELSE Return(t)
    /\ UNCHANGED <<waitVars, owner, depth, handoff, epoch, offer, held, unwind, granted, other>>

MutexRetry(t) ==
    /\ At(t, "retry")
    /\ \/ MutexTake(t, want[t]) /\ Return(t)
       \/ /\ ~MutexTrySucceeds(t, want[t])
          /\ Goto(t, "check", want[t])
          /\ UNCHANGED <<waitVars, owner, depth, handoff, epoch, offer, held, unwind, granted>>
    /\ UNCHANGED other

\* mutex_handoff: waiters that can hold no further lock are dismissed until one
\* is found that can; it owns the mutex before it is made ready.
Saturated(m) == {u \in Linked(m) : held[u] = MaxHeld}

\* Mutant: the mutex goes to the longest waiting task.
HeirFifo(m) == {u \in Linked(m) \ Saturated(m) :
                   \A v \in Linked(m) \ Saturated(m) : node[u].place <= node[v].place}

Heir(m) == {u \in Linked(m) \ Saturated(m) :
               \A v \in Linked(m) \ (Saturated(m) \cup {u}) : Before(u, v)}

Dismissed(m) == {u \in Saturated(m) : \A h \in Heir(m) : Before(u, h)}

PassMutex(t, m) ==
    LET H == Heir(m) IN
    /\ WakeEach(H \cup Dismissed(m),
                [u \in H \cup Dismissed(m) |-> IF u \in H THEN "Signaled" ELSE "Cancelled"])
    /\ owner' = [owner EXCEPT ![m] = IF H = {} THEN NoTask ELSE CHOOSE h \in H : TRUE]
    /\ depth' = [depth EXCEPT ![m] = IF H = {} THEN 0 ELSE 1]
    /\ handoff' = [handoff EXCEPT ![m] = H # {}]
    /\ held' = [u \in Task |-> IF u = t THEN held[u] - 1
                               ELSE IF u \in H THEN held[u] + 1 ELSE held[u]]

MutexUnlock(t, m) ==
    /\ Calls(t)
    /\ owner[m] = t /\ depth[m] # 0
    /\ IF depth[m] = 1 THEN PassMutex(t, m)
       ELSE /\ depth' = [depth EXCEPT ![m] = @ - 1]
            /\ UNCHANGED <<state, node, timed, result, owner, handoff, held>>
    /\ Undo(t, m)
    /\ UNCHANGED <<closing, generation, epoch, offer, unwind, pc, want, other>>

-----------------------------------------------------------------------------
(* Unwind guard. *)

\* Mutant: a guard in use admits one more level whoever asks.
GuardTrySucceedsAny(t, g) ==
    /\ ~closing[g]
    /\ \/ Free(g) /\ unwind[t] < MaxUnwind /\ offer[t] = NoOffer
       \/ depth[g] # 0 /\ depth[g] < MaxDepth

GuardTrySucceeds(t, g) ==
    /\ ~closing[g]
    /\ \/ Free(g) /\ unwind[t] < MaxUnwind /\ offer[t] = NoOffer
       \/ owner[g] = t /\ depth[g] # 0 /\ depth[g] < MaxDepth

GuardTake(t, g) ==
    /\ GuardTrySucceeds(t, g)
    /\ owner' = [owner EXCEPT ![g] = t]
    /\ depth' = [depth EXCEPT ![g] = @ + 1]
    /\ unwind' = [unwind EXCEPT ![t] = IF Free(g) THEN @ + 1 ELSE @]
    /\ Grant(t, g)

GuardTry(t, g) ==
    /\ Calls(t)
    /\ GuardTake(t, g)
    /\ UNCHANGED <<waitVars, handoff, epoch, offer, held, pc, want, other>>

\* guard_enter after a failed guard_try.
GuardContended(t, g) ==
    /\ Calls(t)
    /\ ~GuardTrySucceeds(t, g)
    /\ Goto(t, "wait", g)
    /\ UNCHANGED <<waitVars, owner, depth, handoff, epoch, offer, held, unwind, granted, other>>

\* wait_guard: a guard found free is taken under the same admission.
GuardWait(t, bounded, r) ==
    LET g == want[t] IN
    /\ At(t, "wait")
    /\ g \in Guards
    /\ \/ /\ \/ closing[g]
             \/ Free(g) /\ ~GuardTrySucceeds(t, g)
             \/ ~Free(g) /\ unwind[t] = MaxUnwind
          /\ Return(t)
          /\ UNCHANGED <<state, node, timed, result, owner, depth, unwind, granted>>
       \/ /\ Free(g)
          /\ GuardTake(t, g)
          /\ Return(t)
          /\ UNCHANGED <<state, node, timed, result>>
       \/ /\ ~closing[g] /\ ~Free(g) /\ unwind[t] < MaxUnwind
          /\ Enroll(t, g, bounded, r)
          /\ Goto(t, "parked", g)
          /\ UNCHANGED <<owner, depth, unwind, granted>>
    /\ UNCHANGED <<closing, generation, handoff, epoch, offer, held, other>>

NextEpoch(e) == IF e + 1 = MaxEpoch THEN 1 ELSE e + 1

\* select(): the FIFO head of an open queue is offered the guard.
Successor(g) == IF closing[g] THEN {} ELSE {h \in Task : IsHead(h, g)}

\* st, tm, rs, of: the task fields after the caller's own changes.  The offered
\* task is made ready but keeps its deadline.
Select(g, st, tm, rs, of) ==
    LET H == Successor(g) IN
    /\ node' = Detach(H)
    /\ state' = [t \in Task |-> IF t \in H THEN "Ready" ELSE st[t]]
    /\ timed' = tm
    /\ result' = [t \in Task |-> IF t \in H THEN "Signaled" ELSE rs[t]]
    /\ epoch' = [epoch EXCEPT ![g] = IF H = {} THEN @ ELSE NextEpoch(@)]
    /\ offer' = [t \in Task |->
                    IF t \in H THEN [guard |-> g, generation |-> generation[g], epoch |-> epoch'[g]]
                    ELSE of[t]]
    /\ owner' = [owner EXCEPT ![g] = IF H = {} THEN NoTask ELSE CHOOSE h \in H : TRUE]

\* Mutant: a withdrawn offer frees the guard without asking the next waiter.
CancelOfferOnly(t, r, s) ==
    /\ state' = [state EXCEPT ![t] = s]
    /\ timed' = [timed EXCEPT ![t] = FALSE]
    /\ result' = [result EXCEPT ![t] = r]
    /\ offer' = [offer EXCEPT ![t] = NoOffer]
    /\ owner' = [owner EXCEPT ![offer[t].guard] = NoTask]
    /\ UNCHANGED <<node, epoch>>

\* cancel(): withdraw t's offer with result r and pass the guard on; t goes on
\* in state s (it stays as it is, or is Dead).
CancelOffer(t, r, s) ==
    Select(offer[t].guard,
           [state EXCEPT ![t] = s],
           [timed EXCEPT ![t] = FALSE],
           [result EXCEPT ![t] = r],
           [offer EXCEPT ![t] = NoOffer])

\* claim(): the resumed task takes the offer up or gives it back.  late: the
\* deadline has passed but the timer has not come round to this task yet.
ClaimFailure(t, late) ==
    LET o == offer[t] IN
    IF closing[o.guard] \/ generation[o.guard] # o.generation THEN "Cancelled"
    ELSE IF late /\ timed[t] THEN "Timeout"
    ELSE IF unwind[t] = MaxUnwind THEN "Failed"
    ELSE "None"

GuardClaim(t, late) ==
    /\ At(t, "parked")
    /\ want[t] \in Guards
    /\ Return(t)
    /\ \/ /\ offer[t] = NoOffer
          /\ UNCHANGED <<waitVars, owner, depth, epoch, offer, unwind, granted>>
       \/ /\ offer[t] # NoOffer
          /\ ClaimFailure(t, late) # "None"
          /\ CancelOffer(t, ClaimFailure(t, late), state[t])
          /\ UNCHANGED <<closing, generation, depth, unwind, granted>>
       \/ /\ offer[t] # NoOffer
          /\ ClaimFailure(t, late) = "None"
          /\ depth' = [depth EXCEPT ![offer[t].guard] = 1]
          /\ unwind' = [unwind EXCEPT ![t] = @ + 1]
          /\ offer' = [offer EXCEPT ![t] = NoOffer]
          /\ timed' = [timed EXCEPT ![t] = FALSE]
          /\ Grant(t, offer[t].guard)
          /\ UNCHANGED <<state, node, result, closing, generation, owner, epoch>>
    /\ UNCHANGED <<handoff, held, other>>

\* Mutant: the last leave keeps the unwind count of its task.
GuardLeaveUnwinding(t, g) ==
    /\ Calls(t)
    /\ owner[g] = t /\ depth[g] # 0
    /\ depth' = [depth EXCEPT ![g] = @ - 1]
    /\ IF depth[g] = 1 THEN Select(g, state, timed, result, offer)
       ELSE UNCHANGED <<state, node, timed, result, owner, epoch, offer>>
    /\ Undo(t, g)
    /\ UNCHANGED <<closing, generation, handoff, held, unwind, pc, want, other>>

GuardLeave(t, g) ==
    /\ Calls(t)
    /\ owner[g] = t /\ depth[g] # 0
    /\ depth' = [depth EXCEPT ![g] = @ - 1]
    /\ IF depth[g] = 1
       THEN /\ Select(g, state, timed, result, offer)
            /\ unwind' = [unwind EXCEPT ![t] = @ - 1]
       ELSE UNCHANGED <<state, node, timed, result, owner, epoch, offer, unwind>>
    /\ Undo(t, g)
    /\ UNCHANGED <<closing, generation, handoff, held, pc, want, other>>

\* The boot context has no task: it never waits and never unwinds.
BootTry(g) ==
    /\ ~closing[g]
    /\ Free(g) \/ (owner[g] = Boot /\ depth[g] < MaxDepth)
    /\ owner' = [owner EXCEPT ![g] = Boot]
    /\ depth' = [depth EXCEPT ![g] = @ + 1]
    /\ Grant(Boot, g)
    /\ UNCHANGED <<waitVars, handoff, epoch, offer, held, unwind, pc, want, other>>

BootLeave(g) ==
    /\ owner[g] = Boot /\ depth[g] # 0
    /\ depth' = [depth EXCEPT ![g] = @ - 1]
    /\ IF depth[g] = 1 THEN Select(g, state, timed, result, offer)
       ELSE UNCHANGED <<state, node, timed, result, owner, epoch, offer>>
    /\ Undo(Boot, g)
    /\ UNCHANGED <<closing, generation, handoff, held, unwind, pc, want, other>>

-----------------------------------------------------------------------------
(* What the rest of the kernel does to a task in a lock call.               *)

Mute == UNCHANGED lockVars

\* wake_expired on an offered task, which is Ready or already Running.
ExpireOffer(t) ==
    /\ offer[t] # NoOffer
    /\ timed[t]
    /\ CancelOffer(t, "Timeout", state[t])
    /\ UNCHANGED <<closing, generation, depth, handoff, held, unwind, pc, want, granted, other>>

\* Mutant: a task dies with its offer still standing.
DieWithOffer(t) ==
    /\ Bury(t)
    /\ UNCHANGED <<owner, epoch, offer>>

\* transition_dead.
Die(t) ==
    IF offer[t] # NoOffer THEN CancelOffer(t, "Killed", "Dead")
    ELSE Bury(t) /\ UNCHANGED <<owner, epoch, offer>>

\* kill() and retire() leave a task alone that holds a lock or unwinds.
Kill(t) ==
    /\ state[t] \in {"Ready", "Blocked"}
    /\ held[t] = 0 /\ unwind[t] = 0
    /\ Die(t)
    /\ UNCHANGED <<closing, generation, depth, handoff, held, unwind, pc, want, granted, other>>

Exit(t) ==
    /\ Calls(t)
    /\ held[t] = 0 /\ unwind[t] = 0
    /\ Die(t)
    /\ UNCHANGED <<closing, generation, depth, handoff, held, unwind, pc, want, granted, other>>

\* The steps a task takes by itself until its lock call has returned.
Progress(t) ==
    \/ MutexCheck(t) \/ MutexResume(t) \/ MutexRetry(t)
    \/ \E late \in BOOLEAN : GuardClaim(t, late)

TaskStep(t) ==
    \/ \E m \in Mutexes : MutexTry(t, m) \/ MutexContended(t, m) \/ MutexUnlock(t, m)
    \/ \E g \in Guards : GuardTry(t, g) \/ GuardContended(t, g) \/ GuardLeave(t, g)
    \/ \E b \in BOOLEAN, r \in Ranks : MutexWait(t, b, r) \/ GuardWait(t, b, r)
    \/ MutexGiveUp(t)

Next ==
    \/ \E t \in Task : TaskStep(t) \/ Progress(t)
    \/ \E g \in Guards : BootTry(g) \/ BootLeave(g)
    \/ \E t \in Task : Dispatch(t) /\ Mute
    \/ \E t \in Task : Preempt(t) /\ Mute
    \/ \E t \in Task : Expire(t) /\ Mute
    \/ \E t \in Task : ExpireOffer(t)
    \/ \E t \in Task : CancelExact(t) /\ Mute
    \/ \E t \in Task, r \in Ranks : SetRank(t, r) /\ Mute
    \/ \E t \in Task : Kill(t) \/ Exit(t)
    \/ \E l \in Queue : Close(l) /\ Mute
    \/ \E l \in Queue : Reopen(l) /\ Mute

Spec == Init /\ [][Next]_vars

\* Ready tasks are dispatched again and again and then get to their next step.
Fairness ==
    \A t \in Task : WF_vars(Dispatch(t) /\ Mute) /\ SF_vars(Progress(t))

FairSpec == Spec /\ Fairness

-----------------------------------------------------------------------------
(* Properties. *)

\* The acquisitions a task was told of are exactly the recorded ones: only the
\* recorded owner has any, as many as depth says, and a lock that is on its way
\* (a mutex handoff, a guard offer) counts for nobody yet.
GrantsMatchDepth ==
    \A t \in Task \cup {Boot}, l \in Queue :
        granted[t][l] = IF owner[l] = t /\ ~handoff[l] THEN depth[l] ELSE 0

\* Seen from their callers both kinds of lock are exclusive and recursive: every
\* step is a legal step of LockService, or none at all.
Service == INSTANCE LockService
    WITH Caller <- Task \cup {Boot}, Lock <- Queue, MaxLevel <- MaxDepth, level <- granted

ImplementsLockService == Service!Spec

\* The counters that keep kill and exit away from a lock owner are exact, so an
\* owner can neither be killed nor become unkillable for ever.
CountsExact ==
    \A t \in Task :
        /\ held[t] = other[t] + Cardinality({m \in Mutexes : owner[m] = t})
        /\ unwind[t] = Cardinality({g \in Guards : owner[g] = t /\ depth[g] # 0})

\* No task is left waiting for a lock that nobody owns.
NoStrandedWaiter == \A l \in Queue : Free(l) => Linked(l) = {}

\* A guard without depth is reserved for exactly the live task that carries the
\* matching offer, and that task is awake inside guard_enter: the reservation
\* can never outlive its task, nor the task a stale offer.
OfferExact ==
    /\ \A t \in Task : offer[t] # NoOffer =>
          /\ owner[offer[t].guard] = t
          /\ depth[offer[t].guard] = 0
          /\ epoch[offer[t].guard] = offer[t].epoch
          /\ state[t] \in {"Ready", "Running"} /\ pc[t] = "parked"
          /\ want[t] = offer[t].guard
    /\ \A g \in Guards : ~Free(g) /\ depth[g] = 0 =>
          owner[g] \in Task /\ offer[owner[g]] # NoOffer /\ offer[owner[g]].guard = g

\* Deadlock freedom: no set of tasks waits for locks owned only by the set
\* itself.  bind() rejects the wait that would close such a circle.
NoCircularWait ==
    \A S \in (SUBSET Task) \ {{}} :
        \E t \in S : node[t].queue = NoQueue \/ WaitsFor(t) \notin S

\* No barging: while tasks are queued the lock changes hands only to one of
\* them, a guard to the longest waiting one, a mutex to one that no eligible
\* waiter precedes in rank order.
NoBarging ==
    [][\A l \in Queue :
         Linked(l) # {} /\ owner'[l] # owner[l] =>
            \/ owner'[l] = NoTask /\ (closing[l] \/ Linked(l)' = {})
            \/ /\ owner'[l] \in Linked(l)
               /\ l \in Guards => IsHead(owner'[l], l)
               /\ l \in Mutexes => \A u \in Linked(l) \ {owner'[l]} :
                                      Before(owner'[l], u) \/ held[u] = MaxHeld]_vars

\* A lock that is on its way to a task arrives or moves on: no handoff and no
\* offer stays pending for ever.
HandoverResolves ==
    /\ \A m \in Mutexes : handoff[m] ~> ~handoff[m]
    /\ \A t \in Task : (offer[t] # NoOffer) ~> (offer[t] = NoOffer)
=============================================================================
