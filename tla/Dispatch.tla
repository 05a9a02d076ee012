------------------------------- MODULE Dispatch -------------------------------
(***************************************************************************)
(* Which task a CPU runs next and when it may halt:                        *)
(* src/Rust/sched/scheduler.rs, scheduler/selection.rs, task/balance.rs    *)
(* and the Ready and timeout lists of task/task_registry.rs.               *)
(*                                                                         *)
(* CPU 0 is the boot processor: it alone wakes expired waits, and while it *)
(* idles its periodic timer is replaced by a one-shot armed for the        *)
(* earliest deadline.  Another CPU that enrolls an earlier deadline or     *)
(* makes a task Ready for a halted CPU must ring it (a reschedule IPI).    *)
(* Every handler runs under the Runtime admission and is one action.       *)
(*                                                                         *)
(* Tasks keep one rank (the roles Interactive and Batch, no donation); the *)
(* audio reservation and CPU draining are left out.                        *)
(***************************************************************************)
EXTENDS Naturals, FiniteSets, SequencesExt

CONSTANTS
    Task,
    Cpu,        \* processor indices, 0 is the boot processor
    Idle,       \* stands for a CPU's permanent idle continuation
    Rank,       \* dispatch_rank of each task: 2 interactive, 3 batch
    Movable,    \* smp_eligible and not bound to a CPU
    RankPicks,  \* rank picks that owe one FIFO pick (7 in the code)
    Batch,      \* expired waits woken in one pass (64 in the code)
    MaxTicks,   \* bound: the longest timeout
    Watched     \* the task whose waiting BoundedBypass counts

ASSUME DispatchAssumption ==
    /\ IsFiniteSet(Task) /\ Movable \subseteq Task /\ Watched \in Task
    /\ Cpu \subseteq Nat /\ 0 \in Cpu /\ Idle \notin Task
    /\ Rank \in [Task -> {2, 3}]
    /\ {RankPicks, Batch, MaxTicks} \subseteq Nat \ {0}

VARIABLES
    sch,    \* what the Runtime admission protects, see Start
    place,  \* where each idle continuation stands: loop, wait or halt
    armed   \* ticks until the halted boot processor's one-shot fires

vars == <<sch, place, armed>>

Never == MaxTicks + 1

\* line holds the Ready tasks by ready_order, which a migration keeps; a CPU's
\* queue is the part of it whose home is that CPU.  left is the time to the
\* deadline of a task in timeouts; passed counts the non-urgent picks of its CPU
\* that went to another task since Watched became Ready there.
Start ==
    [current |-> [c \in Cpu |-> Idle], home |-> [t \in Task |-> 0],
     line |-> <<>>, fair |-> [c \in Cpu |-> 0], passed |-> 0,
     pending |-> [c \in Cpu |-> FALSE], ipi |-> [c \in Cpu |-> FALSE],
     timeouts |-> <<>>, left |-> [t \in Task |-> 0]]

Init ==
    /\ sch = Start
    /\ place = [c \in Cpu |-> "loop"]
    /\ armed = Never

-----------------------------------------------------------------------------
(* Queries of the Ready and timeout lists.                                 *)

queue(w, c) == SelectSeq(w.line, LAMBDA t : w.home[t] = c)

Running(w) == {w.current[c] : c \in Cpu} \ {Idle}

Blocked(w) == Task \ (ToSet(w.line) \cup Running(w))

RankOf(t) == IF t = Idle THEN 3 ELSE Rank[t]

urgent(w, c, running) ==
    \E t \in ToSet(queue(w, c)) : Rank[t] < RankOf(running)

workload(w, c) ==
    Len(queue(w, c)) + IF w.current[c] = Idle THEN 0 ELSE 1

Due(w) == w.timeouts # <<>> /\ w.left[Head(w.timeouts)] = 0

\* The earliest deadline, as query 8 reports it.
Earliest(w) == IF w.timeouts = <<>> THEN Never ELSE w.left[Head(w.timeouts)]

-----------------------------------------------------------------------------
(* Publishing Ready work.  `me' is the CPU that executes the handler.      *)

\* mutant: an idle destination counts as running a batch task
notifyRankOnly(w, me, target, rank) ==
    IF rank < RankOf(w.current[target])
    THEN [w EXCEPT !.pending[target] = TRUE,
                   !.ipi[target] = @ \/ target # me]
    ELSE w

notify_destination(w, me, target, rank) ==
    IF w.current[target] = Idle \/ rank < RankOf(w.current[target])
    THEN [w EXCEPT !.pending[target] = TRUE,
                   !.ipi[target] = @ \/ target # me]
    ELSE w

\* The candidates are scanned from a rotating cursor and the cooldown may
\* refuse any of them, so every choice is possible, and so is none.
movable(w, source, target) ==
    IF workload(w, source) > workload(w, target) + 1
    THEN ToSet(queue(w, source)) \cap Movable
    ELSE {}

pull(w, me, t, target) ==
    notify_destination([w EXCEPT !.home[t] = target,
                                 !.passed = IF t = Watched THEN 0 ELSE @],
                       me, target, Rank[t])

\* refill_ready: an empty CPU takes one task of a CPU that has two more.
refill_ready(w, me) ==
    {w} \cup (IF queue(w, me) # <<>> THEN {}
              ELSE {pull(w, me, t, me) :
                      t \in UNION {movable(w, c, me) : c \in Cpu \ {me}}})

\* balance_checkpoint: the same from the timer of a productive CPU.
balance_checkpoint(w, me) ==
    {w} \cup {pull(w, me, t, me) :
                t \in UNION {movable(w, c, me) : c \in Cpu \ {me}}}

\* balance_wake moves one task of the CPU that t was queued on, or rings the
\* idle target it chose when nothing could move yet.
balance_wake(w, me, source) ==
    LET Moves(target) == movable(w, source, target)
        Busy == \A c \in Cpu \ {source} : w.current[c] # Idle
        targets == IF workload(w, source) <= 2 /\ Busy THEN {}
                   ELSE {c \in Cpu \ {source} : Moves(c) # {}}
    IN  {[w |-> w, moved |-> Idle]} \cup
        {[w |-> [w EXCEPT !.ipi[c] = @ \/ c # me], moved |-> Idle] :
            c \in {c \in targets : w.current[c] = Idle}} \cup
        UNION {{[w |-> pull(w, me, t, c), moved |-> t] : t \in Moves(c)} :
                 c \in targets}

notify_ready(w, me, t) ==
    LET source == w.home[t]
        Notified(b) == IF b.moved = t /\ queue(b.w, source) = <<>> THEN b.w
                       ELSE notify_destination(b.w, me, source, Rank[t])
    IN  {Notified(b) : b \in balance_wake(w, me, source)}

\* link_ready: a new ready_order, hence the end of the line.
link_ready(w, t) ==
    [w EXCEPT !.line = Append(@, t),
              !.passed = IF t = Watched THEN 0 ELSE @]

\* wake_task: mark_ready with the wake home selection, then notify_ready.
wake_task(w, me, t) ==
    LET awake == [link_ready(w, t) EXCEPT !.timeouts = Remove(@, t),
                                          !.left[t] = 0]
        homes == IF t \in Movable THEN Cpu ELSE {w.home[t]}
    IN  UNION {notify_ready([awake EXCEPT !.home[t] = c], me, t) : c \in homes}

RECURSIVE wakeUpTo(_, _, _)
wakeUpTo(w, me, n) ==
    IF n = 0 \/ ~Due(w) THEN {w}
    ELSE UNION {wakeUpTo(v, me, n - 1) : v \in wake_task(w, me, Head(w.timeouts))}

wake_expired(w, me) == IF me = 0 THEN wakeUpTo(w, me, Batch) ELSE {w}

-----------------------------------------------------------------------------
(* Choosing and switching.                                                 *)

rankHead(q) == CHOOSE t \in ToSet(q) :
    \A u \in ToSet(q) : \/ Rank[t] < Rank[u]
                        \/ Rank[t] = Rank[u] /\ IndexFirstSubSeq(<<t>>, q)
                                                  <= IndexFirstSubSeq(<<u>>, q)

\* mutant: a rank pick is not counted
chooseUncounted(fair, force, q) ==
    LET fifo == ~force /\ fair = RankPicks
    IN  [task |-> IF q = <<>> THEN Idle
                  ELSE IF fifo THEN Head(q) ELSE rankHead(q),
         fair |-> IF force \/ q = <<>> THEN fair ELSE IF fifo THEN 0 ELSE fair]

choose(fair, force, q) ==
    LET fifo == ~force /\ fair = RankPicks
    IN  [task |-> IF q = <<>> THEN Idle
                  ELSE IF fifo THEN Head(q) ELSE rankHead(q),
         fair |-> IF force \/ q = <<>> THEN fair
                  ELSE IF fifo THEN 0 ELSE fair + 1]

\* The pick and its fairness; counted when it passes over Watched.
next_ready(w, me, force) ==
    LET Pick(v) ==
          LET p == choose(v.fair[me], force, queue(v, me))
              past == /\ ~force /\ p.task \notin {Idle, Watched}
                      /\ Watched \in ToSet(queue(v, me))
          IN  [task |-> p.task,
               w |-> [v EXCEPT !.fair[me] = p.fair,
                               !.passed = IF past THEN @ + 1 ELSE @]]
    IN  {Pick(v) : v \in refill_ready(w, me)}

\* mark_ready of the outgoing task if it still runs, mark_running of the
\* incoming one, refresh_pending.
dispatch(w, me, next) ==
    LET old == w.current[me]
        queued == IF old = Idle THEN w ELSE link_ready(w, old)
        running == [queued EXCEPT !.line = Remove(@, next),
                                  !.current[me] = next, !.home[next] = me,
                                  !.passed = IF next = Watched THEN 0 ELSE @]
    IN  [running EXCEPT !.pending[me] = @ /\ urgent(running, me, next)]

\* Every result of giving up the CPU; old is the outgoing task, whose rank
\* decides the urgency even when it has just blocked.
Resched(w, me, old) ==
    LET Result(p) == IF p.task = Idle THEN [p.w EXCEPT !.pending[me] = FALSE]
                     ELSE dispatch(p.w, me, p.task)
    IN  {Result(p) : p \in next_ready(w, me, w.pending[me] /\ urgent(w, me, old))}

-----------------------------------------------------------------------------
(* Actions                                                                 *)

\* An interrupt ends the halt of c; the boot processor's one-shot is disarmed
\* and its periodic timer resumed (leave_idle).
Woken(c) ==
    /\ place' = [place EXCEPT ![c] = IF @ = "halt" THEN "loop" ELSE @]
    /\ armed' = IF c = 0 THEN Never ELSE armed

yield_task(c) ==
    /\ sch.current[c] = Idle => place[c] = "loop"
    /\ sch' \in Resched(sch, c, sch.current[c])
    /\ place' = [place EXCEPT ![c] = IF sch.current[c] = Idle THEN "wait" ELSE @]
    /\ UNCHANGED armed

\* block_current_owned: ticks = 0 waits for ever.
enroll(w, t, ticks) ==
    LET after == SelectInSeq(w.timeouts, LAMBDA u : w.left[u] > ticks)
        at == IF after = 0 THEN Len(w.timeouts) + 1 ELSE after
    IN  IF ticks = 0 THEN w
        ELSE [w EXCEPT !.timeouts = InsertAt(@, at, t), !.left[t] = ticks]

block_current(c, ticks) ==
    LET t == sch.current[c]
        gone == [enroll(sch, t, ticks) EXCEPT
                   !.current[c] = Idle,
                   !.ipi[0] = @ \/ (c # 0 /\ ticks # 0 /\ ticks < Earliest(sch))]
    IN  /\ t # Idle
        /\ sch' \in Resched(gone, c, t)
        /\ UNCHANGED <<place, armed>>

\* A task, or a device interrupt that also ends a halt, wakes a waiter.
Wake(c, t) ==
    /\ t \in Blocked(sch)
    /\ sch' \in wake_task(sch, c, t)
    /\ Woken(c)

\* enter_idle: the backend may program an earlier checkpoint than asked for.
Programmed(deadline) == IF deadline = Never THEN {Never} ELSE 1 .. deadline

wait_until_deadline(c) ==
    /\ sch.current[c] = Idle /\ place[c] = "wait"
    /\ \E w \in UNION {refill_ready(v, c) : v \in wake_expired(sch, c)} :
         /\ sch' = w
         /\ IF (c = 0 /\ Due(w)) \/ queue(w, c) # <<>>
            THEN place' = [place EXCEPT ![c] = "loop"] /\ UNCHANGED armed
            ELSE /\ place' = [place EXCEPT ![c] = "halt"]
                 /\ armed' \in IF c = 0 THEN Programmed(Earliest(w)) ELSE {armed}

\* preempt_from_irq, or the deferral when the interrupted code may not be
\* preempted.
Interrupted(w, c, preempt) ==
    IF preempt THEN Resched(w, c, w.current[c]) ELSE {w}

\* reschedule: the IPI is consumed whatever is decided.
on_reschedule(c) ==
    /\ sch.ipi[c]
    /\ LET taken == [sch EXCEPT !.ipi[c] = FALSE]
           refilled == IF sch.current[c] = Idle THEN refill_ready(taken, c)
                       ELSE {taken}
       IN  \E w \in refilled :
             IF ~w.pending[c] THEN sch' = w
             ELSE IF ~urgent(w, c, w.current[c])
             THEN sch' = [w EXCEPT !.pending[c] = FALSE]
             ELSE \E preemptible \in BOOLEAN :
                    sch' \in Interrupted(w, c, preemptible)
    /\ Woken(c)

\* timer_preemption: the quantum may or may not be used up.
timer_preemption(w, c) ==
    LET priority == w.pending[c] /\ urgent(w, c, w.current[c])
        asked == [w EXCEPT !.pending[c] = priority]
    IN  IF queue(w, c) = <<>> THEN {[w EXCEPT !.pending[c] = FALSE]}
        ELSE UNION {Interrupted(asked, c, preempt) : preempt \in BOOLEAN}

\* on_tick: periodic on a CPU that does not halt; a halted boot processor only
\* takes the interrupt it armed, another halted CPU its bounded retry.
on_tick(c) ==
    /\ (c = 0 /\ place[0] = "halt") => armed = 0
    /\ \E v \in wake_expired(sch, c) :
       \E w \in (IF v.current[c] = Idle THEN refill_ready(v, c)
                 ELSE balance_checkpoint(v, c)) :
          sch' \in timer_preemption(w, c)
    /\ Woken(c)

\* safe_reschedule up to its yield_task, which follows as an action of its own.
safe_reschedule(c) ==
    /\ sch.current[c] # Idle
    /\ sch' = [sch EXCEPT !.pending[c] = @ /\ urgent(sch, c, sch.current[c])]
    /\ UNCHANGED <<place, armed>>

\* One tick of time.
Elapse ==
    /\ sch' = [sch EXCEPT !.left = [t \in Task |-> IF @[t] = 0 THEN 0 ELSE @[t] - 1]]
    /\ armed' = IF armed \in {0, Never} THEN armed ELSE armed - 1
    /\ UNCHANGED place

Next ==
    \/ Elapse
    \/ \E c \in Cpu :
         \/ yield_task(c) \/ wait_until_deadline(c)
         \/ on_reschedule(c) \/ on_tick(c) \/ safe_reschedule(c)
         \/ \E ticks \in 0 .. MaxTicks : block_current(c, ticks)
         \/ \E t \in Task : Wake(c, t)

Spec == Init /\ [][Next]_vars

-----------------------------------------------------------------------------
(* Properties                                                              *)

\* Fairness::choose and append_ready: while a task waits in Ready, the
\* non-urgent picks of its CPU that go to others are bounded.  Each RankPicks
\* of them owe one to the oldest task of the queue, and only a task that became
\* Ready earlier can be that one, a migrated one included.
BoundedBypass ==
    LET older == SelectInSeq(sch.line, LAMBDA t : t = Watched) - 1
    IN  Watched \in ToSet(sch.line) =>
          sch.passed <= (Cardinality(Task) - 1 - older) * (RankPicks + 1) + RankPicks

\* wait_until_deadline, notify_destination and block_current_owned: a CPU
\* that halts with Ready work in its queue has been rung, and the boot processor
\* is woken no later than the earliest deadline even if another CPU enrolled it
\* after the one-shot was armed.
NoSleepOverWork ==
    \A c \in Cpu : sch.current[c] = Idle /\ place[c] = "halt" /\ ~sch.ipi[c] =>
        /\ queue(sch, c) = <<>>
        /\ c = 0 => armed <= Earliest(sch)
=============================================================================
