---------------------------- MODULE TaskLifecycle ----------------------------
(***************************************************************************)
(* How a task dies and its memory goes: pins, kill, retirement, release and *)
(* the reap list (src/Rust/sched/task/task_lifecycle.rs), with the part of  *)
(* the registry that binds a task to its CPU (task_registry.rs).            *)
(*                                                                          *)
(* Task is the set of tasks that may die.  Context is the set of kernel     *)
(* contexts that act on them: each runs on a task of its own, which its     *)
(* unwind token keeps alive.  A release takes several critical sections,    *)
(* with the heap called in between; everything inside one section is one    *)
(* action.                                                                  *)
(*                                                                          *)
(* want is the program reaper's view of a task: a retirement that reported  *)
(* Pending is tried again after a while, or, when observe_retirement saw a   *)
(* blocker that is bound to change, only after retire_progress::changed().  *)
(***************************************************************************)
EXTENDS Naturals, Sequences, FiniteSets, Functions

CONSTANTS Task, Context, NoTask,
          Critical,    \* tasks that occupy a critical reserve slot
          MaxPins,     \* bound on the pins one context holds at a time
          MaxFails     \* bound on how often the heap refuses a free

ASSUME LifecycleAssumption ==
    /\ Critical \subseteq Task /\ NoTask \notin Task
    /\ IsFiniteSet(Context) /\ MaxPins \in Nat /\ MaxFails \in Nat

VARIABLES state,
          onCpu,      \* running_cpu is not 0xff
          physical,   \* some CPU executes on the stack of the task
          held,       \* held_lock_count and unwind_guard_count together
          pins, retire, rip, notice,   \* pin_count, retire_pending, release_in_progress, retire_notice
          inReg,      \* the task is linked in the registry
          reap,       \* the reap list
          memory,     \* "whole", "bare" (stack and FPU area gone) or "freed"
          want,
          job,        \* the release or reap pass a context is in
          holds,      \* the pins of a context
          failed

life == <<state, onCpu, physical, held>>
claims == <<rip, reap, job>>
vars == <<life, pins, retire, notice, inReg, memory, want, holds, claims, failed>>

Idle == [at |-> "idle", task |-> NoTask, why |-> "none", notice |-> FALSE, left |-> 0]

Init ==
    /\ state = [t \in Task |-> "Ready"]
    /\ onCpu = [t \in Task |-> FALSE]
    /\ physical = [t \in Task |-> FALSE]
    /\ held = [t \in Task |-> 0]
    /\ pins = [t \in Task |-> 0]
    /\ retire = [t \in Task |-> FALSE]
    /\ rip = [t \in Task |-> FALSE]
    /\ notice = [t \in Task |-> FALSE]
    /\ inReg = [t \in Task |-> TRUE]
    /\ reap = <<>>
    /\ memory = [t \in Task |-> "whole"]
    /\ want = [t \in Task |-> "no"]
    /\ job = [c \in Context |-> Idle]
    /\ holds = [c \in Context |-> {}]
    /\ failed = 0

-----------------------------------------------------------------------------
(* The retirement notice. *)

\* retire_progress::changed(): every reaper that waits for progress tries again.
Rung(ring, w) == [t \in Task |-> IF ring /\ w[t] = "parked" THEN "due" ELSE w[t]]

notify_retire_waiter(t) ==
    /\ notice' = [notice EXCEPT ![t] = FALSE]
    /\ want' = Rung(notice[t], want)

-----------------------------------------------------------------------------
(* The life of a task until it is dead.  A switch is one action: the        *)
(* admission is released only when the outgoing stack is saved.             *)

Aside == UNCHANGED <<pins, inReg, memory, holds, rip, job, failed>>

Dispatch(t) ==
    /\ state[t] = "Ready" /\ ~onCpu[t]
    /\ state' = [state EXCEPT ![t] = "Running"]
    /\ onCpu' = [onCpu EXCEPT ![t] = TRUE]
    /\ physical' = [physical EXCEPT ![t] = TRUE]
    /\ UNCHANGED <<held, retire, notice, want, reap>> /\ Aside

\* Only the outgoing task of a switch is marked so: it leaves its CPU.
mark_ready(t) ==
    /\ state' = [state EXCEPT ![t] = "Ready"]
    /\ onCpu' = [onCpu EXCEPT ![t] = FALSE]
    /\ notify_retire_waiter(t)

Preempt(t) ==
    /\ state[t] = "Running"
    /\ mark_ready(t)
    /\ physical' = [physical EXCEPT ![t] = FALSE]
    /\ UNCHANGED <<held, retire, reap>> /\ Aside

\* Mutant: a woken task is marked as if it had left its CPU.
finishAsReady(t) == mark_ready(t)

\* A task that is still current stays bound to its CPU and is not linked as
\* Ready; nobody is rung.
finish_wait(t) ==
    /\ state' = [state EXCEPT ![t] = "Ready"]
    /\ UNCHANGED <<onCpu, notice, want>>

Wake(t) ==
    /\ state[t] = "Blocked"
    /\ finish_wait(t)
    /\ UNCHANGED <<physical, held, retire, reap>> /\ Aside

\* Locks and unwind tokens are taken and dropped by the running task only.
Enter(t) ==
    /\ state[t] = "Running" /\ held[t] = 0
    /\ held' = [held EXCEPT ![t] = 1]
    /\ UNCHANGED <<state, onCpu, physical, retire, notice, want, reap>> /\ Aside

Leave(t) ==
    /\ state[t] = "Running" /\ held[t] = 1
    /\ held' = [held EXCEPT ![t] = 0]
    /\ UNCHANGED <<state, onCpu, physical, retire, notice, want, reap>> /\ Aside

\* Mutant: the notice is left standing when the task leaves its CPU.
switchedOutSilently(t) ==
    /\ onCpu' = [onCpu EXCEPT ![t] = FALSE]
    /\ physical' = [physical EXCEPT ![t] = FALSE]
    /\ UNCHANGED <<notice, want>>

switched_out(t) ==
    /\ onCpu' = [onCpu EXCEPT ![t] = FALSE]
    /\ physical' = [physical EXCEPT ![t] = FALSE]
    /\ notify_retire_waiter(t)

\* A wait on a queue: enrollment and switch share one admission.
Wait(t) ==
    /\ state[t] = "Running"
    /\ state' = [state EXCEPT ![t] = "Blocked"]
    /\ switched_out(t)
    /\ UNCHANGED <<held, retire, reap>> /\ Aside

\* sleep(): block_current in one admission, park_blocked in the next.  A wait
\* on a queue comes here too when yield_owned finds no task to switch to.
Sleep(t) ==
    /\ state[t] = "Running"
    /\ state' = [state EXCEPT ![t] = "Blocked"]
    /\ UNCHANGED <<onCpu, physical, held, retire, notice, want, reap>> /\ Aside

\* park_blocked_owned of a task that was woken in between.
ResumeInPlace(t) ==
    /\ state[t] = "Ready" /\ onCpu[t]
    /\ state' = [state EXCEPT ![t] = "Running"]
    /\ UNCHANGED <<onCpu, physical, held, retire, notice, want, reap>> /\ Aside

\* park_blocked_owned of a blocked task, and the yield of a dead one.
SwitchOut(t) ==
    /\ state[t] \in {"Blocked", "Dead"} /\ physical[t]
    /\ switched_out(t)
    /\ UNCHANGED <<state, held, retire, reap>> /\ Aside

-----------------------------------------------------------------------------
(* Death. *)

\* link_reap of a task with retire_pending: to the end of the list, once.
Linked(t) == IF t \in Range(reap) \/ rip[t] THEN reap ELSE Append(reap, t)

unlink_reap(s, t) ==
    LET i == CHOOSE k \in 1 .. Len(s) : s[k] = t IN
    IF t \in Range(s) THEN SubSeq(s, 1, i - 1) \o SubSeq(s, i + 1, Len(s)) ELSE s

\* transition_dead: the executing CPU stays bound until switched_out.
Die(t, r) ==
    /\ state' = [state EXCEPT ![t] = "Dead"]
    /\ retire' = [retire EXCEPT ![t] = @ \/ r]
    /\ notify_retire_waiter(t)
    /\ UNCHANGED <<onCpu, physical, held>>

\* finish_current, called by exit_current, which yields afterwards.
Exit(t, r) ==
    /\ state[t] = "Running" /\ held[t] = 0
    /\ Die(t, r)
    /\ reap' = IF r THEN Linked(t) ELSE reap
    /\ Aside

\* kill(): not a running, current, critical, locking or unwinding task.
kill(t) ==
    /\ inReg[t] /\ state[t] \in {"Ready", "Blocked"} /\ ~onCpu[t]
    /\ t \notin Critical /\ held[t] = 0
    /\ Die(t, FALSE)
    /\ UNCHANGED reap /\ Aside

-----------------------------------------------------------------------------
(* Claims: whoever sets release_in_progress releases the task. *)

eligible(t) == retire[t] /\ state[t] = "Dead" /\ ~onCpu[t] /\ pins[t] = 0 /\ held[t] = 0

Free(c) == job[c].at = "idle"
Release(c, t, why) ==
    [job EXCEPT ![c] = [@ EXCEPT !.at = "resources", !.task = t, !.why = why]]

\* claim(), after the caller's own changes; list is the reap list by then, and
\* other what becomes of it when there is no claim.
claim(c, t, why, list, other) ==
    IF ~rip[t] /\ eligible(t)'
    THEN /\ rip' = [rip EXCEPT ![t] = TRUE]
         /\ reap' = unlink_reap(list, t)
         /\ job' = Release(c, t, why)
    ELSE /\ reap' = other
         /\ UNCHANGED <<rip, job>>

-----------------------------------------------------------------------------
(* Pins. *)

pin(c, t) ==
    /\ Free(c) /\ t \notin holds[c] /\ Cardinality(holds[c]) < MaxPins
    /\ inReg[t] /\ ~rip[t]
    /\ pins' = [pins EXCEPT ![t] = @ + 1]
    /\ holds' = [holds EXCEPT ![c] = @ \cup {t}]
    /\ UNCHANGED <<life, retire, notice, inReg, memory, want, claims, failed>>

unpin(c, t) ==
    /\ Free(c) /\ t \in holds[c]
    /\ pins' = [pins EXCEPT ![t] = @ - 1]
    /\ holds' = [holds EXCEPT ![c] = @ \ {t}]
    /\ IF pins[t] = 1 THEN notify_retire_waiter(t) ELSE UNCHANGED <<notice, want>>
    /\ UNCHANGED <<life, retire>>
    /\ claim(c, t, "other", reap, reap)
    /\ UNCHANGED <<inReg, memory, failed>>

\* retire_diagnostic_pin: the last pin is traded for the claim.
retire_diagnostic_pin(c, t) ==
    /\ Free(c) /\ t \in holds[c]
    /\ pins[t] = 1 /\ state[t] = "Dead" /\ ~onCpu[t] /\ held[t] = 0 /\ ~rip[t]
    /\ retire' = [retire EXCEPT ![t] = TRUE]
    /\ pins' = [pins EXCEPT ![t] = 0]
    /\ holds' = [holds EXCEPT ![c] = @ \ {t}]
    /\ UNCHANGED life
    /\ claim(c, t, "other", Linked(t), Linked(t))
    /\ UNCHANGED <<notice, inReg, memory, want, failed>>

-----------------------------------------------------------------------------
(* Retirement. *)

\* A program that ends wants the tasks of its threads released.
Ask(t) ==
    /\ want[t] = "no"
    /\ want' = [want EXCEPT ![t] = "due"]
    /\ UNCHANGED <<life, pins, retire, notice, inReg, memory, holds, claims, failed>>

\* retire(): a task that may die is killed first.  The call is over, with
\* Pending, unless it gets the claim.
Refused(t) == onCpu[t] \/ (state[t] # "Dead" /\ (t \in Critical \/ held[t] # 0))

retire_task(c, t) ==
    /\ Free(c) /\ want[t] = "due"
    /\ \/ /\ ~inReg[t]
          /\ want' = [want EXCEPT ![t] = "done"]
          /\ UNCHANGED <<life, retire, notice, claims>>
       \/ /\ inReg[t] /\ Refused(t)
          /\ want' = [want EXCEPT ![t] = "pending"]
          /\ UNCHANGED <<life, retire, notice, claims>>
       \/ /\ inReg[t] /\ ~Refused(t)
          /\ state' = [state EXCEPT ![t] = "Dead"]
          /\ retire' = [retire EXCEPT ![t] = TRUE]
          /\ UNCHANGED <<onCpu, physical, held, pins>>
          /\ claim(c, t, "retire", Linked(t), Linked(t))
          /\ notice' = [notice EXCEPT ![t] = @ /\ state[t] = "Dead"]
          /\ want' = [Rung(notice[t] /\ state[t] # "Dead", want)
                         EXCEPT ![t] = IF rip'[t] /\ ~rip[t] THEN "called" ELSE "pending"]
    /\ UNCHANGED <<pins, inReg, memory, holds, failed>>

changing(t) == onCpu[t] \/ pins[t] # 0 \/ rip[t] \/ (state[t] # "Dead" /\ held[t] # 0)

\* observe_retirement after Pending: wait for the notice, or try again.
observe_retirement(t) ==
    /\ want[t] = "pending"
    /\ LET sure == inReg[t] /\ t \notin Critical /\ changing(t) IN
       /\ notice' = [notice EXCEPT ![t] = @ \/ sure]
       /\ want' = [want EXCEPT ![t] = IF sure THEN "parked" ELSE "due"]
    /\ UNCHANGED <<life, pins, retire, inReg, memory, holds, claims, failed>>

release_dead(c, t) ==
    /\ Free(c) /\ inReg[t] /\ state[t] = "Dead"
    /\ retire' = [retire EXCEPT ![t] = TRUE]
    /\ UNCHANGED <<life, pins>>
    /\ claim(c, t, "other", Linked(t), Linked(t))
    /\ UNCHANGED <<notice, inReg, memory, want, holds, failed>>

-----------------------------------------------------------------------------
(* reap(): one turn per task that was listed when the pass began; a head    *)
(* that cannot be claimed goes to the end.  A pass over no task does        *)
(* nothing.                                                                 *)

reap_pass(c) ==
    /\ Free(c) /\ reap # <<>>
    /\ job' = [job EXCEPT ![c].at = "reap", ![c].left = Len(reap)]
    /\ UNCHANGED <<life, pins, retire, notice, inReg, memory, want, holds, rip, reap, failed>>

\* Mutant: a head that cannot be claimed keeps its place.
rotateNot(s) == s

rotate_reap(s) == IF s = <<>> THEN s ELSE Append(Tail(s), Head(s))

reap_turn(c) ==
    /\ job[c].at = "reap" /\ job[c].left # 0
    /\ LET t == Head(reap)
           turn == [job EXCEPT ![c].left = @ - 1] IN
       IF reap # <<>> /\ ~rip[t] /\ eligible(t)
       THEN /\ rip' = [rip EXCEPT ![t] = TRUE]
            /\ reap' = Tail(reap)
            /\ job' = [turn EXCEPT ![c].at = "resources", ![c].task = t, ![c].why = "reap"]
       ELSE /\ reap' = rotate_reap(reap)
            /\ job' = turn
            /\ UNCHANGED rip
    /\ UNCHANGED <<life, pins, retire, notice, inReg, memory, want, holds, failed>>

reap_end(c) ==
    /\ job[c].at = "reap" /\ job[c].left = 0
    /\ job' = [job EXCEPT ![c] = Idle]
    /\ UNCHANGED <<life, pins, retire, notice, inReg, memory, want, holds, rip, reap, failed>>

-----------------------------------------------------------------------------
(* complete_admitted: release the stack, unlink, free the descriptor. *)

\* The release is over, with success or not; w is want by then.
Over(c, done, w) ==
    LET j == job[c] IN
    /\ job' = [job EXCEPT ![c] =
                 IF j.why = "reap" THEN [Idle EXCEPT !.at = "reap", !.left = j.left] ELSE Idle]
    /\ want' = IF j.why # "retire" THEN w
               ELSE [w EXCEPT ![j.task] = IF done THEN "done" ELSE "pending"]

\* clear_claim and its likes: the task is up for the next attempt.
retry(c, ring) ==
    LET t == job[c].task IN
    /\ rip' = [rip EXCEPT ![t] = FALSE]
    /\ retire' = [retire EXCEPT ![t] = TRUE]
    /\ reap' = Append(reap, t)
    /\ Over(c, FALSE, Rung(ring, want))

\* release_resources; a critical reserve keeps its stack, and what is gone
\* already cannot fail again.
release_resources(c) ==
    LET t == job[c].task
        whole == memory[t] = "whole" /\ t \notin Critical IN
    /\ job[c].at = "resources"
    /\ \/ /\ job' = [job EXCEPT ![c].at = "anchor"]
          /\ memory' = [memory EXCEPT ![t] = IF whole THEN "bare" ELSE @]
          /\ UNCHANGED <<retire, notice, want, rip, reap, failed>>
       \/ /\ whole /\ failed < MaxFails
          /\ failed' = failed + 1
          /\ notice' = [notice EXCEPT ![t] = FALSE]
          /\ retry(c, notice[t])
          /\ UNCHANGED memory
    /\ UNCHANGED <<life, pins, inReg, holds>>

\* The claim is verified before the task leaves the registry; a critical
\* reserve is free with that.
anchor(c) ==
    LET t == job[c].task IN
    /\ job[c].at = "anchor"
    /\ notice' = [notice EXCEPT ![t] = FALSE]
    /\ IF ~(inReg[t] /\ rip[t] /\ eligible(t))
       THEN retry(c, notice[t]) /\ UNCHANGED <<inReg, memory>>
       ELSE /\ inReg' = [inReg EXCEPT ![t] = FALSE]
            /\ IF t \in Critical
               THEN /\ memory' = [memory EXCEPT ![t] = "freed"]
                    /\ Over(c, TRUE, Rung(notice[t], want))
               ELSE /\ job' = [job EXCEPT ![c].at = "free", ![c].notice = notice[t]]
                    /\ UNCHANGED <<memory, want>>
            /\ UNCHANGED <<retire, rip, reap>>
    /\ UNCHANGED <<life, pins, holds, failed>>

free_metadata(c) ==
    LET t == job[c].task IN
    /\ job[c].at = "free"
    /\ \/ /\ memory' = [memory EXCEPT ![t] = "freed"]
          /\ Over(c, TRUE, Rung(job[c].notice, want))
          /\ UNCHANGED <<retire, inReg, rip, reap, failed>>
       \/ /\ failed < MaxFails
          /\ failed' = failed + 1
          /\ inReg' = [inReg EXCEPT ![t] = TRUE]
          /\ retry(c, job[c].notice)
          /\ UNCHANGED memory
    /\ UNCHANGED <<life, pins, notice, holds>>

-----------------------------------------------------------------------------
Live(t) ==
    \/ Dispatch(t) \/ Preempt(t) \/ Wake(t) \/ Enter(t) \/ Leave(t)
    \/ Wait(t) \/ Sleep(t) \/ ResumeInPlace(t) \/ SwitchOut(t)
    \/ \E r \in BOOLEAN : Exit(t, r)

Call(c, t) ==
    \/ pin(c, t) \/ unpin(c, t) \/ retire_diagnostic_pin(c, t)
    \/ retire_task(c, t) \/ release_dead(c, t)

Work(c) ==
    reap_turn(c) \/ reap_end(c) \/ release_resources(c) \/ anchor(c) \/ free_metadata(c)

Next ==
    \/ \E t \in Task : Live(t) \/ Ask(t) \/ kill(t) \/ observe_retirement(t)
    \/ \E c \in Context, t \in Task : Call(c, t)
    \/ \E c \in Context : reap_pass(c) \/ Work(c)

Spec == Init /\ [][Next]_vars

\* A context finishes what it began, and every switch ends with a reap pass.
Fairness == \A c \in Context : WF_vars(Work(c) \/ reap_pass(c))

FairSpec == Spec /\ Fairness

-----------------------------------------------------------------------------
(* Properties. *)

\* Nobody's stack or descriptor is taken away: a stack stays until its CPU has
\* switched away from it, also when its task was woken between the enrollment
\* and the park of a sleep; pinned tasks stay registered, a task has one
\* releaser at most, and nothing that happens during a release makes the claim
\* untrue, so the retry in complete_admitted is never needed.
ReleaseExact ==
    /\ \A t \in Task :
          /\ physical[t] => memory[t] = "whole"
          /\ pins[t] = Cardinality({c \in Context : t \in holds[c]})
          /\ pins[t] # 0 => inReg[t] /\ memory[t] # "freed"
          /\ memory[t] = "freed" => ~inReg[t] /\ t \notin Range(reap)
    /\ \A c \in Context : LET t == job[c].task IN
          t # NoTask =>
             /\ rip[t] /\ eligible(t) /\ memory[t] # "freed"
             /\ \A d \in Context \ {c} : job[d].task # t

\* A reaper that waits without a deadline is sure to be rung: its notice stands
\* and so does a blocker whose end takes the notice, or the releaser already
\* has the notice in hand.
NoticeKept ==
    \A t \in Task : want[t] = "parked" =>
        \/ notice[t] /\ changing(t) /\ inReg[t]
        \/ \E c \in Context : job[c].task = t /\ job[c].notice

\* A task that nothing holds back is released, unless it is pinned once more: a
\* task that stays pinned or on its CPU for ever never blocks the reap list,
\* and a release that failed comes up again.
ReapedInTurn == \A t \in Task : eligible(t) ~> (memory[t] = "freed" \/ pins[t] # 0)
=============================================================================
