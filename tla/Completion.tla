----------------------------- MODULE Completion -----------------------------
(***************************************************************************)
(* The completion object of src/Rust/sched/sync_objects.rs: a saturating   *)
(* count of completions nobody waited for, and a wait queue.  Unlike an    *)
(* event it can be reset and closed, and a complete on a closed one is     *)
(* dropped.                                                                *)
(***************************************************************************)
EXTENDS TaskWait

CONSTANT MaxCompleted   \* u32::MAX of the counter

VARIABLES completed, pc

completionVars == <<completed, pc>>
vars == <<waitVars, completionVars>>

cq == CHOOSE q \in Queue : TRUE

TypeOK ==
    /\ WaitTypeOK
    /\ completed \in 0..MaxCompleted
    /\ pc \in [Task -> {"idle", "wait"}]

Init ==
    /\ WaitInit
    /\ completed = 0
    /\ pc = [t \in Task |-> "idle"]

SaturatingInc(n) == IF n < MaxCompleted THEN n + 1 ELSE n

Calls(t) == state[t] = "Running" /\ pc[t] = "idle"

-----------------------------------------------------------------------------
\* Operation 4, completion_needed with a completion at hand.
Take(t) ==
    /\ Calls(t)
    /\ ~closing[cq]
    /\ completed > 0
    /\ completed' = completed - 1
    /\ UNCHANGED <<waitVars, pc>>

Wait(t, bounded, r) ==
    /\ Calls(t)
    /\ ~closing[cq]
    /\ completed = 0
    /\ Block(t, cq, bounded, r)
    /\ pc' = [pc EXCEPT ![t] = "wait"]
    /\ UNCHANGED <<closing, generation, completed>>

Return(t) ==
    /\ state[t] = "Running"
    /\ pc[t] = "wait"
    /\ pc' = [pc EXCEPT ![t] = "idle"]
    /\ UNCHANGED <<waitVars, completed>>

\* Mutant: complete_one counts up although it released a waiter.
CompleteOneTwice ==
    /\ ~closing[cq]
    /\ WakeAll({t \in Task : IsFirstRanked(t, cq)}, "Signaled")
    /\ completed' = SaturatingInc(completed)
    /\ UNCHANGED <<closing, generation, pc>>

\* Operation 0: one waiter, or the counter.
CompleteOne ==
    /\ ~closing[cq]
    /\ WakeAll({t \in Task : IsFirstRanked(t, cq)}, "Signaled")
    /\ completed' = IF Linked(cq) = {} THEN SaturatingInc(completed) ELSE completed
    /\ UNCHANGED <<closing, generation, pc>>

\* Operation 1: every waiter, or the counter.
CompleteAll ==
    /\ ~closing[cq]
    /\ WakeAll(Linked(cq), "Signaled")
    /\ completed' = IF Linked(cq) = {} THEN SaturatingInc(completed) ELSE completed
    /\ UNCHANGED <<closing, generation, pc>>

\* Operation 2.
ResetCompletion ==
    /\ completed' = 0
    /\ WakeAll(Linked(cq), "Cancelled")
    /\ UNCHANGED <<closing, generation, pc>>

\* Mutant: close keeps the completions that were already posted.
CloseKeepingCount ==
    /\ Close(cq)
    /\ UNCHANGED <<pc, completed>>

\* Operation 3.
CloseCompletion ==
    /\ completed' = 0
    /\ Close(cq)
    /\ UNCHANGED pc

Mute == UNCHANGED completionVars

Kill(t) ==
    /\ state[t] \in {"Ready", "Blocked"}
    /\ Bury(t)
    /\ UNCHANGED <<closing, generation>> /\ Mute

Exit(t) ==
    /\ Calls(t)
    /\ Bury(t)
    /\ UNCHANGED <<closing, generation>> /\ Mute

Next ==
    \/ \E t \in Task : Take(t) \/ Return(t)
    \/ \E t \in Task, b \in BOOLEAN, r \in Ranks : Wait(t, b, r)
    \/ CompleteOne
    \/ CompleteAll
    \/ ResetCompletion
    \/ CloseCompletion
    \/ \E t \in Task : Dispatch(t) /\ Mute
    \/ \E t \in Task : Preempt(t) /\ Mute
    \/ \E t \in Task : Expire(t) /\ Mute
    \/ \E t \in Task : CancelExact(t) /\ Mute
    \/ \E t \in Task, r \in Ranks : SetRank(t, r) /\ Mute
    \/ \E t \in Task : Kill(t) \/ Exit(t)
    \/ Reopen(cq) /\ Mute

Spec == Init /\ [][Next]_vars

-----------------------------------------------------------------------------
\* A posted completion is never behind a queued waiter, and a closed
\* completion holds neither: whoever comes after the close gets Cancelled, and
\* a reopened object starts from nothing.
NothingHeldBack ==
    /\ completed > 0 => Linked(cq) = {}
    /\ closing[cq] => completed = 0 /\ Linked(cq) = {}

\* One complete has one use: a step that releases a waiter with Signaled does
\* not also leave a completion behind for the next one, and it never releases a
\* waiter while an older completion is still unclaimed.
OneUse ==
    [][\A t \in Linked(cq) :
         result'[t] = "Signaled" => completed = 0 /\ completed' = 0]_vars
=============================================================================
