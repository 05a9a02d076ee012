------------------------------ MODULE Semaphore ------------------------------
(***************************************************************************)
(* The counting semaphore of src/Rust/sched/sync_objects.rs with its exact *)
(* permit handoff (sync_wait.rs handoff_permit).                           *)
(*                                                                         *)
(* release() gives a permit straight to the best-ranked waiter.  Until     *)
(* that task runs again the permit exists only as its                      *)
(* wait_handoff_guard_pending flag; the raised unwind_guard_count keeps    *)
(* kill() and retire() away from the task.  A plain wait then drops the    *)
(* unwind count in a second critical section; a guarded wait turns it into *)
(* a token that its caller returns later.                                  *)
(*                                                                         *)
(* issued and taken are history counters: permits ever put in and permits  *)
(* ever returned to callers.                                               *)
(***************************************************************************)
EXTENDS TaskWait

CONSTANTS Initial,     \* count at creation
          MaxCount,    \* max_count
          MaxUnwind,   \* u32::MAX of unwind_guard_count
          MaxIssued,   \* bound on the permits ever issued
          MaxRelease   \* largest release(n) of one call

ASSUME SemaphoreAssumption ==
    /\ Queue # {}
    /\ Initial \in Nat /\ MaxCount \in Nat /\ Initial <= MaxCount
    /\ MaxUnwind \in Nat \ {0}
    /\ MaxIssued \in Nat
    /\ MaxRelease \in Nat \ {0}

VARIABLES count,     \* available permits
          pending,   \* wait_handoff_guard_pending
          unwind,    \* unwind_guard_count
          token,     \* guarded permits whose unwind token the caller holds
          pc,        \* where each task is inside a semaphore call
          issued, taken

semVars == <<count, pending, unwind, token, pc, issued, taken>>
vars == <<waitVars, semVars>>

sem == CHOOSE q \in Queue : TRUE

TypeOK ==
    /\ WaitTypeOK
    /\ count \in 0..MaxCount
    /\ pending \in [Task -> BOOLEAN]
    /\ unwind \in [Task -> 0..MaxUnwind]
    /\ token \in [Task -> 0..MaxUnwind]
    /\ pc \in [Task -> {"idle", "plain", "guarded", "leave"}]
    /\ issued \in Nat
    /\ taken \in Nat

Init ==
    /\ WaitInit
    /\ count = Initial
    /\ pending = [t \in Task |-> FALSE]
    /\ unwind = [t \in Task |-> 0]
    /\ token = [t \in Task |-> 0]
    /\ pc = [t \in Task |-> "idle"]
    /\ issued = Initial
    /\ taken = 0

Calls(t) == state[t] = "Running" /\ pc[t] = "idle"

-----------------------------------------------------------------------------
(* Acquiring. *)

\* Operation 0, and the immediate path of operation 1.
Try(t) ==
    /\ Calls(t)
    /\ count > 0
    /\ count' = count - 1
    /\ taken' = taken + 1
    /\ UNCHANGED <<waitVars, pending, unwind, token, pc, issued>>

\* Operations 1 and 2: no permit, so the task enrolls and parks.
WaitPlain(t, bounded, r) ==
    /\ Calls(t)
    /\ ~closing[sem]
    /\ count = 0
    /\ Block(t, sem, bounded, r)
    /\ pc' = [pc EXCEPT ![t] = "plain"]
    /\ UNCHANGED <<closing, generation, count, pending, unwind, token, issued, taken>>

\* Operation 3, guarded_needed with a permit at hand: the unwind admission
\* comes first and a saturated counter refuses it.
TryGuarded(t) ==
    /\ Calls(t)
    /\ ~closing[sem]
    /\ count > 0
    /\ unwind[t] < MaxUnwind
    /\ count' = count - 1
    /\ unwind' = [unwind EXCEPT ![t] = @ + 1]
    /\ token' = [token EXCEPT ![t] = @ + 1]
    /\ taken' = taken + 1
    /\ UNCHANGED <<waitVars, pending, pc, issued>>

WaitGuarded(t, bounded, r) ==
    /\ Calls(t)
    /\ ~closing[sem]
    /\ count = 0
    /\ Block(t, sem, bounded, r)
    /\ pc' = [pc EXCEPT ![t] = "guarded"]
    /\ UNCHANGED <<closing, generation, count, pending, unwind, token, issued, taken>>

\* The parked task runs again and looks at its wait result.
ResumeFailed(t) ==
    /\ state[t] = "Running"
    /\ pc[t] \in {"plain", "guarded"}
    /\ result[t] # "Signaled"
    /\ pc' = [pc EXCEPT ![t] = "idle"]
    /\ UNCHANGED <<waitVars, count, pending, unwind, token, issued, taken>>

Claimable(t) == pending[t] /\ unwind[t] # 0

\* claim(): first critical section after a handoff.  finish_unguarded returns
\* Signaled to the caller whether or not there was a handoff to claim.
ClaimPlain(t) ==
    /\ state[t] = "Running"
    /\ pc[t] = "plain"
    /\ result[t] = "Signaled"
    /\ pending' = [pending EXCEPT ![t] = @ /\ ~Claimable(t)]
    /\ pc' = [pc EXCEPT ![t] = IF Claimable(t) THEN "leave" ELSE "idle"]
    /\ taken' = IF Claimable(t) THEN taken ELSE taken + 1
    /\ UNCHANGED <<waitVars, count, unwind, token, issued>>

\* Mutant: the second half of a plain wait forgets task_context::leave().
LeavePlainForgotten(t) ==
    /\ state[t] = "Running"
    /\ pc[t] = "leave"
    /\ pc' = [pc EXCEPT ![t] = "idle"]
    /\ taken' = taken + 1
    /\ UNCHANGED <<waitVars, count, pending, unwind, token, issued>>

\* Mutant: leave() refuses the token of a task with one unwind level.
LeavePlainOffByOne(t) ==
    /\ state[t] = "Running"
    /\ pc[t] = "leave"
    /\ unwind[t] > 1
    /\ unwind' = [unwind EXCEPT ![t] = @ - 1]
    /\ pc' = [pc EXCEPT ![t] = "idle"]
    /\ taken' = taken + 1
    /\ UNCHANGED <<waitVars, count, pending, token, issued>>

\* task_context::leave(): second critical section, then the call returns.
LeavePlain(t) ==
    /\ state[t] = "Running"
    /\ pc[t] = "leave"
    /\ unwind[t] # 0
    /\ unwind' = [unwind EXCEPT ![t] = @ - 1]
    /\ pc' = [pc EXCEPT ![t] = "idle"]
    /\ taken' = taken + 1
    /\ UNCHANGED <<waitVars, count, pending, token, issued>>

ClaimGuarded(t) ==
    /\ state[t] = "Running"
    /\ pc[t] = "guarded"
    /\ result[t] = "Signaled"
    /\ pending' = [pending EXCEPT ![t] = @ /\ ~Claimable(t)]
    /\ token' = [token EXCEPT ![t] = IF Claimable(t) THEN @ + 1 ELSE @]
    /\ pc' = [pc EXCEPT ![t] = "idle"]
    /\ taken' = IF Claimable(t) THEN taken + 1 ELSE taken
    /\ UNCHANGED <<waitVars, count, unwind, issued>>

\* The caller of a guarded wait returns its unwind token.
LeaveToken(t) ==
    /\ Calls(t)
    /\ token[t] # 0
    /\ token' = [token EXCEPT ![t] = @ - 1]
    /\ unwind' = [unwind EXCEPT ![t] = @ - 1]
    /\ UNCHANGED <<waitVars, count, pending, pc, issued, taken>>

-----------------------------------------------------------------------------
(* Releasing: operation 4, a loop of handoff_permit over the rank index.    *)

\* handoff_permit wakes these with Failed and goes on to the next waiter.
Refused(t) == pending[t] \/ unwind[t] = MaxUnwind

Receivers == {t \in Linked(sem) : ~Refused(t)}
Ahead(t) == Cardinality({u \in Receivers : Before(u, t)})

\* The first n waiters that can take a permit, in rank order ...
Handed(n) == {t \in Receivers : Ahead(t) < n}
\* ... and the saturated ones the loop meets on the way.
TurnedAway(n) == {t \in Linked(sem) : Refused(t) /\ Ahead(t) < n}

\* Mutant: the handoff does not raise unwind_guard_count.
HandoffUnprotected(H) ==
    /\ pending' = [t \in Task |-> IF t \in H THEN TRUE ELSE pending[t]]
    /\ UNCHANGED unwind

Handoff(H) ==
    /\ pending' = [t \in Task |-> IF t \in H THEN TRUE ELSE pending[t]]
    /\ unwind' = [t \in Task |-> IF t \in H THEN unwind[t] + 1 ELSE unwind[t]]

\* Mutant: permits go to the counter although tasks are waiting.
ReleaseToCount(n) ==
    LET stored == IF n <= MaxCount - count THEN n ELSE MaxCount - count IN
    /\ count' = count + stored
    /\ issued' = issued + stored
    /\ UNCHANGED <<waitVars, pending, unwind, token, pc, taken>>

Release(n) ==
    LET H == Handed(n)
        X == TurnedAway(n)
        rest == n - Cardinality(H)
        stored == IF rest <= MaxCount - count THEN rest ELSE MaxCount - count
    IN
    /\ WakeEach(H \cup X, [t \in H \cup X |-> IF t \in H THEN "Signaled" ELSE "Failed"])
    /\ Handoff(H)
    /\ count' = count + stored
    /\ issued' = issued + Cardinality(H) + stored
    /\ UNCHANGED <<closing, generation, token, pc, taken>>

\* Any running task may release; so may an interrupt handler.
ReleaseCall(n) ==
    /\ issued + n <= MaxIssued
    /\ Release(n)

-----------------------------------------------------------------------------
(* What the rest of the kernel does to a task in a semaphore call.          *)

Mute == UNCHANGED semVars

\* kill() of a task that is not running: refused while it is unwinding.
Kill(t) ==
    /\ state[t] \in {"Ready", "Blocked"}
    /\ unwind[t] = 0
    /\ Bury(t)
    /\ UNCHANGED <<closing, generation>> /\ Mute

\* exit_current / finish_current: a task that still unwinds halts the machine
\* instead, so only a clean task ends itself.
Exit(t) ==
    /\ Calls(t)
    /\ unwind[t] = 0
    /\ Bury(t)
    /\ UNCHANGED <<closing, generation>> /\ Mute

TaskStep(t) ==
    \/ Try(t) \/ TryGuarded(t)
    \/ \E b \in BOOLEAN, r \in Ranks : WaitPlain(t, b, r) \/ WaitGuarded(t, b, r)
    \/ LeaveToken(t)

\* What a task does by itself once it has been woken inside a call.
Finish(t) ==
    ResumeFailed(t) \/ ClaimPlain(t) \/ LeavePlain(t) \/ ClaimGuarded(t)

Next ==
    \/ \E t \in Task : TaskStep(t) \/ Finish(t)
    \/ \E n \in 1..MaxRelease : ReleaseCall(n)
    \/ \E t \in Task : Dispatch(t) /\ Mute
    \/ \E t \in Task : Preempt(t) /\ Mute
    \/ \E t \in Task : Expire(t) /\ Mute
    \/ \E t \in Task : CancelExact(t) /\ Mute
    \/ \E t \in Task, r \in Ranks : SetRank(t, r) /\ Mute
    \/ \E t \in Task : Kill(t) \/ Exit(t)
    \/ Close(sem) /\ Mute
    \/ Reopen(sem) /\ Mute

Spec == Init /\ [][Next]_vars

\* A ready task is dispatched again and again, and a task that is dispatched
\* again and again gets to its next step (its quantum is not empty).
Fairness ==
    \A t \in Task : WF_vars(Dispatch(t) /\ Mute) /\ SF_vars(Finish(t))

FairSpec == Spec /\ Fairness

-----------------------------------------------------------------------------
(* Properties. *)

\* A permit that has left the counter but not yet reached a caller.
InFlight == {t \in Task : pending[t] \/ pc[t] = "leave"}

\* No permit is lost or duplicated, whatever is released, handed off, timed
\* out, cancelled, closed or killed in between: every issued permit is in the
\* counter, in flight to a live task, or returned to a caller.
PermitConservation ==
    /\ issued = count + Cardinality(InFlight) + taken
    /\ \A t \in InFlight : state[t] # "Dead"

\* No lost wake-up: a task never stays queued while a permit is available.
NoLostWakeup == count > 0 => Linked(sem) = {}

\* The unwind counter is exactly the outstanding tokens and handoffs, so it
\* neither leaks (an unkillable task) nor underflows (a killable owner).
UnwindExact ==
    \A t \in Task :
        unwind[t] = token[t] + (IF t \in InFlight THEN 1 ELSE 0)

\* A queue that is closed holds nobody back, and exactly the blocked tasks are
\* linked to it.
BlockedIffLinked ==
    /\ \A t \in Task : state[t] = "Blocked" <=> node[t].queue = sem
    /\ closing[sem] => Linked(sem) = {}

\* A permit that was handed to a task reaches its caller.
HandoffArrives == \A t \in Task : (t \in InFlight) ~> (t \notin InFlight)
=============================================================================
