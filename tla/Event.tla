-------------------------------- MODULE Event --------------------------------
(***************************************************************************)
(* The event object of src/Rust/sched/sync_objects.rs.                     *)
(*                                                                         *)
(* An auto-reset event (mode 1) sets its flag or releases one waiter in    *)
(* one critical section.  A manual event (mode 0) sets the flag in one     *)
(* section and wakes everybody in a second one; a reset, a new wait or the *)
(* death of the signalling task can fall in between.                       *)
(***************************************************************************)
EXTENDS TaskWait

ASSUME EventAssumption == Queue # {}

VARIABLES mode,     \* fixed when the event is made
          signaled,
          pc        \* where each task is inside an event call

eventVars == <<mode, signaled, pc>>
vars == <<waitVars, eventVars>>

ev == CHOOSE q \in Queue : TRUE

AutoReset == mode = 1

TypeOK ==
    /\ WaitTypeOK
    /\ mode \in {0, 1}
    /\ signaled \in BOOLEAN
    /\ pc \in [Task -> {"idle", "wait", "wakeall"}]

Init ==
    /\ WaitInit
    /\ mode \in {0, 1}
    /\ signaled = FALSE
    /\ pc = [t \in Task |-> "idle"]

Calls(t) == state[t] = "Running" /\ pc[t] = "idle"

\* Operation 2 with the flag set: an auto event consumes it.
TakeFlag(t) ==
    /\ Calls(t)
    /\ ~closing[ev]
    /\ signaled
    /\ signaled' = ~AutoReset
    /\ UNCHANGED <<waitVars, mode, pc>>

\* Mutant: enrollment without the predicate.
WaitUnchecked(t, bounded, r) ==
    /\ Calls(t)
    /\ ~closing[ev]
    /\ Block(t, ev, bounded, r)
    /\ pc' = [pc EXCEPT ![t] = "wait"]
    /\ UNCHANGED <<closing, generation, mode, signaled>>

\* Operation 2 with the flag clear: enroll and park.
Wait(t, bounded, r) ==
    /\ Calls(t)
    /\ ~closing[ev]
    /\ ~signaled
    /\ Block(t, ev, bounded, r)
    /\ pc' = [pc EXCEPT ![t] = "wait"]
    /\ UNCHANGED <<closing, generation, mode, signaled>>

Return(t) ==
    /\ state[t] = "Running"
    /\ pc[t] = "wait"
    /\ pc' = [pc EXCEPT ![t] = "idle"]
    /\ UNCHANGED <<waitVars, mode, signaled>>

\* Mutant: the flag is set whether or not somebody was released.
SignalAutoBoth ==
    /\ AutoReset
    /\ WakeAll({t \in Task : IsFirstRanked(t, ev)}, "Signaled")
    /\ signaled' = TRUE
    /\ UNCHANGED <<closing, generation, mode, pc>>

\* Operation 0, mode 1, from a task or an interrupt handler.
SignalAuto ==
    /\ AutoReset
    /\ WakeAll({t \in Task : IsFirstRanked(t, ev)}, "Signaled")
    /\ signaled' = (signaled \/ Linked(ev) = {})
    /\ UNCHANGED <<closing, generation, mode, pc>>

\* Operation 0, mode 0: the first critical section ...
SignalManual(t) ==
    /\ ~AutoReset
    /\ Calls(t)
    /\ signaled' = TRUE
    /\ pc' = [pc EXCEPT ![t] = "wakeall"]
    /\ UNCHANGED <<waitVars, mode>>

\* Mutant: only the best-ranked waiter is woken by a manual signal.
WakeAllOnlyFirst(t) ==
    /\ state[t] = "Running"
    /\ pc[t] = "wakeall"
    /\ WakeAll({u \in Task : IsFirstRanked(u, ev)}, "Signaled")
    /\ pc' = [pc EXCEPT ![t] = "idle"]
    /\ UNCHANGED <<closing, generation, mode, signaled>>

\* ... and the second: sync_queue operation 1.
WakeWaiters(t) ==
    /\ state[t] = "Running"
    /\ pc[t] = "wakeall"
    /\ WakeAll(Linked(ev), "Signaled")
    /\ pc' = [pc EXCEPT ![t] = "idle"]
    /\ UNCHANGED <<closing, generation, mode, signaled>>

\* Operation 1.
Reset ==
    /\ signaled' = FALSE
    /\ UNCHANGED <<waitVars, mode, pc>>

Mute == UNCHANGED eventVars

Kill(t) ==
    /\ state[t] \in {"Ready", "Blocked"}
    /\ Bury(t)
    /\ UNCHANGED <<closing, generation>> /\ Mute

Exit(t) ==
    /\ Calls(t)
    /\ Bury(t)
    /\ UNCHANGED <<closing, generation>> /\ Mute

Finish(t) == Return(t) \/ WakeWaiters(t)

Next ==
    \/ \E t \in Task : TakeFlag(t) \/ SignalManual(t) \/ Finish(t)
    \/ \E t \in Task, b \in BOOLEAN, r \in Ranks : Wait(t, b, r)
    \/ SignalAuto
    \/ Reset
    \/ \E t \in Task : Dispatch(t) /\ Mute
    \/ \E t \in Task : Preempt(t) /\ Mute
    \/ \E t \in Task : Expire(t) /\ Mute
    \/ \E t \in Task : CancelExact(t) /\ Mute
    \/ \E t \in Task, r \in Ranks : SetRank(t, r) /\ Mute
    \/ \E t \in Task : Kill(t) \/ Exit(t)
    \/ Close(ev) /\ Mute
    \/ Reopen(ev) /\ Mute

Spec == Init /\ [][Next]_vars

\* Ready tasks are dispatched again and again and then get to their next step.
Fairness ==
    \A t \in Task : WF_vars(Dispatch(t) /\ Mute) /\ SF_vars(Finish(t))

FairSpec == Spec /\ Fairness

-----------------------------------------------------------------------------
\* No lost wake-up: nobody is queued on a signaled event, except between the
\* two halves of a manual signal (and for ever, if the signalling task is
\* killed there: it is only then that a dead task is at "wakeall").
NoLostWakeup ==
    signaled /\ Linked(ev) # {} => ~AutoReset /\ \E t \in Task : pc[t] = "wakeall"

\* An auto signal releases at most one waiter: two tasks never leave the queue
\* with Signaled in one step, and the one that does was first in rank order.
OneReleasePerSignal ==
    [][\A t \in Linked(ev) :
         AutoReset /\ result'[t] = "Signaled" => ~signaled' /\ IsFirstRanked(t, ev)]_vars

\* A manual signal reaches every task that is queued while the flag is up,
\* unless a signalling task was killed between its two critical sections.
ManualSignalReaches ==
    \A t \in Task :
        (signaled /\ node[t].queue = ev)
            ~> (node[t].queue # ev \/ \E u \in Task : state[u] = "Dead" /\ pc[u] = "wakeall")
=============================================================================
