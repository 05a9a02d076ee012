----------------------------- MODULE MCSignals -----------------------------
(* The two objects that carry a signal: a behaviour is about an event or   *)
(* about a completion, with the same tasks and the same wait queue.        *)
EXTENDS Event

CONSTANT MaxCompleted

ASSUME CompletionAssumption == MaxCompleted \in Nat \ {0}

VARIABLES completed, object

C == INSTANCE Completion

SignalsInit ==
    /\ completed = 0
    /\ \/ object = "event" /\ Init
       \/ object = "completion" /\ C!Init /\ mode = 0 /\ signaled = FALSE

SignalsNext ==
    /\ \/ object = "event" /\ Next /\ UNCHANGED completed
       \/ object = "completion" /\ C!Next /\ UNCHANGED <<mode, signaled>>
    /\ UNCHANGED object

SignalsSpec ==
    /\ SignalsInit
    /\ [][SignalsNext]_<<vars, completed, object>>
    /\ Fairness

\* A posted completion is never behind a queued waiter, and close and reset of
\* sync_objects.rs leave nothing of an old life behind (module Completion).
NothingHeldBack == C!NothingHeldBack

\* One complete of sync_objects.rs has one use (module Completion).
OneUse == C!OneUse
=============================================================================
