----------------------------- MODULE LockService -----------------------------
(***************************************************************************)
(* What mutex_lock/mutex_unlock and guard_enter/guard_leave promise their  *)
(* callers: a recursive lock.  level[c][l] is how often caller c holds l.  *)
(* Handoffs, offers, queues, timeouts and kills do not show at all.        *)
(***************************************************************************)
EXTENDS Naturals

CONSTANTS Caller, Lock, MaxLevel

VARIABLE level

\* A lock has one holder; the holder may enter again, up to the counter's width.
Acquire(c, l) ==
    /\ \A d \in Caller \ {c} : level[d][l] = 0
    /\ level[c][l] < MaxLevel
    /\ level' = [level EXCEPT ![c][l] = @ + 1]

\* Only a holder leaves, one level at a time.
Release(c, l) ==
    /\ level[c][l] > 0
    /\ level' = [level EXCEPT ![c][l] = @ - 1]

Init == level = [c \in Caller |-> [l \in Lock |-> 0]]
Next == \E c \in Caller, l \in Lock : Acquire(c, l) \/ Release(c, l)
Spec == Init /\ [][Next]_level
=============================================================================
