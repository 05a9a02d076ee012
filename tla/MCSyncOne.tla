----------------------------- MODULE MCSyncOne -----------------------------
(* Every lock by itself: a behaviour picks the lock it is about, and no    *)
(* step touches another one.  The lock is closed and reopened at most      *)
(* once, so that its generation does not come round.                       *)
EXTENDS MCSyncLocks

VARIABLE lock

\* At most one task is full of other mutexes; that makes no difference to a
\* guard.
OneInit ==
    /\ Init
    /\ lock \in Queue
    /\ \A t, u \in Task : other[t] # 0 /\ other[u] # 0 => t = u
    /\ lock \in Guards => \A t \in Task : other[t] = 0

OneNext ==
    /\ Next
    /\ \A t \in Task : want'[t] \in {NoQueue, lock}
    /\ \A l \in Queue \ {lock} :
          UNCHANGED <<owner[l], depth[l], closing[l], generation[l]>>
    /\ generation'[lock] >= generation[lock]
    /\ UNCHANGED lock

OneSpec == OneInit /\ [][OneNext]_<<vars, lock>>
=============================================================================
