---------------------------- MODULE MCSyncLocks ----------------------------
(* Locks and tasks are interchangeable within their kind.                  *)
EXTENDS SyncLocks, TLC

Symmetry == Permutations(Task) \cup Permutations(Mutexes) \cup Permutations(Guards)
=============================================================================
