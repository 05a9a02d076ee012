----------------------------- MODULE MCMutexPI -----------------------------
(* Tasks are interchangeable, and so are locks of the same kind. *)
EXTENDS MutexPI, TLC

Symmetry ==
    Permutations(Task) \cup Permutations(Guard) \cup Permutations(Lock \ Guard)
=============================================================================
