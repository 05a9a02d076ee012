---------------------------- MODULE MCDriverWork ----------------------------
(* Callers are interchangeable. *)
EXTENDS DriverWork, TLC

Symmetry == Permutations(Task)
=============================================================================
