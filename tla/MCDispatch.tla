------------------------------ MODULE MCDispatch ------------------------------
(* Two interactive tasks and a batch task on two processors.               *)
EXTENDS Dispatch

CONSTANTS t1, t2, t3

MCRank == [t \in {t1, t2, t3} |-> IF t = t3 THEN 3 ELSE 2]
=============================================================================
