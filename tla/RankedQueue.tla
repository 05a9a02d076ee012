----------------------------- MODULE RankedQueue -----------------------------
(***************************************************************************)
(* What a wait queue promises: a FIFO of distinct members, each with a     *)
(* rank, from which members are taken at the front, or as the best ranked  *)
(* and among those the longest waiting, or anywhere (timeout, cancel).     *)
(***************************************************************************)
EXTENDS Naturals, Sequences, SequencesExt

CONSTANTS Member, Rank

VARIABLES fifo,   \* members, longest waiting first
          rank    \* of each member in the queue

Join(m, r) ==
    /\ m \notin ToSet(fifo)
    /\ fifo' = Append(fifo, m)
    /\ rank' = [n \in ToSet(fifo') |-> IF n = m THEN r ELSE rank[n]]

Leave(m) ==
    /\ m \in ToSet(fifo)
    /\ fifo' = SelectSeq(fifo, LAMBDA n : n # m)
    /\ rank' = [n \in ToSet(fifo') |-> rank[n]]

Rerank(m, r) ==
    /\ m \in ToSet(fifo)
    /\ rank' = [rank EXCEPT ![m] = r]
    /\ UNCHANGED fifo

Init == fifo = <<>> /\ rank = << >>
Next ==
    \E m \in Member :
        \/ Leave(m)
        \/ \E r \in Rank : Join(m, r) \/ Rerank(m, r)
Spec == Init /\ [][Next]_<<fifo, rank>>
=============================================================================
