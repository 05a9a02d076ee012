------------------------------ MODULE WaitNode ------------------------------
(***************************************************************************)
(* One wait queue at pointer level (src/Rust/sched/wait_node.rs): the      *)
(* doubly linked FIFO, the rank index over (rank, order) and the order     *)
(* keys, which are compacted when their counter wraps.  The index is the   *)
(* sequence its tree would be read as (module TaskIndex has the tree): an  *)
(* insertion goes where the keys of that moment put it, later changes of   *)
(* a key do not move anybody.                                              *)
(*                                                                         *)
(* A drain takes many steps under one admission; meanwhile only the ranks  *)
(* of linked tasks can change (a woken task stops donating).               *)
(***************************************************************************)
EXTENDS Naturals, FiniteSets, SequencesExt

CONSTANTS Node, Null,
          Ranks,      \* wake ranks in use
          MaxOrder,   \* u64::MAX of order and next_order
          MaxGen      \* generations are counted modulo this width

ASSUME WaitNodeAssumption ==
    /\ IsFiniteSet(Node) /\ Null \notin Node
    /\ Ranks \subseteq 0..3 /\ Ranks # {}
    /\ MaxOrder \in Nat \ {0}
    /\ MaxGen \in Nat \ {0, 1}

VARIABLES head, tail, count, closing, draining, generation, nextOrder,
          index,                              \* priority
          linked, prev, next, order, rank     \* per node

queueVars == <<head, tail, count, closing, draining, generation, nextOrder, index>>
nodeVars == <<linked, prev, next, order, rank>>
vars == <<queueVars, nodeVars>>

Pointer == Node \cup {Null}

TypeOK ==
    /\ head \in Pointer /\ tail \in Pointer
    /\ count \in 0..Cardinality(Node)
    /\ closing \in BOOLEAN /\ draining \in BOOLEAN
    /\ generation \in 1..(MaxGen - 1)
    /\ nextOrder \in 0..MaxOrder
    /\ index \in Seq(Node) /\ Len(index) <= Cardinality(Node)
    /\ linked \subseteq Node
    /\ prev \in [Node -> Pointer] /\ next \in [Node -> Pointer]
    /\ order \in [Node -> 0..MaxOrder]
    /\ rank \in [Node -> 0..3]

Init ==
    /\ head = Null /\ tail = Null /\ count = 0
    /\ closing = FALSE /\ draining = FALSE
    /\ generation = 1 /\ nextOrder = 0 /\ index = <<>>
    /\ linked = {}
    /\ prev = [n \in Node |-> Null] /\ next = [n \in Node |-> Null]
    /\ order = [n \in Node |-> 0]
    /\ rank = [n \in Node |-> 2]

-----------------------------------------------------------------------------
(* The FIFO as its pointers spell it. *)

\* The nodes met from n on, at most limit of them.
RECURSIVE Walk(_, _)
Walk(n, limit) ==
    IF n = Null \/ limit = 0 THEN <<>> ELSE <<n>> \o Walk(next[n], limit - 1)

Fifo == Walk(head, Cardinality(Node) + 1)

-----------------------------------------------------------------------------
(* The rank index. *)

Before(n, m, rk, od) == rk[n] < rk[m] \/ (rk[n] = rk[m] /\ od[n] < od[m])

\* insert_quiet: n goes before the first member it precedes.
IndexInsert(s, n, rk, od) ==
    LET after == {i \in DOMAIN s : Before(n, s[i], rk, od)}
        at == IF after = {} THEN Len(s) + 1 ELSE CHOOSE i \in after : \A j \in after : i <= j
    IN InsertAt(s, at, n)

Without(s, n) == SelectSeq(s, LAMBDA m : m # n)

-----------------------------------------------------------------------------
(* Order keys. *)

\* Mutant: the wrap only resets the counter.
CompactedNot == [keys |-> order, next |-> 0]

\* next_order: an empty queue starts over; a full counter compacts the keys of
\* all linked nodes to 0, 1, 2, ... in FIFO order.
Compacted ==
    LET f == Fifo IN
    IF count = 0 THEN [keys |-> order, next |-> 0]
    ELSE IF nextOrder = MaxOrder
    THEN [keys |-> [n \in Node |-> IF n \in ToSet(f)
                                   THEN (CHOOSE i \in DOMAIN f : f[i] = n) - 1 ELSE order[n]],
          next |-> count]
    ELSE [keys |-> order, next |-> nextOrder]

\* checked_add: even compacted, the counter must not be at its limit.
Room(c) == c.next < MaxOrder

-----------------------------------------------------------------------------
(* Operations. *)

\* Mutant: the new last node does not point back.
AppendedNoPrev(n) ==
    /\ head' = IF tail = Null THEN n ELSE head
    /\ next' = [next EXCEPT ![n] = Null, ![IF tail = Null THEN n ELSE tail] = IF tail = Null THEN Null ELSE n]
    /\ prev' = [prev EXCEPT ![n] = Null]
    /\ tail' = n

Appended(n) ==
    /\ head' = IF tail = Null THEN n ELSE head
    /\ next' = [m \in Node |-> IF m = tail THEN n ELSE IF m = n THEN Null ELSE next[m]]
    /\ prev' = [prev EXCEPT ![n] = tail]
    /\ tail' = n

\* link_ranked of an unlinked node, once closing and draining are ruled out.
\* Keys that were compacted stay compacted even if there is no room.
LinkRanked(n, r) ==
    LET c == Compacted IN
    /\ ~closing /\ ~draining /\ n \notin linked
    /\ IF Room(c)
       THEN /\ Appended(n)
            /\ count' = count + 1
            /\ nextOrder' = c.next + 1
            /\ order' = [c.keys EXCEPT ![n] = c.next]
            /\ rank' = [rank EXCEPT ![n] = r]
            /\ index' = IndexInsert(index, n, rank', order')
            /\ linked' = linked \cup {n}
       ELSE /\ order' = c.keys
            /\ nextOrder' = c.next
            /\ UNCHANGED <<head, tail, count, index, linked, prev, next, rank>>
    /\ UNCHANGED <<closing, draining, generation>>

SetRank(n, r) ==
    /\ n \in linked /\ rank[n] # r
    /\ rank' = [rank EXCEPT ![n] = r]
    /\ index' = IF draining THEN index ELSE IndexInsert(Without(index, n), n, rank', order)
    /\ UNCHANGED <<head, tail, count, closing, draining, generation, nextOrder, linked, prev, next, order>>

\* Mutant: unlinking the last node leaves tail behind.
UnlinkedHeadOnly(n) ==
    /\ head' = IF prev[n] = Null THEN next[n] ELSE head
    /\ tail' = tail
    /\ next' = [m \in Node |-> IF m = n THEN Null ELSE IF m = prev[n] THEN next[n] ELSE next[m]]
    /\ prev' = [m \in Node |-> IF m = n THEN Null ELSE IF m = next[n] THEN prev[n] ELSE prev[m]]

Unlinked(n) ==
    /\ head' = IF prev[n] = Null THEN next[n] ELSE head
    /\ tail' = IF next[n] = Null THEN prev[n] ELSE tail
    /\ next' = [m \in Node |-> IF m = n THEN Null ELSE IF m = prev[n] THEN next[n] ELSE next[m]]
    /\ prev' = [m \in Node |-> IF m = n THEN Null ELSE IF m = next[n] THEN prev[n] ELSE prev[m]]

DetachNode(n) ==
    /\ n \in linked
    /\ Unlinked(n)
    /\ count' = IF count = 0 THEN 0 ELSE count - 1
    /\ index' = IF draining THEN index ELSE Without(index, n)
    /\ linked' = linked \ {n}
    /\ UNCHANGED <<closing, draining, generation, nextOrder, order, rank>>

\* Timeouts, cancels, kills and directed wake-ups take any node.
Detach(n) == ~draining /\ DetachNode(n)

\* drain: begin_drain drops the whole index of a queue of two or more, then the
\* FIFO is popped to its end.  A shorter queue is popped with its index.
BeginDrain ==
    /\ ~draining
    /\ count > 1
    /\ draining' = TRUE
    /\ index' = <<>>
    /\ UNCHANGED <<head, tail, count, closing, generation, nextOrder, nodeVars>>

DrainPop ==
    /\ draining
    /\ head # Null
    /\ DetachNode(head)

\* end_drain.
EndDrain ==
    /\ draining
    /\ head = Null
    /\ draining' = FALSE
    /\ UNCHANGED <<head, tail, count, closing, generation, nextOrder, index, nodeVars>>

Advanced == IF generation + 1 = MaxGen THEN 1 ELSE generation + 1

\* close comes before a drain of the same admission.
Close ==
    /\ ~draining
    /\ ~closing
    /\ closing' = TRUE
    /\ generation' = Advanced
    /\ UNCHANGED <<head, tail, count, draining, nextOrder, index, nodeVars>>

Reopen ==
    /\ closing /\ ~draining
    /\ count = 0 /\ head = Null /\ tail = Null /\ index = <<>>
    /\ closing' = FALSE
    /\ generation' = Advanced
    /\ UNCHANGED <<head, tail, count, draining, nextOrder, index, nodeVars>>

Next ==
    \/ \E n \in Node, r \in Ranks : LinkRanked(n, r) \/ SetRank(n, r)
    \/ \E n \in Node : Detach(n)
    \/ BeginDrain \/ DrainPop \/ EndDrain
    \/ Close \/ Reopen

Spec == Init /\ [][Next]_vars

-----------------------------------------------------------------------------
(* Properties. *)

\* The list is well formed: next from head and prev from tail visit exactly the
\* linked nodes, in opposite order, and count is their number.
ListExact ==
    LET f == Fifo IN
    /\ ToSet(f) = linked /\ Len(f) = Cardinality(linked) /\ count = Len(f)
    /\ tail = IF f = <<>> THEN Null ELSE Last(f)
    /\ \A i \in DOMAIN f : prev[f[i]] = IF i = 1 THEN Null ELSE f[i - 1]
    /\ \A n \in Node \ linked : prev[n] = Null /\ next[n] = Null

\* Outside a drain the index holds exactly the linked nodes, best rank first and
\* first come first served within a rank, although order keys are reused after
\* every wrap and ranks change while nodes are queued.
IndexExact ==
    LET f == Fifo
        Place(n) == CHOOSE i \in DOMAIN f : f[i] = n
    IN ~draining =>
          /\ ToSet(index) = linked /\ Len(index) = Cardinality(linked)
          /\ \A i, j \in DOMAIN index : i < j =>
                \/ rank[index[i]] < rank[index[j]]
                \/ rank[index[i]] = rank[index[j]] /\ Place(index[i]) < Place(index[j])

Queue == INSTANCE RankedQueue
    WITH Member <- Node, Rank <- 0..3, fifo <- Fifo, rank <- [n \in linked |-> rank[n]]

\* Pointer level operations are joins, leaves and rank changes of a FIFO.
ImplementsRankedQueue == Queue!Spec
=============================================================================
