--------------------------- MODULE TaskWaitProofs ----------------------------
(***************************************************************************)
(* What the proofs about the synchronization objects need to know of the   *)
(* tasks and wait queues they share: first elements of finite orders, the  *)
(* effect of linking, detaching and re-ranking, and the invariant WaitInv  *)
(* that every operation of TaskWait keeps, for any number of tasks and     *)
(* queues.                                                                 *)
(***************************************************************************)
EXTENDS TaskWait, FiniteSetTheorems, TLAPS

\* The FIFO places of a queue are distinct and none lies behind its length, so
\* a new waiter goes behind everybody.
Ordered ==
    /\ \A t \in Task : node[t].queue # NoQueue =>
          node[t].place <= Cardinality(Linked(node[t].queue))
    /\ \A t, u \in Task : node[t].queue # NoQueue /\ node[u].queue = node[t].queue /\ t # u =>
          node[t].place # node[u].place

\* Exactly the blocked tasks are linked, and a closed queue is empty.
WaitInv ==
    /\ WaitTypeOK
    /\ Ordered
    /\ \A t \in Task : state[t] = "Blocked" <=> node[t].queue # NoQueue
    /\ \A q \in Queue : closing[q] => Linked(q) = {}

-----------------------------------------------------------------------------
(* Finite sets and finite orders. *)

\* Any set of tasks is finite, so its size is a natural number.
LEMMA FiniteTasks ==
  ASSUME NEW S \in SUBSET Task
  PROVE  IsFiniteSet(S) /\ Cardinality(S) \in Nat
  BY TaskWaitAssumption, FS_Subset, FS_CardinalityType, Zenon

\* A strict subset is strictly smaller.
LEMMA SmallerSubset ==
  ASSUME NEW S, IsFiniteSet(S), NEW T \in SUBSET S, NEW x \in S, x \notin T
  PROVE  Cardinality(T) < Cardinality(S)
  <1>1. IsFiniteSet(T) /\ Cardinality(S) \in Nat /\ Cardinality(T) \in Nat
    BY FS_Subset, FS_CardinalityType, Zenon
  <1>2. Cardinality(T) <= Cardinality(S) /\ (Cardinality(S) = Cardinality(T) => S = T)
    BY FS_Subset, Zenon
  <1>3. S # T
    BY Zenon
  <1> QED
    BY <1>1, <1>2, <1>3

\* R is a strict linear order on S.
LinearOn(S, R) ==
    /\ \A t \in S : <<t, t>> \notin R
    /\ \A t, u, v \in S : <<t, u>> \in R /\ <<u, v>> \in R => <<t, v>> \in R
    /\ \A t, u \in S : t # u => <<t, u>> \in R \/ <<u, t>> \in R

\* Counting the predecessors of each element of a finite linear order numbers
\* the elements 0, 1, 2, ...
LEMMA OrderNumbers ==
  ASSUME NEW S, IsFiniteSet(S), NEW R, LinearOn(S, R)
  PROVE  LET number == [t \in S |-> Cardinality({u \in S : <<u, t>> \in R})]
             N == Cardinality(S)
         IN  /\ N \in Nat
             /\ number \in Injection(S, 0..(N - 1))
             /\ number \in Surjection(S, 0..(N - 1))
  <1> DEFINE Front(t) == {u \in S : <<u, t>> \in R}
             number == [t \in S |-> Cardinality(Front(t))]
             N == Cardinality(S)
  <1>1. N \in Nat
    BY FS_CardinalityType, Zenon
  <1>2. ASSUME NEW t \in S PROVE Cardinality(Front(t)) \in 0..(N - 1)
    <2>1. Front(t) \in SUBSET S /\ t \notin Front(t)
      BY Zenon DEF LinearOn
    <2>2. Cardinality(Front(t)) < N
      BY <2>1, SmallerSubset, Zenon
    <2>3. Cardinality(Front(t)) \in Nat
      BY <2>1, FS_Subset, FS_CardinalityType, Zenon
    <2> QED
      BY <2>2, <2>3, <1>1
  <1>3. ASSUME NEW t \in S, NEW u \in S, <<t, u>> \in R
        PROVE  Cardinality(Front(t)) < Cardinality(Front(u))
    <2>1. Front(t) \in SUBSET Front(u) /\ t \in Front(u) /\ t \notin Front(t)
      BY <1>3, Zenon DEF LinearOn
    <2>2. Front(u) \in SUBSET S
      BY Zenon
    <2>3. IsFiniteSet(Front(u))
      BY <2>2, FS_Subset, Zenon
    <2> QED
      BY <2>1, <2>3, SmallerSubset, Zenon
  <1> HIDE DEF Front
  <1>4. number \in Injection(S, 0..(N - 1))
    <2>1. number \in [S -> 0..(N - 1)]
      BY <1>2, Zenon
    <2>2. ASSUME NEW t \in S, NEW u \in S, t # u PROVE number[t] # number[u]
      <3>1. <<t, u>> \in R \/ <<u, t>> \in R
        BY <2>2, Zenon DEF LinearOn
      <3>2. Cardinality(Front(t)) \in Int /\ Cardinality(Front(u)) \in Int
        BY <1>2
      <3>3. Cardinality(Front(t)) # Cardinality(Front(u))
        BY <1>3, <3>1, <3>2
      <3> QED
        BY <3>3, Zenon
    <2> QED
      BY <2>1, <2>2, Zenon DEF Injection, IsInjective
  <1>5. IsFiniteSet(0..(N - 1)) /\ Cardinality(0..(N - 1)) = N
    BY <1>1, FS_Interval, SMTT(30)
  <1>6. number \in Surjection(S, 0..(N - 1))
    BY <1>4, <1>5, FS_Injection, Zenon
  <1> QED
    BY <1>1, <1>4, <1>6, Zenon DEF Front

\* A finite non-empty linear order has a first element.
LEMMA HasFirst ==
  ASSUME NEW S, IsFiniteSet(S), S # {}, NEW R, LinearOn(S, R)
  PROVE  \E t \in S : \A u \in S \ {t} : <<t, u>> \in R
  <1> DEFINE number == [t \in S |-> Cardinality({u \in S : <<u, t>> \in R})]
             N == Cardinality(S)
  <1>1. N \in Nat /\ number \in Surjection(S, 0..(N - 1))
    BY OrderNumbers, Zenon
  <1>2. N # 0
    BY FS_EmptySet, Zenon
  <1>3. PICK t \in S : number[t] = 0
    <2>1. 0 \in 0..(N - 1)
      BY <1>1, <1>2
    <2> HIDE DEF number, N
    <2> QED
      BY <1>1, <2>1, Zenon DEF Surjection
  <1> DEFINE Front == {u \in S : <<u, t>> \in R}
  <1>4. Cardinality(Front) = 0
    BY <1>3, Zenon
  <1>5. IsFiniteSet(Front)
    <2>1. Front \in SUBSET S
      BY Zenon
    <2> QED
      BY <2>1, FS_Subset, Zenon
  <1>6. Front = {}
    BY <1>4, <1>5, FS_EmptySet, Zenon
  <1> QED
    BY <1>6, Zenon DEF LinearOn

-----------------------------------------------------------------------------
(* The orders of a queue: rank order and FIFO order. *)

\* The link fields of a task have their types.
LEMMA NodeType ==
  ASSUME WaitTypeOK, NEW t \in Task
  PROVE  /\ node[t].queue \in Queue \cup {NoQueue}
         /\ node[t].place \in Nat
         /\ node[t].rank \in 0..3
  BY Zenon DEF WaitTypeOK, Node

\* before() of the rank index: irreflexive, transitive, total on queued tasks.
LEMMA BeforeOrder ==
  ASSUME WaitTypeOK, Ordered, NEW q \in Queue
  PROVE  /\ \A t \in Task : ~Before(t, t)
         /\ \A t, u, v \in Task : Before(t, u) /\ Before(u, v) => Before(t, v)
         /\ \A t, u \in Linked(q) : t # u => Before(t, u) \/ Before(u, t)
  <1>1. \A t \in Task : node[t].rank \in Nat /\ node[t].place \in Nat
    BY NodeType
  <1>2. \A t \in Linked(q) : t \in Task /\ node[t].queue = q /\ q # NoQueue
    BY TaskWaitAssumption, Zenon DEF Linked
  <1>3. \A t, u \in Linked(q) : t # u => node[t].place # node[u].place
    BY <1>2, Zenon DEF Ordered
  <1> QED
    BY <1>1, <1>2, <1>3 DEF Before

\* The rank order as a set of pairs.
RankOrder == {p \in Task \X Task : Before(p[1], p[2])}

\* The rank order is linear on every part of a queue.
LEMMA RankLinear ==
  ASSUME WaitTypeOK, Ordered, NEW q \in Queue, NEW S \in SUBSET Linked(q)
  PROVE  /\ IsFiniteSet(S)
         /\ LinearOn(S, RankOrder)
         /\ \A t, u \in S : <<t, u>> \in RankOrder <=> Before(t, u)
  <1>1. \A t \in S : t \in Task /\ t \in Linked(q)
    BY Zenon DEF Linked
  <1>2. \A t, u \in S : <<t, u>> \in RankOrder <=> Before(t, u)
    BY <1>1, Zenon DEF RankOrder
  <1>3. LinearOn(S, RankOrder)
    BY <1>1, <1>2, BeforeOrder, Zenon DEF LinearOn
  <1> QED
    BY <1>1, <1>2, <1>3, FiniteTasks, Zenon

\* Any waiters of a queue have a first one in rank order.
LEMMA FirstRanked ==
  ASSUME WaitTypeOK, Ordered, NEW q \in Queue, NEW S \in SUBSET Linked(q), S # {}
  PROVE  \E t \in S : \A u \in S \ {t} : Before(t, u)
  <1>1. /\ IsFiniteSet(S)
        /\ LinearOn(S, RankOrder)
        /\ \A t, u \in S : <<t, u>> \in RankOrder <=> Before(t, u)
    BY RankLinear, Zenon
  <1>2. PICK t \in S : \A u \in S \ {t} : <<t, u>> \in RankOrder
    BY <1>1, HasFirst, Zenon
  <1> QED
    BY <1>1, <1>2, Zenon

\* A queue with waiters has exactly one FIFO head.
LEMMA OneHead ==
  ASSUME WaitTypeOK, Ordered, NEW q \in Queue
  PROVE  /\ Linked(q) # {} => \E h \in Task : IsHead(h, q)
         /\ \A h, k \in Task : IsHead(h, q) /\ IsHead(k, q) => h = k
  <1> DEFINE R == {p \in Task \X Task : node[p[1]].place < node[p[2]].place}
             L == Linked(q)
  <1>1. \A t \in L : t \in Task /\ node[t].place \in Nat /\ node[t].queue = q /\ q # NoQueue
    BY NodeType, TaskWaitAssumption, Zenon DEF Linked
  <1>2. \A t, u \in L : t # u => node[t].place # node[u].place
    BY <1>1, Zenon DEF Ordered
  <1>3. \A t, u \in L : <<t, u>> \in R <=> node[t].place < node[u].place
    BY <1>1, Zenon
  <1> HIDE DEF R
  <1>4. LinearOn(L, R)
    BY <1>1, <1>2, <1>3 DEF LinearOn
  <1>5. IsFiniteSet(L)
    BY <1>1, FiniteTasks, Zenon
  <1>6. ASSUME L # {} PROVE \E h \in Task : IsHead(h, q)
    <2>1. PICK h \in L : \A u \in L \ {h} : <<h, u>> \in R
      BY <1>4, <1>5, <1>6, HasFirst
    <2>2. \A u \in L \ {h} : node[h].place < node[u].place
      BY <2>1, <1>3, Zenon
    <2>3. \A u \in L : node[h].place <= node[u].place
      BY <2>2, <1>1
    <2> QED
      BY <2>3, <1>1, Zenon DEF IsHead
  <1>7. ASSUME NEW h \in Task, NEW k \in Task, IsHead(h, q), IsHead(k, q) PROVE h = k
    <2>1. h \in L /\ k \in L /\ node[h].place <= node[k].place /\ node[k].place <= node[h].place
      BY <1>7, Zenon DEF IsHead
    <2> QED
      BY <2>1, <1>1, <1>2
  <1> QED
    BY <1>6, <1>7, Zenon

-----------------------------------------------------------------------------
(* What linking, detaching and re-ranking do to the queues. *)

\* wait_node::detach() of several tasks: they are out, the others stay queued,
\* on distinct places and in the same order.
LEMMA DetachEffect ==
  ASSUME WaitTypeOK, Ordered, NEW S \in SUBSET Task, node' = Detach(S)
  PROVE  /\ node' \in [Task -> Node]
         /\ Ordered'
         /\ \A q \in Queue : Linked(q)' = Linked(q) \ S
         /\ \A t \in Task : node'[t].queue = IF t \in S THEN NoQueue ELSE node[t].queue
  <1> DEFINE Stay(q) == Linked(q) \ S
             Upto(t) == {u \in Stay(node[t].queue) : node[u].place <= node[t].place}
             moved(t) == [queue |-> node[t].queue, rank |-> node[t].rank,
                          place |-> Cardinality(Upto(t))]
             Out(t) == t \in S \/ node[t].queue = NoQueue
  <1>1. \A t \in Task : /\ node[t].queue \in Queue \cup {NoQueue}
                        /\ node[t].place \in Nat
                        /\ node[t].rank \in 0..3
    BY NodeType, Zenon
  <1>2. \A t \in Task : node'[t] = IF Out(t) THEN Unlinked ELSE moved(t)
    BY Zenon DEF Detach
  <1>3. /\ \A q \in Queue : Stay(q) \in SUBSET Task
        /\ \A t \in Task : Upto(t) \in SUBSET Stay(node[t].queue) /\ Upto(t) \in SUBSET Task
    BY Zenon DEF Linked
  <1>4. ASSUME NEW t \in Task, ~Out(t)
        PROVE  /\ Cardinality(Upto(t)) \in Nat
               /\ Cardinality(Upto(t)) <= Cardinality(Stay(node[t].queue))
    <2>1. Stay(node[t].queue) \in SUBSET Task
      BY <1>1, <1>3, <1>4, Zenon
    <2>2. IsFiniteSet(Stay(node[t].queue)) /\ Cardinality(Upto(t)) \in Nat
      BY <2>1, <1>3, FiniteTasks, Zenon
    <2> QED
      BY <2>2, <1>3, FS_Subset, Zenon
  <1>5. ASSUME NEW t \in Task, NEW u \in Task, ~Out(t), ~Out(u), node[t].queue = node[u].queue,
               node[t].place < node[u].place
        PROVE  Cardinality(Upto(t)) < Cardinality(Upto(u))
    <2>1. u \in Stay(node[u].queue)
      BY <1>5, Zenon DEF Linked
    <2>2. node[t].place \in Nat /\ node[u].place \in Nat
      BY <1>1, Zenon
    <2>3. \A v \in Stay(node[t].queue) : node[v].place \in Nat
      BY <1>1, Zenon DEF Linked
    <2>4. Upto(t) \in SUBSET Upto(u) /\ u \in Upto(u) /\ u \notin Upto(t)
      BY <2>1, <2>2, <2>3, <1>5
    <2>5. IsFiniteSet(Upto(u))
      BY <1>3, FiniteTasks, Zenon
    <2> QED
      BY <2>4, <2>5, SmallerSubset, Zenon
  <1> HIDE DEF Upto
  <1>6. ASSUME NEW t \in Task
        PROVE  /\ node'[t] \in Node
               /\ node'[t].queue = IF t \in S THEN NoQueue ELSE node[t].queue
               /\ ~Out(t) => node'[t].place = Cardinality(Upto(t))
    <2>1. CASE Out(t)
      <3>1. node'[t] = Unlinked
        BY <2>1, <1>2, Zenon
      <3> QED
        BY <3>1, <2>1 DEF Unlinked, Node
    <2>2. CASE ~Out(t)
      <3>1. node'[t] = moved(t)
        BY <2>2, <1>2, Zenon
      <3>2. Cardinality(Upto(t)) \in Nat
        BY <2>2, <1>4, Zenon
      <3> QED
        BY <3>1, <3>2, <2>2, <1>1 DEF Node
    <2> QED
      BY <2>1, <2>2, Zenon
  <1>7. node' \in [Task -> Node]
    <2>1. node' = [t \in Task |-> node'[t]]
      BY Zenon DEF Detach
    <2> QED
      BY <2>1, <1>6, Zenon
  <1>8. \A q \in Queue : Linked(q)' = Stay(q)
    BY <1>6, TaskWaitAssumption, Zenon DEF Linked
  <1>9. \A t \in Task : node'[t].queue # NoQueue =>
           ~Out(t) /\ node'[t].queue = node[t].queue /\ node[t].queue \in Queue
    BY <1>1, <1>6, Zenon
  <1>10. Ordered'
    <2>1. ASSUME NEW t \in Task, node'[t].queue # NoQueue
          PROVE  (node[t].place <= Cardinality(Linked(node[t].queue)))'
      <3>1. PICK q \in Queue : node[t].queue = q /\ node'[t].queue = q /\ ~Out(t)
        BY <2>1, <1>9, Zenon
      <3>2. Linked(q)' = Stay(q)
        BY <1>8, Zenon
      <3>3. node'[t].place <= Cardinality(Stay(q))
        BY <3>1, <1>4, <1>6, Zenon
      <3>4. Linked(node[t].queue)' = Linked(q)'
        BY <3>1, Zenon DEF Linked
      <3> QED
        BY <3>2, <3>3, <3>4, Zenon
    <2>2. ASSUME NEW t \in Task, NEW u \in Task, node'[t].queue # NoQueue,
                 node'[u].queue = node'[t].queue, t # u
          PROVE  node'[t].place # node'[u].place
      <3>1. ~Out(t) /\ ~Out(u) /\ node[t].queue = node[u].queue
        BY <2>2, <1>9, Zenon
      <3>2. node[t].place # node[u].place
        BY <2>2, <3>1, Zenon DEF Ordered
      <3>3. node[t].place < node[u].place \/ node[u].place < node[t].place
        BY <3>2, <1>1
      <3>4. Cardinality(Upto(t)) < Cardinality(Upto(u)) \/ Cardinality(Upto(u)) < Cardinality(Upto(t))
        BY <3>1, <3>3, <1>5, Zenon
      <3>5. Cardinality(Upto(t)) \in Nat /\ Cardinality(Upto(u)) \in Nat
        BY <3>1, <1>4, Zenon
      <3>6. node'[t].place = Cardinality(Upto(t)) /\ node'[u].place = Cardinality(Upto(u))
        BY <3>1, <1>6, Zenon
      <3> QED
        BY <3>4, <3>5, <3>6
    <2> QED
      BY <2>1, <2>2, Zenon DEF Ordered
  <1> QED
    BY <1>6, <1>7, <1>8, <1>10, Zenon

\* link_ranked(): the task is queued behind everybody, the others stay put.
LEMMA LinkEffect ==
  ASSUME WaitTypeOK, Ordered, NEW t \in Task, node[t].queue = NoQueue,
         NEW q \in Queue, NEW r \in 0..3, node' = Link(t, q, r)
  PROVE  /\ node' \in [Task -> Node]
         /\ Ordered'
         /\ \A p \in Queue : Linked(p)' = IF p = q THEN Linked(p) \cup {t} ELSE Linked(p)
         /\ \A u \in Task : node'[u].queue = IF u = t THEN q ELSE node[u].queue
  <1> DEFINE C == Cardinality(Linked(q))
             new == [queue |-> q, place |-> C + 1, rank |-> r]
  <1>1. Linked(q) \in SUBSET Task
    BY Zenon DEF Linked
  <1>2. C \in Nat /\ IsFiniteSet(Linked(q))
    BY <1>1, FiniteTasks, Zenon
  <1>3. node \in [Task -> Node]
    BY Zenon DEF WaitTypeOK
  <1>4. node' = [node EXCEPT ![t] = new]
    BY Zenon DEF Link
  <1>5. new \in Node
    BY <1>2 DEF Node
  <1>6. \A u \in Task : node'[u] = IF u = t THEN new ELSE node[u]
    BY <1>3, <1>4, Zenon
  <1>7. \A u \in Task : node'[u].queue = IF u = t THEN q ELSE node[u].queue
    BY <1>6
  <1>8. q # NoQueue
    BY TaskWaitAssumption, Zenon
  <1>9. \A p \in Queue : Linked(p)' = IF p = q THEN Linked(p) \cup {t} ELSE Linked(p)
    BY <1>7, <1>8, TaskWaitAssumption, Zenon DEF Linked
  <1>10. Cardinality(Linked(q) \cup {t}) = C + 1
    <2>1. t \notin Linked(q)
      BY <1>8, Zenon DEF Linked
    <2> QED
      BY <2>1, <1>2, FS_AddElement, Zenon
  <1>11. \A u \in Linked(q) : node[u].place <= C /\ node[u].place \in Nat
    BY <1>1, <1>8, NodeType, Zenon DEF Ordered, Linked
  <1>12. ASSUME NEW u \in Task, node'[u].queue # NoQueue
         PROVE  (node[u].place <= Cardinality(Linked(node[u].queue)))'
    <2>1. PICK p \in Queue : node'[u].queue = p
      BY <1>7, <1>12, NodeType, Zenon
    <2>2. Linked(node[u].queue)' = Linked(p)'
      BY <2>1, Zenon DEF Linked
    <2>3. CASE u = t
      <3>1. p = q /\ node'[u].place = C + 1
        BY <2>1, <2>3, <1>6
      <3>2. Linked(p)' = Linked(q) \cup {t}
        BY <3>1, <1>9, Zenon
      <3> QED
        BY <3>1, <3>2, <2>2, <1>2, <1>10
    <2>4. CASE u # t /\ p = q
      <3>1. u \in Linked(q) /\ node'[u].place = node[u].place
        BY <2>1, <2>4, <1>6, Zenon DEF Linked
      <3>2. Linked(p)' = Linked(q) \cup {t}
        BY <2>4, <1>9, Zenon
      <3> QED
        BY <3>1, <3>2, <2>2, <1>2, <1>10, <1>11
    <2>5. CASE u # t /\ p # q
      <3>1. node[u].queue = p /\ node'[u].place = node[u].place /\ p # NoQueue
        BY <2>1, <2>5, <1>6, <1>12, Zenon
      <3>2. node[u].place <= Cardinality(Linked(p))
        BY <3>1, Zenon DEF Ordered
      <3>3. Linked(p)' = Linked(p)
        BY <2>5, <1>9, Zenon
      <3> QED
        BY <3>1, <3>2, <3>3, <2>2, Zenon
    <2> QED
      BY <2>3, <2>4, <2>5, Zenon
  <1>13. ASSUME NEW u \in Task, NEW v \in Task, node'[u].queue # NoQueue,
                node'[v].queue = node'[u].queue, u # v
         PROVE  node'[u].place # node'[v].place
    <2>1. CASE u # t /\ v # t
      BY <2>1, <1>6, <1>13 DEF Ordered
    <2>2. CASE u = t
      <3>1. v \in Linked(q) /\ node'[v].place = node[v].place /\ node'[u].place = C + 1
        <4>1. node'[v] = node[v] /\ node'[u] = new
          BY <2>2, <1>6, <1>13, Zenon
        <4>2. node'[u].queue = q /\ node'[u].place = C + 1
          BY <4>1
        <4> QED
          BY <4>1, <4>2, <1>13, Zenon DEF Linked
      <3>2. node[v].place \in Nat /\ node[v].place <= C
        BY <3>1, <1>11, Zenon
      <3> QED
        BY <3>1, <3>2, <1>2
    <2>3. CASE v = t
      <3>1. u \in Linked(q) /\ node'[u].place = node[u].place /\ node'[v].place = C + 1
        <4>1. node'[u] = node[u] /\ node'[v] = new
          BY <2>3, <1>6, <1>13, Zenon
        <4>2. node'[v].queue = q /\ node'[v].place = C + 1
          BY <4>1
        <4> QED
          BY <4>1, <4>2, <1>13, Zenon DEF Linked
      <3>2. node[u].place \in Nat /\ node[u].place <= C
        BY <3>1, <1>11, Zenon
      <3> QED
        BY <3>1, <3>2, <1>2
    <2> QED
      BY <2>1, <2>2, <2>3, Zenon
  <1>14. Ordered'
    BY <1>12, <1>13, Zenon DEF Ordered
  <1> QED
    BY <1>3, <1>4, <1>5, <1>7, <1>9, <1>14, Zenon

\* set_rank(): who is queued where, and on which place, does not change.
LEMMA SetRankEffect ==
  ASSUME WaitTypeOK, Ordered, NEW t \in Task, NEW r \in 0..3, node' = [node EXCEPT ![t].rank = r]
  PROVE  /\ node' \in [Task -> Node]
         /\ Ordered'
         /\ \A q : Linked(q)' = Linked(q)
         /\ \A u \in Task : node'[u].queue = node[u].queue
  <1>1. node \in [Task -> Node]
    BY Zenon DEF WaitTypeOK
  <1>2. node' \in [Task -> Node]
    BY <1>1, Zenon DEF Node
  <1>3. \A u \in Task : node'[u].queue = node[u].queue /\ node'[u].place = node[u].place
    BY <1>1, Zenon DEF Node
  <1>4. \A q : Linked(q)' = Linked(q)
    BY <1>3, Zenon DEF Linked
  <1>5. \A u \in Task : Linked(node[u].queue)' = Linked(node[u].queue)
    BY <1>3, Zenon DEF Linked
  <1> QED
    BY <1>2, <1>3, <1>4, <1>5 DEF Ordered

\* The generation after any generation is again a non-zero one.
LEMMA NextGenType ==
  ASSUME NEW g \in 1..(MaxGen - 1)
  PROVE  NextGen(g) \in 1..(MaxGen - 1)
  BY TaskWaitAssumption DEF NextGen

-----------------------------------------------------------------------------
(* Every operation on tasks and queues keeps WaitInv. *)

\* No task is queued and no queue closed before the first call.
LEMMA WaitInitInv == WaitInit => WaitInv
  <1> SUFFICES ASSUME WaitInit PROVE WaitInv
    BY Zenon
  <1>1. WaitTypeOK
    BY TaskWaitAssumption DEF WaitInit, WaitTypeOK, WaitResult, Node, Unlinked
  <1>2. \A t \in Task : node[t].queue = NoQueue /\ state[t] = "Ready"
    BY Zenon DEF WaitInit, Unlinked
  <1>3. \A q \in Queue : ~closing[q]
    BY Zenon DEF WaitInit
  <1> QED
    BY <1>1, <1>2, <1>3, Zenon DEF WaitInv, Ordered

\* Steps that leave the tasks and queues alone.
LEMMA WaitStutter ==
  ASSUME WaitInv, UNCHANGED waitVars
  PROVE  /\ WaitInv'
         /\ \A q : Linked(q)' = Linked(q)
  <1>1. UNCHANGED <<state, node, timed, result, closing, generation>>
    BY Zenon DEF waitVars
  <1>2. \A q : Linked(q)' = Linked(q)
    BY <1>1, Zenon DEF Linked
  <1>3. \A t \in Task : Linked(node[t].queue)' = Linked(node[t].queue)
    BY <1>1, Zenon DEF Linked
  <1>4. WaitTypeOK'
    BY <1>1, Zenon DEF WaitInv, WaitTypeOK
  <1>5. Ordered'
    BY <1>1, <1>3, Zenon DEF WaitInv, Ordered
  <1> QED
    BY <1>1, <1>2, <1>4, <1>5, Zenon DEF WaitInv

\* begin_wait: a task that is not yet queued enrolls in an open queue.
LEMMA BlockKeeps ==
  ASSUME WaitInv, NEW t \in Task, state[t] # "Blocked", NEW q \in Queue, ~closing[q],
         NEW b \in BOOLEAN, NEW r \in Ranks, Block(t, q, b, r), UNCHANGED <<closing, generation>>
  PROVE  /\ WaitInv'
         /\ \A p \in Queue : Linked(p)' = IF p = q THEN Linked(p) \cup {t} ELSE Linked(p)
         /\ \A u \in Task : node'[u].queue = IF u = t THEN q ELSE node[u].queue
         /\ \A u \in Task : state'[u] = IF u = t THEN "Blocked" ELSE state[u]
         /\ \A u \in Task : result'[u] = IF u = t THEN "None" ELSE result[u]
  <1> USE DEF WaitInv
  <1>1. /\ node' = Link(t, q, r)
        /\ state' = [state EXCEPT ![t] = "Blocked"]
        /\ timed' = [timed EXCEPT ![t] = b]
        /\ result' = [result EXCEPT ![t] = "None"]
    BY Zenon DEF Block
  <1>2. node[t].queue = NoQueue /\ r \in 0..3 /\ q # NoQueue
    BY TaskWaitAssumption, Zenon
  <1>3. /\ node' \in [Task -> Node]
        /\ Ordered'
        /\ \A p \in Queue : Linked(p)' = IF p = q THEN Linked(p) \cup {t} ELSE Linked(p)
        /\ \A u \in Task : node'[u].queue = IF u = t THEN q ELSE node[u].queue
    BY <1>1, <1>2, LinkEffect, Zenon
  <1>4. WaitTypeOK'
    BY <1>1, <1>3, Zenon DEF WaitTypeOK, WaitResult
  <1>5. /\ \A u \in Task : state'[u] = IF u = t THEN "Blocked" ELSE state[u]
        /\ \A u \in Task : result'[u] = IF u = t THEN "None" ELSE result[u]
    BY <1>1, Zenon DEF WaitTypeOK
  <1>6. \A u \in Task : state'[u] = "Blocked" <=> node'[u].queue # NoQueue
    BY <1>2, <1>3, <1>5, Zenon
  <1>7. \A p \in Queue : closing'[p] => Linked(p)' = {}
    BY <1>3, Zenon
  <1> QED
    BY <1>3, <1>4, <1>5, <1>6, <1>7, Zenon

\* wake_task for some tasks; a queue may close in the step when all its waiters
\* are among them.
LEMMA WakeKeeps ==
  ASSUME WaitInv, NEW S \in SUBSET Task, NEW r, \A t \in S : r[t] \in WaitResult, WakeEach(S, r),
         closing' \in [Queue -> BOOLEAN], generation' \in [Queue -> 1..(MaxGen - 1)],
         \A q \in Queue : closing'[q] => closing[q] \/ Linked(q) \subseteq S
  PROVE  /\ WaitInv'
         /\ \A q \in Queue : Linked(q)' = Linked(q) \ S
         /\ \A t \in Task : node'[t].queue = IF t \in S THEN NoQueue ELSE node[t].queue
         /\ \A t \in Task : state'[t] = IF t \in S THEN "Ready" ELSE state[t]
         /\ \A t \in Task : result'[t] = IF t \in S THEN r[t] ELSE result[t]
  <1> USE DEF WaitInv
  <1>1. /\ node' = Detach(S)
        /\ state' = [t \in Task |-> IF t \in S THEN "Ready" ELSE state[t]]
        /\ timed' = [t \in Task |-> IF t \in S THEN FALSE ELSE timed[t]]
        /\ result' = [t \in Task |-> IF t \in S THEN r[t] ELSE result[t]]
    BY Zenon DEF WakeEach
  <1>2. /\ node' \in [Task -> Node]
        /\ Ordered'
        /\ \A q \in Queue : Linked(q)' = Linked(q) \ S
        /\ \A t \in Task : node'[t].queue = IF t \in S THEN NoQueue ELSE node[t].queue
    BY <1>1, DetachEffect, Zenon
  <1>3. /\ \A t \in Task : state'[t] = IF t \in S THEN "Ready" ELSE state[t]
        /\ \A t \in Task : result'[t] = IF t \in S THEN r[t] ELSE result[t]
    BY <1>1, Zenon
  <1>4. WaitTypeOK'
    <2>1. state' \in [Task -> {"Running", "Ready", "Blocked", "Dead"}]
      BY <1>1, Zenon DEF WaitTypeOK
    <2>2. timed' \in [Task -> BOOLEAN]
      BY ZenonT(40), <1>1 DEF WaitTypeOK
    <2>3. result' \in [Task -> WaitResult]
      BY <1>1, Zenon DEF WaitTypeOK
    <2> QED
      BY <1>2, <2>1, <2>2, <2>3, Zenon DEF WaitTypeOK
  <1>5. \A t \in Task : state'[t] = "Blocked" <=> node'[t].queue # NoQueue
    BY <1>2, <1>3, Zenon
  <1>6. \A q \in Queue : closing'[q] => Linked(q)' = {}
    BY <1>2, Zenon
  <1> QED
    BY <1>2, <1>3, <1>4, <1>5, <1>6, Zenon

\* Waking one task that is blocked, by its deadline or by a cancel.
LEMMA WakeOneKeeps ==
  ASSUME WaitInv, NEW t \in Task, Expire(t) \/ CancelExact(t)
  PROVE  /\ WaitInv'
         /\ UNCHANGED <<closing, generation>>
         /\ state[t] = "Blocked"
         /\ \A q \in Queue : Linked(q)' = Linked(q) \ {t}
         /\ \A u \in Task : node'[u].queue = IF u = t THEN NoQueue ELSE node[u].queue
         /\ \A u \in Task : state'[u] = IF u = t THEN "Ready" ELSE state[u]
         /\ \A u \in Task \ {t} : result'[u] = result[u]
         /\ result'[t] \in {"Timeout", "Cancelled"}
  <1>1. /\ state[t] = "Blocked"
        /\ UNCHANGED <<closing, generation>>
        /\ \E r \in {"Timeout", "Cancelled"} : WakeAll({t}, r)
    BY Zenon DEF Expire, CancelExact
  <1>2. PICK r \in {"Timeout", "Cancelled"} : WakeAll({t}, r)
    BY <1>1, Zenon
  <1> DEFINE res == [u \in {t} |-> r]
  <1>3. WakeEach({t}, res) /\ \A u \in {t} : res[u] = r /\ res[u] \in WaitResult
    BY <1>2, Zenon DEF WakeAll, WaitResult
  <1>4. /\ closing' \in [Queue -> BOOLEAN]
        /\ generation' \in [Queue -> 1..(MaxGen - 1)]
        /\ \A q \in Queue : closing'[q] => closing[q] \/ Linked(q) \subseteq {t}
    BY <1>1, Zenon DEF WaitInv, WaitTypeOK
  <1>5. {t} \in SUBSET Task
    BY Zenon
  <1> HIDE DEF res
  <1>6. /\ WaitInv'
        /\ \A q \in Queue : Linked(q)' = Linked(q) \ {t}
        /\ \A u \in Task : node'[u].queue = IF u \in {t} THEN NoQueue ELSE node[u].queue
        /\ \A u \in Task : state'[u] = IF u \in {t} THEN "Ready" ELSE state[u]
        /\ \A u \in Task : result'[u] = IF u \in {t} THEN res[u] ELSE result[u]
    BY <1>3, <1>4, <1>5, WakeKeeps, ZenonT(40)
  <1> QED
    BY <1>1, <1>3, <1>6, Zenon

\* transition_dead: the task is out of its queue.
LEMMA BuryKeeps ==
  ASSUME WaitInv, NEW t \in Task, Bury(t), UNCHANGED <<closing, generation>>
  PROVE  /\ WaitInv'
         /\ \A q \in Queue : Linked(q)' = Linked(q) \ {t}
         /\ \A u \in Task : node'[u].queue = IF u = t THEN NoQueue ELSE node[u].queue
         /\ \A u \in Task : state'[u] = IF u = t THEN "Dead" ELSE state[u]
         /\ \A u \in Task : result'[u] = IF u = t THEN "Killed" ELSE result[u]
  <1> USE DEF WaitInv
  <1>1. /\ node' = Detach({t})
        /\ state' = [state EXCEPT ![t] = "Dead"]
        /\ timed' = [timed EXCEPT ![t] = FALSE]
        /\ result' = [result EXCEPT ![t] = "Killed"]
    BY Zenon DEF Bury
  <1>2. {t} \in SUBSET Task
    BY Zenon
  <1>3. /\ node' \in [Task -> Node]
        /\ Ordered'
        /\ \A q \in Queue : Linked(q)' = Linked(q) \ {t}
        /\ \A u \in Task : node'[u].queue = IF u \in {t} THEN NoQueue ELSE node[u].queue
    BY <1>1, <1>2, DetachEffect, Zenon
  <1>4. WaitTypeOK'
    BY <1>1, <1>3, Zenon DEF WaitTypeOK, WaitResult
  <1>5. /\ \A u \in Task : state'[u] = IF u = t THEN "Dead" ELSE state[u]
        /\ \A u \in Task : result'[u] = IF u = t THEN "Killed" ELSE result[u]
    BY <1>1, Zenon DEF WaitTypeOK
  <1>6. \A u \in Task : state'[u] = "Blocked" <=> node'[u].queue # NoQueue
    BY <1>3, <1>5, Zenon
  <1>7. \A q \in Queue : closing'[q] => Linked(q)' = {}
    BY <1>3, Zenon
  <1> QED
    BY <1>3, <1>4, <1>5, <1>6, <1>7, Zenon

\* Dispatch and preemption move a task between Ready and Running only.
LEMMA SwitchKeeps ==
  ASSUME WaitInv, NEW t \in Task, Dispatch(t) \/ Preempt(t)
  PROVE  /\ WaitInv'
         /\ UNCHANGED <<node, timed, result, closing, generation>>
         /\ \A q : Linked(q)' = Linked(q)
         /\ state[t] \in {"Ready", "Running"} /\ state'[t] \in {"Ready", "Running"}
         /\ \A u \in Task \ {t} : state'[u] = state[u]
  <1> USE DEF WaitInv
  <1>1. /\ UNCHANGED <<node, timed, result, closing, generation>>
        /\ state[t] \in {"Ready", "Running"} /\ state'[t] \in {"Ready", "Running"}
        /\ \A u \in Task \ {t} : state'[u] = state[u]
        /\ state' \in [Task -> {"Running", "Ready", "Blocked", "Dead"}]
    BY Zenon DEF Dispatch, Preempt, WaitTypeOK
  <1>2. /\ \A q : Linked(q)' = Linked(q)
        /\ \A u \in Task : Linked(node[u].queue)' = Linked(node[u].queue)
    BY <1>1, Zenon DEF Linked
  <1>3. WaitTypeOK'
    BY <1>1, Zenon DEF WaitTypeOK
  <1>4. Ordered'
    BY <1>1, <1>2, Zenon DEF Ordered
  <1>5. \A u \in Task : state'[u] = "Blocked" <=> node'[u].queue # NoQueue
    BY <1>1, Zenon
  <1> QED
    BY <1>1, <1>2, <1>3, <1>4, <1>5, Zenon

\* A new wake rank reorders a queue and moves nobody in or out of it.
LEMMA RankKeeps ==
  ASSUME WaitInv, NEW t \in Task, NEW r \in Ranks, SetRank(t, r)
  PROVE  /\ WaitInv'
         /\ UNCHANGED <<state, timed, result, closing, generation>>
         /\ \A q : Linked(q)' = Linked(q)
         /\ \A u \in Task : node'[u].queue = node[u].queue
  <1> USE DEF WaitInv
  <1>1. r \in 0..3
    BY TaskWaitAssumption, Zenon
  <1>2. /\ node' = [node EXCEPT ![t].rank = r]
        /\ UNCHANGED <<state, timed, result, closing, generation>>
    BY Zenon DEF SetRank
  <1>3. /\ node' \in [Task -> Node]
        /\ Ordered'
        /\ \A q : Linked(q)' = Linked(q)
        /\ \A u \in Task : node'[u].queue = node[u].queue
    BY <1>1, <1>2, SetRankEffect, Zenon
  <1>4. WaitTypeOK'
    BY <1>2, <1>3, Zenon DEF WaitTypeOK
  <1>5. \A u \in Task : state'[u] = "Blocked" <=> node'[u].queue # NoQueue
    BY <1>2, <1>3, Zenon
  <1> QED
    BY <1>2, <1>3, <1>4, <1>5, Zenon

\* Closing a queue drains it.
LEMMA CloseKeeps ==
  ASSUME WaitInv, NEW q \in Queue, Close(q)
  PROVE  /\ WaitInv'
         /\ closing' = [closing EXCEPT ![q] = TRUE]
         /\ \A p \in Queue : Linked(p)' = Linked(p) \ Linked(q)
         /\ \A t \in Task : node'[t].queue = IF t \in Linked(q) THEN NoQueue ELSE node[t].queue
         /\ \A t \in Task : state'[t] = IF t \in Linked(q) THEN "Ready" ELSE state[t]
         /\ \A t \in Task : result'[t] = IF t \in Linked(q) THEN "Cancelled" ELSE result[t]
  <1> DEFINE S == Linked(q)
             res == [t \in S |-> "Cancelled"]
  <1>1. S \in SUBSET Task
    BY Zenon DEF Linked
  <1>2. /\ closing' = [closing EXCEPT ![q] = TRUE]
        /\ generation' = [generation EXCEPT ![q] = IF closing[q] THEN @ ELSE NextGen(@)]
        /\ WakeEach(S, res)
    BY Zenon DEF Close, WakeAll
  <1>3. \A t \in S : res[t] = "Cancelled" /\ res[t] \in WaitResult
    BY Zenon DEF WaitResult
  <1>4. closing \in [Queue -> BOOLEAN] /\ generation \in [Queue -> 1..(MaxGen - 1)]
    BY Zenon DEF WaitInv, WaitTypeOK
  <1>5. /\ closing' \in [Queue -> BOOLEAN]
        /\ generation' \in [Queue -> 1..(MaxGen - 1)]
        /\ \A p \in Queue : closing'[p] => closing[p] \/ Linked(p) \subseteq S
    BY <1>2, <1>4, NextGenType, Zenon
  <1> HIDE DEF S, res
  <1>6. /\ WaitInv'
        /\ \A p \in Queue : Linked(p)' = Linked(p) \ S
        /\ \A t \in Task : node'[t].queue = IF t \in S THEN NoQueue ELSE node[t].queue
        /\ \A t \in Task : state'[t] = IF t \in S THEN "Ready" ELSE state[t]
        /\ \A t \in Task : result'[t] = IF t \in S THEN res[t] ELSE result[t]
    BY <1>1, <1>2, <1>3, <1>5, WakeKeeps, Zenon
  <1>7. \A t \in Task : result'[t] = IF t \in S THEN "Cancelled" ELSE result[t]
    BY <1>3, <1>6, Zenon
  <1> QED
    BY <1>2, <1>6, <1>7, Zenon DEF S

\* Reopening an empty queue.
LEMMA ReopenKeeps ==
  ASSUME WaitInv, NEW q \in Queue, Reopen(q)
  PROVE  /\ WaitInv'
         /\ UNCHANGED <<state, node, timed, result>>
         /\ \A p : Linked(p)' = Linked(p)
         /\ \A p \in Queue : closing'[p] => closing[p]
  <1> USE DEF WaitInv
  <1>1. /\ UNCHANGED <<state, node, timed, result>>
        /\ closing' \in [Queue -> BOOLEAN]
        /\ generation' \in [Queue -> 1..(MaxGen - 1)]
        /\ \A p \in Queue : closing'[p] => closing[p]
    BY NextGenType, Zenon DEF Reopen, WaitTypeOK
  <1>2. /\ \A p : Linked(p)' = Linked(p)
        /\ \A t \in Task : Linked(node[t].queue)' = Linked(node[t].queue)
    BY <1>1, Zenon DEF Linked
  <1>3. WaitTypeOK' /\ Ordered'
    BY <1>1, <1>2, Zenon DEF WaitTypeOK, Ordered
  <1> QED
    BY <1>1, <1>2, <1>3, Zenon
=============================================================================
