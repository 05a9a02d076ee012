------------------------------ MODULE TaskIndex ------------------------------
(***************************************************************************)
(* The intrusive AVL tree of src/Rust/sched/task_index.rs, behind the rank *)
(* index of every wait queue, the deadline index and the task registry.    *)
(* Nodes are the keys 1..Keys, ordered by <; Nil is the null pointer.  A   *)
(* tree x holds root, first, count and the Links of every node.  The       *)
(* operators take and return whole trees, in the order of the code's       *)
(* stores; visits, a statistic, is left out.                               *)
(***************************************************************************)
EXTENDS Integers, FiniteSetsExt, SequencesExt

CONSTANTS Keys,      \* number of nodes
          PerId      \* consecutive keys that share an id (its generations)

VARIABLES x,         \* the tree
          members    \* the nodes the callers have put in and not taken out

vars == <<x, members>>

Nil == 0
Entry == 1..Keys
Link == 0..Keys

Tree == [root : Link, first : Link, count : 0..Keys,
         parent : [Entry -> Link], left : [Entry -> Link], right : [Entry -> Link],
         height : [Entry -> 1..Keys]]

NoLinks == [n \in Entry |-> Nil]

Init ==
    /\ x = [root |-> Nil, first |-> Nil, count |-> 0,
            parent |-> NoLinks, left |-> NoLinks, right |-> NoLinks,
            height |-> [n \in Entry |-> 1]]
    /\ members = {}

-----------------------------------------------------------------------------
(* Heights and rotations. *)

Height(t, n) == IF n = Nil THEN 0 ELSE t.height[n]

Update(t, n) ==
    [t EXCEPT !.height[n] = 1 + Max({Height(t, t.left[n]), Height(t, t.right[n])})]

Balance(t, n) == Height(t, t.left[n]) - Height(t, t.right[n])

Adopt(t, child, n) == IF child = Nil THEN t ELSE [t EXCEPT !.parent[child] = n]

Replace(t, old, new) ==
    LET p == t.parent[old] IN
    Adopt(IF p = Nil THEN [t EXCEPT !.root = new]
          ELSE IF t.left[p] = old THEN [t EXCEPT !.left[p] = new]
          ELSE [t EXCEPT !.right[p] = new],
          new, p)

RotateLeft(t, n) ==
    LET pivot == t.right[n]
        middle == t.left[pivot]
        moved == [Replace(t, n, pivot) EXCEPT !.left[pivot] = n, !.parent[n] = pivot,
                                              !.right[n] = middle]
    IN Update(Update(Adopt(moved, middle, n), n), pivot)

RotateRight(t, n) ==
    LET pivot == t.left[n]
        middle == t.right[pivot]
        moved == [Replace(t, n, pivot) EXCEPT !.right[pivot] = n, !.parent[n] = pivot,
                                              !.left[n] = middle]
    IN Update(Update(Adopt(moved, middle, n), n), pivot)

\* Mutant: a zig-zag is rotated once.
SettleSingle(t, n) ==
    IF Balance(t, n) > 1 THEN RotateRight(t, n)
    ELSE IF Balance(t, n) < -1 THEN RotateLeft(t, n)
    ELSE t

\* One turn of rebalance: restore the balance at n, whose height is up to date.
Settle(t, n) ==
    LET l == t.left[n]
        r == t.right[n]
    IN IF Balance(t, n) > 1
       THEN RotateRight(IF Balance(t, l) < 0 THEN RotateLeft(t, l) ELSE t, n)
       ELSE IF Balance(t, n) < -1
       THEN RotateLeft(IF Balance(t, r) > 0 THEN RotateRight(t, r) ELSE t, n)
       ELSE t

RECURSIVE Rebalance(_, _)
Rebalance(t, cursor) ==
    IF cursor = Nil THEN t
    ELSE LET u == Update(t, cursor)
             v == Settle(u, cursor)
             top == IF v = u THEN cursor ELSE v.parent[cursor]
         IN Rebalance(v, v.parent[top])

-----------------------------------------------------------------------------
(* Searching one path. *)

\* neighbors(), and the descent of insert_impl: the last node passed on either
\* side of the probe.  parent is the last node passed at all.
RECURSIVE Descend(_, _, _, _)
Descend(t, probe, cursor, seen) ==
    IF cursor = Nil THEN seen
    ELSE IF probe < cursor
    THEN Descend(t, probe, t.left[cursor], [seen EXCEPT !.parent = cursor, !.following = cursor])
    ELSE Descend(t, probe, t.right[cursor], [seen EXCEPT !.parent = cursor, !.previous = cursor])

Path(t, probe) ==
    Descend(t, probe, t.root, [parent |-> Nil, previous |-> Nil, following |-> Nil])

Id(n) == (n - 1) \div PerId

\* lookup() with last_equal: the newest generation of an id.
RECURSIVE LookupLast(_, _, _, _)
LookupLast(t, id, cursor, result) ==
    IF cursor = Nil THEN result
    ELSE IF Id(cursor) > id THEN LookupLast(t, id, t.left[cursor], result)
    ELSE LookupLast(t, id, t.right[cursor], IF Id(cursor) = id THEN cursor ELSE result)

RECURSIVE Minimum(_, _)
Minimum(t, n) == IF t.left[n] = Nil THEN n ELSE Minimum(t, t.left[n])

RECURSIVE Climb(_, _)
Climb(t, child) ==
    LET p == t.parent[child] IN
    IF p = Nil THEN Nil ELSE IF t.left[p] = child THEN p ELSE Climb(t, p)

NextNode(t, n) == IF t.right[n] # Nil THEN Minimum(t, t.right[n]) ELSE Climb(t, n)

-----------------------------------------------------------------------------
(* Insertion and removal. *)

Reset(t, n) ==
    [t EXCEPT !.parent[n] = Nil, !.left[n] = Nil, !.right[n] = Nil, !.height[n] = 1]

\* Mutant: a new least node does not become first.
InsertedNotFirst(n) ==
    LET s == Path(x, n)
        t == [Reset(x, n) EXCEPT !.parent[n] = s.parent, !.count = @ + 1]
        hung == IF s.parent = Nil THEN [t EXCEPT !.root = n, !.first = n]
                ELSE IF n < s.parent THEN [t EXCEPT !.left[s.parent] = n]
                ELSE [t EXCEPT !.right[s.parent] = n]
    IN Rebalance(hung, s.parent)

Inserted(n) ==
    LET s == Path(x, n)
        t == [Reset(x, n) EXCEPT !.parent[n] = s.parent, !.count = @ + 1,
                                 !.first = IF s.previous = Nil THEN n ELSE @]
        hung == IF s.parent = Nil THEN [t EXCEPT !.root = n]
                ELSE IF n < s.parent THEN [t EXCEPT !.left[s.parent] = n]
                ELSE [t EXCEPT !.right[s.parent] = n]
    IN Rebalance(hung, s.parent)

InsertNode(n) ==
    /\ n \notin members
    /\ x' = Inserted(n)
    /\ members' = members \cup {n}

\* A node with two children gives its place to its successor s.
Promote(t, n, s) ==
    LET lifted == IF t.parent[s] = n THEN t
                  ELSE LET u == [Replace(t, s, t.right[s]) EXCEPT !.right[s] = t.right[n]]
                       IN [u EXCEPT !.parent[u.right[s]] = s]
        v == [Replace(lifted, n, s) EXCEPT !.left[s] = lifted.left[n]]
    IN Update([v EXCEPT !.parent[v.left[s]] = s], s)

\* The tree without n, and the lowest node whose subtree became shorter.
Unhooked(t, n) ==
    IF t.left[n] = Nil THEN [tree |-> Replace(t, n, t.right[n]), start |-> t.parent[n]]
    ELSE IF t.right[n] = Nil THEN [tree |-> Replace(t, n, t.left[n]), start |-> t.parent[n]]
    ELSE LET s == Minimum(t, t.right[n]) IN
         [tree |-> Promote(t, n, s), start |-> IF t.parent[s] = n THEN s ELSE t.parent[s]]

Removed(n) ==
    LET t == IF x.first = n THEN [x EXCEPT !.first = NextNode(x, n)] ELSE x
        u == Unhooked(t, n)
    IN Rebalance([Reset(u.tree, n) EXCEPT !.count = @ - 1], u.start)

RemoveNode(n) ==
    /\ n \in members
    /\ x' = Removed(n)
    /\ members' = members \ {n}

Next == \E n \in Entry : InsertNode(n) \/ RemoveNode(n)

Spec == Init /\ [][Next]_vars

-----------------------------------------------------------------------------
(* Properties. *)

RECURSIVE InOrder(_, _)
InOrder(t, n) ==
    IF n = Nil THEN <<>>
    ELSE InOrder(t, t.left[n]) \o <<n>> \o InOrder(t, t.right[n])

Sorts(seq, S) ==
    /\ ToSet(seq) = S
    /\ \A i \in 2..Len(seq) : seq[i - 1] < seq[i]

\* The tree read from left to right is the sorted list of the members, count is
\* their number, parent and child pointers agree, a node that is out of the tree
\* keeps no stale link, and no member is out of balance by more than one, so that
\* every path an interrupt handler walks stays logarithmic.
BalancedTree ==
    /\ x \in Tree
    /\ Sorts(InOrder(x, x.root), members)
    /\ x.count = Cardinality(members)
    /\ \A n \in Entry : x.parent[n] = IF n \notin members \/ n = x.root THEN Nil
                                     ELSE CHOOSE p \in members : n \in {x.left[p], x.right[p]}
    /\ \A n \in Entry \ members : x.left[n] = Nil /\ x.right[n] = Nil
    /\ \A n \in members :
          /\ x.height[n] = 1 + Max({Height(x, x.left[n]), Height(x, x.right[n])})
          /\ Balance(x, n) \in -1..1

\* first is the least member and next() leads from it through all members;
\* insert() and neighbors() return the two members next to a node that is not in
\* the tree, which the callers splice into their own lists; lookup() with
\* last_equal finds the newest member of an id, or nothing.
QueriesExact ==
    /\ x.first = IF members = {} THEN Nil ELSE Min(members)
    /\ \A n \in Entry :
          LET below == {m \in members : m < n}
              above == {m \in members : m > n}
              previous == IF below = {} THEN Nil ELSE Max(below)
              following == IF above = {} THEN Nil ELSE Min(above)
          IN IF n \in members THEN NextNode(x, n) = following
             ELSE Path(x, n).previous = previous /\ Path(x, n).following = following
    /\ \A id \in {Id(n) : n \in Entry} :
          LET same == {n \in members : Id(n) = id} IN
          LookupLast(x, id, x.root, Nil) = IF same = {} THEN Nil ELSE Max(same)
=============================================================================
