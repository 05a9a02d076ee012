----------------------------- MODULE MCIndexes -----------------------------
(* The two intrusive structures behind every wait: a behaviour is about a  *)
(* wait queue with interchangeable nodes, or about a tree.                 *)
EXTENDS WaitNode, TLC

CONSTANTS Keys, PerId

VARIABLES x, members, structure

T == INSTANCE TaskIndex

treeVars == <<x, members>>

IndexesInit == Init /\ T!Init /\ structure \in {"queue", "tree"}

IndexesNext ==
    /\ \/ structure = "queue" /\ Next /\ UNCHANGED treeVars
       \/ structure = "tree" /\ T!Next /\ UNCHANGED vars
    /\ UNCHANGED structure

IndexesSpec == IndexesInit /\ [][IndexesNext]_<<vars, treeVars, structure>>

Symmetry == Permutations(Node)

\* The tree of task_index.rs stays a balanced search tree (module TaskIndex).
BalancedTree == T!BalancedTree

\* first, next(), neighbors() and lookup() of task_index.rs are exact.
QueriesExact == T!QueriesExact
=============================================================================
