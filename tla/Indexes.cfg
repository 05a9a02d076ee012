CONSTANTS
  Node = {n1, n2, n3, n4}
  Null = Null
  Ranks = {0, 2}
  MaxOrder = 3
  MaxGen = 3
  Keys = 12
  PerId = 2
SPECIFICATION IndexesSpec
SYMMETRY Symmetry
INVARIANTS ListExact IndexExact BalancedTree QueriesExact
PROPERTY ImplementsRankedQueue
CHECK_DEADLOCK FALSE
