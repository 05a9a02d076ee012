CONSTANTS
  Task = {t1, t2, t3}
  Lock = {l1, l2}
  Guard = {l2}
  NoTask = NoTask
  NoLock = NoLock
  Ranks = {0, 3}
  Donated = {1}
  Steps = 1
  MaxDirect = 1
SPECIFICATION Spec
SYMMETRY Symmetry
INVARIANTS WaitersExact DonationsExact NothingForgotten InheritanceComplete
PROPERTY WorkedOffInTurn
