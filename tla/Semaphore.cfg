CONSTANTS
  Task = {t1, t2}
  Queue = {q}
  NoQueue = NoQueue
  Ranks = {0, 2}
  MaxGen = 3
  Initial = 0
  MaxCount = 1
  MaxUnwind = 2
  MaxIssued = 3
  MaxRelease = 2
SPECIFICATION FairSpec
INVARIANTS PermitConservation NoLostWakeup UnwindExact
PROPERTY HandoffArrives
CHECK_DEADLOCK FALSE
