CONSTANTS
  Task = {t1, t2, t3}
  Queue = {q}
  NoQueue = NoQueue
  Ranks = {0, 2}
  MaxGen = 3
  MaxCompleted = 2
SPECIFICATION SignalsSpec
INVARIANTS NoLostWakeup NothingHeldBack
PROPERTIES OneReleasePerSignal ManualSignalReaches OneUse
CHECK_DEADLOCK FALSE
