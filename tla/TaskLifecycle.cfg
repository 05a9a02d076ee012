CONSTANTS
  Task = {t1, t2}
  Context = {c1, c2}
  NoTask = NoTask
  Critical = {t2}
  MaxPins = 1
  MaxFails = 1
SPECIFICATION FairSpec
INVARIANTS ReleaseExact NoticeKept
PROPERTY ReapedInTurn
CHECK_DEADLOCK FALSE
