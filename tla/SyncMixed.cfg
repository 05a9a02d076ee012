CONSTANTS
  Task = {t1, t2}
  Queue = {m, g}
  Mutexes = {m}
  Guards = {g}
  NoQueue = NoQueue
  NoTask = NoTask
  Boot = Boot
  NoOffer = NoOffer
  Ranks = {0, 2}
  MaxGen = 2
  MaxDepth = 1
  MaxHeld = 1
  MaxOther = 0
  MaxUnwind = 1
  MaxEpoch = 2
  ValidationSteps = 4
SPECIFICATION FairSpec
INVARIANT NoCircularWait
PROPERTY HandoverResolves
CHECK_DEADLOCK FALSE
