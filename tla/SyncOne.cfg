CONSTANTS
  Task = {t1, t2, t3}
  Queue = {m, g}
  Mutexes = {m}
  Guards = {g}
  NoQueue = NoQueue
  NoTask = NoTask
  Boot = Boot
  NoOffer = NoOffer
  Ranks = {0, 2}
  MaxGen = 4
  MaxDepth = 2
  MaxHeld = 1
  MaxOther = 1
  MaxUnwind = 1
  MaxEpoch = 3
  ValidationSteps = 4
SPECIFICATION OneSpec
SYMMETRY Symmetry
INVARIANTS GrantsMatchDepth CountsExact NoStrandedWaiter OfferExact
PROPERTIES NoBarging ImplementsLockService
CHECK_DEADLOCK FALSE
