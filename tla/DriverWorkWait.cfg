CONSTANTS
  Task = {t1, t2}
  Owner = {drv}
  NoOwner = NoOwner
  Slots = 2
  Spare = 0
  DeadlineRoom = 1
  IrqBurst = 1
  Deadlines = {1}
  MaxTickets = 2
  MaxTurns = 2
SPECIFICATION Spec
SYMMETRY Symmetry
INVARIANT PublicationReleases
CHECK_DEADLOCK FALSE
