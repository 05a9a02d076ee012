CONSTANTS
  N = 2
  Kinds = {"replace", "create", "longname", "same", "legacy"}
  MaxCuts = 3
SPECIFICATION FairSpec
INVARIANTS NothingLost NeverStuck TerminalExact
PROPERTIES ImplementsAtomicUpdate RecoveryFinishes
