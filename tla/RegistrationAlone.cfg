SPECIFICATION LiveSpec
CONSTANTS
  p1 = p1
  p2 = p2
  Invocations <- Alone
  MaxApplies = 1
  MaxFaults = 4
  MaxRevision = 1
INVARIANTS
  InputFrozen
PROPERTY Recovers
