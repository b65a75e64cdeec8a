SPECIFICATION Spec
CONSTANTS
  MaxEntries = 68
  MaxOperations = 4
  ReservedEntries = 13
  MaxBlocks = 2
  Interruptions = 1
INVARIANTS
  AdmittedFits
  RemovalRegisters
  FirstPassFits
CHECK_DEADLOCK FALSE
