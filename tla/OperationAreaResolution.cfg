SPECIFICATION Spec
CONSTANTS
  MaxEntries = 68
  MaxOperations = 4
  ReservedEntries = 13
  MaxBlocks = 2
  Interruptions = 0
INVARIANT ResolutionFits
CHECK_DEADLOCK FALSE
