SPECIFICATION Spec
CONSTANTS
  Revision = {1, 2, 3}
  MaxRevisions = 2
  MaxInode = 2
  MaxFaults = 4
INVARIANTS
  ReadyWhole
  DirectoryAccounted
  OnlyLeftClaimDangles
CHECK_DEADLOCK FALSE
