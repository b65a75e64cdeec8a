SPECIFICATION Spec
CONSTANTS
  Revision = {1, 2}
  MaxRevisions = 2
  MaxInode = 1
  MaxFaults = 2
INVARIANT
  NoDanglingClaim
CHECK_DEADLOCK FALSE
