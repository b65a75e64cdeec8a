SPECIFICATION Spec
CONSTANTS
  p1 = p1
  p2 = p2
  Invocations <- Pair
  MaxApplies = 2
  MaxFaults = 1
  MaxRevision = 0
SYMMETRY Interchangeable
INVARIANTS
  DisposalSafe
  HoldingsKept
  EffectsOwned
