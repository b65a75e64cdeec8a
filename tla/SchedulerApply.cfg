\* An apply of four blocks over any sequence of invocations with three
\* faults, which repeating it completes once they cease.
SPECIFICATION Spec
CONSTANTS
  N = 4
  Deps <- ApplyDeps
  Exclusive <- ApplyExclusive
  Group <- ApplyGroup
  Online = {}
  PreStop = {}
  Probed = {}
  OpVerb = "apply"
  Selections <- ApplySelections
  Bound = 2
  Throttle = 1
  MaxFaults = 3
CHECK_DEADLOCK FALSE
INVARIANTS
  ResourcesHeldApart
  DependenciesDone
  OperationSound
  WayOn
PROPERTIES
  NothingBesideUnproved
  ImplementsContract
  Converges
