\* A removal with both deferred phases, any of its probes refusing.
SPECIFICATION Spec
CONSTANTS
  N = 6
  Deps <- RemovalDeps
  Exclusive <- NoKeys
  Group <- NoThrottles
  Online = {2, 6}
  PreStop = {3}
  Probed = {4, 5}
  OpVerb = "destroy"
  Selections <- WholePlan
  Bound = 2
  Throttle = 1
  MaxFaults = 2
CHECK_DEADLOCK FALSE
INVARIANTS
  PhasesInOrder
PROPERTIES
  InvocationEnds
