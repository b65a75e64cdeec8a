SPECIFICATION Spec
CONSTANTS
  Invocation = {i1, i2}
  Run = {r1, r2}
  Job = {a, b}
  ContextOf <- OneContext
  MaxKills = 2
SYMMETRY Interchangeable
INVARIANTS
  AdapterKeepsJob
  ClaimUndisturbed
  MaterialRecorded
  ReportSound
PROPERTY
  NoneBesideTheLeft
CHECK_DEADLOCK FALSE
