SPECIFICATION Spec
CONSTANTS
  Writer = {w1, w2}
  Name = {a, b, c}
  MaxSize = 1
  MaxEntries = 1
  MaxBytes = 2
  MaxGeneration = 3
SYMMETRY Interchangeable
INVARIANTS
  MeasureExact
  BoundKept
CHECK_DEADLOCK FALSE
