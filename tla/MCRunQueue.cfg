SPECIFICATION Spec
CONSTANTS
  Thread = {x1, x2, x3}
  NULL = NULL
  Quantum = 2
  MaxTime = 3
SYMMETRY Symmetry
INVARIANTS
  WellFormed
  HaltsInTime
PROPERTY IsRunLoop
