SPECIFICATION Spec
CONSTANTS
  Desc = {d1, d2}
  NULL = NULL
  MaxIndex = 2
  Buckets = 1
  MaxRefs = 2
  MaxLost = 1
SYMMETRY Symmetry
INVARIANTS
  WellFormed
  NumberNamesOne
PROPERTY OnlyStaleHeads
