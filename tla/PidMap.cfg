SPECIFICATION Spec
CONSTANTS
  Task = {t1, t2, t3}
  NULL = NULL
  MaxPid = 4
  Buckets = 2
  MaxRefs = 2
  MaxLost = 1
INVARIANTS
  WellFormed
  LookupExact
