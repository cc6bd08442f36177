SPECIFICATION PoolSpec
CONSTANTS
  Proc = {p1, p2, p3}
  Base = 4
  Capacity = 2
  MaxUsed = 5
INVARIANTS
  TypeOK
  MutualExclusion
  Partition
PROPERTIES
  HandedOverInOrder
  StarvationFree
  IsIndexPool
