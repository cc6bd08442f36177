SPECIFICATION FairSpec
CONSTANTS
  Desc = {d1, d2, d3}
  NULL = NULL
  MaxIndex = 2
  Buckets = 2
  MaxRefs = 2
  MaxLost = 1
PROPERTY FindEnds
