SPECIFICATION FairSpec
CONSTANTS
  Thread = {a, b}
  Frame = {f1, f2, f3}
  NULL = NULL
  StackMax = 2
  MaxClaims = 1
INVARIANTS
  StacksOwned
  FaultsKept
PROPERTIES
  FramesLostOnlyByRaces
  FaultAnswered
  KilledIsFreed
