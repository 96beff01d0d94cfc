SPECIFICATION FairSpec
CONSTANTS
  MaxCaptions = 2
  Concurrency = 1
  MaxUpdates = 2
  MaxFailures = 1
INVARIANTS
  PoolIsConsistent
  NoCaptionForgotten
PROPERTIES
  ManualIsKept
  WaitsEnd
