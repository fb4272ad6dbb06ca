SPECIFICATION Spec
CONSTANTS
  LastBlock = 12
  SizeBuckets <- TwoSizes
  TopBucketUnits = 4
  PageCapacity = 3
  CacheLog2 = 1
  AreaStart = 1
  FreeRanges <- OneRange
  Requests <- OneOfEach
  AreaRequests <- NoRequests
INVARIANTS
  NothingLost
  PagesInUse
