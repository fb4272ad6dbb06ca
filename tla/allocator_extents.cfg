SPECIFICATION Spec
CONSTANTS
  LastBlock = 15
  SizeBuckets <- ThreeSizes
  TopBucketUnits = 2
  PageCapacity = 20
  CacheLog2 = 0
  AreaStart = 0
  FreeRanges <- OneRange
  Requests <- Several
  AreaRequests <- TwoPairs
INVARIANTS
  NothingLost
  UnitsAligned
  WholeUnitsFound
  RefusedOnlyWhenShort
