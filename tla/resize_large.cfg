\* Selected sizes of the upper categories on a device where a file in clusters
\* can be rebuilt beside its old copy.
SPECIFICATION FairSpec
CONSTANTS
  InlineCapacity = 1
  BlockSize = 2
  LargeBlockSize = 4
  ClusterSize = 8
  BlocksMaxCount = 2
  LargeBlocksMaxCount = 2
  ClustersMaxCount = 2
  ClusterMetadataBlocksMaxCount = 2
  ClustersPerMetadataBlock = 2
  AddressLimit = 33
  SectorSize = 2
  Placing = {"lowest"}
  LastAreaBlock = 31
  AreaBlocks <- MCAreaBlocks
  OtherBlocks = {1, 6}
  FileSizes <- SparseSizes
  WriteExtents <- SparseWrites
INVARIANTS
  TargetDurableAtCommit
  CachedBlocksOwned
PROPERTIES
  FollowsOwnership
  CallReturns
