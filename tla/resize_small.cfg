\* Every size of the lower categories: entry, blocks, large blocks.
SPECIFICATION Spec
CONSTANTS
  InlineCapacity = 1
  BlockSize = 2
  LargeBlockSize = 4
  ClusterSize = 8
  BlocksMaxCount = 2
  LargeBlocksMaxCount = 2
  ClustersMaxCount = 1
  ClusterMetadataBlocksMaxCount = 2
  ClustersPerMetadataBlock = 1
  AddressLimit = 18
  SectorSize = 2
  Placing = {"lowest", "highest"}
  LastAreaBlock = 11
  AreaBlocks <- MCAreaBlocks
  OtherBlocks = {1}
  FileSizes <- DenseSizes
  WriteExtents <- DenseWrites
INVARIANTS
  NothingLeaks
  OldBytesUntilCommit
PROPERTIES
  KeepsPromise
