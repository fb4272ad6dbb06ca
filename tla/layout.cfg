\* Every size of a miniature geometry whose 32-bit bound, not its metadata
\* blocks, limits the largest file (as with 8 KiB blocks in the code).
SPECIFICATION Spec
CONSTANTS
  InlineCapacity = 3
  BlockSize = 2
  LargeBlockSize = 6
  ClusterSize = 16
  BlocksMaxCount = 5
  LargeBlocksMaxCount = 5
  ClustersMaxCount = 4
  ClusterMetadataBlocksMaxCount = 4
  ClustersPerMetadataBlock = 3
  AddressLimit = 192
  FileSizes <- EverySize
INVARIANTS
  WithinDocumentedRange
  UnitsCoverFile
PROPERTY
  RebuildOnlyWhenForced
