SPECIFICATION Spec
VIEW UpToNumbers
CONSTANTS
  Names = {1, 2, 3, 4, 5}
  Sizes = {1, 2}
  Stamps = {0}
  LeafCapacity = 4
  ParentCapacity = 3
  RootNumber = 0
  Blocks = {1, 2, 3, 4, 5, 6, 7, 8, 9, 10, 11, 12, 13, 14, 15, 16}
  HandleNames = {2, 4}
  FlushEachCall = TRUE
  LongNames = FALSE
INVARIANTS
  HandlesCurrent
  NoBlockLost
  NoAssertFails
PROPERTIES
  KeepsMap
