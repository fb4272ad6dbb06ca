SPECIFICATION Spec
VIEW UpToRequest
CONSTANTS
  Names = {1, 2, 3}
  Sizes = {1}
  Stamps = {0, 1}
  LeafCapacity = 2
  ParentCapacity = 2
  RootNumber = 0
  Blocks = {1, 2, 3, 4, 5, 6}
  HandleNames = {2}
  FlushEachCall = FALSE
  LongNames = FALSE
PROPERTY
  KeepsMap
