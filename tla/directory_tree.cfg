SPECIFICATION Spec
VIEW UpToRequest
SYMMETRY MCSymmetry
CONSTANTS
  Units = 16
  MaxLog2 = 2
  HeadersUnits = 1
  Sizes = {2, 4}
  Scenes <- MCScenes
  Children = {b1, b2, b3, b4, b5}
  LeastSplit = 4
  Placing = {"lowest"}
INVARIANTS
  NeverBroken
  BlocksAreTheTree
  NoneToMerge
  FindsNearest
  WalksBothWays
PROPERTY
  KeepsRecords
