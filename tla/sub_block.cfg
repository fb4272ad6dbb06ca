SPECIFICATION Spec
CONSTANTS
  Units = 8
  MaxLog2 = 2
  HeadersUnits = 1
  Sizes = {1, 2, 3}
INVARIANTS
  ListsLinked
  WholeBlocksListed
  MarksTellFree
PROPERTY
  ImplementsHeap
