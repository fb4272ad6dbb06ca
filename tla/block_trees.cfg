CONSTANTS
  Buckets = {0, 1, 2}
  First = 0
  Keys <- MCKeys
  Builds <- MCBuilds
SPECIFICATION Spec
VIEW UpToRequest
CHECK_DEADLOCK FALSE
INVARIANTS NodesInTrees FindsNearest BeginIsLeast
PROPERTIES KeepsKeys WalksInOrder
