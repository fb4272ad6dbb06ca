SPECIFICATION Spec
CONSTANTS
  EntriesCount = 10
  Counts = {1, 2, 3}
INVARIANTS
  ListInOrder
  Coalesced
  FreeOrHeld
PROPERTY
  ImplementsPool
