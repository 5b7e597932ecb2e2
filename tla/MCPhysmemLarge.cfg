SPECIFICATION Spec
CONSTANTS
  NQueues = 3
  Segs <- Large
  MaxHeld = 2
INVARIANT ManagedOnFreeq
