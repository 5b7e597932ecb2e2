SPECIFICATION Spec
CONSTANTS
  NQueues = 3
  Segs <- AroundKernel
  MaxHeld = 3
INVARIANTS PagesConserved FreeListsExact NeverRunsDry BuddiesMerged
