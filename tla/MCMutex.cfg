SPECIFICATION FairSpec
CONSTANTS
  Threads = {t1, t2, t3}
  Idle = idle
  NULL = null
  LowestPrio = 1
  RQ_PPQ = 1
  Mutexes = {1, 2}
  Recursive = {2}
  MaxCount = 1
  MaxSetPrio = 1
INVARIANTS TypeOK RunqConsistent NoMissedPreemption NoLostWaiter TurnstilesConserved BlockedSorted PriorityInherited AssertionsHold
PROPERTIES ImplementsLock LocksReturn
