SPECIFICATION Spec
CONSTANTS
  Threads = {t1, t2, t3}
  Idle = idle
  NULL = null
  LowestPrio = 2
  RQ_PPQ = 1
  Mutexes = {1, 2}
  Recursive = {}
  MaxCount = 1
  MaxSetPrio = 0
SYMMETRY Symmetry
INVARIANT NoPanic
