CHECK_DEADLOCK FALSE
SPECIFICATION Spec
CONSTANTS
  Threads = {t1, t2}
  Wchans = {cv, w}
  Cv = cv
  NULL = null
  LowestPrio = 0
  MaxOps = 2
INVARIANTS TimedSleepsInterruptible
