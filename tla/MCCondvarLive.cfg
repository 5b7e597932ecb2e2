CHECK_DEADLOCK FALSE
SPECIFICATION FairSpec
CONSTANTS
  Threads = {t1, t2, t3}
  Wchans = {cv, w}
  Cv = cv
  NULL = null
  LowestPrio = 0
  MaxOps = 3
PROPERTIES TimedSleepsEnd SignalsInterrupt
