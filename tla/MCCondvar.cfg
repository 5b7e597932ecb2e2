CHECK_DEADLOCK FALSE
SPECIFICATION Spec
CONSTANTS
  Threads = {t1, t2, t3}
  Wchans = {cv, w}
  Cv = cv
  NULL = null
  LowestPrio = 1
  MaxOps = 4
SYMMETRY Symmetry
INVARIANTS TypeOK SleepersFound SleepQueuesConserved CvWaitersCounted NoLostSignal SleepStatus
