CHECK_DEADLOCK FALSE
SPECIFICATION Spec
CONSTANTS
  Callouts = {c1}
  NULL = null
  CALLOUT_BUCKETS = 2
  MaxTime = 4
  MaxSkip = 1
  MaxDelay = 2
  LateReturns = TRUE
INVARIANT QuietCalloutsDoNotRun
