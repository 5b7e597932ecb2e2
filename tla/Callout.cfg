CHECK_DEADLOCK FALSE
SPECIFICATION FairSpec
CONSTANTS
  Callouts = {c1, c2}
  NULL = null
  CALLOUT_BUCKETS = 2
  MaxTime = 5
  MaxSkip = 3
  MaxDelay = 3
  LateReturns = FALSE
INVARIANTS TypeOK WheelConsistent QuietCalloutsDoNotRun NobodySleepsForNothing
PROPERTIES DueAreDelegated DelegatedRun DrainReturns
