CHECK_DEADLOCK FALSE
SPECIFICATION Spec
CONSTANTS
  PidMax = 4
  WaitPids <- AnyPid
  WaitOptions = {{}}
  Kills = {}
  MaxOps = 6
INVARIANTS GroupsConsistent JobcExact NoMissedChild
