CHECK_DEADLOCK FALSE
SPECIFICATION Spec
CONSTANTS
  PidMax = 3
  WaitPids <- SomePids
  WaitOptions = {{"WNOHANG", "WCONTINUED"}, {"WUNTRACED"}}
  Kills = {"KILL", "STOP", "TSTP", "CONT"}
  MaxOps = 5
INVARIANTS TypeOK StopsAgree
PROPERTY WaitReturns
