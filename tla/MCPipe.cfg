CHECK_DEADLOCK FALSE
SPECIFICATION Spec
CONSTANTS
  Size = 2
  Procs = {1, 2, 3}
  First = 1
  Fds = {0, 1}
  Files = {r, w}
  Reader = r
  Writer = w
  NULL = NULL
  Messages <- ShortAndLong
  Requests = {2}
  MaxOps = 5
INVARIANTS NoForgottenSleeper PipeLife
PROPERTY ImplementsChannel
