CONSTANTS
  Reader = {r1}
  Writer = {w1, w2}
  Byte = {a, b}
  PIPESIZE = 2
  UINT = 4
  MaxN = 3
  NULL = NULL
SPECIFICATION FairSpec
INVARIANTS NoForgottenSleeper
PROPERTIES FIFO BlockedReturns
CHECK_DEADLOCK FALSE
