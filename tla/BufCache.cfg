CONSTANTS
  Proc = {p, q}
  Sector = {a, b, c}
  Val = {v, w}
  NBUF = 2
  MaxPinned = 1
  NULL = NULL
SPECIFICATION FairSpec
INVARIANTS OneBuffer BreadContents QueueExact
PROPERTIES IderwReturns BgetWoken
CHECK_DEADLOCK FALSE
