CONSTANTS
  Proc = {p, q, r}
  Block = {a, b, c}
  Val = {v, w}
  LOGSIZE = 3
  nlog = 3
  NULL = NULL
SPECIFICATION Spec
SYMMETRY Symmetry
INVARIANTS NoSleeperLeft
PROPERTIES Atomic
CHECK_DEADLOCK FALSE
