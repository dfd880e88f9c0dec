CONSTANTS
  NPROC = 4
  MaxPid = 4
  PgDir = {g1, g2, g3}
  NULL = NULL
SPECIFICATION Spec
SYMMETRY Symmetry
INVARIANTS SingleFinalExit
CHECK_DEADLOCK FALSE
