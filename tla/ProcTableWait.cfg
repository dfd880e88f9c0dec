CONSTANTS
  NPROC = 3
  MaxPid = 4
  PgDir = {g1, g2, g3}
  NULL = NULL
SPECIFICATION Spec
SYMMETRY Symmetry
INVARIANTS WaitedHasExited
CHECK_DEADLOCK FALSE
