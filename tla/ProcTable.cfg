CONSTANTS
  NPROC = 3
  MaxPid = 4
  PgDir = {g1, g2, g3}
  NULL = NULL
SPECIFICATION FairProcSpec
INVARIANTS ParentAlive AddressSpaces PidUnique
PROPERTIES WaitReturns
CHECK_DEADLOCK FALSE
