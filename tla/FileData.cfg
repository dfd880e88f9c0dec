SPECIFICATION Spec
CONSTANTS
  BSIZE = 2
  NDIRECT = 1
  Inum <- MCInum
  nblocks = 8
  nlog = 6
  LOGSIZE = 6
  Proc = {1, 2}
  NFILE = 3
  NOFILE = 2
  Sizes = {1, 2, 4}
  MaxCalls = 4
  Contents <- MCContents
  NULL = NULL
INVARIANTS FileRefExact ContentsExact BlocksExact TransFits
CHECK_DEADLOCK FALSE
