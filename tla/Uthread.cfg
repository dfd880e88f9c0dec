CONSTANTS
  MAX_UTHREADS = 4
  PRIORITIES = 2
  MaxTid = 5
  MAIN = MAIN
  NULL = NULL
SPECIFICATION FairSpec
INVARIANTS OneStackEach
PROPERTIES HighestFirst NoStarvation
CHECK_DEADLOCK FALSE
