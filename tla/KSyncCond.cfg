CONSTANTS
  Thread = {1, 2}
  threadId <- MCOwnId
  NMUTEX = 1
  NCOND = 1
  MAX_MUTEXES = 2
  MAX_THREADS = 2
  MaxCount = 1
  NULL = NULL
SPECIFICATION Spec
INVARIANTS LockOrder
CHECK_DEADLOCK FALSE
