CONSTANTS
  Thread = {1, 2, 3}
  threadId <- MCThreadId
  NMUTEX = 1
  NCOND = 0
  MAX_MUTEXES = 3
  MAX_THREADS = 3
  MaxCount = 2
  NULL = NULL
SPECIFICATION MutexSpec
INVARIANTS MutualExclusion LockedByOwner
CHECK_DEADLOCK FALSE
