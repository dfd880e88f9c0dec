CONSTANTS
  Thread = {1, 2}
  threadId <- MCOwnId
  NMUTEX = 1
  NCOND = 0
  MAX_MUTEXES = 64
  MAX_THREADS = 256
  MaxCount = 4
  NULL = NULL
SPECIFICATION MutexSpec
INVARIANTS NoStrandedThread
CHECK_DEADLOCK FALSE
