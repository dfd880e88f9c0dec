CONSTANTS
  Thread = {1, 2}
  threadId <- MCOwnId
  NMUTEX = 1
  NCOND = 0
  MAX_MUTEXES = 4
  MAX_THREADS = 16
  MaxCount = 16
  NULL = NULL
SPECIFICATION MutexSpec
INVARIANTS IsInQueueExact
CHECK_DEADLOCK FALSE
