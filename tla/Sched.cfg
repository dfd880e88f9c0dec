CONSTANTS
  CPU = {c1, c2}
  NPROC = 2
  NULL = NULL
SPECIFICATION FairSpec
INVARIANTS
  TypeOK
  OneCpuPerStack
  StackLive
  NoLostWakeup
  NcliCounts
  NoPanic
  InterruptState
PROPERTIES
  EventuallyRuns
