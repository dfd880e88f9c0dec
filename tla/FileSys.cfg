SPECIFICATION Spec
CONSTANTS
  Proc = {p1, p2}
  NINODES = 4
  NINODE = 4
  Name = {"a", "d"}
  Paths <- MCPaths
  MaxCalls = 3
  NULL = NULL
INVARIANTS RefExact CacheCoherent LinkCounts NoCircularWait AssertionsHold
SYMMETRY Symmetry
CHECK_DEADLOCK FALSE
