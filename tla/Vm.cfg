SPECIFICATION Spec
CONSTANTS
  Proc = {p1, p2}
  init = p1
  PGSIZE = 2
  NPTENTRIES = 2
  KERNBASE = 8
  NKMAP = 1
  end = 1
  PHYSTOP = 32
  MAXARG = 1
  Args <- MCArgs
  Taken <- MCTaken
  Programs <- MCPrograms
  Grow <- MCGrow
  MaxCalls = 4
INVARIANTS PagesExact ArgsMapped
CHECK_DEADLOCK FALSE
