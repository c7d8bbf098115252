\* A child pid handed on between ticks; reads fail only for the dead.
SPECIFICATION Spec
CONSTANTS
  Pids = {"r", "c"}
  Root = "r"
  RingSize = 1
  MinIdle = 1
  Timeout = 0
  MaxTime = 4
  MaxHolders = 2
  MaxRecords <- MCChildCollects
  Transients = FALSE
  Suppressible = FALSE
  Stoppable = FALSE
INVARIANTS NothingInherited ReuseDropsNothing
CHECK_DEADLOCK FALSE
