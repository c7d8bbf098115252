\* Records nobody exported, dropped as if they had been.
SPECIFICATION Spec
CONSTANTS
  Pids = {"r", "c"}
  Root = "r"
  RingSize = 1
  MinIdle = 1
  Timeout = 0
  MaxTime = 4
  MaxHolders = 1
  MaxRecords <- MCTargetCollects
  Transients = TRUE
  Suppressible = FALSE
  Stoppable = FALSE
INVARIANT DroppedWereExported
CHECK_DEADLOCK FALSE
