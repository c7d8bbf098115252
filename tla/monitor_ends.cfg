\* Every run ends: the target exits or a signal arrives.
SPECIFICATION FairSpec
CONSTANTS
  Pids = {"r", "c"}
  Root = "r"
  RingSize = 1
  MinIdle = 0
  Timeout = 1
  MaxTime = 2
  MaxHolders = 1
  MaxRecords <- MCNoneCollects
  Transients = FALSE
  Suppressible = TRUE
  Stoppable = TRUE
PROPERTIES RunEnds
CHECK_DEADLOCK FALSE
