\* Reads and listings that fail on living processes: a pid is dropped and comes back.
SPECIFICATION Spec
CONSTANTS
  Pids = {"r", "c"}
  Root = "r"
  RingSize = 1
  MinIdle = 1
  Timeout = 1
  MaxTime = 4
  MaxHolders = 1
  MaxRecords <- MCChildCollects
  Transients = TRUE
  Suppressible = FALSE
  Stoppable = FALSE
INVARIANTS ExportedOnce LivesInOrder PidStateAgrees TargetIsFollowed
PROPERTIES RegistrySpec
CHECK_DEADLOCK FALSE
