\* Two processes, one of them with a sub-interpreter.
SPECIFICATION Spec
CONSTANTS
  Processes = {1, 2, 3}
  Monitored = {1, 2}
  Collections <- MCCollections
  Losses <- MCLosses
  Captured <- MCCaptured
  Captures <- MCCaptures
  MaxTime = 2
  MaxCalls = 2
CHECK_DEADLOCK FALSE
INVARIANT OneMainThread
