\* One pid held in turn, two threads on its client, two connections, two messages.
SPECIFICATION ControlSpec
CONSTANTS
  Pids = {"p"}
  Threads = {t1, t2}
  MaxEpoch = 2
  MaxTime = 1
  Script <- MCScript
  MaxLinks = 2
SYMMETRY Symmetry
CHECK_DEADLOCK FALSE
INVARIANTS HandledInOrder MarksStayInOrder DrainLeavesNothing OpenIsCurrent SuppressionFollows
           CloseNeverHangs
PROPERTIES ClosedLivesStand
