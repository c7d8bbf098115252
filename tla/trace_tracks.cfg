\* Two processes, every order of reads, ticks, retirements and flushes.
SPECIFICATION Spec
CONSTANTS
  Processes = {1, 2, 3}
  Monitored = {1, 2}
  Collections <- MCCollections
  Losses <- MCLosses
  Captured <- MCCaptured
  Captures <- MCCaptures
  MaxTime = 2
  MaxCalls = 2
CHECK_DEADLOCK FALSE
INVARIANTS DescribedFirst BarIsWhole RowsAreOut SlicesReadBack SpansAreLaminar CombinePathsAgree
