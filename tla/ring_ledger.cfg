\* Every interleaving of polls with GC runs whose records carry rounding.
SPECIFICATION FairSpec
CONSTANTS
  RingSize = 2
  MaxRuns = 6
  Pauses <- MCOnePause
  Roundings <- MCRoundings
  Torn = FALSE
INVARIANTS CountAccounting PauseAccounting LostSinceLastRead
PROPERTIES LedgerSpec CatchesUp
