SPECIFICATION Spec
CONSTANTS
  RingSize = 3
  MaxRuns = 6
  Pauses <- MCPausesWithZero
  Roundings <- MCExact
  Torn = TRUE
INVARIANTS
  NeverOvercounts
