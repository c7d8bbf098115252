\* A rate of four, a floor of two, ticks of any length, rounds that fall between positions.
SPECIFICATION FairSpec
CONSTANTS
  rate_ns = 4
  MIN_IDLE_NS = 2
  interval_ns = 5
  Duration = {9}
  Processes = {"r", "c"}
  MaxLate = 1
  MaxTime = 15
CHECK_DEADLOCK FALSE
INVARIANTS ReleasedAtTheEnd
PROPERTIES TicksAreSpaced RssKeepsUp RunFinishes
