\* Two threads, a buffer of two, and a reader that is joined before the close.
SPECIFICATION FairSpec
CONSTANTS
  Processes = {p1, p2}
  Threshold = 2
  MaxAdds = 3
  Late = FALSE
INVARIANTS NothingLostOrDoubled RowsFollowLives CmdlineFirst
PROPERTIES LogSpec RunIsWritten
CHECK_DEADLOCK FALSE
