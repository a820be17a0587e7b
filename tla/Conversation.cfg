\* Pages of one message, polls of two pages at most, a retry --reset on the way.
SPECIFICATION FairSpec
CONSTANTS
  Block = 2
  Limit = 1
  Poll = {1, 2}
  MaxPolledPages = 2
  MaxLines = 3
  MaxAccidents = 1
INVARIANTS
  ScreenIsTrue
PROPERTIES
  ScreenCatchesUp
CHECK_DEADLOCK FALSE
