SPECIFICATION Spec
CONSTANTS
  DEBOUNCE = 1
  HOUR = 4
  MAX_PER_HOUR = 2
  MaxTime = 7
  MaxNews = 4
  MaxDirect = 2
  MaxRestarts = 1
INVARIANTS OpinionFollowsNews CapKept
CHECK_DEADLOCK FALSE
