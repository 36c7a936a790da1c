SPECIFICATION FairSpec
CONSTANTS
  Caller = {c1, c2, c3}
  Op <- MCOp
  Value <- MCValue
  MaxSockets = 3
  MaxFaults = 1
INVARIANTS ReplyIsOwn
PROPERTIES LockoutEnds
CHECK_DEADLOCK FALSE
