SPECIFICATION Spec
CONSTANTS
  app01 = app01
  app02 = app02
  None = None
  Node = {app01, app02}
  Front = {app01}
  Drifting = {app02}
  Batch = 2
  MaxRows = 2
  MaxTrouble = 1
INVARIANTS TypeOK EventsInOrder ClockAgrees
PROPERTIES NothingLost RetryAfterKept
CHECK_DEADLOCK FALSE
