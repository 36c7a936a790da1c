SPECIFICATION FairSpec
CONSTANTS
  app01 = app01
  app02 = app02
  None = None
  Node = {app01, app02}
  Front = {app01, app02}
  Drifting = {}
  Batch = 2
  MaxRows = 1
  MaxTrouble = 2
PROPERTIES Drains
CHECK_DEADLOCK FALSE
