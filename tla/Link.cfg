SPECIFICATION FairSpec
CONSTANTS
  Bases = 2
  Batch = 2
  MaxEvents = 3
  MaxTelemetry = 1
  MaxFaults = 2
  MaxRestarts = 1
  MaxPurges = 1
INVARIANTS TypeOK Accounted OrderedApart
PROPERTIES Settles
CHECK_DEADLOCK FALSE
