SPECIFICATION Spec
CONSTANTS
  Device = {d}
  Probe = {}
  Priority = {P1, P2}
  Window = 1
  Ahead = 1
  VerifyWindow = 1
  MaxTime = 3
  DownAfter = 1
  MaxTickets = 2
  MaxActs = 4
  MaxFaults = 1
INVARIANTS SwallowedBriefly FailedIsReopened
PROPERTIES NoRevival
