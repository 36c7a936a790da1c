SPECIFICATION FairSpec
CONSTANTS
  Device = {}
  Probe = {p}
  Priority = {P2}
  Window = 1
  Ahead = 0
  VerifyWindow = 1
  DownAfter = 1
  MaxTime = 5
  MaxTickets = 0
  MaxActs = 4
  MaxFaults = 1
INVARIANTS OutageFollowed
PROPERTIES SilenceIsTold
