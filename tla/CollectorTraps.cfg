SPECIFICATION CollectorSpec
CONSTANTS
  d1 = d1
  Device = {d1}
  Code = {"UPS_COMM_LOST"}
  OnBattery = "UPS_ON_BATTERY"
  CapacityLow = "UPS_BATTERY_CAPACITY_LOW"
  CommLost = "UPS_COMM_LOST"
  TrapOnly = {"UPS_COMM_LOST"}
  Window <- EarlyWindow
  UpdateEvery = 2
  FlapWindow = 2
  FlapRaises = 2
  FlapQuiet = 2
  CommLostAfter = 1
  CapacityHold = 2
  StoreFails = FALSE
  MaxTime = 5
  MaxAlarms = 3
  MaxCycle = 2
  MaxRestarts = 1
  TrapCode = {"UPS_COMM_LOST"}
INVARIANTS DeferredClearKept
PROPERTIES CommLossPatient
CHECK_DEADLOCK FALSE
