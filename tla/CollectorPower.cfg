SPECIFICATION CollectorSpec
CONSTANTS
  d1 = d1
  Device = {d1}
  Code = {"UPS_ON_BATTERY", "UPS_BATTERY_CAPACITY_LOW"}
  OnBattery = "UPS_ON_BATTERY"
  CapacityLow = "UPS_BATTERY_CAPACITY_LOW"
  CommLost = "UPS_COMM_LOST"
  TrapOnly = {}
  Window <- NoWindow
  UpdateEvery = 2
  FlapWindow = 2
  FlapRaises = 2
  FlapQuiet = 2
  CommLostAfter = 1
  CapacityHold = 1
  StoreFails = FALSE
  MaxTime = 3
  MaxAlarms = 3
  MaxCycle = 2
  MaxRestarts = 1
  TrapCode = {"UPS_ON_BATTERY"}
PROPERTIES EngineKept CapacitySilentOnBattery CapacityHoldKept StandingAlarmKept
CHECK_DEADLOCK FALSE
