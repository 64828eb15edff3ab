SPECIFICATION FairSpec
CONSTANTS
  None = None
  MaxBars = 3
  MaxAttempts = 1
  MaxFaults = 1
  Requests = {"close"}
  Faults = {"redis", "loss", "trade", "feed"}
INVARIANTS
  TypeOK
  PositionIsMonitored
PROPERTIES
  NoReentryOnExitBar
  BoughtResolves
  SellAnswered
CHECK_DEADLOCK FALSE
