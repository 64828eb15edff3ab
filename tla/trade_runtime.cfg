SPECIFICATION FairSpec
CONSTANTS
  Tokens = {t1}
  Modes = {paper}
  SignalIds = {s1, s2}
  Consumer = consumer
  Handlers = {h1}
  MaxBuys = 1
  QueueSize = 1
  PriceSyncEnabled = TRUE
  Faults = {"redis_save", "redis_get", "redis_delete"}
  None = None
PROPERTIES
  InFlightReleased
  SalesAreRecorded
CHECK_DEADLOCK FALSE
