SPECIFICATION Spec
CONSTANTS
  Tokens = {t1}
  Modes = {paper}
  SignalIds = {s1, s2}
  Consumer = consumer
  Handlers = {h1}
  MaxBuys = 2
  QueueSize = 2
  PriceSyncEnabled = FALSE
  Faults = {"crash"}
  None = None
PROPERTIES
  RestartKeepsStored
CHECK_DEADLOCK FALSE
