SPECIFICATION Spec
CONSTANTS
  Tokens = {t1}
  Modes = {paper}
  SignalIds = {s1, s2}
  Consumer = consumer
  Handlers = {h1}
  MaxBuys = 2
  QueueSize = 2
  PriceSyncEnabled = FALSE
  Faults = {"db", "redis_delete", "crash"}
  None = None
INVARIANTS
  ClosedIsGone
  InFlightExclusive
  RowsNeverAhead
CHECK_DEADLOCK FALSE
