SPECIFICATION Spec
CONSTANTS
  Tokens = {t1}
  Modes = {paper, live}
  SignalIds = {s1, s2}
  Consumer = consumer
  Handlers = {h1}
  MaxBuys = 2
  QueueSize = 2
  PriceSyncEnabled = FALSE
  Faults = {"db", "redis_get"}
  None = None
INVARIANTS
  TypeOK
  OneHeldPerToken
  SellsOnlyHeld
  NothingStranded
  StoredMatchesMemory
  RowsFollowMarket
PROPERTY ImplementsLedger
CHECK_DEADLOCK FALSE
