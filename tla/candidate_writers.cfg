SPECIFICATION FairSpec
CONSTANTS
  None = None
  MaxBars = 1
  MaxAttempts = 0
  MaxFaults = 1
  Requests = {"blacklist", "trim", "symbol"}
  Faults = {"slow"}
PROPERTIES
  SymbolKept
  BlacklistedLeaves
CHECK_DEADLOCK FALSE
