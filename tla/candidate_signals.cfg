SPECIFICATION Spec
CONSTANTS
  None = None
  MaxBars = 3
  MaxAttempts = 1
  MaxFaults = 1
  Requests = {"delete"}
  Faults = {"redis", "publish", "loss", "late", "crash"}
PROPERTY EachSignalSentOnce
CHECK_DEADLOCK FALSE
