SPECIFICATION Spec
CONSTANTS
  Tabs = {"candidates", "positions"}
  Ids = {1, 2}
  Filters = {"all", "paper"}
  Limit = 1
  QueueSize = 1
  MaxRequests = 2
  MaxWrites = 1
  MaxClicks = 2
  MaxFaults = 1
  Clicks = {"tab", "filter"}
  Faults = {}
INVARIANT FilterIsShown
CHECK_DEADLOCK FALSE
