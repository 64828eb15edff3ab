SPECIFICATION Spec
CONSTANTS
  Tabs = {"candidates", "positions"}
  Ids = {1, 2}
  Filters = {"all", "paper"}
  Limit = 1
  QueueSize = 1
  MaxRequests = 2
  MaxWrites = 2
  MaxClicks = 1
  MaxFaults = 1
  Clicks = {"tab", "filter", "refresh", "mode", "act", "add", "remove"}
  Faults = {"disconnect", "refuse", "fail"}
INVARIANTS
  TypeOK
  ListsAreOrdered
  StreamsFollowTab
  StreamShowsServer
CHECK_DEADLOCK FALSE
