SPECIFICATION Spec
CONSTANTS
  None = None
  Amounts = {0, 20}
  Lists <- MCLists
  Instants <- MCInstants
  MaxUpdates = 2
  MaxClicks = 2
  MaxOthers = 1
INVARIANTS
  TypeOK
  CommandsAreSerial
  ControlsFollowServer
  TablesReadBack
CHECK_DEADLOCK FALSE
