SPECIFICATION Spec
CONSTANTS
  None = None
  Tokens = {"A", "B"}
  LevelAnswers <- MCLevelAnswers
  BacktestAnswers <- MCBacktestAnswers
  Signals <- MCSignals
  Positions <- MCPositions
  Pools <- MCPools
  MaxRequests = 2
  MaxClicks = 3
  Clicks = {"type", "deleting", "blacklisting", "levels", "selected", "position",
            "candidate", "backtest", "snapshot", "view", "range", "window", "level",
            "trade", "group", "levelView"}
INVARIANTS
  TypeOK
  TradesMatchChart
  LabelMatchesChart
  BusyMeansInFlight
  FindingsShownOnce
  NearestIsNearest
PROPERTIES
  ChosenTokenKept
  FocusLandsOnBand
CHECK_DEADLOCK FALSE
