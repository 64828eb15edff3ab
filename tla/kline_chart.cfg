SPECIFICATION Spec
CONSTANTS
  None = None
  Width = 40
  Periods <- MCPeriods
  LevelsPerType = 1
  Props <- MCProps
  Indicators = {"vol", "ma7", "ema20", "boll"}
  Xs <- MCXs
  Ys = {0, 14}
  MaxDrawings = 1
  MaxEnabled = 1
INVARIANTS
  TypeOK
  LinesMatchState
  IndicatorsMatchSeries
PROPERTIES
  RangeIsShown
CHECK_DEADLOCK FALSE
