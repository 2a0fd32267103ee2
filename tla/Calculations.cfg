SPECIFICATION CSpec
CONSTANTS
  Assets = {BTC, ETH, SOL}
  Unit = 60
  Cap = 24
  Grain = 6
  MaxMove = 12
  Equities = {0, 1, 2, 3}
  NULL = NULL
  MaxRows = 5
  RawLimits = {0, 1, 3, 9}
  DefaultLimit = 4
  MaxLimit = 5
  None = None
INVARIANTS
  Constrained
  OrderKept
  FewRounds
  DrawdownIsWorst
  ReturnsOfAdjacent
  VolatilityKnown
