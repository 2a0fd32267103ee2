SPECIFICATION Spec
CONSTANTS
  BTC = BTC
  ETH = ETH
  Order <- TwoSymbols
  ForwardWindow = 1
  MinRows = 1
  BatchLimit = 1
  LossPoints = 1
  Horizon = 2
  MaxRows = 4
  MaxFlaws = 2
  MaxFaults = 1
INVARIANTS
  TypeOK
  LabelSpansWindow
  LossesFromNewest
PROPERTIES
  EventuallyForecast
  EventuallyModelled
