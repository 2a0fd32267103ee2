SPECIFICATION Spec
CONSTANTS
  Symbols = {BTC}
  History = 2
  Warmup = 1
  MinFeatureRows = 1
  MinPriceRows = 3
  MaxRetries = 2
  MaxRows = 3
  MaxFailed = 1
  MaxTroubles = 1
  MaxRelaunches = 1
INVARIANTS
  RunsOnData
PROPERTIES
  AllRun
CHECK_DEADLOCK FALSE
