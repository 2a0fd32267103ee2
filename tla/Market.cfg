SPECIFICATION MSpec
CONSTANTS
  BTC = BTC
  ETH = ETH
  Order <- OneSymbol
  Limit = 2
  StreamMaxLen = 100
  DsnSet = {TRUE}
  Horizon = 3
  MaxRuns = 2
  MaxUpdates = 1
  MaxFaults = 1
  Workers = {w1}
  MaxWindow = 1
  BufferSize = 3
  XReadCount = 2
  MaxCrashes = 1
INVARIANTS
  NoCandleMissing
  FeaturesRightInOrder
PROPERTIES
  DoneAfterHistory
  StoreSpec
CHECK_DEADLOCK FALSE
