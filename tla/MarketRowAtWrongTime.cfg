SPECIFICATION MSpec
CONSTANTS
  BTC = BTC
  ETH = ETH
  Order <- OneSymbol
  Limit = 2
  StreamMaxLen = 100
  DsnSet = {TRUE}
  Horizon = 3
  MaxRuns = 1
  MaxUpdates = 0
  MaxFaults = 1
  Workers = {w1}
  MaxWindow = 1
  BufferSize = 3
  XReadCount = 10
  MaxCrashes = 0
INVARIANTS
  RowAtItsOwnTime
CHECK_DEADLOCK FALSE
