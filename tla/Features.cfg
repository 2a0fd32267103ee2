SPECIFICATION FSpec
CONSTANTS
  Symbols = {BTC}
  Workers = {w1, w2}
  MaxWindow = 1
  BufferSize = 3
  XReadCount = 2
  StreamMaxLen = 2
  Horizon = 2
  MaxEntries = 4
  MaxCrashes = 1
INVARIANTS
  FTypeOK
  FeatureWindow
  ReadIsStored
PROPERTIES
  CatchesUp
CHECK_DEADLOCK FALSE
