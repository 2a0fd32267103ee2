SPECIFICATION PSpec
CONSTANTS
  BTC = BTC
  ETH = ETH
  Order <- TwoSymbols
  Limit = 2
  StreamMaxLen = 100
  DsnSet = {TRUE}
  Horizon = 2
  MaxRuns = 1
  MaxUpdates = 0
  MaxFaults = 1
  MaxRetries = 1
  InitialBackoff = 2
  MaxBackoff = 3
  RetryAfters = {5}
  Calls = 2
INVARIANTS
  ITypeOK
  NoGap
  SettledUnlessGlitch
  RequestsBounded
  RetryAfterHonoured
  WaitsBounded
PROPERTIES
  BackfillEnds
  LiveDrained
CHECK_DEADLOCK FALSE
