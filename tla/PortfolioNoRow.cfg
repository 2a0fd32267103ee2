SPECIFICATION Spec
CONSTANTS
  Day = 3
  Offset = 1
  Returns <- MCReturns
  InitialEquity = 1
  AdaptsDict = FALSE
  FirstNow = 3
  Horizon = 8
  MaxFaults = 0
PROPERTIES
  EventuallyARow
CHECK_DEADLOCK FALSE
