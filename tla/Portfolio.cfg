SPECIFICATION Spec
CONSTANTS
  Day = 3
  Offset = 1
  Returns <- MCReturns
  InitialEquity = 1
  AdaptsDict = TRUE
  FirstNow = 3
  Horizon = 8
  MaxFaults = 2
INVARIANTS
  OncePerSlot
  NoMoveCountedTwice
  PublishedIsCommitted
PROPERTIES
  LedgerSpec
  EverySlotAnswered
CHECK_DEADLOCK FALSE
