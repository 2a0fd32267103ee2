SPECIFICATION Spec
CONSTANTS
  Clients = {c1}
  XReadCount = 1
  MaxKlines = 2
  MaxStates = 2
  MaxErrors = 0
PROPERTIES
  EveryStateBroadcast
CHECK_DEADLOCK FALSE
