SPECIFICATION Spec
CONSTANTS
  Clients = {c1}
  XReadCount = 1
  MaxKlines = 2
  MaxStates = 3
  MaxErrors = 1
INVARIANTS
  EventsConsecutive
PROPERTIES
  ViewStays
CHECK_DEADLOCK FALSE
