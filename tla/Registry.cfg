SPECIFICATION Spec
CONSTANTS
  Conns = {c1, c2}
  Broadcasters = {events, snapshots}
INVARIANTS
  CounterMatches
  NoWriteAfterClose
PROPERTIES
  GoneIsCleanedUp
  BroadcastEnds
CHECK_DEADLOCK FALSE
