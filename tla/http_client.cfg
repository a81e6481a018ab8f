CONSTANTS
  r1 = r1
  r2 = r2
  r3 = r3
  r4 = r4
  Requests = {r1, r2, r3, r4}
  MaxSockets = 2
SPECIFICATION Spec
CHECK_DEADLOCK FALSE
INVARIANTS
  SocketsAreShared
  SettledHoldsNothing
PROPERTIES
  SocketsCirculate
