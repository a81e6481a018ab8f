CONSTANTS
  r1 = r1
  r2 = r2
  r3 = r3
  r4 = r4
  Requests = {r1, r2}
  MaxSockets = 1
SPECIFICATION Spec
CHECK_DEADLOCK FALSE
PROPERTIES
  RequestsSettle
