CONSTANTS
  k = k
  c1 = c1
  c2 = c2
  hint = hint
  typed = typed
  Keys = {k}
  Callers = {c1, c2}
  Creds = {hint}
  Hint = hint
  Batch <- ThreeMessages
SPECIFICATION FairSpec
CHECK_DEADLOCK FALSE
INVARIANTS
  EffectsAreBounded
  OnlyArmedRequestsWrite
  BlockedWritesNothing
  ReportIsTrue
PROPERTIES
  WritesEnd
