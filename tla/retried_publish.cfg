CONSTANTS
  k = k
  c1 = c1
  c2 = c2
  hint = hint
  typed = typed
  Keys = {k}
  Callers = {c1}
  Creds = {hint}
  Hint = hint
  Batch <- TwoMessages
SPECIFICATION Spec
CHECK_DEADLOCK FALSE
INVARIANT RetryIsTransparent
