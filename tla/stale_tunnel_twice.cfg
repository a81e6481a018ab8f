CONSTANTS
  k1 = k1
  c1 = c1
  c2 = c2
  o1 = o1
  o2 = o2
  o3 = o3
  hint = hint
  typed = typed
  Keys = {k1}
  Callers = {c1, c2}
  Opens = {o1, o2, o3}
  Creds = {hint, typed}
  Hint = hint
  None = None
SPECIFICATION StaleSpec
PROPERTY StaleTunnelIsTransparent
