CONSTANTS
  t1 = t1
  t2 = t2
  Tunnels = {t1, t2}
SPECIFICATION Spec
CHECK_DEADLOCK FALSE
INVARIANTS
  SettledIsQuiet
  QuitLeavesNoKubectl
  RejectedHasNoKubectl
  Inv
PROPERTIES
  ImplementsContract
  PromiseSettles
  ProblemAnswered
