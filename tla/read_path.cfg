CONSTANTS
  t1 = t1
  t2 = t2
  reader = reader
  stored = stored
  typed = typed
  Targets = {t1}
  Reader = reader
  Creds = {stored, typed}
  Hint = stored
  None = None
  Keys = {t1, t2}
  MaxLoads = 2
  StuckFor = 2
  PageSize = 2
  MaxItems = 5
  Items <- Numbers
  Lists <- SortedLists
  Samples <- ChannelSamples
SPECIFICATION Spec
CHECK_DEADLOCK FALSE
INVARIANTS
  NeverBackwards
  SettledShowsItsKey
  BrokersAreReachedOnce
  HistoriesAreDecoded
  ClientsAreAttributed
  AnswersAreWhole
  StoppedNodesAreOneFinding
PROPERTIES
  ImplementsPromise
  StuckIsSeenFull
  StuckIsReported
