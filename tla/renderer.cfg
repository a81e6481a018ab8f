CONSTANTS
  b1 = b1
  b2 = b2
  q1 = q1
  q2 = q2
  t1 = t1
  t2 = t2
  d1 = d1
  d2 = d2
  d3 = d3
  None = None
  Targets = {b1, b2}
  Queues = {q1, q2}
  PageSize = 2
  MaxItems = 4
  MaxPeeks = 2
  Batches <- SomeBatches
  Lists <- SomeLists
  Discoveries = {d1, d2, d3}
  Refs = {t1, t2}
  MaxSets = 3
  Tables = {"in", "out", "queues"}
  KindOf <- SomeKinds
  Columns = {"c1", "c2"}
  MinWidth = 1
  Default = 2
  MaxWidth = 2
  Logins = {"right"}
  Takes <- SomeTakes
  Finds <- SomeFinds
  MaxCalls = 1
  MaxPageLoads = 2
  AddressLists <- SomeAddresses
  Hash <- SomeHash
  MaxConnectionLoads = 1
  MaxPodLoads = 2
SPECIFICATION Spec
SYMMETRY Alike
INVARIANTS
  BatchIsOfTheQueue
  DuplicatesArePicked
  BusyIsHonest
  ClientsAreLookedUp
  ChoicesAreKept
  RediscoveryIsShown
  MirrorIsArmed
  AnsweredWithItsLogin
