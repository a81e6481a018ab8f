CONSTANTS
  b1 = b1
  b2 = b2
  q1 = q1
  q2 = q2
  None = None
  Targets = {b1, b2}
  Queues = {q1}
  PageSize = 2
  MaxItems = 4
  MaxPeeks = 1
  Batches <- OneBatch
SPECIFICATION QueueSpec
INVARIANT ReplayStaysOnItsBroker
