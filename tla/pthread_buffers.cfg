\* The traffic may stop: no deadlock check.
\* Each queue can get more packets than its pool has buffers.
SPECIFICATION FairSpec
CONSTANTS
  QueueOf <- RssQueue
  N = 2
  NumBuckets = 2
  Highs = {1}
  PoolSize = 5
  NbDesc = 2
  BurstSize = 2
  RingCap = 3
  MaxPkts = 7
  MaxTicks = 0
  Interrupted = FALSE
INVARIANTS
  TypeOK
  Conservation
  NoLeak
  BucketOwned
PROPERTIES
  ImplementsQueue
  EventuallyProcessed
CHECK_DEADLOCK FALSE
