\* The process exits: no deadlock check.
\* Three flows in each bucket, for two slots.
SPECIFICATION Spec
CONSTANTS
  QueueOf <- RssQueue
  N = 2
  NumBuckets = 2
  Highs = {1, 2, 3}
  PoolSize = 5
  NbDesc = 2
  BurstSize = 2
  RingCap = 3
  MaxPkts = 3
  MaxTicks = 2
  Interrupted = TRUE
INVARIANTS
  ReportedTotal
  ReportedFlows
PROPERTIES
  RateNotNegative
  ImplementsFlowCount
CHECK_DEADLOCK FALSE
