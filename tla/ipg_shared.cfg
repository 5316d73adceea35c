\* The traffic may stop: no deadlock check.
\* Two queues, the run-to-completion version.
SPECIFICATION Spec
CONSTANTS
  Setups <- AllQueuesShared
  Flows = {0, 1}
  N = 2
  BurstSize = 2
  MaxPkts = 6
PROPERTIES
  GapsArePackets
CHECK_DEADLOCK FALSE
