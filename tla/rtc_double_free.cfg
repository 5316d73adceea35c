\* The traffic may stop and the process exit: no deadlock check.
\* double_hash with FLOW_LEVEL.
SPECIFICATION Spec
CONSTANTS
  BufsOf <- TwoBufs
  Flows <- TwoFlows
  Setups <- FreedTwice
  N = 1
  NbDesc = 2
  BurstSize = 2
  MaxPkts = 3
  Interrupted = FALSE
INVARIANTS
  CountedOnce
CHECK_DEADLOCK FALSE
