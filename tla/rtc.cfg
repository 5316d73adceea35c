\* The traffic may stop and the process exit: no deadlock check.
\* hash_list on two queues, linked_list with two flows on one.
SPECIFICATION Spec
CONSTANTS
  BufsOf <- TwoBufs
  Flows <- TwoFlows
  Setups <- FreedOnce
  N = 2
  NbDesc = 2
  BurstSize = 2
  MaxPkts = 3
  Interrupted = TRUE
INVARIANTS
  NoAlias
  CountedOnce
  ReportConsistent
CHECK_DEADLOCK FALSE
