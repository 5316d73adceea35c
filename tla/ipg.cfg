\* The traffic may stop: no deadlock check.
\* Three flows, on one queue or on three.
SPECIFICATION Spec
CONSTANTS
  Setups <- OneQueueOrLocal
  Flows = {0, 1, 2}
  N = 3
  BurstSize = 2
  MaxPkts = 5
INVARIANTS
  AverageTelescopes
  PositionWithinBurst
PROPERTIES
  PositionMonotone
CHECK_DEADLOCK FALSE
