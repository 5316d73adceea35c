\* The program exits, crashes or runs on: no deadlock check.
SPECIFICATION Spec
CONSTANTS
  Setups <- AllSetups
  Bad = Bad
  MaskBits = 4
  BurstMod = 4
  MaxRxq = 3
  MaxDesc = 4
  FieldMax = 8
  MaxParams = 9
  MaxQueues = 2
  NSockets = 2
  RxRings <- Rings
INVARIANTS
  InEffectIffWellFormed
  WellFormedRuns
  QueueOwned
CHECK_DEADLOCK FALSE
