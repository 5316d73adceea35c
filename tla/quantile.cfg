\* The traffic may stop: no deadlock check.
\* 9 is more than IntMax; -1 is 15 as an unsigned integer.
SPECIFICATION QuantileSpec
CONSTANTS
  Percentiles <- BothP
  Gaps <- SomeGaps
  Unit = 16
  UMod = 16
  IntMax = 7
  Grid = 32
  Spacings = {1, 2, 4, 8, 16, 32, 64}
  MaxObs = 28
INVARIANTS
  MarkersOrdered
  ExtremesExact
  MarkersOnRank
CHECK_DEADLOCK FALSE
