\* The traffic may stop when no buffer comes back: no deadlock check.
\* Two rings, smaller than the pool; with own lcores the second tx lthread
\* has no condition variable.
SPECIFICATION FairSpec
CONSTANTS
  Setups <- OwnAndShared
  NW = 2
  PoolSize = 3
  NbDesc = 2
  MaxBurst = 2
  RingCap = 2
  CtrMod = 2
INVARIANTS
  Conservation
  Accounting
  SlotExact
  SleepsOnResidue
PROPERTIES
  ServedIfWoken
CHECK_DEADLOCK FALSE
