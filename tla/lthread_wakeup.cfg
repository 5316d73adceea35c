\* The traffic may stop when no buffer comes back: no deadlock check.
\* An lcore for each lthread; the pool fills the descriptors, as 4096 does.
SPECIFICATION FairSpec
CONSTANTS
  Setups <- Own
  NW = 1
  PoolSize = 4
  NbDesc = 4
  MaxBurst = 2
  RingCap = 8
  CtrMod = 2
PROPERTIES
  EventuallyServed
CHECK_DEADLOCK FALSE
