\* The traffic may stop: no deadlock check.
\* Bucket 1: a flow more than each table has entries; bucket 2: a flow named 0.
\* Counters wrap at 3, after as many packets of one flow.
SPECIFICATION TablesSpec
CONSTANTS
  Buckets <- TwoBuckets
  Flows <- TwoBucketFlows
  Highs = {0, 1, 2, 3, 4}
  MaxTotal = 8
  ListEntries = 2
  HashEntries = 1
  CtrMod = 3
  MaxPkts = 3
INVARIANTS
  TablesTypeOK
  TablesExact
  TrackedOrFull
  BucketTotal
  ReportsExact
PROPERTIES
  SlotsImplementFlowCount
  ListsImplementFlowCount
  HashListsImplementFlowCount
CHECK_DEADLOCK FALSE
