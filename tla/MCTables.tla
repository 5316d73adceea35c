------------------------------ MODULE MCTables ------------------------------
(* Model checking of Tables.                                               *)
EXTENDS Tables

TwoBuckets == {1, 2}
TwoBucketFlows == ({1} \X {1, 2, 3, 4}) \cup ({2} \X {0, 1, 2})
=============================================================================
