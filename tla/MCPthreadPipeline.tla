------------------------- MODULE MCPthreadPipeline -------------------------
(* Model checking of PthreadPipeline.                                      *)
EXTENDS PthreadPipeline

(* RSS chooses the queue of a packet by low bits of its hash, which are    *)
(* also low bits of its bucket.                                            *)
RssQueue == [b \in Buckets |-> b % N]

Processed == SumFunctionOnSet(seen, Flows)

(* Every packet that the NIC received is eventually processed, unless the  *)
(* process exits: no thread waits for a buffer or a packet in vain.        *)
EventuallyProcessed ==
  \A n \in 1 .. MaxPkts : received >= n ~> (Processed >= n \/ pc = "exit")
=============================================================================
