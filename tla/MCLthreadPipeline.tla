------------------------- MODULE MCLthreadPipeline -------------------------
(* Model checking of LthreadPipeline.                                      *)
EXTENDS LthreadPipeline

(* An lcore for each lthread, where only the first tx lthread has a        *)
(* condition variable; one for all; one for the tx lthreads.               *)
OwnLcores == [lcoreOf |-> [x \in Lthreads |-> x], nCond |-> 1]
OneLcore == [lcoreOf |-> [x \in Lthreads |-> 0], nCond |-> NW]
TxTogether == [lcoreOf |-> [x \in Lthreads |-> IF x = Rx THEN 1 ELSE 0],
               nCond |-> NW]

OwnAndShared == {OwnLcores, OneLcore, TxTogether}
Own == {OwnLcores}

-----------------------------------------------------------------------------
(* While traffic goes on, the packets of the ring of a tx lthread that     *)
(* cannot miss a signal, or has none to wait for, are eventually taken, so *)
(* that their buffers come back to the NIC.                                *)
ServedIfWoken ==
  \A w \in Workers :
    (ring[w] > 0 /\ (w \in Beside \/ ~HasCond(w))) ~> txburst[w] > 0

(* "negligible packet losses" (README.md:13): so it is wherever the        *)
(* lthreads run.                                                           *)
EventuallyServed ==
  \A w \in Workers : ring[w] > 0 ~> txburst[w] > 0
=============================================================================
