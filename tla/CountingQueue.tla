--------------------------- MODULE CountingQueue ---------------------------
(***************************************************************************)
(* What the stages between the NIC and the flow table of a pipeline        *)
(* promise together: for each queue, one unbounded FIFO from which the     *)
(* received packets are taken one at a time, in the order of their         *)
(* arrival, none lost and none taken twice; count is the packets of each   *)
(* flow taken so far.                                                      *)
(***************************************************************************)
EXTENDS Naturals, Sequences

CONSTANTS Queues, Flows

VARIABLES fifo, count

vars == <<fifo, count>>

Init == /\ fifo = [q \in Queues |-> <<>>]
        /\ count = [f \in Flows |-> 0]

Receive(q, f) == /\ fifo' = [fifo EXCEPT ![q] = Append(@, f)]
                 /\ UNCHANGED count

Take(q) == /\ fifo[q] # <<>>
           /\ fifo' = [fifo EXCEPT ![q] = Tail(@)]
           /\ count' = [count EXCEPT ![Head(fifo[q])] = @ + 1]

Next == \E q \in Queues : Take(q) \/ \E f \in Flows : Receive(q, f)

Spec == Init /\ [][Next]_vars
=============================================================================
