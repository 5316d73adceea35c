----------------------------- MODULE LinkedList -----------------------------
(***************************************************************************)
(* The LINKED_LIST flow table (run_to_completion/main.c, flow_struct_init, *)
(* linked_list, handler; pthread/main.c, lcore_main_count_linked_list): a  *)
(* chain of entries per bucket, EntryPerFlow of them allocated at start,   *)
(* the others when a packet of a new flow finds no free one.  The process  *)
(* exits when an allocation fails.  seen is the ideal count of each flow.  *)
(***************************************************************************)
EXTENDS Chain

CONSTANTS Buckets,      \* hash_l, the low halves of the hashes
          Highs,        \* hash_h, the high halves that occur
          EntryPerFlow, \* ENTRY_PER_FLOW: entries of a bucket at start
          MaxPkts       \* bound of the model: packets of one flow

VARIABLES flows,        \* bucket -> its chain
          seen,         \* bucket -> high half -> packets counted (history)
          exited        \* rte_exit was called

vars == <<flows, seen, exited>>

TypeOK == /\ flows \in [Buckets -> Seq(Entries(Highs))]
          /\ seen \in [Buckets -> [Highs -> Nat]]
          /\ exited \in BOOLEAN

Init == /\ flows = [b \in Buckets |-> FreeChain(EntryPerFlow)]
        /\ seen = [b \in Buckets |-> [h \in Highs |-> 0]]
        /\ exited = FALSE

(* An entry of the chain takes the packet.                                 *)
Found(b, h) ==
  /\ Stops(flows[b], h) # {}
  /\ flows' = [flows EXCEPT ![b] = Visit(@, h)]

(* A new entry takes it: rte_calloc succeeds.                              *)
Allocate(b, h) ==
  /\ Stops(flows[b], h) = {}
  /\ flows' = [flows EXCEPT ![b] = Grow(@, h)]

Packet(b, h) ==
  /\ ~exited
  /\ seen[b][h] < MaxPkts
  /\ Found(b, h) \/ Allocate(b, h)
  /\ seen' = [seen EXCEPT ![b][h] = @ + 1]
  /\ UNCHANGED exited

(* rte_calloc fails: "flow bucket allocation failure".                     *)
AllocationFails(b, h) ==
  /\ ~exited
  /\ Stops(flows[b], h) = {}
  /\ exited' = TRUE
  /\ UNCHANGED <<flows, seen>>

Next == \E b \in Buckets, h \in Highs : Packet(b, h) \/ AllocationFails(b, h)

Spec == Init /\ [][Next]_vars

-----------------------------------------------------------------------------
(* What the handler adds up, "%lu flows with %lu packets", of a set of     *)
(* buckets.                                                                *)
FlowsIn(B) == SumFunction([b \in B |-> NonZero(flows[b])])

PacketsIn(B) == SumFunction([b \in B |-> SumOfCtr(flows[b])])

(* The number of flows that the handler of pthread/main.c adds up.         *)
FlowsPthreadIn(B) == SumFunction([b \in B |-> LeadingNonZero(flows[b])])

-----------------------------------------------------------------------------
(* Every flow of a bucket that sent packets has one entry, in front of the *)
(* free ones, with all its packets (modulo the width): the walk of         *)
(* linked_list neither passes its entry nor makes a second one.            *)
ExactIn(b) ==
  /\ WellFormed(flows[b])
  /\ \A h \in Highs \ {Free} : seen[b][h] > 0 =>
       /\ h \in Named(flows[b])
       /\ CountOf(flows[b], h) = seen[b][h] % CtrMod

(* The reports of the two handlers are right for a set of buckets.         *)
ReportExactIn(B) ==
  /\ PacketsIn(B) = SumFunction([b \in B |-> SumFunction(seen[b])])
  /\ FlowsIn(B) =
       SumFunction([b \in B |-> Cardinality({h \in Highs : seen[b][h] > 0})])
  /\ FlowsPthreadIn(B) = FlowsIn(B)
=============================================================================
