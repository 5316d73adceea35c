------------------------------- MODULE Tables -------------------------------
(***************************************************************************)
(* The three flow tables in lockstep: every packet goes to a DOUBLE_HASH,  *)
(* a LINKED_LIST and a HASH_LIST table at once, so that a run compares     *)
(* each with the same traffic, with the ideal table, and with each other.  *)
(***************************************************************************)
EXTENDS DoubleHash, FiniteSets, Functions

CONSTANTS Flows,        \* the flows that occur
          MaxTotal,     \* bound of the model: packets in all
          ListEntries,  \* ENTRY_PER_FLOW of linked_list
          HashEntries   \* ENTRY_PER_FLOW of hash_list

ASSUME TablesAssumption == /\ IsFiniteSet(Buckets) /\ IsFiniteSet(Highs)
                           /\ Flows \subseteq Buckets \X Highs
                           /\ MaxTotal \in Nat
                           /\ ListEntries \in Nat /\ HashEntries \in Nat

VARIABLES lflows, lexited, hslots, hflows, hexited

listVars == <<lflows, lexited>>
hashVars == <<hslots, hflows, hexited>>

List == INSTANCE LinkedList WITH
  EntryPerFlow <- ListEntries, flows <- lflows, exited <- lexited

Hash == INSTANCE HashList WITH
  EntryPerFlow <- HashEntries, slots <- hslots, flows <- hflows,
  exited <- hexited

TablesInit == Init /\ List!Init /\ Hash!Init

Total(b) == SumFunction(seen[b])

(* A table whose process exits ends the comparison.                        *)
Deliver(b, h) ==
  /\ ~lexited /\ ~hexited
  /\ SumFunction([c \in Buckets |-> Total(c)]) < MaxTotal
  /\ \/ Packet(b, h) /\ List!Packet(b, h) /\ Hash!Packet(b, h)
     \/ List!AllocationFails(b, h) /\ UNCHANGED <<vars, hashVars>>
     \/ Hash!AllocationFails(b, h) /\ UNCHANGED <<vars, listVars>>

TablesNext == \E f \in Flows : Deliver(f[1], f[2])

tablesVars == <<vars, listVars, hashVars>>

TablesSpec == TablesInit /\ [][TablesNext]_tablesVars

(* Buckets without a flow whose high half is the free mark.                *)
Clean == {b \in Buckets : <<b, Free>> \notin Flows}
-----------------------------------------------------------------------------
(* The types of the three tables.                                          *)
TablesTypeOK == TypeOK /\ List!TypeOK /\ Hash!TypeOK

(* In the clean buckets each table counts each flow it tracks exactly,     *)
(* modulo the width of its counter: see ExactIn of the three modules.      *)
TablesExact ==
  \A b \in Clean : ExactIn(b) /\ List!ExactIn(b) /\ Hash!ExactIn(b)

(* Nothing is lost or counted twice by double_hash: the three counters of  *)
(* a bucket add up to the packets that hashed to it, modulo their width,   *)
(* also in a bucket where flows with high half 0 move between the slots.   *)
BucketTotal ==
  \A b \in Buckets :
    (ctr[b][0] + ctr[b][1] + ctr[b][2]) % CtrMod = Total(b) % CtrMod

Tracked(b) == {hi_f1[b], hi_f2[b]} \ {Free}

(* The handlers of the list versions report the flows and packets that     *)
(* there were, until a flow has sent as many packets as a counter has      *)
(* values; the number of flows of the pthread version is too high by the   *)
(* packets of the flows that have no slot (pthread/main.c:1230).           *)
ReportsExact ==
  (\A b \in Clean, h \in Highs : seen[b][h] < CtrMod) =>
    /\ List!ReportExactIn(Clean)
    /\ Hash!ReportExactIn(Clean)
    /\ Hash!ReportPthreadExcess(Clean)

-----------------------------------------------------------------------------
(* The ideal tables that the tables implement in the clean buckets.        *)
Offered == [b \in Clean |-> seen[b]]

Two == INSTANCE FlowCount WITH
  Buckets <- Clean,
  Capacity <- 2,
  KeepsRest <- TRUE,
  offered <- Offered,
  tracked <- [b \in Clean |-> Tracked(b)],
  count <- [b \in Clean |-> [h \in Highs |->
             IF h \in Tracked(b) THEN ctr[b][IF hi_f1[b] = h THEN 0 ELSE 1]
                                 ELSE 0]],
  rest <- [b \in Clean |-> ctr[b][2]]

Ideal(chains) == [b \in Clean |-> [h \in Highs |->
  IF h \in List!Named(chains[b]) THEN List!CountOf(chains[b], h) ELSE 0]]

ListAsTable == INSTANCE FlowCount WITH
  Buckets <- Clean,
  Capacity <- Cardinality(Highs),
  KeepsRest <- FALSE,
  offered <- Offered,
  tracked <- [b \in Clean |-> List!Named(lflows[b])],
  count <- Ideal(lflows),
  rest <- [b \in Clean |-> 0]

HashAsTable == INSTANCE FlowCount WITH
  Buckets <- Clean,
  Capacity <- Cardinality(Highs),
  KeepsRest <- FALSE,
  offered <- Offered,
  tracked <- [b \in Clean |-> List!Named(Hash!All(b))],
  count <- Ideal([b \in Clean |-> Hash!All(b)]),
  rest <- [b \in Clean |-> 0]

(* Every step of double_hash, linked_list and hash_list on a packet is a   *)
(* step of the ideal table for that packet: of one with two flows per      *)
(* bucket and a rest, and of one that tracks all flows.                    *)
SlotsImplementFlowCount == Two!Spec
ListsImplementFlowCount == ListAsTable!Spec
HashListsImplementFlowCount == HashAsTable!Spec
=============================================================================
