------------------------------ MODULE HashList ------------------------------
(***************************************************************************)
(* The HASH_LIST flow table (run_to_completion/main.c and pthread/main.c): *)
(* a bucket has the two slots of the double hash (hi_f1, ctr[0] and hi_f2, *)
(* ctr[1], here a chain of two entries that never grows) and, behind them, *)
(* a list that grows when neither has room.  ReportIn and                  *)
(* ReportPthreadIn are what the handlers of the two versions print.        *)
(***************************************************************************)
EXTENDS Chain

CONSTANTS Buckets,      \* index_l, the low halves of the hashes
          Highs,        \* index_h, the high halves that occur
          EntryPerFlow, \* ENTRY_PER_FLOW: entries of a list at start
          MaxPkts       \* bound of the model: packets of one flow

VARIABLES slots,        \* bucket -> its two slots
          flows,        \* bucket -> its list
          seen,         \* bucket -> high half -> packets counted (history)
          exited        \* rte_exit was called

vars == <<slots, flows, seen, exited>>

TypeOK == /\ slots \in [Buckets -> [1 .. 2 -> Entries(Highs)]]
          /\ flows \in [Buckets -> Seq(Entries(Highs))]
          /\ seen \in [Buckets -> [Highs -> Nat]]
          /\ exited \in BOOLEAN

Init == /\ slots = [b \in Buckets |-> FreeChain(2)]
        /\ flows = [b \in Buckets |-> FreeChain(EntryPerFlow)]
        /\ seen = [b \in Buckets |-> [h \in Highs |-> 0]]
        /\ exited = FALSE

InSlot(b, h) ==
  /\ Stops(slots[b], h) # {}
  /\ slots' = [slots EXCEPT ![b] = Visit(@, h)]
  /\ UNCHANGED flows

-----------------------------------------------------------------------------
(* Mutation: the list is searched whether or not a slot has the flow.      *)
InListAlways(b, h) ==
  /\ Stops(flows[b], h) # {}
  /\ flows' = [flows EXCEPT ![b] = Visit(@, h)]
  /\ UNCHANGED slots
-----------------------------------------------------------------------------
InList(b, h) ==
  /\ Stops(slots[b], h) = {}
  /\ Stops(flows[b], h) # {}
  /\ flows' = [flows EXCEPT ![b] = Visit(@, h)]
  /\ UNCHANGED slots

NeedsEntry(b, h) == Stops(slots[b], h) = {} /\ Stops(flows[b], h) = {}

Allocate(b, h) ==
  /\ NeedsEntry(b, h)
  /\ flows' = [flows EXCEPT ![b] = Grow(@, h)]
  /\ UNCHANGED slots

Packet(b, h) ==
  /\ ~exited
  /\ seen[b][h] < MaxPkts
  /\ InSlot(b, h) \/ InList(b, h) \/ Allocate(b, h)
  /\ seen' = [seen EXCEPT ![b][h] = @ + 1]
  /\ UNCHANGED exited

AllocationFails(b, h) ==
  /\ ~exited
  /\ NeedsEntry(b, h)
  /\ exited' = TRUE
  /\ UNCHANGED <<slots, flows, seen>>

Next == \E b \in Buckets, h \in Highs : Packet(b, h) \/ AllocationFails(b, h)

Spec == Init /\ [][Next]_vars

-----------------------------------------------------------------------------
(* The number of flows that the two handlers add up for a set of buckets.  *)
(* The one of the pthread version also adds the counters of the list       *)
(* entries to it.                                                          *)
ReportIn(B) ==
  SumFunction([b \in B |-> NonZero(slots[b]) + NonZero(flows[b])])

ReportPthreadIn(B) ==
  ReportIn(B) + SumFunction([b \in B |-> SumOfCtr(flows[b])])

-----------------------------------------------------------------------------
All(b) == slots[b] \o flows[b]

(* A flow of a bucket that sent packets has one entry, in the slots or in  *)
(* the list, with all its packets (modulo the width): it is looked up in   *)
(* the list only when both slots belong to others, and stays where it is.  *)
ExactIn(b) ==
  /\ WellFormed(All(b))
  /\ \A h \in Highs \ {Free} : seen[b][h] > 0 =>
       /\ h \in Named(All(b))
       /\ CountOf(All(b), h) = seen[b][h] % CtrMod

FlowsSeen(B) ==
  SumFunction([b \in B |-> Cardinality({h \in Highs : seen[b][h] > 0})])

(* The number of flows of the run-to-completion handler is the number of   *)
(* flows that sent packets.                                                *)
ReportExactIn(B) == ReportIn(B) = FlowsSeen(B)

(* That of the pthread handler, "The total number of flows is %lu"         *)
(* (pthread/main.c:1277), has the packets of the flows without a slot too. *)
ReportPthreadExcess(B) ==
  ReportPthreadIn(B) = FlowsSeen(B) +
    SumFunction([b \in B |->
      SumFunctionOnSet(seen[b], Highs \ Named(slots[b]))])
=============================================================================
