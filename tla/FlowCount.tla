----------------------------- MODULE FlowCount -----------------------------
(***************************************************************************)
(* What a per-flow table of FloWatcher promises (README.md, "per-flow      *)
(* size"): a bucket, selected by the low half of the RSS hash, tracks up   *)
(* to Capacity of the flows that hash to it, told apart by the high half.  *)
(* A tracked flow is counted exactly, modulo the width of a counter, from  *)
(* its first packet on and is never forgotten.  A packet of any other flow *)
(* is counted as a rest of its bucket when the table keeps one             *)
(* (KeepsRest), and not at all otherwise.                                  *)
(***************************************************************************)
EXTENDS Naturals, FiniteSets

CONSTANTS Buckets,      \* the low halves of the hashes
          Highs,        \* the high halves of the hashes
          Capacity,     \* how many flows a bucket can track
          KeepsRest,    \* are the packets of the others counted together?
          CtrMod        \* the number of values of a counter

VARIABLES offered,      \* bucket -> high half -> packets that came
          tracked,      \* bucket -> the high halves it tracks
          count,        \* bucket -> high half -> its packets
          rest          \* bucket -> packets of flows that found no room

vars == <<offered, tracked, count, rest>>

TypeOK == /\ offered \in [Buckets -> [Highs -> Nat]]
          /\ tracked \in [Buckets -> SUBSET Highs]
          /\ count \in [Buckets -> [Highs -> 0 .. CtrMod - 1]]
          /\ rest \in [Buckets -> 0 .. CtrMod - 1]

Init == /\ offered = [b \in Buckets |-> [h \in Highs |-> 0]]
        /\ tracked = [b \in Buckets |-> {}]
        /\ count = [b \in Buckets |-> [h \in Highs |-> 0]]
        /\ rest = [b \in Buckets |-> 0]

Plus1(n) == (n + 1) % CtrMod

Room(b) == Cardinality(tracked[b]) < Capacity

(* A packet of flow (b, h): the flow is counted if it is tracked or if     *)
(* there is room to track it.                                              *)
Count(b, h) ==
  /\ h \in tracked[b] \/ Room(b)
  /\ tracked' = [tracked EXCEPT ![b] = @ \cup {h}]
  /\ count' = [count EXCEPT ![b][h] = Plus1(@)]
  /\ UNCHANGED rest

Overflow(b, h) ==
  /\ h \notin tracked[b]
  /\ ~Room(b)
  /\ rest' = IF KeepsRest THEN [rest EXCEPT ![b] = Plus1(@)] ELSE rest
  /\ UNCHANGED <<tracked, count>>

Next == \E b \in Buckets, h \in Highs :
          /\ offered' = [offered EXCEPT ![b][h] = @ + 1]
          /\ Count(b, h) \/ Overflow(b, h)

Spec == Init /\ [][Next]_vars
=============================================================================
