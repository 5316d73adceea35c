----------------------------- MODULE DoubleHash -----------------------------
(***************************************************************************)
(* The DOUBLE_HASH flow table of the run-to-completion monitor             *)
(* (run_to_completion/main.c, double_hash; the table: main.h).  The low 16 *)
(* bits of the RSS hash of a packet select a bucket with two slots; a slot *)
(* is named by the high 16 bits of the flow it counts, 0 meaning free; a   *)
(* third counter takes the packets of every other flow.  Counters are      *)
(* unsigned integers of CtrMod values.                                     *)
(*                                                                         *)
(* One action per outcome of the chain of tests that a packet goes         *)
(* through; seen is a history variable, the ideal count of each flow.      *)
(***************************************************************************)
EXTENDS Integers

CONSTANTS Buckets,      \* index_l, the low halves of the hashes
          Highs,        \* index_h, the high halves that occur
          CtrMod,       \* 2^32: the number of values of a counter
          MaxPkts       \* bound of the model: packets of one flow

ASSUME DoubleHashAssumption == /\ Highs \subseteq Nat
                               /\ CtrMod \in Nat \ {0}
                               /\ MaxPkts \in Nat

VARIABLES hi_f1, hi_f2, \* bucket -> high half that names the slot, 0: free
          ctr,          \* bucket -> the counters ctr[0..2]
          seen          \* bucket -> high half -> packets processed (history)

vars == <<hi_f1, hi_f2, ctr, seen>>

Free == 0
Slots == 0 .. 2

TypeOK == /\ hi_f1 \in [Buckets -> Highs \cup {Free}]
          /\ hi_f2 \in [Buckets -> Highs \cup {Free}]
          /\ ctr \in [Buckets -> [Slots -> 0 .. CtrMod - 1]]
          /\ seen \in [Buckets -> [Highs -> Nat]]

Init == /\ hi_f1 = [b \in Buckets |-> Free]
        /\ hi_f2 = [b \in Buckets |-> Free]
        /\ ctr = [b \in Buckets |-> [k \in Slots |-> 0]]
        /\ seen = [b \in Buckets |-> [h \in Highs |-> 0]]

-----------------------------------------------------------------------------
(* Mutations of the definitions below.                                     *)
IncUnbounded(n) == n + 1

ClaimSecondUnchecked(b, h) ==   \* the flow of slot 1 may take slot 2 as well
  /\ hi_f1[b] # Free
  /\ hi_f2[b] = Free
  /\ hi_f2' = [hi_f2 EXCEPT ![b] = h]
  /\ ctr' = [ctr EXCEPT ![b][1] = (@ + 1) % CtrMod]
  /\ UNCHANGED hi_f1

MiscountDropped(b, h) ==        \* no counter for a third flow
  /\ hi_f1[b] \notin {Free, h}
  /\ hi_f2[b] \notin {Free, h}
  /\ UNCHANGED <<hi_f1, hi_f2, ctr>>
-----------------------------------------------------------------------------
Inc(n) == (n + 1) % CtrMod

Bump(b, k) == ctr' = [ctr EXCEPT ![b][k] = Inc(@)]

ClaimFirst(b, h) ==
  /\ hi_f1[b] = Free
  /\ hi_f1' = [hi_f1 EXCEPT ![b] = h]
  /\ Bump(b, 0)
  /\ UNCHANGED hi_f2

ClaimSecond(b, h) ==
  /\ hi_f1[b] \notin {Free, h}
  /\ hi_f2[b] = Free
  /\ hi_f2' = [hi_f2 EXCEPT ![b] = h]
  /\ Bump(b, 1)
  /\ UNCHANGED hi_f1

HitFirst(b, h) ==
  /\ hi_f1[b] # Free
  /\ hi_f1[b] = h
  /\ Bump(b, 0)
  /\ UNCHANGED <<hi_f1, hi_f2>>

HitSecond(b, h) ==
  /\ hi_f1[b] \notin {Free, h}
  /\ hi_f2[b] # Free
  /\ hi_f2[b] = h
  /\ Bump(b, 1)
  /\ UNCHANGED <<hi_f1, hi_f2>>

Miscount(b, h) ==
  /\ hi_f1[b] \notin {Free, h}
  /\ hi_f2[b] \notin {Free, h}
  /\ Bump(b, 2)
  /\ UNCHANGED <<hi_f1, hi_f2>>

Packet(b, h) ==
  /\ seen[b][h] < MaxPkts
  /\ seen' = [seen EXCEPT ![b][h] = @ + 1]
  /\ \/ ClaimFirst(b, h)
     \/ ClaimSecond(b, h)
     \/ HitFirst(b, h)
     \/ HitSecond(b, h)
     \/ Miscount(b, h)

Next == \E b \in Buckets, h \in Highs : Packet(b, h)

Spec == Init /\ [][Next]_vars
-----------------------------------------------------------------------------
(* A slot named by a flow holds the number of ALL the packets of that flow *)
(* so far, modulo the width of the counter: none went to another slot,     *)
(* none of another flow came to this one.  It is about the tests of        *)
(* double_hash being made in an order in which a flow already in slot 2    *)
(* cannot take slot 1 again, and holds in the buckets to which no flow     *)
(* with high half 0 is sent.                                               *)
ExactIn(b) ==
  \A h \in Highs \ {Free} :
    /\ hi_f1[b] = h => ctr[b][0] = seen[b][h] % CtrMod
    /\ hi_f2[b] = h => ctr[b][1] = seen[b][h] % CtrMod

(* A flow that has sent packets is either tracked, by one slot only, or    *)
(* met a full bucket; slot 2 is used only after slot 1: the walk of the    *)
(* handlers over the slots misses no tracked flow.                         *)
TrackedOrFull ==
  \A b \in Buckets :
    /\ hi_f2[b] # Free => hi_f1[b] \notin {Free, hi_f2[b]}
    /\ \A h \in Highs :
         seen[b][h] > 0 => \/ h \in {hi_f1[b], hi_f2[b]}
                           \/ hi_f1[b] # Free /\ hi_f2[b] # Free
=============================================================================
