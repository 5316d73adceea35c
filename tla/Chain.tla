------------------------------- MODULE Chain -------------------------------
(***************************************************************************)
(* The chains of flow entries of the LINKED_LIST and HASH_LIST tables, as  *)
(* sequences (run_to_completion/main.c, linked_list and hash_list, and the *)
(* lcore_main_count_* functions of pthread/main.c with the same code).     *)
(* An entry is named by the high half of the hash of the flow it counts, 0 *)
(* meaning that it is free; its counter is an unsigned integer of CtrMod   *)
(* values.  The walk for a packet of flow h stops at the first entry that  *)
(* is free or named h: linked_list tests for a free entry first, hash_list *)
(* for a match, which makes no difference, for both outcomes leave an      *)
(* entry named h with its counter incremented.                             *)
(***************************************************************************)
EXTENDS Integers, Sequences, FiniteSets, Functions

CONSTANT CtrMod         \* 2^32: the number of values of a counter

Free == 0

Entries(Highs) == [rss_high : Highs \cup {Free}, ctr : 0 .. CtrMod - 1]

FreeEntry == [rss_high |-> Free, ctr |-> 0]

FreeChain(n) == [i \in 1 .. n |-> FreeEntry]

-----------------------------------------------------------------------------
(* Mutations of the definitions below.                                     *)
StopsAtFreeOnly(chain, h) == {i \in DOMAIN chain : chain[i].rss_high = Free}

VisitStale(chain, h) ==         \* the counter of a claimed entry restarts
  LET S == {j \in DOMAIN chain : chain[j].rss_high \in {Free, h}}
      i == CHOOSE j \in S : \A k \in S : j <= k
  IN  [chain EXCEPT ![i] = [rss_high |-> h, ctr |-> 1]]

GrowEmpty(chain, h) ==          \* the first packet of a new entry is missed
  Append(chain, [rss_high |-> h, ctr |-> 0])
-----------------------------------------------------------------------------
(* Where the walk for h can stop, and the entry where it does.             *)
Stops(chain, h) == {i \in DOMAIN chain : chain[i].rss_high \in {Free, h}}

First(S) == CHOOSE i \in S : \A j \in S : i <= j

(* The entry that the walk stops at takes the name h and the packet.       *)
Visit(chain, h) ==
  [chain EXCEPT ![First(Stops(chain, h))] =
     [rss_high |-> h, ctr |-> (@.ctr + 1) % CtrMod]]

(* The walk fell off the chain: a new entry, with this packet, at its end. *)
Grow(chain, h) == Append(chain, [rss_high |-> h, ctr |-> 1 % CtrMod])

-----------------------------------------------------------------------------
(* The flows that entries are named for, and what a chain says of one.     *)
Named(chain) == {chain[i].rss_high : i \in DOMAIN chain} \ {Free}

CountOf(chain, h) ==
  chain[CHOOSE i \in DOMAIN chain : chain[i].rss_high = h].ctr

(* No flow has two entries and free entries follow the used ones.          *)
WellFormed(chain) ==
  \A i, j \in DOMAIN chain : i < j /\ chain[j].rss_high # Free =>
    chain[i].rss_high \notin {Free, chain[j].rss_high}

(* The number of entries a handler finds with a nonzero counter.           *)
NonZero(chain) == Cardinality({i \in DOMAIN chain : chain[i].ctr > 0})

(* Those in front of the first zero, where the pthread handler stops.      *)
LeadingNonZero(chain) ==
  Cardinality({i \in DOMAIN chain : \A j \in 1 .. i : chain[j].ctr > 0})

(* What it adds up their counters to, in 64 bits.                          *)
SumOfCtr(chain) == SumFunction([i \in DOMAIN chain |-> chain[i].ctr])
=============================================================================
