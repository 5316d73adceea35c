--------------------------- MODULE InterPacketGap ---------------------------
(***************************************************************************)
(* The inter-packet gap (IPG builds): the number of packets of other flows *)
(* between two packets of a flow.  A counting thread adds the size of each *)
(* burst to its entry of re (gCtr in pthread/main.c), sums all the entries *)
(* into global, one by one, and takes global for the position of every     *)
(* packet of the burst; ipg keeps the position of the last packet of a     *)
(* flow.  The threads take no lock.                                        *)
(*                                                                         *)
(* The versions differ in two ways, which a setup chooses: whether the     *)
(* burst is counted before the sum (pthread, lthread, and linked_list) or  *)
(* after it (double_hash, hash_list of run_to_completion), and whether     *)
(* global is a local variable (pthread, lthread) or a static one that all  *)
(* threads share (run_to_completion).                                      *)
(*                                                                         *)
(* Each flow has a place of its own, a slot or an entry of a list (see     *)
(* DoubleHash, LinkedList and HashList); avg is kept as gapsum, the sum    *)
(* that avg * ctr stands for.                                              *)
(***************************************************************************)
EXTENDS Integers, Sequences

CONSTANTS N,            \* counting threads: RX_RINGS, n_rx_thread
          Flows,        \* the flows that occur
          Setups,       \* the versions, with what RSS decides: see Setup
          BurstSize,
          MaxPkts       \* bound of the model: packets in all

Threads == 0 .. N - 1

(* Where a flow is: in a slot or an entry that linked_list found free, in  *)
(* one that linked_list allocated, in one that hash_list found free in a   *)
(* list or in one that hash_list allocated.                                *)
Places == {"slot", "grown", "entry", "added"}

(* flowsOf: thread -> the flows that RSS sends to its queue; countFirst:   *)
(* is a burst counted before the sum?  sharedGlobal: is global static?     *)
Setup == {s \in [flowsOf : [Threads -> SUBSET Flows],
                 placeOf : [Flows -> Places],
                 countFirst : BOOLEAN,
                 sharedGlobal : BOOLEAN] :
           \A t, u \in Threads :
             t # u => s.flowsOf[t] \cap s.flowsOf[u] = {}}

ASSUME GapAssumption ==
  /\ N \in Nat \ {0}
  /\ Setups \subseteq Setup
  /\ BurstSize \in Nat \ {0}
  /\ MaxPkts \in Nat

VARIABLES setup,        \* the setup of this run
          re,           \* thread -> packets counted
          global,       \* the variable or variables global
          pc,           \* thread -> poll, sum or packets
          qNum,         \* thread -> entries of re still to be added
          burst,        \* thread -> what is left of its burst
          ctr,          \* flow -> packets counted
          ipg,          \* flow -> position of its last packet
          gapsum,       \* flow -> sum of the gaps
          polled,       \* packets received so far (bounds the model)
          done,         \* packets processed so far (history)
          last,         \* flow -> done at its last packet (history)
          pos           \* flow -> global at its last packet (history)

threadVars == <<global, pc, qNum, burst>>
slotVars == <<ctr, ipg, gapsum>>
history == <<done, last, pos>>
vars == <<setup, re, threadVars, slotVars, polled, history>>

CountFirst == setup.countFirst
SharedGlobal == setup.sharedGlobal
FlowsOf == setup.flowsOf
Serial == \E t \in Threads : FlowsOf[t] = Flows

(* A sum is of packets that came; the sums of several threads may add up.  *)
MaxGlobal == IF SharedGlobal /\ ~Serial THEN N * MaxPkts ELSE MaxPkts

TypeOK ==
  /\ setup \in Setups
  /\ re \in [Threads -> Nat]
  /\ global \in [Threads -> 0 .. MaxGlobal]
  /\ pc \in [Threads -> {"poll", "sum", "packets"}]
  /\ qNum \in [Threads -> 0 .. N]
  /\ burst \in [Threads -> Seq(Flows)]
  /\ ctr \in [Flows -> Nat] /\ ipg \in [Flows -> Nat]
  /\ gapsum \in [Flows -> Int]
  /\ polled \in 0 .. MaxPkts /\ done \in Nat
  /\ last \in [Flows -> Nat] /\ pos \in [Flows -> Nat]

Init ==
  /\ setup \in Setups
  /\ re = [t \in Threads |-> 0]
  /\ global = [t \in Threads |-> 0]
  /\ pc = [t \in Threads |-> "poll"]
  /\ qNum = [t \in Threads |-> 0]
  /\ burst = [t \in Threads |-> <<>>]
  /\ ctr = [f \in Flows |-> 0]
  /\ ipg = [f \in Flows |-> 0]
  /\ gapsum = [f \in Flows |-> 0]
  /\ polled = 0 /\ done = 0
  /\ last = [f \in Flows |-> 0] /\ pos = [f \in Flows |-> 0]

-----------------------------------------------------------------------------
(* Mutations of the definitions below.                                     *)
CellShared(t) == 0

ZeroForgotten(t) == global

PositionKept(t, f) == ipg' = ipg
-----------------------------------------------------------------------------
(* The variable global of a thread: a static one is the same for all.      *)
Cell(t) == IF SharedGlobal THEN 0 ELSE t

Zeroed(t) == [global EXCEPT ![Cell(t)] = 0]

Counted(t, n) == [re EXCEPT ![t] = @ + n]

Bursts(t) == UNION {[1 .. n -> FlowsOf[t]] : n \in 1 .. BurstSize}

InFlight(t) == Len(burst[t])

(* A burst has come: it is counted now or after the sum; global = 0.       *)
Poll(t) ==
  /\ pc[t] = "poll"
  /\ \E s \in Bursts(t) :
       /\ polled + Len(s) <= MaxPkts
       /\ polled' = polled + Len(s)
       /\ burst' = [burst EXCEPT ![t] = s]
       /\ re' = IF CountFirst THEN Counted(t, Len(s)) ELSE re
  /\ global' = Zeroed(t)
  /\ qNum' = [qNum EXCEPT ![t] = N]
  /\ pc' = [pc EXCEPT ![t] = "sum"]
  /\ UNCHANGED <<setup, slotVars, history>>

(* global += re[--qNum]                                                    *)
AddEntry(t) ==
  /\ pc[t] = "sum"
  /\ qNum[t] > 0
  /\ qNum' = [qNum EXCEPT ![t] = @ - 1]
  /\ global' = [global EXCEPT ![Cell(t)] = @ + re[qNum[t] - 1]]
  /\ UNCHANGED <<setup, re, pc, burst, slotVars, polled, history>>

SumEnds(t) ==
  /\ pc[t] = "sum"
  /\ qNum[t] = 0
  /\ re' = IF CountFirst THEN re ELSE Counted(t, InFlight(t))
  /\ pc' = [pc EXCEPT ![t] = "packets"]
  /\ UNCHANGED <<setup, global, qNum, burst, slotVars, polled, history>>

(* The first packet of a flow keeps its position in an entry that          *)
(* linked_list allocates or that hash_list finds free, and nowhere else.   *)
Positioned(f) == setup.placeOf[f] \in {"grown", "entry"}

Claim(t, f) ==
  /\ ctr[f] = 0
  /\ IF Positioned(f)
       THEN /\ gapsum' = [gapsum EXCEPT ![f] = global[Cell(t)] - 1 - ipg[f]]
            /\ ipg' = [ipg EXCEPT ![f] = global[Cell(t)]]
       ELSE /\ gapsum' = [gapsum EXCEPT ![f] = ipg[f]]
            /\ UNCHANGED ipg

(* The entries in the lists of hash_list are not given the new position.   *)
Kept(f) == setup.placeOf[f] \in {"slot", "grown"}

Keep(t, f) == ipg' = IF Kept(f) THEN [ipg EXCEPT ![f] = global[Cell(t)]]
                                ELSE ipg

(* curr = global - 1 - ipg enters the average, and global the place.       *)
Hit(t, f) ==
  /\ ctr[f] > 0
  /\ gapsum' = [gapsum EXCEPT ![f] = @ + (global[Cell(t)] - 1 - ipg[f])]
  /\ Keep(t, f)

Packet(t) ==
  /\ pc[t] = "packets"
  /\ LET f == Head(burst[t]) IN
       /\ Claim(t, f) \/ Hit(t, f)
       /\ ctr' = [ctr EXCEPT ![f] = @ + 1]
       /\ last' = [last EXCEPT ![f] = done + 1]
       /\ pos' = [pos EXCEPT ![f] = global[Cell(t)]]
  /\ done' = done + 1
  /\ burst' = [burst EXCEPT ![t] = Tail(@)]
  /\ pc' = [pc EXCEPT ![t] = IF InFlight(t) = 1 THEN "poll" ELSE "packets"]
  /\ UNCHANGED <<setup, re, global, qNum, polled>>

Next == \E t \in Threads : \/ Poll(t)
                           \/ AddEntry(t)
                           \/ SumEnds(t)
                           \/ Packet(t)

Spec == Init /\ [][Next]_vars
-----------------------------------------------------------------------------
(* Where the position is kept the gaps of a flow telescope: their sum      *)
(* (avg * ctr) and the number of its packets give back the position of the *)
(* last packet, so that a gap that is wrong by a burst makes the average   *)
(* no worse than that.  In the lists of hash_list every gap is measured    *)
(* from the first packet, or from the start, and the average is too high.  *)
AverageTelescopes ==
  \A f \in Flows : ctr[f] > 1 =>
    CASE Kept(f) /\ ~Positioned(f) -> gapsum[f] + ctr[f] - 1 = pos[f]
      [] Kept(f) /\ Positioned(f)  -> gapsum[f] + ctr[f] = pos[f]
      [] OTHER                     -> gapsum[f] + ctr[f] >= pos[f]

(* With one thread at work the position of a packet is right up to its     *)
(* burst: it is the number of packets up to the end of the burst           *)
(* (CountFirst) or before the burst.                                       *)
PositionWithinBurst ==
  Serial => \A f \in Flows : Kept(f) /\ ctr[f] > 1 =>
    IF CountFirst
      THEN last[f] <= ipg[f] /\ ipg[f] < last[f] + BurstSize
      ELSE ipg[f] < last[f] /\ last[f] <= ipg[f] + BurstSize

Forward == \A f \in Flows : ipg'[f] >= ipg[f]

(* Unless threads share global, the position that a place keeps never goes *)
(* back, so that no gap is below -1, although the entries of re are summed *)
(* while the other threads change them: a sum that starts after another    *)
(* one has ended is no less.                                               *)
PositionMonotone == [][Serial \/ ~SharedGlobal => Forward]_vars

(* "per-flow burstiness (number of packets of other flows in bewteen two   *)
(* packets of the same flow)" (README.md:24): a number of packets, so that *)
(* the position of a flow never goes back.                                 *)
GapsArePackets == [][Forward]_vars
=============================================================================
