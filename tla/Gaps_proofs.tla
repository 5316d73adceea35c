---------------------------- MODULE Gaps_proofs -----------------------------
(***************************************************************************)
(* Proofs about the gaps between the packets of a flow: first those about  *)
(* InterPacketGap, for any number of threads and flows, any burst size and *)
(* every setup, then those about Quantile, which takes the gaps.           *)
(***************************************************************************)
EXTENDS InterPacketGap, Quantile, Lemmas, SequenceTheorems

-----------------------------------------------------------------------------
(* Types, and the bursts: a thread has packets of its own flows, and some  *)
(* are left unless it polls.                                               *)
Base ==
  /\ setup \in Setups
  /\ re \in [Threads -> Nat] /\ global \in [Threads -> Nat]
  /\ pc \in [Threads -> {"poll", "sum", "packets"}]
  /\ qNum \in [Threads -> 0 .. N]
  /\ burst \in [Threads -> Seq(Flows)]
  /\ ctr \in [Flows -> Nat] /\ ipg \in [Flows -> Nat]
  /\ gapsum \in [Flows -> Int]
  /\ polled \in Nat /\ done \in Nat
  /\ last \in [Flows -> Nat] /\ pos \in [Flows -> Nat]

BurstOK(t) ==
  /\ burst[t] \in Seq(FlowsOf[t])
  /\ pc[t] # "poll" => burst[t] # <<>>
  /\ Len(burst[t]) <= BurstSize

Inv == Base /\ \A t \in Threads : BurstOK(t)

(* What the constants are.                                                 *)
LEMMA OfSetup ==
  ASSUME setup \in Setups, NEW t \in Threads
  PROVE  /\ FlowsOf[t] \subseteq Flows
         /\ \A u \in Threads \ {t} : FlowsOf[t] \cap FlowsOf[u] = {}
         /\ CountFirst \in BOOLEAN /\ SharedGlobal \in BOOLEAN
         /\ \A f \in Flows : setup.placeOf[f] \in Places
         /\ Cell(t) \in Threads
<1>1. /\ FlowsOf[t] \subseteq Flows
      /\ \A u \in Threads \ {t} : FlowsOf[t] \cap FlowsOf[u] = {}
      /\ CountFirst \in BOOLEAN /\ SharedGlobal \in BOOLEAN
      /\ \A f \in Flows : setup.placeOf[f] \in Places
  BY GapAssumption DEF FlowsOf, Setup, CountFirst, SharedGlobal
<1>2. 0 \in Threads
  BY GapAssumption DEF Threads
<1> QED
  BY <1>1, <1>2 DEF Cell

(* The flows of a thread are flows.                                        *)
LEMMA OwnSeq ==
  ASSUME NEW S, NEW T, T \subseteq S, NEW s \in Seq(T)
  PROVE  s \in Seq(S)
BY SeqDef

(* What rte_eth_rx_burst returns.                                          *)
LEMMA BurstSeq ==
  ASSUME NEW t \in Threads, NEW s \in Bursts(t)
  PROVE  /\ s \in Seq(FlowsOf[t]) /\ s # <<>>
         /\ Len(s) \in Nat /\ Len(s) > 0 /\ Len(s) <= BurstSize
<1>1. PICK num \in 1 .. BurstSize : s \in [1 .. num -> FlowsOf[t]]
  BY DEF Bursts
<1>2. num \in Nat /\ num > 0 /\ num <= BurstSize
  BY GapAssumption
<1>3. s \in Seq(FlowsOf[t]) /\ DOMAIN s = 1 .. num
  BY <1>1, <1>2, SeqDef
<1>4. Len(s) = num
  BY <1>2, <1>3, LenProperties
<1> QED
  BY <1>2, <1>3, <1>4, EmptySeq

(* The invariant holds at the start.                                       *)
LEMMA InitInv == Init => Inv
<1> SUFFICES ASSUME Init PROVE Inv
  OBVIOUS
<1>1. Base
  BY GapAssumption DEF Init, Base
<1>2. \A t \in Threads : BurstOK(t)
  BY GapAssumption DEF Init, BurstOK
<1> QED
  BY <1>1, <1>2 DEF Inv

(* A burst comes.                                                          *)
LEMMA PollInv ==
  ASSUME Inv, NEW t \in Threads, Poll(t)
  PROVE  /\ Inv'
         /\ \E s \in Bursts(t) :
              /\ polled' = polled + Len(s)
              /\ burst' = [burst EXCEPT ![t] = s]
              /\ re' = IF CountFirst THEN Counted(t, Len(s)) ELSE re
<1>1. PICK s \in Bursts(t) : 
        /\ polled' = polled + Len(s)
        /\ burst' = [burst EXCEPT ![t] = s]
        /\ re' = IF CountFirst THEN Counted(t, Len(s)) ELSE re
  BY DEF Poll
<1>2. /\ global' = [global EXCEPT ![Cell(t)] = 0]
      /\ qNum' = [qNum EXCEPT ![t] = N]
      /\ pc' = [pc EXCEPT ![t] = "sum"]
      /\ UNCHANGED <<setup, slotVars, history>>
  BY DEF Poll, Zeroed
<1>3. /\ s \in Seq(FlowsOf[t]) /\ s # <<>>
      /\ Len(s) \in Nat /\ Len(s) > 0 /\ Len(s) <= BurstSize
  BY BurstSeq
<1>4. Cell(t) \in Threads /\ FlowsOf[t] \subseteq Flows
  BY OfSetup DEF Inv, Base
<1>5. Base'
  <2>1. s \in Seq(Flows)
    BY <1>3, <1>4, OwnSeq
  <2>2. re' \in [Threads -> Nat]
    <3>1. CASE CountFirst
      BY <1>1, <1>3, <3>1 DEF Inv, Base, Counted
    <3>2. CASE ~CountFirst
      BY <1>1, <3>2 DEF Inv, Base
    <3> QED
      BY <3>1, <3>2
  <2>3. global' \in [Threads -> Nat]
    BY <1>2, <1>4 DEF Inv, Base
  <2>4. qNum' \in [Threads -> 0 .. N]
    BY <1>2, GapAssumption DEF Inv, Base
  <2>5. /\ burst' \in [Threads -> Seq(Flows)] /\ polled' \in Nat
        /\ pc' \in [Threads -> {"poll", "sum", "packets"}]
    BY <1>1, <1>2, <1>3, <2>1, SMTT(30) DEF Inv, Base
  <2> QED
    BY <1>2, <2>2, <2>3, <2>4, <2>5 DEF Inv, Base, slotVars, history
<1>6. \A u \in Threads : BurstOK(u)'
  BY <1>1, <1>2, <1>3 DEF Inv, Base, BurstOK, FlowsOf
<1> QED
  BY <1>1, <1>5, <1>6 DEF Inv

(* An entry of re is added.                                                *)
LEMMA AddEntryInv ==
  ASSUME Inv, NEW t \in Threads, AddEntry(t)
  PROVE  Inv' /\ qNum[t] - 1 \in Threads /\ re[qNum[t] - 1] \in Nat
<1>1. /\ qNum[t] > 0
      /\ qNum' = [qNum EXCEPT ![t] = @ - 1]
      /\ global' = [global EXCEPT ![Cell(t)] = @ + re[qNum[t] - 1]]
      /\ UNCHANGED <<setup, re, pc, burst, slotVars, polled, history>>
  BY DEF AddEntry
<1>2. qNum[t] \in 0 .. N
  BY DEF Inv, Base
<1>3. qNum[t] - 1 \in Threads /\ re[qNum[t] - 1] \in Nat
  <2>1. PICK k \in 0 .. N : k = qNum[t]
    BY <1>2
  <2>2. k - 1 \in Threads
    BY <1>1, <2>1, GapAssumption DEF Threads
  <2> QED
    BY <2>1, <2>2 DEF Inv, Base
<1>4. Base'
  <2>1. global' \in [Threads -> Nat]
    <3>1. PICK num \in Nat : num = re[qNum[t] - 1]
      BY <1>3
    <3>2. Cell(t) \in Threads
      BY OfSetup DEF Inv, Base
    <3> QED
      BY <1>1, <3>1, <3>2, SMTT(30) DEF Inv, Base
  <2>2. qNum' \in [Threads -> 0 .. N]
    BY <1>1, <1>2, GapAssumption DEF Inv, Base
  <2> QED
    BY <1>1, <2>1, <2>2 DEF Inv, Base, slotVars, history
<1>5. \A u \in Threads : BurstOK(u)'
  BY <1>1 DEF Inv, BurstOK, FlowsOf
<1> QED
  BY <1>3, <1>4, <1>5 DEF Inv

(* All entries are.                                                        *)
LEMMA SumEndsInv ==
  ASSUME Inv, NEW t \in Threads, SumEnds(t)
  PROVE  Inv' /\ Len(burst[t]) \in Nat
<1>1. /\ pc[t] = "sum"
      /\ re' = IF CountFirst THEN re ELSE Counted(t, InFlight(t))
      /\ pc' = [pc EXCEPT ![t] = "packets"]
      /\ UNCHANGED <<setup, global, qNum, burst, slotVars, polled, history>>
  BY DEF SumEnds
<1>2. Len(burst[t]) \in Nat
  BY LenProperties DEF Inv, BurstOK
<1>3. Base'
  <2>1. re' \in [Threads -> Nat]
    <3>1. CASE CountFirst
      BY <1>1, <3>1 DEF Inv, Base
    <3>2. CASE ~CountFirst
      BY <1>1, <1>2, <3>2 DEF Inv, Base, Counted, InFlight
    <3> QED
      BY <3>1, <3>2
  <2> QED
    BY <1>1, <2>1 DEF Inv, Base, slotVars, history
<1>4. \A u \in Threads : BurstOK(u)'
  BY <1>1 DEF Inv, Base, BurstOK, FlowsOf
<1> QED
  BY <1>2, <1>3, <1>4 DEF Inv

(* What a packet of flow f at position g does to the place of its flow.    *)
Gap(f, g) == g - 1 - ipg[f]

(* Thread t processes a packet of f at position g.                         *)
Slot(f, g) ==
  \/ /\ ctr[f] = 0 /\ Positioned(f)
     /\ gapsum' = [gapsum EXCEPT ![f] = Gap(f, g)]
     /\ ipg' = [ipg EXCEPT ![f] = g]
  \/ /\ ctr[f] = 0 /\ ~Positioned(f)
     /\ gapsum' = [gapsum EXCEPT ![f] = ipg[f]]
     /\ ipg' = ipg
  \/ /\ ctr[f] > 0 /\ Kept(f)
     /\ gapsum' = [gapsum EXCEPT ![f] = @ + Gap(f, g)]
     /\ ipg' = [ipg EXCEPT ![f] = g]
  \/ /\ ctr[f] > 0 /\ ~Kept(f)
     /\ gapsum' = [gapsum EXCEPT ![f] = @ + Gap(f, g)]
     /\ ipg' = ipg

PacketOf(t, f, g) ==
  /\ f \in Flows /\ g = global[Cell(t)]
  /\ pc[t] = "packets"
  /\ ctr' = [ctr EXCEPT ![f] = @ + 1]
  /\ last' = [last EXCEPT ![f] = done + 1]
  /\ pos' = [pos EXCEPT ![f] = g]
  /\ Slot(f, g)
  /\ done' = done + 1
  /\ burst' = [burst EXCEPT ![t] = Tail(@)]
  /\ pc' = [pc EXCEPT ![t] = IF Len(burst[t]) = 1 THEN "poll" ELSE "packets"]
  /\ UNCHANGED <<setup, re, global, qNum, polled>>

(* Packet does so, for a flow of its thread.                               *)
LEMMA PacketStep ==
  ASSUME Inv, NEW t \in Threads, Packet(t)
  PROVE  \E f \in FlowsOf[t], g \in Nat : PacketOf(t, f, g)
<1>1. PICK f : f = Head(burst[t])
  OBVIOUS
<1>2. /\ pc[t] = "packets"
      /\ Claim(t, f) \/ Hit(t, f)
      /\ ctr' = [ctr EXCEPT ![f] = @ + 1]
      /\ last' = [last EXCEPT ![f] = done + 1]
      /\ pos' = [pos EXCEPT ![f] = global[Cell(t)]]
      /\ done' = done + 1
      /\ burst' = [burst EXCEPT ![t] = Tail(@)]
      /\ pc' = [pc EXCEPT ![t] = IF Len(burst[t]) = 1 THEN "poll" ELSE "packets"]
      /\ UNCHANGED <<setup, re, global, qNum, polled>>
  BY <1>1 DEF Packet, InFlight
<1>3. f \in FlowsOf[t] /\ f \in Flows
  <2>1. burst[t] \in Seq(FlowsOf[t]) /\ burst[t] # <<>>
    BY <1>2 DEF Inv, BurstOK
  <2>2. FlowsOf[t] \subseteq Flows
    BY OfSetup DEF Inv, Base
  <2> QED
    BY <1>1, <2>1, <2>2, HeadTailProperties
<1>4. PICK g \in Nat : g = global[Cell(t)]
  BY OfSetup DEF Inv, Base
<1>5. Slot(f, g)
  <2>1. CASE Claim(t, f)
    BY <1>4, <2>1, Zenon DEF Claim, Gap, Slot
  <2>2. CASE Hit(t, f)
    BY <1>4, <2>2, Zenon DEF Hit, Keep, Gap, Slot
  <2> QED
    BY <1>2, <2>1, <2>2
<1>6. pos' = [pos EXCEPT ![f] = g]
  BY <1>2, <1>4
<1> QED
  BY <1>2, <1>3, <1>4, <1>5, <1>6, Zenon DEF PacketOf

(* The invariant is kept.                                                  *)
LEMMA PacketInv ==
  ASSUME Inv, NEW t \in Threads, Packet(t)
  PROVE  Inv'
<1>0. PICK f \in FlowsOf[t], g \in Nat : PacketOf(t, f, g)
  BY PacketStep
<1>1. /\ f \in Flows
      /\ pc[t] = "packets"
      /\ ctr' = [ctr EXCEPT ![f] = @ + 1]
      /\ last' = [last EXCEPT ![f] = done + 1]
      /\ pos' = [pos EXCEPT ![f] = g]
      /\ done' = done + 1
      /\ burst' = [burst EXCEPT ![t] = Tail(@)]
      /\ pc' = [pc EXCEPT ![t] = IF Len(burst[t]) = 1 THEN "poll" ELSE "packets"]
      /\ UNCHANGED <<setup, re, global, qNum, polled>>
  BY <1>0, Zenon DEF PacketOf
<1>2. /\ burst[t] \in Seq(FlowsOf[t]) /\ burst[t] # <<>>
      /\ Len(burst[t]) <= BurstSize /\ FlowsOf[t] \subseteq Flows
  BY <1>1, OfSetup DEF Inv, BurstOK, Base
<1>3. /\ Tail(burst[t]) \in Seq(FlowsOf[t])
      /\ Len(burst[t]) \in Nat
      /\ Len(Tail(burst[t])) = Len(burst[t]) - 1
      /\ Len(burst[t]) # 1 => Tail(burst[t]) # <<>>
  <2>1. /\ Tail(burst[t]) \in Seq(FlowsOf[t])
        /\ Len(Tail(burst[t])) = Len(burst[t]) - 1
        /\ Len(burst[t]) \in Nat
    BY <1>2, HeadTailProperties, LenProperties
  <2>2. Len(Tail(burst[t])) # 0 => Tail(burst[t]) # <<>>
    BY EmptySeq
  <2> QED
    BY <2>1, <2>2
<1>4. Base'
  <2>1. gapsum' \in [Flows -> Int]
    <3>1. Gap(f, g) \in Int /\ ipg[f] \in Int /\ gapsum[f] \in Int
      BY <1>1 DEF Gap, Inv, Base
    <3>2. \/ gapsum' = [gapsum EXCEPT ![f] = Gap(f, g)]
          \/ gapsum' = [gapsum EXCEPT ![f] = ipg[f]]
          \/ gapsum' = [gapsum EXCEPT ![f] = @ + Gap(f, g)]
      BY <1>0, Zenon DEF PacketOf, Slot
    <3> QED
      BY <3>1, <3>2 DEF Inv, Base
  <2>2. ipg' \in [Flows -> Nat]
    <3>1. ipg' = [ipg EXCEPT ![f] = g] \/ ipg' = ipg
      BY <1>0, Zenon DEF PacketOf, Slot
    <3> QED
      BY <3>1 DEF Inv, Base
  <2>6. pos' \in [Flows -> Nat] /\ ctr' \in [Flows -> Nat]
    BY <1>1 DEF Inv, Base
  <2>3. last' \in [Flows -> Nat] /\ done' \in Nat
    BY <1>1 DEF Inv, Base
  <2>4. Tail(burst[t]) \in Seq(Flows)
    BY <1>2, <1>3, OwnSeq
  <2>5. burst' \in [Threads -> Seq(Flows)]
        /\ pc' \in [Threads -> {"poll", "sum", "packets"}]
    BY <1>1, <2>4 DEF Inv, Base
  <2> QED
    BY <1>1, <2>1, <2>2, <2>3, <2>5, <2>6 DEF Inv, Base
<1>5. \A u \in Threads : BurstOK(u)'
  <2> SUFFICES ASSUME NEW u \in Threads PROVE BurstOK(u)'
    OBVIOUS
  <2>1. CASE u # t
    BY <1>1, <2>1 DEF Inv, Base, BurstOK, FlowsOf
  <2>2. CASE u = t
    <3>1. burst'[u] = Tail(burst[t])
      BY <1>1, <2>2 DEF Inv, Base
    <3>2. pc'[u] # "poll" => Len(burst[t]) # 1
      BY <1>1, <2>2 DEF Inv, Base
    <3>3. Len(Tail(burst[t])) <= BurstSize
      BY <1>2, <1>3, GapAssumption
    <3> QED
      BY <1>1, <1>3, <2>2, <3>1, <3>2, <3>3 DEF BurstOK, FlowsOf
  <2> QED
    BY <2>1, <2>2
<1> QED
  BY <1>4, <1>5 DEF Inv

(* The invariant is kept by every step.                                    *)
LEMMA NextInv == Inv /\ [Next]_vars => Inv'
<1> SUFFICES ASSUME Inv, [Next]_vars PROVE Inv'
  OBVIOUS
<1>1. CASE UNCHANGED vars
  <2>1. Base'
    BY <1>1 DEF Inv, Base, vars, threadVars, slotVars, history
  <2>2. \A t \in Threads : BurstOK(t)'
    BY <1>1 DEF Inv, BurstOK, vars, threadVars, FlowsOf
  <2> QED
    BY <2>1, <2>2 DEF Inv
<1>2. CASE Next
  BY <1>2, PollInv, AddEntryInv, SumEndsInv, PacketInv DEF Next
<1> QED
  BY <1>1, <1>2

(* Inv holds.                                                              *)
LEMMA AlwaysInv == Spec => []Inv
<1> QED
  BY InitInv, NextInv, PTL DEF Spec

-----------------------------------------------------------------------------
(* Positions.  No two threads at work use the same variable global, and    *)
(* what a thread will have summed is no less than the positions that it    *)
(* has given, and no more than what re adds up to.                         *)
OwnCells == Serial \/ ~SharedGlobal

SumTo(k) == SumFunctionOnSet(re, 0 .. k - 1)

WillSum(t) == IF pc[t] = "poll" THEN SumTo(N)
              ELSE IF pc[t] = "sum" THEN global[Cell(t)] + SumTo(qNum[t])
              ELSE global[Cell(t)]

PosOK(t) ==
  /\ WillSum(t) <= SumTo(N)
  /\ \A f \in FlowsOf[t] : ipg[f] <= WillSum(t)

(* A thread at work has flows, and a variable global of its own.           *)
LEMMA CellsApart ==
  ASSUME Inv, OwnCells, NEW t \in Threads, NEW u \in Threads \ {t},
         FlowsOf[t] # {}, FlowsOf[u] # {}
  PROVE  Cell(t) # Cell(u)
<1>1. CASE Serial
  <2>1. PICK v \in Threads : FlowsOf[v] = Flows
    BY <1>1 DEF Serial
  <2>2. v # t => FlowsOf[t] = {}
    BY <2>1, OfSetup DEF Inv, Base
  <2>3. v # u => FlowsOf[u] = {}
    BY <2>1, OfSetup DEF Inv, Base
  <2> QED
    BY <2>2, <2>3
<1>2. CASE ~SharedGlobal
  BY <1>2 DEF Cell
<1> QED
  BY <1>1, <1>2 DEF OwnCells

(* A thread that does not poll has packets, so flows.                      *)
LEMMA AtWork ==
  ASSUME Inv, NEW t \in Threads, pc[t] # "poll"
  PROVE  FlowsOf[t] # {}
<1>1. burst[t] \in Seq(FlowsOf[t]) /\ burst[t] # <<>>
  BY DEF Inv, BurstOK
<1> QED
  BY <1>1, HeadTailProperties

(* The sums of re.                                                         *)
LEMMA SumToNat ==
  ASSUME Base, NEW k \in 0 .. N
  PROVE  SumTo(k) \in Nat /\ IsFiniteSet(0 .. k - 1) /\ 0 .. k - 1 \subseteq Threads
<1>1. 0 \in Int /\ k - 1 \in Int /\ 0 .. k - 1 \subseteq Threads
  BY GapAssumption DEF Threads
<1>2. IsFiniteSet(0 .. k - 1)
  BY <1>1, FS_Interval
<1>3. \A i \in 0 .. k - 1 : re[i] \in Nat
  BY <1>1 DEF Base
<1> QED
  BY <1>1, <1>2, <1>3, SumNat DEF SumTo

(* The first entry, and one more.                                          *)
LEMMA SumToStep ==
  ASSUME Base
  PROVE  /\ SumTo(0) = 0
         /\ \A k \in 1 .. N : SumTo(k) = SumTo(k - 1) + re[k - 1]
<1>1. SumTo(0) = 0
  <2>1. 0 .. 0 - 1 = {}
    OBVIOUS
  <2> QED
    BY <2>1, SumEmpty DEF SumTo
<1>2. ASSUME NEW k \in 1 .. N PROVE SumTo(k) = SumTo(k - 1) + re[k - 1]
  <2>1. PICK num : num = k - 1
    OBVIOUS
  <2>2. num \in Nat /\ k - 1 = num
    BY <2>1, GapAssumption
  <2>3. \A i \in 0 .. num : re[i] \in Int
    BY <2>1, GapAssumption DEF Base, Threads
  <2>4. SumFunctionOnSet(re, 0 .. num) = SumFunctionOnSet(re, 0 .. num - 1) + re[num]
    BY <2>2, <2>3, SumUpTo
  <2> QED
    BY <2>2, <2>4 DEF SumTo
<1> QED
  BY <1>1, <1>2

(* When an entry grows by num, a sum grows by num or not at all.               *)
LEMMA SumToGrows ==
  ASSUME Base, NEW t \in Threads, NEW num \in Nat, re' = Counted(t, num),
         NEW k \in 0 .. N
  PROVE  /\ SumTo(k)' = SumTo(k) \/ SumTo(k)' = SumTo(k) + num
         /\ k = N => SumTo(k)' = SumTo(k) + num
         /\ SumTo(k) \in Nat /\ SumTo(k)' \in Nat
<1>0. /\ SumTo(k) \in Nat /\ IsFiniteSet(0 .. k - 1) /\ 0 .. k - 1 \subseteq Threads
  BY SumToNat
<1>1. re'[t] = re[t] + num /\ re[t] \in Nat /\ \A u \in Threads \ {t} : re'[u] = re[u]
  BY DEF Base, Counted
<1>2. \A u \in Threads : re[u] \in Int /\ re'[u] \in Int
  BY DEF Base, Counted
<1>3. SumTo(k)' = SumFunctionOnSet(re', 0 .. k - 1)
  BY DEF SumTo
<1>4. CASE t \in 0 .. k - 1
  <2> DEFINE S == 0 .. k - 1
  <2>1. t \in S /\ IsFiniteSet(S) /\ \A u \in S : re[u] \in Int /\ re'[u] \in Int
    BY <1>0, <1>2, <1>4
  <2>2. \A u \in S \ {t} : re'[u] = re[u]
    BY <1>0, <1>1
  <2> HIDE DEF S
  <2>3. SumFunctionOnSet(re', S) = SumFunctionOnSet(re, S) + (re'[t] - re[t])
    BY <2>1, <2>2, SumUpdate
  <2>4. re'[t] - re[t] = num
    BY <1>1
  <2>5. SumTo(k)' = SumTo(k) + num
    BY <1>3, <2>3, <2>4 DEF SumTo, S
  <2> QED
    BY <1>0, <2>5
<1>5. CASE t \notin 0 .. k - 1
  <2>1. k # N
    BY <1>5 DEF Threads
  <2>2. \A u \in 0 .. k - 1 : re'[u] = re[u]
    BY <1>0, <1>1, <1>5
  <2>3. SumFunctionOnSet(re', 0 .. k - 1) = SumFunctionOnSet(re, 0 .. k - 1)
    BY <1>0, <2>2, SumSame
  <2> QED
    BY <1>0, <1>3, <2>1, <2>3 DEF SumTo
<1> QED
  BY <1>4, <1>5

(* A step of thread t changes re by num, which may be 0.                     *)
LEMMA SameIsGrown ==
  ASSUME Base, NEW t \in Threads, re' = re
  PROVE  re' = Counted(t, 0)
BY DEF Base, Counted

(* The sum of another thread.                                              *)
LEMMA OtherSum ==
  ASSUME Inv, NEW t \in Threads, NEW num \in Nat, re' = Counted(t, num),
         NEW u \in Threads, PosOK(u), setup' = setup,
         pc'[u] = pc[u], qNum'[u] = qNum[u],
         pc[u] # "poll" => global'[Cell(u)] = global[Cell(u)],
         \A f \in FlowsOf[u] : ipg'[f] = ipg[f]
  PROVE  PosOK(u)'
<1>0. /\ global[Cell(u)] \in Nat /\ qNum[u] \in 0 .. N /\ N \in 0 .. N
      /\ \A f \in FlowsOf[u] : ipg[f] \in Nat
  BY OfSetup, GapAssumption DEF Inv, Base
<1>1. /\ SumTo(N)' = SumTo(N) + num /\ SumTo(N) \in Nat
      /\ SumTo(qNum[u])' = SumTo(qNum[u]) \/ SumTo(qNum[u])' = SumTo(qNum[u]) + num
      /\ SumTo(qNum[u]) \in Nat
  <2>1. PICK k \in 0 .. N : k = qNum[u]
    BY <1>0
  <2>2. /\ SumTo(k)' = SumTo(k) \/ SumTo(k)' = SumTo(k) + num
        /\ SumTo(k) \in Nat
    BY SumToGrows DEF Inv
  <2>3. SumTo(N)' = SumTo(N) + num /\ SumTo(N) \in Nat
    BY <1>0, SumToGrows DEF Inv
  <2>4. SumTo(qNum[u]) = SumTo(k) /\ SumTo(qNum[u])' = SumTo(k)'
    BY <2>1 DEF SumTo
  <2> QED
    BY <2>2, <2>3, <2>4
<1>2. /\ WillSum(u) \in Nat
      /\ WillSum(u)' = WillSum(u) \/ WillSum(u)' = WillSum(u) + num
  <2>1. Cell(u)' = Cell(u)
    BY DEF Cell, SharedGlobal
  <2>2. SumTo(qNum[u])' = SumFunctionOnSet(re', 0 .. qNum[u] - 1)
    BY DEF SumTo
  <2>3. CASE pc[u] = "poll"
    BY <1>1, <2>3 DEF WillSum
  <2>4. CASE pc[u] = "sum"
    <3>1. WillSum(u) = global[Cell(u)] + SumTo(qNum[u])
      BY <2>4 DEF WillSum
    <3>2. WillSum(u)' = global[Cell(u)] + SumTo(qNum[u])'
      BY <2>1, <2>4 DEF WillSum
    <3> QED
      BY <1>0, <1>1, <3>1, <3>2
  <2>5. CASE pc[u] # "poll" /\ pc[u] # "sum"
    BY <1>0, <2>1, <2>5 DEF WillSum
  <2> QED
    BY <2>3, <2>4, <2>5
<1>3. FlowsOf' = FlowsOf
  BY DEF FlowsOf
<1>4. WillSum(u)' <= SumTo(N)' /\ WillSum(u) <= WillSum(u)' /\ WillSum(u)' \in Nat
  BY <1>1, <1>2 DEF PosOK
<1>5. ASSUME NEW f \in FlowsOf[u] PROVE ipg'[f] <= WillSum(u)'
  <2>1. ipg[f] <= WillSum(u) /\ ipg[f] \in Nat /\ ipg'[f] = ipg[f]
    BY <1>0 DEF PosOK
  <2> QED
    BY <1>2, <1>4, <2>1
<1> QED
  BY <1>3, <1>4, <1>5 DEF PosOK

PosInv == OwnCells => \A t \in Threads : PosOK(t)

(* The variable of another thread at work.                                 *)
LEMMA OtherCell ==
  ASSUME Inv, OwnCells, NEW t \in Threads, FlowsOf[t] # {},
         NEW u \in Threads \ {t}, pc[u] # "poll",
         NEW v, global' = [global EXCEPT ![Cell(t)] = v]
  PROVE  global'[Cell(u)] = global[Cell(u)]
<1>1. FlowsOf[u] # {}
  BY AtWork
<1>2. Cell(t) # Cell(u)
  BY <1>1, CellsApart
<1>3. Cell(u) \in Threads
  BY OfSetup DEF Inv, Base
<1> QED
  BY <1>2, <1>3 DEF Inv, Base

(* How re changes.                                                         *)
LEMMA PollCounts ==
  ASSUME Inv, NEW t \in Threads, NEW num \in Nat,
         re' = re \/ re' = Counted(t, num)
  PROVE  \E k \in Nat : re' = Counted(t, k)
BY SameIsGrown DEF Inv

(* Poll starts a sum.                                                      *)
LEMMA PollPos ==
  ASSUME Inv, OwnCells, \A u \in Threads : PosOK(u), NEW t \in Threads, Poll(t)
  PROVE  \A u \in Threads : PosOK(u)'
<1>1. PICK s \in Bursts(t) : re' = IF CountFirst THEN Counted(t, Len(s)) ELSE re
  BY PollInv
<1>2. /\ pc[t] = "poll"
      /\ global' = [global EXCEPT ![Cell(t)] = 0]
      /\ qNum' = [qNum EXCEPT ![t] = N]
      /\ pc' = [pc EXCEPT ![t] = "sum"]
      /\ setup' = setup /\ ipg' = ipg
  BY DEF Poll, Zeroed, slotVars
<1>3. PICK k \in Nat : re' = Counted(t, k)
  <2>1. Len(s) \in Nat
    BY BurstSeq
  <2>2. re' = re \/ re' = Counted(t, Len(s))
    BY <1>1
  <2> QED
    BY <2>1, <2>2, PollCounts
<1>4. FlowsOf[t] # {}
  <2>1. s \in Seq(FlowsOf[t]) /\ s # <<>>
    BY BurstSeq
  <2> QED
    BY <2>1, HeadTailProperties
<1>5. ASSUME NEW u \in Threads \ {t} PROVE PosOK(u)'
  <2>1. pc'[u] = pc[u] /\ qNum'[u] = qNum[u]
    BY <1>2 DEF Inv, Base
  <2>2. pc[u] # "poll" => global'[Cell(u)] = global[Cell(u)]
    BY <1>2, <1>4, OtherCell
  <2> QED
    BY <1>2, <1>3, <2>1, <2>2, OtherSum
<1>6. PosOK(t)'
  <2>1. SumTo(N)' = SumTo(N) + k /\ SumTo(N) \in Nat
    <3>1. N \in 0 .. N
      BY GapAssumption
    <3> QED
      BY <1>3, <3>1, SumToGrows DEF Inv
  <2>2. Cell(t) \in Threads /\ Cell(t)' = Cell(t)
    BY <1>2, OfSetup DEF Inv, Base, Cell, SharedGlobal
  <2>3. global'[Cell(t)] = 0 /\ pc'[t] = "sum" /\ qNum'[t] = N
    BY <1>2, <2>2 DEF Inv, Base
  <2>4. WillSum(t)' = 0 + SumTo(N)'
    BY <2>2, <2>3 DEF WillSum, SumTo
  <2>5. \A f \in FlowsOf[t] : ipg[f] <= SumTo(N) /\ ipg[f] \in Nat
    BY <1>2, OfSetup DEF PosOK, WillSum, Inv, Base
  <2>6. \A f \in FlowsOf[t] : ipg[f] <= SumTo(N)'
    BY <2>1, <2>5
  <2>7. WillSum(t)' = SumTo(N)' /\ WillSum(t)' <= SumTo(N)'
    BY <2>1, <2>4
  <2> QED
    BY <1>2, <2>6, <2>7 DEF PosOK, FlowsOf
<1> QED
  BY <1>5, <1>6

(* AddEntry continues it: what is added was still to be added.             *)
LEMMA AddEntryPos ==
  ASSUME Inv, OwnCells, \A u \in Threads : PosOK(u), NEW t \in Threads, AddEntry(t)
  PROVE  \A u \in Threads : PosOK(u)'
<1>1. /\ pc[t] = "sum" /\ qNum[t] > 0
      /\ qNum' = [qNum EXCEPT ![t] = @ - 1]
      /\ global' = [global EXCEPT ![Cell(t)] = @ + re[qNum[t] - 1]]
      /\ setup' = setup /\ re' = re /\ pc' = pc /\ ipg' = ipg
  BY DEF AddEntry, slotVars
<1>2. FlowsOf[t] # {} /\ re' = Counted(t, 0)
  BY <1>1, AtWork, SameIsGrown DEF Inv
<1>3. PICK v : global' = [global EXCEPT ![Cell(t)] = v]
  BY <1>1
<1>5. ASSUME NEW u \in Threads \ {t} PROVE PosOK(u)'
  <2>1. pc'[u] = pc[u] /\ qNum'[u] = qNum[u]
    BY <1>1 DEF Inv, Base
  <2>2. pc[u] # "poll" => global'[Cell(u)] = global[Cell(u)]
    BY <1>2, <1>3, OtherCell
  <2> QED
    BY <1>1, <1>2, <2>1, <2>2, OtherSum
<1>6. PosOK(t)'
  <2>1. PICK k \in 1 .. N : k = qNum[t]
    BY <1>1, GapAssumption DEF Inv, Base
  <2>2. Cell(t) \in Threads /\ Cell(t)' = Cell(t)
    BY <1>1, OfSetup DEF Inv, Base, Cell, SharedGlobal
  <2>3. /\ global'[Cell(t)] = global[Cell(t)] + re[k - 1]
        /\ qNum'[t] = k - 1
    BY <1>1, <2>1, <2>2 DEF Inv, Base
  <2>4. SumTo(k) = SumTo(k - 1) + re[k - 1]
    BY SumToStep DEF Inv
  <2>5. /\ global[Cell(t)] \in Nat /\ re[k - 1] \in Nat /\ SumTo(k - 1) \in Nat
    <3>1. k - 1 \in 0 .. N /\ k - 1 \in Threads
      BY GapAssumption DEF Threads
    <3> QED
      BY <2>2, <3>1, SumToNat DEF Inv, Base
  <2>6. WillSum(t) = global[Cell(t)] + SumTo(k)
    BY <1>1, <2>1 DEF WillSum
  <2>7. WillSum(t)' = (global[Cell(t)] + re[k - 1]) + SumTo(k - 1)
    BY <1>1, <2>2, <2>3 DEF WillSum, SumTo
  <2>8. WillSum(t)' = WillSum(t)
    BY <2>4, <2>5, <2>6, <2>7
  <2> QED
    BY <1>1, <2>8 DEF PosOK, FlowsOf, SumTo
<1> QED
  BY <1>5, <1>6

(* SumEnds: nothing is left to be added.                                   *)
LEMMA SumEndsPos ==
  ASSUME Inv, OwnCells, \A u \in Threads : PosOK(u), NEW t \in Threads, SumEnds(t)
  PROVE  \A u \in Threads : PosOK(u)'
<1>1. /\ pc[t] = "sum" /\ qNum[t] = 0
      /\ re' = IF CountFirst THEN re ELSE Counted(t, InFlight(t))
      /\ pc' = [pc EXCEPT ![t] = "packets"]
      /\ setup' = setup /\ global' = global /\ qNum' = qNum /\ ipg' = ipg
  BY DEF SumEnds, slotVars
<1>3. PICK k \in Nat : re' = Counted(t, k)
  <2>1. InFlight(t) \in Nat
    BY SumEndsInv DEF InFlight
  <2>2. re' = re \/ re' = Counted(t, InFlight(t))
    BY <1>1
  <2> QED
    BY <2>1, <2>2, PollCounts
<1>5. ASSUME NEW u \in Threads \ {t} PROVE PosOK(u)'
  <2>1. pc'[u] = pc[u]
    BY <1>1 DEF Inv, Base
  <2> QED
    BY <1>1, <1>3, <2>1, OtherSum
<1>6. PosOK(t)'
  <2>1. SumTo(N)' = SumTo(N) + k /\ SumTo(N) \in Nat
    <3>1. N \in 0 .. N
      BY GapAssumption
    <3> QED
      BY <1>3, <3>1, SumToGrows DEF Inv
  <2>2. Cell(t) \in Threads /\ Cell(t)' = Cell(t) /\ pc'[t] = "packets"
    BY <1>1, OfSetup DEF Inv, Base, Cell, SharedGlobal
  <2>3. global[Cell(t)] \in Nat
    BY <2>2 DEF Inv, Base
  <2>4. WillSum(t) = global[Cell(t)] + 0
    BY <1>1, SumToStep DEF WillSum, Inv
  <2>5. WillSum(t)' = global[Cell(t)]
    BY <1>1, <2>2 DEF WillSum
  <2>6. WillSum(t)' = WillSum(t)
    BY <2>3, <2>4, <2>5
  <2>7. WillSum(t) <= SumTo(N)'
    BY <2>1, <2>3, <2>4 DEF PosOK
  <2> QED
    BY <1>1, <2>6, <2>7 DEF PosOK, FlowsOf
<1> QED
  BY <1>5, <1>6

(* A packet is given the sum for its position, which is not less than that *)
(* of any packet before it.                                                *)
LEMMA PacketPos ==
  ASSUME Inv, OwnCells, \A u \in Threads : PosOK(u), NEW t \in Threads, Packet(t)
  PROVE  Forward /\ \A u \in Threads : PosOK(u)'
<1>0. PICK f \in FlowsOf[t], g \in Nat : PacketOf(t, f, g)
  BY PacketStep
<1>1. /\ f \in Flows /\ g = global[Cell(t)] /\ pc[t] = "packets"
      /\ pc' = [pc EXCEPT ![t] = IF Len(burst[t]) = 1 THEN "poll" ELSE "packets"]
      /\ setup' = setup /\ re' = re /\ global' = global /\ qNum' = qNum
  BY <1>0, Zenon DEF PacketOf
<1>2. ipg' = [ipg EXCEPT ![f] = g] \/ ipg' = ipg
  BY <1>0, Zenon DEF PacketOf, Slot
<1>3. WillSum(t) = g /\ g <= SumTo(N) /\ \A e \in FlowsOf[t] : ipg[e] <= g
  <2>1. WillSum(t) = g
    BY <1>1 DEF WillSum
  <2> QED
    BY <2>1 DEF PosOK
<1>4. \A e \in Flows : ipg[e] \in Nat
  BY DEF Inv, Base
<1>5. Forward /\ \A e \in Flows : ipg'[e] = ipg[e] \/ (e = f /\ ipg'[e] = g)
  <2>1. CASE ipg' = ipg
    BY <1>4, <2>1 DEF Forward
  <2>2. CASE ipg' = [ipg EXCEPT ![f] = g]
    <3>1. \A e \in Flows : ipg'[e] = ipg[e] \/ (e = f /\ ipg'[e] = g)
      BY <2>2 DEF Inv, Base
    <3>2. \A e \in Flows : ipg[e] <= ipg[e] /\ (e = f => ipg[e] <= g)
      BY <1>3, <1>4
    <3> QED
      BY <1>4, <3>1, <3>2 DEF Forward
  <2> QED
    BY <1>2, <2>1, <2>2
<1>6. re' = Counted(t, 0)
  BY <1>1, SameIsGrown DEF Inv
<1>7. ASSUME NEW u \in Threads \ {t} PROVE PosOK(u)'
  <2>1. pc'[u] = pc[u]
    BY <1>1 DEF Inv, Base
  <2>2. f \notin FlowsOf[u] /\ FlowsOf[u] \subseteq Flows
    BY OfSetup DEF Inv, Base
  <2>3. \A e \in FlowsOf[u] : ipg'[e] = ipg[e]
    BY <1>1, <1>2, <2>2 DEF Inv, Base
  <2> QED
    BY <1>1, <1>6, <2>1, <2>3, OtherSum
<1>8. PosOK(t)'
  <2>1. SumTo(N)' = SumTo(N) /\ SumTo(N) \in Nat
    <3>1. N \in 0 .. N
      BY GapAssumption
    <3> QED
      BY <1>1, <3>1, SumToNat DEF SumTo, Inv
  <2>2. Cell(t)' = Cell(t)
    BY <1>1 DEF Cell, SharedGlobal
  <2>3. pc'[t] = "poll" \/ pc'[t] = "packets"
    BY <1>1 DEF Inv, Base
  <2>4. WillSum(t)' = SumTo(N) \/ WillSum(t)' = g
    BY <1>1, <2>1, <2>2, <2>3 DEF WillSum
  <2>5. \A e \in FlowsOf[t] : ipg'[e] <= g /\ ipg'[e] \in Nat
    <3>1. FlowsOf[t] \subseteq Flows
      BY OfSetup DEF Inv, Base
    <3> QED
      BY <1>3, <1>4, <1>5, <3>1
  <2>6. /\ WillSum(t)' <= SumTo(N)
        /\ \A e \in FlowsOf[t] : ipg'[e] <= WillSum(t)'
    BY <1>3, <2>1, <2>4, <2>5
  <2> QED
    BY <1>1, <2>1, <2>6 DEF PosOK, FlowsOf
<1> QED
  BY <1>5, <1>7, <1>8

(* Every step keeps the positions in order.                                *)
LEMMA NextPos ==
  ASSUME Inv, PosInv, [Next]_vars
  PROVE  PosInv' /\ (OwnCells => Forward)
<1>0. setup' = setup
  BY DEF Next, Poll, AddEntry, SumEnds, Packet, vars
<1>1. OwnCells' <=> OwnCells
  BY <1>0 DEF OwnCells, Serial, SharedGlobal, FlowsOf
<1> SUFFICES ASSUME OwnCells PROVE Forward /\ \A t \in Threads : PosOK(t)'
  BY <1>1 DEF PosInv
<1>2. \A t \in Threads : PosOK(t)
  BY DEF PosInv
<1>3. ipg' = ipg => Forward
  BY DEF Forward, Inv, Base
<1>4. CASE UNCHANGED vars
  <2>1. ipg' = ipg
    BY <1>4 DEF vars, slotVars
  <2>2. \A t \in Threads : PosOK(t)'
    BY <1>2, <1>4 DEF PosOK, WillSum, SumTo, FlowsOf, Cell, SharedGlobal, vars,
                      threadVars, slotVars
  <2> QED
    BY <1>3, <2>1, <2>2
<1>5. ASSUME NEW t \in Threads, Poll(t) PROVE Forward /\ \A u \in Threads : PosOK(u)'
  <2>1. ipg' = ipg
    BY <1>5 DEF Poll, slotVars
  <2> QED
    BY <1>2, <1>3, <1>5, <2>1, PollPos
<1>6. ASSUME NEW t \in Threads, AddEntry(t) PROVE Forward /\ \A u \in Threads : PosOK(u)'
  <2>1. ipg' = ipg
    BY <1>6 DEF AddEntry, slotVars
  <2> QED
    BY <1>2, <1>3, <1>6, <2>1, AddEntryPos
<1>7. ASSUME NEW t \in Threads, SumEnds(t) PROVE Forward /\ \A u \in Threads : PosOK(u)'
  <2>1. ipg' = ipg
    BY <1>7 DEF SumEnds, slotVars
  <2> QED
    BY <1>2, <1>3, <1>7, <2>1, SumEndsPos
<1>8. ASSUME NEW t \in Threads, Packet(t) PROVE Forward /\ \A u \in Threads : PosOK(u)'
  BY <1>2, <1>8, PacketPos
<1> QED
  BY <1>4, <1>5, <1>6, <1>7, <1>8 DEF Next

(* At the start all positions are 0.                                       *)
LEMMA InitPos == Init => PosInv
<1> SUFFICES ASSUME Init, NEW t \in Threads PROVE PosOK(t)
  BY DEF PosInv
<1>1. Base
  BY InitInv DEF Inv
<1>2. N \in 0 .. N /\ FlowsOf[t] \subseteq Flows
  BY GapAssumption, OfSetup DEF Init
<1>3. SumTo(N) \in Nat
  BY <1>1, <1>2, SumToNat
<1>4. WillSum(t) = SumTo(N) /\ \A f \in FlowsOf[t] : ipg[f] = 0
  BY <1>2 DEF Init, WillSum
<1> QED
  BY <1>3, <1>4 DEF PosOK

(* PositionMonotone, for every setup: unless threads share global, the     *)
(* position that a place keeps never goes back, although the sum over re   *)
(* (gCtr in pthread/main.c) reads each entry at another time.              *)
THEOREM PositionsGoForward == Spec => PositionMonotone
<1>1. Inv /\ PosInv /\ [Next]_vars => PosInv'
  BY NextPos
<1>2. Inv /\ PosInv /\ [Next]_vars => [Serial \/ ~SharedGlobal => Forward]_vars
  BY NextPos DEF OwnCells
<1> QED
  BY <1>1, <1>2, InitPos, AlwaysInv, PTL DEF Spec, PositionMonotone

-----------------------------------------------------------------------------
(* The gaps of a flow telescope.                                           *)
AvgOK(f) ==
  /\ ctr[f] = 0 => ipg[f] = 0
  /\ ~Positioned(f) /\ ctr[f] = 1 => ipg[f] = 0 /\ gapsum[f] = 0
  /\ Kept(f) /\ ~Positioned(f) /\ ctr[f] > 1 =>
       ipg[f] = pos[f] /\ gapsum[f] + ctr[f] - 1 = pos[f]
  /\ Kept(f) /\ Positioned(f) /\ ctr[f] > 0 =>
       ipg[f] = pos[f] /\ gapsum[f] + ctr[f] = pos[f]
  /\ ~Kept(f) /\ ~Positioned(f) =>
       ipg[f] = 0 /\ (ctr[f] > 1 => gapsum[f] + ctr[f] >= pos[f])
  /\ ~Kept(f) /\ Positioned(f) /\ ctr[f] > 0 =>
       ipg[f] <= pos[f] /\ gapsum[f] + ctr[f] >= pos[f]

AvgInv == OwnCells => \A f \in Flows : AvgOK(f)

(* A step that does not concern the flow.                                  *)
LEMMA OtherAvg ==
  ASSUME NEW f, AvgOK(f), setup' = setup, ctr'[f] = ctr[f], ipg'[f] = ipg[f],
         gapsum'[f] = gapsum[f], pos'[f] = pos[f]
  PROVE  AvgOK(f)'
BY DEF AvgOK, Kept, Positioned

(* A packet of the flow.                                                   *)
LEMMA PacketAvg ==
  ASSUME Inv, NEW t \in Threads, NEW f \in Flows, NEW g \in Nat,
         PacketOf(t, f, g), ipg[f] <= g, AvgOK(f)
  PROVE  AvgOK(f)'
<1>1. /\ ctr[f] \in Nat /\ ipg[f] \in Nat /\ gapsum[f] \in Int /\ pos[f] \in Nat
  BY DEF Inv, Base
<1>2. ctr'[f] = ctr[f] + 1 /\ pos'[f] = g
  BY DEF PacketOf, Inv, Base
<1>3. (Kept(f)' <=> Kept(f)) /\ (Positioned(f)' <=> Positioned(f))
  BY DEF PacketOf, Kept, Positioned
<1>4. Gap(f, g) = g - 1 - ipg[f]
  BY DEF Gap
<1>5. Slot(f, g)
  BY DEF PacketOf
<1>6. CASE ctr[f] = 0 /\ Positioned(f)
  <2>1. gapsum'[f] = g - 1 - ipg[f] /\ ipg'[f] = g
    BY <1>4, <1>5, <1>6 DEF Slot, Inv, Base
  <2> QED
    BY <1>1, <1>2, <1>3, <1>6, <2>1 DEF AvgOK
<1>7. CASE ctr[f] = 0 /\ ~Positioned(f)
  <2>1. gapsum'[f] = ipg[f] /\ ipg'[f] = ipg[f]
    BY <1>5, <1>7 DEF Slot, Inv, Base
  <2> QED
    BY <1>1, <1>2, <1>3, <1>7, <2>1 DEF AvgOK
<1>8. CASE ctr[f] > 0 /\ Kept(f)
  <2>1. gapsum'[f] = gapsum[f] + (g - 1 - ipg[f]) /\ ipg'[f] = g
    BY <1>1, <1>4, <1>5, <1>8 DEF Slot, Inv, Base
  <2>2. gapsum'[f] + ctr'[f] = gapsum[f] + ctr[f] + (g - ipg[f]) /\ ctr'[f] > 1
    BY <1>1, <1>2, <1>8, <2>1
  <2>3. CASE Positioned(f)
    <3>1. gapsum[f] + ctr[f] = ipg[f]
      BY <1>8, <2>3 DEF AvgOK
    <3>2. gapsum'[f] + ctr'[f] = g
      BY <1>1, <2>2, <3>1
    <3> QED
      BY <1>1, <1>2, <1>3, <1>8, <2>1, <2>2, <2>3, <3>2 DEF AvgOK
  <2>4. CASE ~Positioned(f)
    <3>1. gapsum[f] + ctr[f] = ipg[f] + 1
      <4>1. CASE ctr[f] = 1
        BY <1>1, <2>4, <4>1 DEF AvgOK
      <4>2. CASE ctr[f] > 1
        BY <1>1, <1>8, <2>4, <4>2 DEF AvgOK
      <4> QED
        BY <1>1, <1>8, <4>1, <4>2
    <3>2. gapsum'[f] + ctr'[f] = g + 1
      BY <1>1, <2>2, <3>1
    <3>3. gapsum'[f] + ctr'[f] - 1 = g
      BY <1>1, <1>2, <2>1, <3>2
    <3> QED
      BY <1>1, <1>2, <1>3, <1>8, <2>1, <2>2, <2>4, <3>3 DEF AvgOK
  <2> QED
    BY <2>3, <2>4
<1>9. CASE ctr[f] > 0 /\ ~Kept(f)
  <2>1. gapsum'[f] = gapsum[f] + (g - 1 - ipg[f]) /\ ipg'[f] = ipg[f]
    BY <1>1, <1>4, <1>5, <1>9 DEF Slot, Inv, Base
  <2>2. gapsum'[f] + ctr'[f] = gapsum[f] + ctr[f] + (g - ipg[f]) /\ ctr'[f] > 1
    BY <1>1, <1>2, <1>9, <2>1
  <2>3. CASE Positioned(f)
    <3>1. ipg[f] <= pos[f] /\ gapsum[f] + ctr[f] >= pos[f]
      BY <1>9, <2>3 DEF AvgOK
    <3>2. gapsum'[f] + ctr'[f] >= g
      BY <1>1, <2>2, <3>1
    <3> QED
      BY <1>1, <1>2, <1>3, <1>9, <2>1, <2>2, <2>3, <3>2 DEF AvgOK
  <2>4. CASE ~Positioned(f)
    <3>1. ipg[f] = 0 /\ gapsum[f] + ctr[f] >= 0
      <4>1. CASE ctr[f] = 1
        BY <1>1, <2>4, <4>1 DEF AvgOK
      <4>2. CASE ctr[f] > 1
        BY <1>1, <1>9, <2>4, <4>2 DEF AvgOK
      <4> QED
        BY <1>1, <1>9, <4>1, <4>2
    <3>2. gapsum'[f] + ctr'[f] >= g
      BY <1>1, <2>2, <3>1
    <3> QED
      BY <1>1, <1>2, <1>3, <1>9, <2>1, <2>2, <2>4, <3>1, <3>2 DEF AvgOK
  <2> QED
    BY <2>3, <2>4
<1> QED
  BY <1>1, <1>6, <1>7, <1>8, <1>9

(* AverageTelescopes, for every setup in which threads do not share        *)
(* global: avg * ctr of an IPG build gives back the position of the last   *)
(* packet, or no less in the lists of hash_list, whose entries keep the    *)
(* position of the first packet.                                           *)
THEOREM GapsTelescope ==
  Spec => [](Serial \/ ~SharedGlobal => AverageTelescopes)
<1>1. Init => AvgInv
  BY DEF Init, AvgInv, AvgOK
<1>2. Inv /\ PosInv /\ AvgInv /\ [Next]_vars => AvgInv'
  <2> SUFFICES ASSUME Inv, PosInv, AvgInv, [Next]_vars PROVE AvgInv'
    OBVIOUS
  <2>0. setup' = setup
    BY DEF Next, Poll, AddEntry, SumEnds, Packet, vars
  <2>1. OwnCells' <=> OwnCells
    BY <2>0 DEF OwnCells, Serial, SharedGlobal, FlowsOf
  <2> SUFFICES ASSUME OwnCells, NEW e \in Flows PROVE AvgOK(e)'
    BY <2>1 DEF AvgInv
  <2>2. AvgOK(e)
    BY DEF AvgInv
  <2>3. ASSUME UNCHANGED <<slotVars, history>> PROVE AvgOK(e)'
    BY <2>0, <2>2, <2>3, OtherAvg DEF slotVars, history
  <2>4. ASSUME NEW t \in Threads, Packet(t) PROVE AvgOK(e)'
    <3>0. PICK f \in FlowsOf[t], g \in Nat : PacketOf(t, f, g)
      BY <2>4, PacketStep
    <3>1. f \in Flows /\ g = global[Cell(t)] /\ pc[t] = "packets"
      BY <3>0, Zenon DEF PacketOf
    <3>2. ipg[f] <= g
      BY <3>1 DEF PosInv, PosOK, WillSum
    <3>3. CASE e = f
      BY <2>2, <3>0, <3>1, <3>2, <3>3, PacketAvg
    <3>4. CASE e # f
      <4>1. ctr'[e] = ctr[e] /\ pos'[e] = pos[e]
        BY <3>0, <3>4 DEF PacketOf, Inv, Base
      <4>2. ipg'[e] = ipg[e] /\ gapsum'[e] = gapsum[e]
        <5>1. Slot(f, g)
          BY <3>0 DEF PacketOf
        <5> QED
          BY <3>4, <5>1 DEF Slot, Inv, Base
      <4> QED
        BY <2>0, <2>2, <4>1, <4>2, OtherAvg
    <3> QED
      BY <3>3, <3>4
  <2> QED
    BY <2>3, <2>4 DEF Next, Poll, AddEntry, SumEnds, vars
<1>3. Inv /\ AvgInv => (Serial \/ ~SharedGlobal => AverageTelescopes)
  <2> SUFFICES ASSUME Inv, AvgInv, OwnCells, NEW f \in Flows, ctr[f] > 1
               PROVE  CASE Kept(f) /\ ~Positioned(f) -> gapsum[f] + ctr[f] - 1 = pos[f]
                        [] Kept(f) /\ Positioned(f)  -> gapsum[f] + ctr[f] = pos[f]
                        [] OTHER                     -> gapsum[f] + ctr[f] >= pos[f]
    BY DEF OwnCells, AverageTelescopes
  <2>1. AvgOK(f) /\ ctr[f] > 0
    BY DEF AvgInv, Inv, Base
  <2>2. CASE Kept(f) /\ ~Positioned(f)
    BY <2>1, <2>2 DEF AvgOK
  <2>3. CASE Kept(f) /\ Positioned(f)
    BY <2>1, <2>3 DEF AvgOK
  <2>4. CASE ~Kept(f)
    BY <2>1, <2>4 DEF AvgOK
  <2> QED
    BY <2>2, <2>3, <2>4
<1>4. Inv /\ PosInv /\ [Next]_vars => PosInv'
  BY NextPos
<1> QED
  BY <1>1, <1>2, <1>3, <1>4, InitPos, AlwaysInv, PTL DEF Spec

-----------------------------------------------------------------------------
(* One thread t at work: what it has counted, and its sum.                 *)
SerialOK(t) ==
  /\ \A u \in Threads \ {t} : re[u] = 0
  /\ pc[t] = "poll" => re[t] = done
  /\ pc[t] = "sum" =>
       /\ re[t] = IF CountFirst THEN done + Len(burst[t]) ELSE done
       /\ global[Cell(t)] = IF qNum[t] <= t THEN re[t] ELSE 0
  /\ pc[t] = "packets" =>
       /\ re[t] = done + Len(burst[t])
       /\ IF CountFirst THEN global[Cell(t)] = re[t]
          ELSE global[Cell(t)] <= done /\ re[t] <= global[Cell(t)] + BurstSize

Within(f) ==
  Kept(f) /\ ctr[f] > 1 =>
    IF CountFirst
      THEN last[f] <= ipg[f] /\ ipg[f] < last[f] + BurstSize
      ELSE ipg[f] < last[f] /\ last[f] <= ipg[f] + BurstSize

SerialInv ==
  \A t \in Threads : FlowsOf[t] = Flows => SerialOK(t) /\ \A f \in Flows : Within(f)

(* A step that changes no place.                                           *)
LEMMA OtherWithin ==
  ASSUME NEW f, Within(f), setup' = setup, ctr'[f] = ctr[f], ipg'[f] = ipg[f],
         last'[f] = last[f]
  PROVE  Within(f)'
BY DEF Within, Kept, CountFirst

(* Only thread t takes steps.                                              *)
LEMMA OnlyThread ==
  ASSUME Inv, NEW t \in Threads, FlowsOf[t] = Flows, NEW u \in Threads,
         Poll(u) \/ AddEntry(u) \/ SumEnds(u) \/ Packet(u)
  PROVE  u = t
<1>1. FlowsOf[u] # {}
  <2>1. CASE Poll(u)
    <3>1. PICK s \in Bursts(u) : polled' = polled + Len(s)
      BY <2>1, PollInv
    <3>2. s \in Seq(FlowsOf[u]) /\ s # <<>>
      BY BurstSeq
    <3> QED
      BY <3>2, HeadTailProperties
  <2>2. CASE AddEntry(u) \/ SumEnds(u) \/ Packet(u)
    BY <2>2, AtWork DEF AddEntry, SumEnds, Packet
  <2> QED
    BY <2>1, <2>2
<1>2. u # t => FlowsOf[t] \cap FlowsOf[u] = {} /\ FlowsOf[u] \subseteq Flows
  BY OfSetup DEF Inv, Base
<1> QED
  BY <1>1, <1>2

(* The steps of thread t.                                                  *)
LEMMA SerialStep ==
  ASSUME Inv, Inv', NEW t \in Threads, FlowsOf[t] = Flows, SerialOK(t),
         \A f \in Flows : Within(f),
         Poll(t) \/ AddEntry(t) \/ SumEnds(t) \/ Packet(t)
  PROVE  SerialOK(t)' /\ \A f \in Flows : Within(f)'
<1>0. setup' = setup
  BY DEF Poll, AddEntry, SumEnds, Packet
<1>1. /\ Cell(t) \in Threads /\ Cell(t)' = Cell(t)
      /\ CountFirst' = CountFirst /\ CountFirst \in BOOLEAN
      /\ re[t] \in Nat /\ global[Cell(t)] \in Nat /\ done \in Nat
      /\ qNum[t] \in 0 .. N /\ t \in Nat /\ t < N /\ N \in Nat
      /\ \A u \in Threads : re[u] \in Nat
  <2>1. Cell(t) \in Threads /\ CountFirst \in BOOLEAN
    BY OfSetup, GapAssumption DEF Inv, Base, Cell, SharedGlobal, CountFirst, Threads, Setup
  <2>2. Cell(t)' = Cell(t) /\ CountFirst' = CountFirst
    BY <1>0 DEF Cell, SharedGlobal, CountFirst
  <2>3. t \in Nat /\ t < N /\ N \in Nat
    BY GapAssumption DEF Threads
  <2>4. /\ global[Cell(t)] \in Nat /\ done \in Nat /\ qNum[t] \in 0 .. N
        /\ \A u \in Threads : re[u] \in Nat
    BY <2>1 DEF Inv, Base
  <2> QED
    BY <2>1, <2>2, <2>3, <2>4
<1>2. ASSUME UNCHANGED <<slotVars, history>> PROVE \A f \in Flows : Within(f)'
  BY <1>0, <1>2, OtherWithin DEF slotVars, history
<1>3. CASE Poll(t)
  <2>1. PICK s \in Bursts(t) :
          /\ burst' = [burst EXCEPT ![t] = s]
          /\ re' = IF CountFirst THEN Counted(t, Len(s)) ELSE re
    BY <1>3, PollInv
  <2>2. Len(s) \in Nat
    BY BurstSeq
  <2>3. /\ pc[t] = "poll" /\ done' = done
        /\ global' = [global EXCEPT ![Cell(t)] = 0]
        /\ qNum' = [qNum EXCEPT ![t] = N]
        /\ pc' = [pc EXCEPT ![t] = "sum"]
        /\ UNCHANGED <<slotVars, history>>
    BY <1>3 DEF Poll, Zeroed, history
  <2>4. /\ burst'[t] = s /\ global'[Cell(t)] = 0 /\ qNum'[t] = N /\ pc'[t] = "sum"
    BY <1>1, <2>1, <2>3 DEF Inv, Base
  <2>5. /\ re'[t] = IF CountFirst THEN re[t] + Len(s) ELSE re[t]
        /\ \A u \in Threads \ {t} : re'[u] = re[u]
    <3>1. CASE CountFirst
      BY <2>1, <3>1 DEF Counted, Inv, Base
    <3>2. CASE ~CountFirst
      BY <2>1, <3>2
    <3> QED
      BY <3>1, <3>2
  <2>6. re[t] = done /\ \A u \in Threads \ {t} : re[u] = 0
    BY <2>3 DEF SerialOK
  <2>7. ~(N <= t)
    BY <1>1
  <2>8. SerialOK(t)'
    BY <1>1, <2>2, <2>3, <2>4, <2>5, <2>6, <2>7 DEF SerialOK
  <2> QED
    BY <1>2, <2>3, <2>8
<1>4. CASE AddEntry(t)
  <2>1. /\ pc[t] = "sum" /\ qNum[t] > 0
        /\ qNum' = [qNum EXCEPT ![t] = @ - 1]
        /\ global' = [global EXCEPT ![Cell(t)] = @ + re[qNum[t] - 1]]
        /\ re' = re /\ pc' = pc /\ burst' = burst /\ done' = done
        /\ UNCHANGED <<slotVars, history>>
    BY <1>4 DEF AddEntry, history
  <2>2. PICK k \in 1 .. N : k = qNum[t]
    BY <1>1, <2>1
  <2>3. /\ qNum'[t] = k - 1
        /\ global'[Cell(t)] = global[Cell(t)] + re[k - 1]
    BY <1>1, <2>1, <2>2 DEF Inv, Base
  <2>4. /\ \A u \in Threads \ {t} : re[u] = 0
        /\ re[t] = IF CountFirst THEN done + Len(burst[t]) ELSE done
        /\ global[Cell(t)] = IF k <= t THEN re[t] ELSE 0
    BY <2>1, <2>2 DEF SerialOK
  <2>5. k - 1 \in Threads /\ k \in Nat
    BY <1>1 DEF Threads
  <2>6. global'[Cell(t)] = IF k - 1 <= t THEN re[t] ELSE 0
    <3>1. CASE k - 1 = t
      BY <1>1, <2>3, <2>4, <2>5, <3>1
    <3>2. CASE k - 1 # t
      <4>1. re[k - 1] = 0
        BY <2>4, <2>5, <3>2
      <4>2. (k <= t) <=> (k - 1 <= t)
        BY <1>1, <2>5, <3>2
      <4> QED
        BY <1>1, <2>3, <2>4, <4>1, <4>2
    <3> QED
      BY <3>1, <3>2
  <2>7. SerialOK(t)'
    BY <1>1, <2>1, <2>3, <2>4, <2>6 DEF SerialOK
  <2> QED
    BY <1>2, <2>1, <2>7
<1>5. CASE SumEnds(t)
  <2>1. /\ pc[t] = "sum" /\ qNum[t] = 0
        /\ re' = IF CountFirst THEN re ELSE Counted(t, Len(burst[t]))
        /\ pc' = [pc EXCEPT ![t] = "packets"]
        /\ global' = global /\ burst' = burst /\ done' = done
        /\ UNCHANGED <<slotVars, history>>
    BY <1>5 DEF SumEnds, InFlight, history
  <2>2. Len(burst[t]) \in Nat /\ Len(burst[t]) <= BurstSize
    BY <1>5, SumEndsInv DEF Inv, BurstOK
  <2>3. /\ re'[t] = IF CountFirst THEN re[t] ELSE re[t] + Len(burst[t])
        /\ \A u \in Threads \ {t} : re'[u] = re[u]
    <3>1. CASE CountFirst
      BY <2>1, <3>1
    <3>2. CASE ~CountFirst
      BY <2>1, <3>2 DEF Counted, Inv, Base
    <3> QED
      BY <3>1, <3>2
  <2>4. /\ \A u \in Threads \ {t} : re[u] = 0
        /\ re[t] = IF CountFirst THEN done + Len(burst[t]) ELSE done
        /\ global[Cell(t)] = IF qNum[t] <= t THEN re[t] ELSE 0
    BY <2>1 DEF SerialOK
  <2>5. global[Cell(t)] = re[t] /\ pc'[t] = "packets"
    BY <1>1, <2>1, <2>4 DEF Inv, Base
  <2>6. /\ re'[t] = done + Len(burst[t])
        /\ IF CountFirst THEN global[Cell(t)] = re'[t]
           ELSE global[Cell(t)] <= done /\ re'[t] <= global[Cell(t)] + BurstSize
    <3>1. CASE CountFirst
      BY <2>3, <2>4, <2>5, <3>1
    <3>2. CASE ~CountFirst
      BY <1>1, <2>2, <2>3, <2>4, <2>5, <3>2, GapAssumption
    <3> QED
      BY <3>1, <3>2
  <2>7. SerialOK(t)'
    BY <1>1, <2>1, <2>3, <2>4, <2>5, <2>6 DEF SerialOK
  <2> QED
    BY <1>2, <2>1, <2>7
<1>6. CASE Packet(t)
  <2>0. PICK f \in FlowsOf[t], g \in Nat : PacketOf(t, f, g)
    BY <1>6, PacketStep
  <2>1. /\ f \in Flows /\ g = global[Cell(t)] /\ pc[t] = "packets"
        /\ ctr' = [ctr EXCEPT ![f] = @ + 1]
        /\ last' = [last EXCEPT ![f] = done + 1]
        /\ done' = done + 1
        /\ burst' = [burst EXCEPT ![t] = Tail(@)]
        /\ pc' = [pc EXCEPT ![t] = IF Len(burst[t]) = 1 THEN "poll" ELSE "packets"]
        /\ re' = re /\ global' = global
    BY <2>0, Zenon DEF PacketOf
  <2>2. /\ Len(burst[t]) \in Nat /\ Len(burst[t]) <= BurstSize /\ Len(burst[t]) > 0
        /\ Len(Tail(burst[t])) = Len(burst[t]) - 1
    <3>1. burst[t] \in Seq(FlowsOf[t]) /\ burst[t] # <<>> /\ Len(burst[t]) <= BurstSize
      BY <2>1 DEF Inv, BurstOK
    <3>2. /\ Len(burst[t]) \in Nat /\ Len(burst[t]) # 0
          /\ Len(Tail(burst[t])) = Len(burst[t]) - 1
      BY <3>1, LenProperties, EmptySeq, HeadTailProperties
    <3> QED
      BY <3>1, <3>2
  <2>3. /\ \A u \in Threads \ {t} : re[u] = 0
        /\ re[t] = done + Len(burst[t])
        /\ IF CountFirst THEN g = re[t]
           ELSE g <= done /\ re[t] <= g + BurstSize
    BY <2>1 DEF SerialOK
  <2>4. /\ burst'[t] = Tail(burst[t])
        /\ pc'[t] = IF Len(burst[t]) = 1 THEN "poll" ELSE "packets"
    BY <2>1 DEF Inv, Base
  <2>5. re[t] = done' + Len(burst'[t])
    <3>1. Len(burst'[t]) = Len(burst[t]) - 1
      BY <2>2, <2>4
    <3>2. /\ done' = done + 1 /\ re[t] = done + Len(burst[t])
          /\ done \in Int /\ Len(burst[t]) \in Int
      BY <1>1, <2>1, <2>2, <2>3
    <3> DEFINE m == Len(burst[t])
               num == Len(burst'[t])
    <3>3. num = m - 1 /\ re[t] = done + m /\ m \in Int
      BY <3>1, <3>2
    <3> SUFFICES re[t] = done' + num
      OBVIOUS
    <3> HIDE DEF m, num
    <3> QED
      BY <3>2, <3>3
  <2>6. pc'[t] = "poll" => re[t] = done'
    BY <1>1, <2>1, <2>2, <2>3, <2>4
  <2>7. IF CountFirst THEN g = re[t]
        ELSE g <= done' /\ re[t] <= g + BurstSize
    BY <1>1, <2>1, <2>3
  <2>8. SerialOK(t)'
    <3>1. \A u \in Threads \ {t} : re'[u] = 0
      BY <2>1, <2>3
    <3>2. pc'[t] = "poll" => re'[t] = done'
      BY <2>1, <2>6
    <3>3. pc'[t] # "sum"
      BY <2>4
    <3>4. re'[t] = done' + Len(burst'[t])
      BY <2>1, <2>5
    <3>5. IF CountFirst' THEN global'[Cell(t)'] = re'[t]
          ELSE global'[Cell(t)'] <= done' /\ re'[t] <= global'[Cell(t)'] + BurstSize
      BY <1>1, <2>1, <2>7, Zenon
    <3> QED
      BY <3>1, <3>2, <3>3, <3>4, <3>5, Zenon DEF SerialOK
  <2>9. ASSUME NEW e \in Flows PROVE Within(e)'
    <3>1. CASE e # f
      <4>1. ctr'[e] = ctr[e] /\ last'[e] = last[e]
        BY <2>1, <3>1 DEF Inv, Base
      <4>2. ipg'[e] = ipg[e]
        <5>1. ipg' = [ipg EXCEPT ![f] = g] \/ ipg' = ipg
          BY <2>0, Zenon DEF PacketOf, Slot
        <5> QED
          BY <3>1, <5>1 DEF Inv, Base
      <4> QED
        BY <1>0, <4>1, <4>2, OtherWithin
    <3>2. CASE e = f
      <4>1. ctr'[f] = ctr[f] + 1 /\ last'[f] = done + 1 /\ ctr[f] \in Nat
        BY <2>1 DEF Inv, Base
      <4>2. Kept(f) /\ ctr[f] > 0 => ipg'[f] = g
        <5>1. Slot(f, g)
          BY <2>0 DEF PacketOf
        <5> QED
          BY <4>1, <5>1 DEF Slot, Inv, Base
      <4>3. Kept(f)' <=> Kept(f)
        BY <1>0 DEF Kept
      <4>4. IF CountFirst
              THEN done + 1 <= g /\ g < (done + 1) + BurstSize
              ELSE g < done + 1 /\ done + 1 <= g + BurstSize
        <5>1. CASE CountFirst
          <6>1. g = done + Len(burst[t])
            BY <2>3, <5>1
          <6> QED
            BY <1>1, <2>2, <5>1, <6>1, GapAssumption
        <5>2. CASE ~CountFirst
          <6>1. g <= done /\ done + Len(burst[t]) <= g + BurstSize
            BY <2>3, <5>2
          <6> QED
            BY <1>1, <2>2, <5>2, <6>1, GapAssumption
        <5> QED
          BY <5>1, <5>2
      <4>5. ctr'[f] > 1 => ctr[f] > 0
        BY <4>1
      <4> QED
        BY <1>1, <3>2, <4>1, <4>2, <4>3, <4>4, <4>5 DEF Within
    <3> QED
      BY <3>1, <3>2
  <2> QED
    BY <2>8, <2>9
<1> QED
  BY <1>3, <1>4, <1>5, <1>6

(* PositionWithinBurst, for any burst size: with one thread at work the    *)
(* position that an IPG build keeps for a packet is off by less than a     *)
(* burst, whichever of counting and summing comes first.                   *)
THEOREM PositionsWithinBurst == Spec => []PositionWithinBurst
<1>1. Init => SerialInv
  <2> SUFFICES ASSUME Init, NEW t \in Threads
               PROVE  SerialOK(t) /\ \A f \in Flows : Within(f)
    BY DEF SerialInv
  <2>1. SerialOK(t)
    BY DEF Init, SerialOK
  <2>2. \A f \in Flows : Within(f)
    BY DEF Init, Within
  <2> QED
    BY <2>1, <2>2
<1>2. Inv /\ Inv' /\ SerialInv /\ [Next]_vars => SerialInv'
  <2> SUFFICES ASSUME Inv, Inv', SerialInv, [Next]_vars,
                      NEW t \in Threads, FlowsOf'[t] = Flows
               PROVE  SerialOK(t)' /\ \A f \in Flows : Within(f)'
    BY DEF SerialInv
  <2>0. setup' = setup
    BY DEF Next, Poll, AddEntry, SumEnds, Packet, vars
  <2>1. FlowsOf[t] = Flows /\ SerialOK(t) /\ \A f \in Flows : Within(f)
    BY <2>0 DEF SerialInv, FlowsOf
  <2>2. CASE UNCHANGED vars
    <3>1. SerialOK(t)'
      BY <2>1, <2>2 DEF SerialOK, CountFirst, Cell, SharedGlobal, vars, threadVars,
                        history
    <3>2. \A f \in Flows : Within(f)'
      BY <2>0, <2>1, <2>2, OtherWithin DEF vars, slotVars, history
    <3> QED
      BY <3>1, <3>2
  <2>3. CASE Next
    <3>1. PICK u \in Threads : Poll(u) \/ AddEntry(u) \/ SumEnds(u) \/ Packet(u)
      BY <2>3 DEF Next
    <3>2. u = t
      BY <2>1, <3>1, OnlyThread
    <3> QED
      BY <2>1, <3>1, <3>2, SerialStep
  <2> QED
    BY <2>2, <2>3
<1>3. SerialInv => PositionWithinBurst
  BY DEF SerialInv, PositionWithinBurst, Serial, Within
<1> QED
  BY <1>1, <1>2, <1>3, AlwaysInv, PTL DEF Spec

-----------------------------------------------------------------------------
(* The percentiles: Quantile, for any gaps and any percentile.             *)

(* A product by a positive number keeps the order.                         *)
LEMMA TimesOrder ==
  ASSUME NEW a \in Int, NEW b \in Int, NEW c \in Nat \ {0}
  PROVE  /\ a * c \in Int /\ b * c \in Int
         /\ a <= b => a * c <= b * c
         /\ a < b => a * c < b * c
<1>1. ASSUME a <= b PROVE a * c <= b * c
  <2>1. PICK d \in Nat : d = b - a
    BY <1>1
  <2>2. d * c \in Nat /\ b * c = a * c + d * c
    BY <2>1
  <2> QED
    BY <2>2
<1>2. ASSUME a < b PROVE a * c < b * c
  <2>1. PICK d \in Nat : d = b - a - 1
    BY <1>2
  <2>2. d * c \in Nat /\ b * c = a * c + d * c + c
    BY <2>1
  <2> QED
    BY <2>2
<1> QED
  BY <1>1, <1>2

(* A product of positive numbers is positive.                              *)
LEMMA TimesPositive ==
  ASSUME NEW a \in Nat \ {0}, NEW b \in Nat \ {0}
  PROVE  a * b \in Nat \ {0}
<1>1. PICK c \in Int : c = 0 /\ c < a
  OBVIOUS
<1>2. c * b < a * b /\ c * b = 0 /\ a * b \in Int
  BY <1>1, TimesOrder
<1> QED
  BY <1>2

(* A multiple is divided without a rest.                                   *)
LEMMA DivExact ==
  ASSUME NEW k \in Int, NEW m \in Nat \ {0}
  PROVE  (k * m) \div m = k
<1>1. PICK a \in Int : a = k * m
  OBVIOUS
<1>2. PICK z \in Int : z = a \div m /\ a = m * z + (a % m)
  BY ModDiv
<1>3. PICK r \in 0 .. m - 1 : r = a % m
  BY ModRange
<1>4. k * m = z * m + r
  BY <1>1, <1>2, <1>3
<1>5. CASE z < k
  <2>1. PICK d \in Int : d = z + 1 /\ d <= k
    BY <1>5
  <2>2. d * m <= k * m /\ d * m = z * m + m
    BY <2>1, TimesOrder
  <2> QED
    BY <1>3, <1>4, <2>2
<1>6. CASE k < z
  <2>1. k * m < z * m
    BY <1>6, TimesOrder
  <2> QED
    BY <1>3, <1>4, <2>1
<1> QED
  BY <1>1, <1>2, <1>5, <1>6

(* A quotient is no further from 0 than the dividend.                      *)
LEMMA DivBetween ==
  ASSUME NEW a \in Int, NEW m \in Nat \ {0}
  PROVE  /\ a \div m \in Int
         /\ a >= 0 => 0 <= a \div m /\ a \div m <= a
         /\ a <= 0 => a <= a \div m /\ a \div m <= 0
<1>1. PICK z \in Int : z = a \div m /\ a = m * z + (a % m)
  BY ModDiv
<1>2. PICK r \in 0 .. m - 1 : r = a % m
  BY ModRange
<1>3. a = z * m + r
  BY <1>1, <1>2
<1>4. z >= 0 => z * m >= z
  <2> SUFFICES ASSUME z >= 0 PROVE z * m >= z
    OBVIOUS
  <2>1. PICK d \in Nat : d = m - 1
    OBVIOUS
  <2>2. z * d \in Nat /\ z * m = z * d + z
    BY <2>1
  <2> QED
    BY <2>2
<1>5. z < 0 => z * m <= -m /\ (z * m) + (m - 1) <= z + 0
  <2> SUFFICES ASSUME z < 0 PROVE z * m <= -m /\ (z * m) + (m - 1) <= z + 0
    OBVIOUS
  <2>1. PICK e \in Nat, d \in Nat : e = -z - 1 /\ d = m - 1
    OBVIOUS
  <2>2. e * m \in Nat /\ z * m = -(e * m) - m
    BY <2>1
  <2>3. e * d \in Nat /\ e * m = e * d + e
    BY <2>1
  <2> QED
    BY <2>1, <2>2, <2>3
<1>6. a >= 0 => z >= 0 /\ z <= a
  BY <1>2, <1>3, <1>4, <1>5
<1>7. a <= 0 => z <= 0 /\ a <= z
  BY <1>2, <1>3, <1>4, <1>5
<1> QED
  BY <1>1, <1>6, <1>7

(* What insertSort makes of a gap that it moves: no more than it was, and  *)
(* the same if an int holds it.                                            *)
LEMMA TruncatedGap ==
  ASSUME NEW x \in Int, -IntMax - 1 <= x
  PROVE  /\ Truncated(x * Unit) \in Int /\ Truncated(x * Unit) <= x * Unit
         /\ x <= IntMax => Truncated(x * Unit) = x * Unit
<1>0. Unit \in Nat \ {0} /\ IntMax \in Nat
  BY QuantileAssumption
<1> DEFINE p == x * Unit
           w == IF p < 0 THEN -((-p) \div Unit) ELSE p \div Unit
<1>1. p \in Int /\ (p < 0 <=> x < 0)
  <2>1. p \in Int /\ 0 * Unit = 0
    BY <1>0
  <2>2. x < 0 => p < 0 * Unit
    BY <1>0, TimesOrder
  <2>3. 0 <= x => 0 * Unit <= p
    BY <1>0, TimesOrder
  <2> QED
    BY <2>1, <2>2, <2>3
<1>2. w = x
  <2>1. CASE x < 0
    <3>1. PICK y \in Int : y = -x
      OBVIOUS
    <3>2. (y * Unit) \div Unit = y
      BY <1>0, DivExact
    <3>3. -p = y * Unit
      BY <1>0, <3>1
    <3> QED
      BY <1>1, <2>1, <3>1, <3>2, <3>3
  <2>2. CASE ~(x < 0)
    BY <1>0, <1>1, <2>2, DivExact
  <2> QED
    BY <2>1, <2>2
<1>3. Truncated(p) = (IF -IntMax - 1 <= w /\ w <= IntMax THEN w ELSE -IntMax - 1) * Unit
  BY DEF Truncated
<1>4. PICK min \in Int : min = -IntMax - 1
  BY <1>0
<1>5. min * Unit \in Int /\ min * Unit <= p
  BY <1>0, <1>4, TimesOrder
<1> HIDE DEF p, w
<1>6. Truncated(p) \in Int /\ Truncated(p) <= p /\ (x <= IntMax => Truncated(p) = p)
  <2>1. p = x * Unit
    BY DEF p
  <2>2. CASE x <= IntMax
    BY <1>0, <1>1, <1>2, <1>3, <2>1, <2>2
  <2>3. CASE ~(x <= IntMax)
    <3>1. Truncated(p) = min * Unit
      BY <1>2, <1>3, <1>4, <2>3
    <3> QED
      BY <1>5, <2>3, <3>1
  <2> QED
    BY <2>2, <2>3
<1> QED
  BY <1>6 DEF p

-----------------------------------------------------------------------------
(* A set of numbers with all those below each of them is an interval, and  *)
(* its size tells where it ends.                                           *)
LEMMA Prefix ==
  ASSUME NEW b \in Int, NEW K \in SUBSET (0 .. b), 0 <= b + 1,
         \A j \in K : \A h \in 0 .. j : h \in K
  PROVE  Cardinality(K) \in 0 .. b + 1 /\ K = 0 .. Cardinality(K) - 1
<1>1. IsFiniteSet(K)
  <2>1. IsFiniteSet(0 .. b)
    BY FS_Interval
  <2> QED
    BY <2>1, FS_Subset
<1>2. CASE K = {}
  <2>1. Cardinality(K) = 0
    BY <1>2, FS_EmptySet
  <2>2. 0 .. 0 - 1 = {}
    OBVIOUS
  <2> QED
    BY <1>2, <2>1, <2>2
<1>3. CASE K # {}
  <2>1. K \in SUBSET Int
    OBVIOUS
  <2>2. PICK M \in K : \A y \in K : M >= y
    BY <1>1, <1>3, <2>1, GreatestNumber
  <2>3. K = 0 .. M /\ M \in 0 .. b
    <3>1. M \in 0 .. b
      OBVIOUS
    <3>2. ASSUME NEW y \in K PROVE y \in 0 .. M
      <4>1. y \in 0 .. b /\ M >= y
        BY <2>2
      <4> QED
        BY <3>1, <4>1
    <3>3. \A h \in 0 .. M : h \in K
      OBVIOUS
    <3> QED
      BY <3>1, <3>2, <3>3
  <2>4. Cardinality(0 .. M) = M + 1
    <3>1. Cardinality(0 .. M) = IF 0 > M THEN 0 ELSE M - 0 + 1
      BY <2>3, FS_Interval
    <3> QED
      BY <2>3, <3>1
  <2> QED
    BY <2>3, <2>4
<1> QED
  BY <1>2, <1>3

(* The entries up to i are sorted; t has the same ones as s.               *)
Sorted(s, i) == \A j, k \in 0 .. i : j <= k => s[j] <= s[k]

Same(s, t, i) ==
  /\ \A j \in 0 .. i : \E k \in 0 .. i : t[j] = s[k]
  /\ \A j \in 0 .. i : \E k \in 0 .. i : s[j] = t[k]

(* One round of insertSort.                                                *)
LEMMA InsertRound ==
  ASSUME NEW i \in 1 .. 4, NEW s \in [Markers -> Int], Sorted(s, i - 1),
         Truncated(s[i]) \in Int, Truncated(s[i]) <= s[i], NEW t, t = Insert(s, i)
  PROVE  /\ t \in [Markers -> Int] /\ Sorted(t, i)
         /\ \A j \in Markers : j > i => t[j] = s[j]
         /\ Truncated(s[i]) = s[i] => Same(s, t, i)
<1>0. /\ i \in Int /\ 1 <= i /\ i <= 4 /\ i - 1 \in 0 .. i /\ i \in Markers
      /\ i - 1 \in 0 .. i - 1 /\ i - 1 \in Markers
      /\ \A j \in 0 .. i : j \in Markers /\ j \in Int /\ (j # i => j \in 0 .. i - 1)
  BY DEF Markers
<1>1. \A j \in Markers : s[j] \in Int
  OBVIOUS
<1>2. CASE s[i] >= s[i - 1]
  <2>1. t = s
    BY <1>2 DEF Insert
  <2>2. \A j \in 0 .. i - 1 : s[j] <= s[i - 1]
    BY <1>0 DEF Sorted
  <2>3. \A j \in 0 .. i : s[j] <= s[i]
    <3>1. s[i] \in Int /\ s[i - 1] \in Int
      BY <1>0, <1>1
    <3> QED
      BY <1>0, <1>1, <1>2, <2>2, <3>1
  <2>4. Sorted(s, i)
    <3> SUFFICES ASSUME NEW j \in 0 .. i, NEW k \in 0 .. i, j <= k PROVE s[j] <= s[k]
      BY DEF Sorted
    <3>1. CASE k = i
      BY <2>3, <3>1
    <3>2. CASE k # i
      <4>1. k \in 0 .. i - 1 /\ j \in 0 .. i - 1
        BY <1>0, <3>2
      <4> QED
        BY <4>1 DEF Sorted
    <3> QED
      BY <3>1, <3>2
  <2> QED
    BY <2>1, <2>4 DEF Same
<1>3. CASE ~(s[i] >= s[i - 1])
  <2> DEFINE K == {j \in 0 .. i - 2 : s[j] <= Truncated(s[i])}
  <2>1. PICK tmp \in Int : tmp = Truncated(s[i]) /\ tmp <= s[i] /\ tmp <= s[i - 1]
    BY <1>0, <1>1, <1>3
  <2>2. PICK b \in Int : b = i - 2 /\ 0 <= b + 1
    BY <1>0
  <2>3. K \in SUBSET (0 .. b) /\ \A j \in K : \A h \in 0 .. j : h \in K
    <3> SUFFICES ASSUME NEW j \in K, NEW h \in 0 .. j PROVE h \in K
      BY <2>2
    <3>1. j \in 0 .. i - 1 /\ h \in 0 .. i - 1 /\ h <= j /\ h \in 0 .. i - 2
      BY <1>0
    <3>2. s[h] <= s[j] /\ s[j] <= tmp /\ s[h] \in Int /\ s[j] \in Int
      BY <1>0, <1>1, <2>1, <3>1 DEF Sorted
    <3> QED
      BY <2>1, <3>1, <3>2
  <2>4. PICK k \in 0 .. i - 1 : k = Cardinality(K) /\ K = 0 .. k - 1
    <3> HIDE DEF K
    <3>1. Cardinality(K) \in 0 .. b + 1 /\ K = 0 .. Cardinality(K) - 1
      BY <2>2, <2>3, Prefix
    <3> QED
      BY <1>0, <2>2, <3>1
  <2>5. t = [j \in Markers |-> IF j < k \/ j > i THEN s[j]
                               ELSE IF j = k THEN tmp ELSE s[j - 1]]
    BY <1>3, <2>1, <2>4 DEF Insert
  <2>6. /\ \A j \in 0 .. k - 1 : s[j] <= tmp
        /\ \A j \in k .. i - 1 : tmp <= s[j]
    <3>1. \A j \in 0 .. k - 1 : s[j] <= tmp
      BY <2>1, <2>4
    <3>2. ASSUME NEW j \in k .. i - 1 PROVE tmp <= s[j]
      <4>0. j \in Int /\ j \in 0 .. i - 1 /\ j \in Markers
        BY <1>0
      <4>1. CASE j = i - 1
        BY <2>1, <4>1
      <4>2. CASE j # i - 1
        <5>1. j \in 0 .. i - 2 /\ j \notin K
          BY <1>0, <2>4, <4>0, <4>2
        <5> QED
          BY <1>1, <2>1, <4>0, <5>1
      <4> QED
        BY <4>1, <4>2
    <3> QED
      BY <3>1, <3>2
  <2> HIDE DEF K
  <2>7. /\ \A j \in 0 .. k - 1 : t[j] = s[j] /\ j \in 0 .. i - 1
        /\ t[k] = tmp
        /\ \A j \in k + 1 .. i : t[j] = s[j - 1] /\ j - 1 \in k .. i - 1 /\ j - 1 \in 0 .. i - 1
        /\ \A j \in Markers : j > i => t[j] = s[j]
    BY <1>0, <2>5 DEF Markers
  <2>8. t \in [Markers -> Int]
    <3>1. ASSUME NEW j \in Markers, ~(j < k \/ j > i), j # k PROVE j - 1 \in Markers
      BY <1>0, <3>1 DEF Markers
    <3> QED
      BY <1>1, <2>1, <2>5, <3>1
  <2>9. \A j \in 0 .. i : j \in 0 .. k - 1 \/ j = k \/ j \in k + 1 .. i
    BY <1>0
  <2>10. Sorted(t, i)
    <3> SUFFICES ASSUME NEW j \in 0 .. i, NEW h \in 0 .. i, j <= h PROVE t[j] <= t[h]
      BY DEF Sorted
    <3>0. \A y \in 0 .. i - 1 : s[y] \in Int
      BY <1>0, <1>1
    <3>1. CASE j \in 0 .. k - 1 /\ h \in 0 .. k - 1
      BY <2>7, <3>1 DEF Sorted
    <3>2. CASE j \in 0 .. k - 1 /\ h = k
      BY <2>6, <2>7, <3>2
    <3>3. CASE j \in 0 .. k - 1 /\ h \in k + 1 .. i
      <4>1. s[j] <= tmp /\ tmp <= s[h - 1] /\ s[j] \in Int /\ s[h - 1] \in Int
        BY <2>6, <2>7, <3>0, <3>3
      <4> QED
        BY <2>1, <2>7, <3>3, <4>1
    <3>4. CASE j = k /\ h = k
      BY <2>1, <2>7, <3>4
    <3>5. CASE j = k /\ h \in k + 1 .. i
      BY <2>6, <2>7, <3>5
    <3>6. CASE j \in k + 1 .. i /\ h \in k + 1 .. i
      <4>1. j - 1 \in 0 .. i - 1 /\ h - 1 \in 0 .. i - 1 /\ j - 1 <= h - 1
        BY <2>7, <3>6
      <4>2. s[j - 1] <= s[h - 1]
        BY <4>1 DEF Sorted
      <4> QED
        BY <2>7, <3>6, <4>2
    <3> QED
      BY <2>9, <3>1, <3>2, <3>3, <3>4, <3>5, <3>6
  <2>11. ASSUME Truncated(s[i]) = s[i] PROVE Same(s, t, i)
    <3>1. ASSUME NEW j \in 0 .. i PROVE \E h \in 0 .. i : t[j] = s[h]
      <4>1. CASE j \in 0 .. k - 1
        BY <2>7, <4>1
      <4>2. CASE j = k
        BY <1>0, <2>1, <2>7, <2>11, <4>2
      <4>3. CASE j \in k + 1 .. i
        <5>1. j - 1 \in 0 .. i
          BY <4>3
        <5> QED
          BY <2>7, <4>3, <5>1
      <4> QED
        BY <2>9, <4>1, <4>2, <4>3
    <3>2. ASSUME NEW j \in 0 .. i PROVE \E h \in 0 .. i : s[j] = t[h]
      <4>1. CASE j \in 0 .. k - 1
        BY <2>7, <4>1
      <4>2. CASE j \in k .. i - 1
        <5>1. j + 1 \in k + 1 .. i /\ j + 1 \in 0 .. i /\ (j + 1) - 1 = j
          BY <4>2
        <5> QED
          BY <2>7, <5>1
      <4>3. CASE j = i
        <5>1. k \in 0 .. i
          OBVIOUS
        <5> QED
          BY <2>1, <2>7, <2>11, <4>3, <5>1
      <4> QED
        BY <1>0, <4>1, <4>2, <4>3
    <3> QED
      BY <3>1, <3>2 DEF Same
  <2> QED
    BY <2>7, <2>8, <2>10, <2>11
<1> QED
  BY <1>2, <1>3

(* A round leaves the other entries alone.                                 *)
LEMMA SameBeyond ==
  ASSUME NEW i \in 1 .. 4, NEW s, NEW t, Same(s, t, i),
         \A j \in Markers : j > i => t[j] = s[j]
  PROVE  Same(s, t, 4)
<1>1. \A j \in 0 .. 4 : j \in Markers /\ (j \in 0 .. i \/ j > i)
  BY DEF Markers
<1>2. \A j \in 0 .. i : j \in 0 .. 4
  OBVIOUS
<1>3. ASSUME NEW j \in 0 .. 4 PROVE \E k \in 0 .. 4 : t[j] = s[k]
  <2>1. CASE j \in 0 .. i
    BY <1>2, <2>1 DEF Same
  <2>2. CASE j > i
    BY <1>1, <2>2
  <2> QED
    BY <1>1, <2>1, <2>2
<1>4. ASSUME NEW j \in 0 .. 4 PROVE \E k \in 0 .. 4 : s[j] = t[k]
  <2>1. CASE j \in 0 .. i
    BY <1>2, <2>1 DEF Same
  <2>2. CASE j > i
    BY <1>1, <2>2
  <2> QED
    BY <1>1, <2>1, <2>2
<1> QED
  BY <1>3, <1>4 DEF Same

(* Having the same entries is transitive.                                  *)
LEMMA SameTransitive ==
  ASSUME NEW s, NEW t, NEW u, Same(s, t, 4), Same(t, u, 4)
  PROVE  Same(s, u, 4)
<1>1. ASSUME NEW j \in 0 .. 4 PROVE \E k \in 0 .. 4 : u[j] = s[k]
  <2>1. PICK k \in 0 .. 4 : u[j] = t[k]
    BY DEF Same
  <2>2. PICK h \in 0 .. 4 : t[k] = s[h]
    BY DEF Same
  <2> QED
    BY <2>1, <2>2
<1>2. ASSUME NEW j \in 0 .. 4 PROVE \E k \in 0 .. 4 : s[j] = u[k]
  <2>1. PICK k \in 0 .. 4 : s[j] = t[k]
    BY DEF Same
  <2>2. PICK h \in 0 .. 4 : t[k] = u[h]
    BY DEF Same
  <2> QED
    BY <2>1, <2>2
<1> QED
  BY <1>1, <1>2 DEF Same

(* insertSort sorts gaps, and loses none if an int holds them all.         *)
LEMMA Sorting ==
  ASSUME NEW s \in [Markers -> Int],
         \A i \in Markers : Truncated(s[i]) \in Int /\ Truncated(s[i]) <= s[i],
         NEW t, t = insertSort(s)
  PROVE  /\ t \in [Markers -> Int] /\ Sorted(t, 4)
         /\ (\A i \in Markers : Truncated(s[i]) = s[i]) => Same(s, t, 4)
<1> DEFINE Result(b, i) ==
             /\ b \in [Markers -> Int] /\ Sorted(b, i)
             /\ \A j \in Markers : j > i => b[j] = s[j]
             /\ (\A j \in Markers : Truncated(s[j]) = s[j]) => Same(s, b, 4)
<1>1. Result(s, 0)
  <2>1. Sorted(s, 0)
    <3> SUFFICES ASSUME NEW j \in 0 .. 0, NEW k \in 0 .. 0 PROVE s[j] <= s[k]
      BY DEF Sorted
    <3>1. j = 0 /\ k = 0 /\ s[0] \in Int
      BY DEF Markers
    <3> QED
      BY <3>1
  <2> QED
    BY <2>1 DEF Same
<1>2. ASSUME NEW i \in 1 .. 4, NEW a, NEW b, Result(a, i - 1), b = Insert(a, i)
      PROVE  Result(b, i)
  <2>1. i \in Markers /\ i > i - 1
    BY DEF Markers
  <2>2. a[i] = s[i]
    BY <1>2, <2>1
  <2>3. a \in [Markers -> Int] /\ Sorted(a, i - 1) /\ Truncated(a[i]) \in Int /\ Truncated(a[i]) <= a[i]
    BY <1>2, <2>1, <2>2
  <2>4. /\ b \in [Markers -> Int] /\ Sorted(b, i)
        /\ \A j \in Markers : j > i => b[j] = a[j]
        /\ Truncated(a[i]) = a[i] => Same(a, b, i)
    BY <1>2, <2>3, InsertRound
  <2>5. \A j \in Markers : j > i => b[j] = s[j]
    <3>1. \A j \in Markers : j > i => j > i - 1
      BY DEF Markers
    <3> QED
      BY <1>2, <2>4, <3>1
  <2>6. ASSUME \A j \in Markers : Truncated(s[j]) = s[j] PROVE Same(s, b, 4)
    <3>1. Same(s, a, 4)
      BY <1>2, <2>6
    <3>2. Same(a, b, i)
      BY <2>1, <2>2, <2>4, <2>6
    <3>3. Same(a, b, 4)
      BY <2>4, <3>2, SameBeyond
    <3> QED
      BY <3>1, <3>3, SameTransitive
  <2> QED
    BY <2>4, <2>5, <2>6
<1> HIDE DEF Result
<1>3. PICK t1, t2, t3 : /\ t1 = Insert(s, 1) /\ t2 = Insert(t1, 2)
                        /\ t3 = Insert(t2, 3) /\ t = Insert(t3, 4)
  BY DEF insertSort
<1>4. Result(t1, 1)
  <2>1. 1 \in 1 .. 4 /\ 1 - 1 = 0
    OBVIOUS
  <2> QED
    BY <1>1, <1>2, <1>3, <2>1
<1>5. Result(t2, 2)
  <2>1. 2 \in 1 .. 4 /\ 2 - 1 = 1
    OBVIOUS
  <2> QED
    BY <1>4, <1>2, <1>3, <2>1
<1>6. Result(t3, 3)
  <2>1. 3 \in 1 .. 4 /\ 3 - 1 = 2
    OBVIOUS
  <2> QED
    BY <1>5, <1>2, <1>3, <2>1
<1>7. Result(t, 4)
  <2>1. 4 \in 1 .. 4 /\ 4 - 1 = 3
    OBVIOUS
  <2> QED
    BY <1>6, <1>2, <1>3, <2>1
<1> QED
  BY <1>7 DEF Result

(* insertSort leaves sorted heights alone.                                 *)
LEMMA SortedStays ==
  ASSUME NEW s \in [Markers -> Int], \A i \in 0 .. 3 : s[i] <= s[i + 1]
  PROVE  insertSort(s) = s
<1>1. \A i \in 1 .. 4 : i - 1 \in 0 .. 3 /\ (i - 1) + 1 = i /\ i \in Markers /\ i - 1 \in Markers
  BY DEF Markers
<1>2. ASSUME NEW i \in 1 .. 4 PROVE Insert(s, i) = s
  <2>1. s[i - 1] <= s[i]
    BY <1>1
  <2>2. s[i - 1] \in Int /\ s[i] \in Int
    BY <1>1
  <2>3. s[i] >= s[i - 1]
    BY <2>1, <2>2
  <2> QED
    BY <2>3 DEF Insert
<1>3. 1 \in 1 .. 4 /\ 2 \in 1 .. 4 /\ 3 \in 1 .. 4 /\ 4 \in 1 .. 4
  OBVIOUS
<1> QED
  BY <1>2, <1>3 DEF insertSort

-----------------------------------------------------------------------------
(* The roundings of a float, and what a desired position can be.           *)
Targets == {y \in Int : Place <= y}

(* A quotient is not less than a number whose product is not more than the *)
(* dividend.                                                               *)
LEMMA DivBound ==
  ASSUME NEW a \in Int, NEW b \in Int, NEW m \in Nat \ {0}, a * m <= b
  PROVE  b \div m \in Int /\ a <= b \div m
<1>1. PICK z \in Int : z = b \div m /\ b = m * z + (b % m)
  BY ModDiv
<1>2. PICK r \in 0 .. m - 1 : r = b % m
  BY ModRange
<1>3. b = z * m + r
  BY <1>1, <1>2
<1>4. ASSUME z < a PROVE FALSE
  <2>1. PICK d \in Int : d = z + 1
    OBVIOUS
  <2>2. d * m <= a * m /\ d * m = z * m + m
    BY <1>4, <2>1, TimesOrder
  <2>3. z * m \in Int /\ a * m \in Int
    OBVIOUS
  <2> QED
    BY <1>3, <2>2, <2>3
<1> QED
  BY <1>1, <1>4

(* The nearest multiple is off by no more than half the spacing, is not    *)
(* below a multiple that x is not below, and is x if that is a multiple.   *)
LEMMA NearestOf ==
  ASSUME NEW x \in Int, NEW w \in Nat \ {0}, NEW y, y = Nearest(x, w)
  PROVE  /\ y \in Int /\ 2 * (y - x) <= w /\ 2 * (x - y) <= w
         /\ \A k \in Int : k * w <= x => k * w <= y
         /\ \A k \in Int : x = k * w => y = x
<1>1. PICK z \in Int : z = x \div w /\ x = w * z + (x % w)
  BY ModDiv
<1>2. PICK r \in 0 .. w - 1 : r = x % w
  BY ModRange
<1>3. PICK v \in Int : v = z * w /\ (z + 1) * w = v + w /\ x = v + r
  BY <1>1, <1>2
<1>4. PICK p : p = z % 2
  OBVIOUS
<1>5. y = IF 2 * r < w \/ (2 * r = w /\ p = 0) THEN v ELSE v + w
  BY <1>1, <1>2, <1>3, <1>4, Zenon DEF Nearest
<1>6. y \in Int /\ 2 * (y - x) <= w /\ 2 * (x - y) <= w /\ v <= y
  BY <1>3, <1>5
<1>7. ASSUME NEW k \in Int, k * w <= x PROVE k * w <= y
  <2>1. k <= z
    BY <1>1, <1>7, DivBound
  <2>2. k * w <= z * w /\ k * w \in Int
    BY <2>1, TimesOrder
  <2> QED
    BY <1>3, <1>6, <2>2
<1>8. ASSUME NEW k \in Int, x = k * w PROVE y = x
  <2>1. k = z
    BY <1>1, <1>8, DivExact
  <2>2. r = 0
    BY <1>3, <1>8, <2>1
  <2> QED
    BY <1>3, <1>5, <2>2
<1> QED
  BY <1>6, <1>7, <1>8

(* A position, in the units of the ranks and of n1.                        *)
LEMMA PlaceType ==
  ASSUME P \in Percentiles
  PROVE  One \in Nat \ {0} /\ Grid \in Nat \ {0} /\ Place \in Nat \ {0}
<1>1. PICK b \in Nat \ {0} : P.den = b
  BY QuantileAssumption
<1>2. One \in Nat \ {0}
  BY <1>1 DEF One
<1>3. Grid \in Nat \ {0}
  BY QuantileAssumption
<1> QED
  BY <1>2, <1>3, TimesPositive DEF Place

(* The spacing of the floats at x.                                         *)
LEMMA SpacingAt ==
  ASSUME P \in Percentiles, NEW x \in Int, Place <= x
  PROVE  \E u \in Spacings : Place * u <= x /\ Float(x) = Nearest(x, One * u)
<1> DEFINE U == {u \in Spacings : Place * u <= x}
<1>1. PICK t \in Nat \ {0} : t = Place
  BY PlaceType
<1>2. t * 1 = t
  OBVIOUS
<1>3. U # {}
  BY <1>1, <1>2, QuantileAssumption
<1>4. IsFiniteSet(U) /\ U \in SUBSET Int
  <2>1. U \subseteq Spacings /\ IsFiniteSet(Spacings) /\ Spacings \subseteq Int
    BY QuantileAssumption
  <2> HIDE DEF U
  <2> QED
    BY <2>1, FS_Subset
<1>5. \E u \in U : \A v \in U : u >= v
  <2> HIDE DEF U
  <2> QED
    BY <1>3, <1>4, GreatestNumber
<1>6. Max(U) \in U
  BY <1>5 DEF Max
<1> QED
  BY <1>6 DEF Float

(* A float is off by less than x / 2^24, and never below 1.                *)
LEMMA FloatOf ==
  ASSUME P \in Percentiles, NEW x \in Int, Place <= x, NEW y, y = Float(x)
  PROVE  /\ y \in Targets
         /\ (2 * Grid) * (y - x) <= x /\ (2 * Grid) * (x - y) <= x
<1>1. PICK o \in Nat \ {0}, g \in Nat \ {0} : o = One /\ g = Grid /\ Place = o * g
  BY PlaceType DEF Place
<1>2. PICK u \in Nat \ {0} : Place * u <= x /\ y = Nearest(x, One * u)
  BY SpacingAt, QuantileAssumption
<1>3. PICK w \in Nat \ {0} : w = o * u
  BY TimesPositive
<1>4. g * w = (o * g) * u /\ g * w \in Int /\ g * w <= x
  BY <1>1, <1>2, <1>3
<1>5. y \in Int /\ 2 * (y - x) <= w /\ 2 * (x - y) <= w /\ g * w <= y
  <2>1. y = Nearest(x, w)
    BY <1>1, <1>2, <1>3
  <2>2. /\ y \in Int /\ 2 * (y - x) <= w /\ 2 * (x - y) <= w
        /\ \A k \in Int : k * w <= x => k * w <= y
    BY <2>1, NearestOf
  <2>3. g \in Int
    OBVIOUS
  <2>4. g * w <= x => g * w <= y
    BY <2>2, <2>3, Zenon
  <2> QED
    BY <1>4, <2>2, <2>4
<1>6. o * g <= g * w
  <2>1. o <= w
    <3>1. PICK j \in Nat : u = j + 1
      <4>1. u - 1 \in Nat /\ u = (u - 1) + 1
        OBVIOUS
      <4> QED
        BY <4>1
    <3>2. o * j \in Nat /\ w = o * j + o
      BY <1>3, <3>1
    <3> QED
      BY <3>2
  <2>2. o * g <= w * g
    BY <2>1, TimesOrder
  <2> QED
    BY <2>2
<1>7. ASSUME NEW d \in Int, 2 * d <= w PROVE (2 * g) * d <= x
  <2>1. PICK h \in Int : h = 2 * d
    OBVIOUS
  <2>2. h * g <= w * g
    BY <1>7, <2>1, TimesOrder
  <2>3. (2 * g) * d = h * g
    BY <2>1
  <2> QED
    BY <1>4, <2>2, <2>3
<1>8. y - x \in Int /\ x - y \in Int
  BY <1>5
<1>9. (2 * g) * (y - x) <= x /\ (2 * g) * (x - y) <= x
  BY <1>5, <1>7, <1>8
<1>10. o * g \in Int /\ o * g <= y
  BY <1>4, <1>5, <1>6
<1> QED
  BY <1>1, <1>5, <1>9, <1>10 DEF Targets

(* A whole position is a float up to 2^24.                                 *)
LEMMA FloatExact ==
  ASSUME P \in Percentiles, NEW k \in Nat \ {0}, k <= 2 * Grid
  PROVE  Float(k * Place) = k * Place
<1>1. PICK o \in Nat \ {0}, g \in Nat \ {0}, t \in Nat \ {0} :
        o = One /\ g = Grid /\ t = Place /\ t = o * g
  BY PlaceType DEF Place
<1>2. PICK x \in Int : x = k * t /\ t <= x
  <2>1. 1 * t <= k * t
    BY TimesOrder
  <2> QED
    BY <2>1
<1>3. PICK u \in Spacings : t * u <= x /\ Float(x) = Nearest(x, One * u)
  BY <1>1, <1>2, SpacingAt
<1>4. u \in Nat \ {0} /\ g \in Spacings
  BY <1>1, QuantileAssumption
<1>5. u <= k
  <2>1. ASSUME k < u PROVE FALSE
    <3>1. k * t < u * t
      BY <1>4, <2>1, TimesOrder
    <3> QED
      BY <1>2, <1>3, <1>4, <3>1
  <2> QED
    BY <1>4, <2>1
<1>6. \E j \in Int : x = j * (o * u)
  <2>1. CASE u <= g
    <3>1. g % u = 0
      BY <1>4, <2>1, QuantileAssumption
    <3>2. PICK j \in Int : g = u * j + (g % u)
      <4>1. g \div u \in Int /\ g = u * (g \div u) + (g % u)
        BY <1>4, ModDiv
      <4> QED
        BY <4>1
    <3>3. g = u * j
      BY <1>4, <3>1, <3>2
    <3>4. x = (k * j) * (o * u)
      BY <1>1, <1>2, <1>4, <3>3
    <3> QED
      BY <3>4
  <2>2. CASE g < u
    <3>1. u % g = 0
      BY <1>4, <2>2, QuantileAssumption
    <3>2. PICK j \in Int : u = g * j + (u % g)
      <4>1. u \div g \in Int /\ u = g * (u \div g) + (u % g)
        BY <1>4, ModDiv
      <4> QED
        BY <4>1
    <3>3. u = j * g
      BY <1>4, <3>1, <3>2
    <3>4. j >= 2
      <4>1. ASSUME j <= 1 PROVE FALSE
        <5>1. j * g <= 1 * g
          BY <4>1, TimesOrder
        <5> QED
          BY <1>4, <2>2, <3>3, <5>1
      <4> QED
        BY <4>1
    <3>5. 2 * g <= j * g
      BY <3>4, TimesOrder
    <3>6. u = k
      BY <1>1, <1>4, <1>5, <3>3, <3>5
    <3>7. x = g * (o * u)
      BY <1>1, <1>2, <1>4, <3>6
    <3> QED
      BY <3>7
  <2> QED
    BY <1>4, <2>1, <2>2
<1>7. PICK w \in Nat \ {0} : w = o * u
  BY <1>4, TimesPositive
<1>8. PICK y : y = Nearest(x, w) /\ y = Float(x)
  BY <1>1, <1>3, <1>7
<1>9. \A j \in Int : x = j * w => y = x
  BY <1>8, NearestOf
<1>10. y = x
  BY <1>6, <1>7, <1>9
<1> QED
  BY <1>1, <1>2, <1>8, <1>10

-----------------------------------------------------------------------------
(* The markers of get_qt, and that their heights and positions rise.       *)
Marked == [q : [Markers -> Int], n : [Markers -> Int], n1 : [Markers -> Targets]]

Rising(m) == \A i \in 0 .. 3 : m.q[i] <= m.q[i + 1] /\ m.n[i] < m.n[i + 1]

(* The four pairs of neighbours.                                           *)
LEMMA Neighbours ==
  ASSUME NEW m \in Marked
  PROVE  /\ \A i \in Markers : m.q[i] \in Int /\ m.n[i] \in Int
         /\ Rising(m) <=> /\ m.q[0] <= m.q[1] /\ m.q[1] <= m.q[2]
                          /\ m.q[2] <= m.q[3] /\ m.q[3] <= m.q[4]
                          /\ m.n[0] < m.n[1] /\ m.n[1] < m.n[2]
                          /\ m.n[2] < m.n[3] /\ m.n[3] < m.n[4]
<1>1. \A i \in Markers : m.q[i] \in Int /\ m.n[i] \in Int
  BY DEF Marked
<1>2. \A i : i \in 0 .. 3 <=> i = 0 \/ i = 1 \/ i = 2 \/ i = 3
  OBVIOUS
<1>3. 0 + 1 = 1 /\ 1 + 1 = 2 /\ 2 + 1 = 3 /\ 3 + 1 = 4
  OBVIOUS
<1>4. Rising(m) <=> /\ m.q[0] <= m.q[0 + 1] /\ m.q[1] <= m.q[1 + 1]
                    /\ m.q[2] <= m.q[2 + 1] /\ m.q[3] <= m.q[3 + 1]
                    /\ m.n[0] < m.n[0 + 1] /\ m.n[1] < m.n[1 + 1]
                    /\ m.n[2] < m.n[2 + 1] /\ m.n[3] < m.n[3 + 1]
  BY <1>2, Zenon DEF Rising
<1> QED
  BY <1>1, <1>3, <1>4

(* The numbers of init and of the increments, in units of ranks.           *)
LEMMA IncrementType ==
  ASSUME P \in Percentiles
  PROVE  \A i \in Markers : Increment[i + 1] \in Nat /\ Desired[i + 1] \in Nat /\ One <= Desired[i + 1]
<1>1. PICK a \in Nat, b \in Nat \ {0} : P.num = a /\ P.den = b
  BY QuantileAssumption
<1>2. One \in Nat /\ One = 2 * b
  BY <1>1 DEF One
<1>3. /\ Increment[1] = 0 /\ Increment[2] = a /\ Increment[3] = 2 * a
      /\ Increment[4] = a + b /\ Increment[5] = One
  BY <1>1 DEF Increment
<1>4. /\ Desired[1] = 1 * One /\ Desired[2] = One + 4 * a /\ Desired[3] = One + 8 * a
      /\ Desired[4] = 3 * One + 4 * a /\ Desired[5] = 5 * One
  BY <1>1 DEF Desired
<1>5. \A j \in 1 .. 5 : Increment[j] \in Nat /\ Desired[j] \in Nat /\ One <= Desired[j]
  <2>1. \A j \in 1 .. 5 : j = 1 \/ j = 2 \/ j = 3 \/ j = 4 \/ j = 5
    OBVIOUS
  <2> QED
    BY <1>2, <1>3, <1>4, <2>1
<1>6. \A i \in Markers : i + 1 \in 1 .. 5
  BY DEF Markers
<1> QED
  BY <1>5, <1>6

(* What the first half of get_qt does.                                     *)
LEMMA Absorbs ==
  ASSUME P \in Percentiles, NEW m \in Marked, Rising(m), NEW x \in Int,
         NEW a, a = Absorb(m, x)
  PROVE  /\ a \in Marked /\ Rising(a)
         /\ a.n[0] = m.n[0] /\ a.n[4] = m.n[4] + 1
         /\ a.q[0] = (IF x < m.q[0] THEN x ELSE m.q[0])
         /\ a.q[4] = (IF x > m.q[4] THEN x ELSE m.q[4])
<1> DEFINE k == CellOf(m, x)
<1>0. 0 \in Markers /\ 1 \in Markers /\ 2 \in Markers /\ 3 \in Markers /\ 4 \in Markers
  BY DEF Markers
<1>1. /\ m.q \in [Markers -> Int] /\ m.n \in [Markers -> Int] /\ m.n1 \in [Markers -> Targets]
      /\ m.q[0] \in Int /\ m.q[1] \in Int /\ m.q[2] \in Int /\ m.q[3] \in Int /\ m.q[4] \in Int
      /\ m.n[0] \in Int /\ m.n[1] \in Int /\ m.n[2] \in Int /\ m.n[3] \in Int /\ m.n[4] \in Int
  BY <1>0 DEF Marked
<1>2. /\ m.q[0] <= m.q[1] /\ m.q[1] <= m.q[2] /\ m.q[2] <= m.q[3] /\ m.q[3] <= m.q[4]
      /\ m.n[0] < m.n[1] /\ m.n[1] < m.n[2] /\ m.n[2] < m.n[3] /\ m.n[3] < m.n[4]
  BY Neighbours
<1>3. k \in 0 .. 3 /\ (x < m.q[0] => k = 0) /\ (x > m.q[4] => k = 3)
  BY <1>1, <1>2 DEF CellOf
<1>4. /\ a.q = [m.q EXCEPT ![4] = IF k = 3 /\ x > @ THEN x ELSE @,
                           ![0] = IF k = 0 /\ x < @ THEN x ELSE @]
      /\ a.n = [i \in Markers |-> IF i > k THEN m.n[i] + 1 ELSE m.n[i]]
      /\ a.n1 = [i \in Markers |-> Float(m.n1[i] + Increment[i + 1] * Grid)]
      /\ a = [q |-> a.q, n |-> a.n, n1 |-> a.n1]
  BY DEF Absorb
<1> HIDE DEF k
<1>5. a.q \in [Markers -> Int]
  BY <1>0, <1>1, <1>4
<1>6. a.n \in [Markers -> Int]
  BY <1>0, <1>1, <1>4
<1>7. a.n1 \in [Markers -> Targets]
  <2> SUFFICES ASSUME NEW i \in Markers PROVE Float(m.n1[i] + Increment[i + 1] * Grid) \in Targets
    BY <1>4
  <2>1. PICK y \in Int, d \in Nat, g \in Nat \ {0} :
          y = m.n1[i] /\ d = Increment[i + 1] /\ g = Grid /\ Place <= y
    BY <1>1, IncrementType, PlaceType DEF Targets
  <2>2. PICK z \in Int : z = y + d * g /\ Place <= z
    <3>1. d * g \in Nat /\ Place \in Int
      BY PlaceType
    <3> QED
      BY <2>1, <3>1
  <2>3. Float(z) \in Targets
    BY <2>2, FloatOf
  <2> QED
    BY <2>1, <2>2, <2>3
<1>8. a \in Marked
  BY <1>4, <1>5, <1>6, <1>7 DEF Marked
<1>9. /\ a.q[0] = (IF x < m.q[0] THEN x ELSE m.q[0])
      /\ a.q[4] = (IF x > m.q[4] THEN x ELSE m.q[4])
      /\ a.q[1] = m.q[1] /\ a.q[2] = m.q[2] /\ a.q[3] = m.q[3]
  BY <1>0, <1>1, <1>3, <1>4
<1>10. \A i \in Markers : a.n[i] = IF i > k THEN m.n[i] + 1 ELSE m.n[i]
  BY <1>4
<1>11. /\ a.n[0] = m.n[0] /\ a.n[4] = m.n[4] + 1
       /\ a.n[0] < a.n[1] /\ a.n[1] < a.n[2] /\ a.n[2] < a.n[3] /\ a.n[3] < a.n[4]
  BY <1>0, <1>1, <1>2, <1>3, <1>10
<1>12. a.q[0] <= a.q[1] /\ a.q[1] <= a.q[2] /\ a.q[2] <= a.q[3] /\ a.q[3] <= a.q[4]
  BY <1>1, <1>2, <1>9
<1>13. Rising(a)
  BY <1>8, <1>11, <1>12, Neighbours
<1> QED
  BY <1>8, <1>9, <1>11, <1>13

(* The height on the line lies between the marker's and the next one's.    *)
LEMMA OnLine ==
  ASSUME NEW i \in 1 .. 3, NEW m \in Marked, Rising(m), NEW d \in {1, -1},
         NEW y, y = Linear(m, i, d)
  PROVE  y \in Int /\ m.q[i - 1] <= m.q[i] + y /\ m.q[i] + y <= m.q[i + 1]
<1>1. /\ m.q[i - 1] \in Int /\ m.q[i] \in Int /\ m.q[i + 1] \in Int
      /\ m.n[i - 1] \in Int /\ m.n[i] \in Int /\ m.n[i + 1] \in Int
  BY DEF Marked, Markers
<1>2. m.q[i - 1] <= m.q[i] /\ m.n[i - 1] < m.n[i] /\ m.q[i] <= m.q[i + 1] /\ m.n[i] < m.n[i + 1]
  <2>1. i \in 0 .. 3 /\ i - 1 \in 0 .. 3 /\ (i - 1) + 1 = i
    OBVIOUS
  <2> QED
    BY <2>1 DEF Rising
<1>3. CASE d = 1
  <2>1. PICK a \in Int, b \in Nat \ {0} : a = m.q[i + 1] - m.q[i] /\ b = m.n[i + 1] - m.n[i]
    BY <1>1, <1>2
  <2>2. 1 * b = b
    OBVIOUS
  <2>3. y = a \div b
    BY <1>3, <2>1, <2>2, Zenon DEF Linear
  <2>4. y \in Int /\ (a >= 0 => 0 <= y /\ y <= a)
    BY <2>3, DivBetween
  <2> QED
    BY <1>1, <1>2, <2>1, <2>4
<1>4. CASE d = -1
  <2>0. i + -1 = i - 1
    OBVIOUS
  <2>1. PICK a \in Int, e \in Int, b \in Nat \ {0} :
          a = m.q[i - 1] - m.q[i] /\ e = m.n[i - 1] - m.n[i] /\ b = (-1) * e
    BY <1>1, <1>2
  <2>2. y = (m.q[i + -1] - m.q[i]) \div ((-1) * (m.n[i + -1] - m.n[i]))
    BY <1>4, Zenon DEF Linear
  <2>3. y = a \div b
    BY <2>0, <2>1, <2>2, Zenon
  <2>4. y \in Int /\ (a <= 0 => a <= y /\ y <= 0)
    BY <2>3, DivBetween
  <2> QED
    BY <1>1, <1>2, <2>1, <2>4
<1> QED
  BY <1>3, <1>4

(* The height on the parabola is a number: nothing is divided by 0.        *)
LEMMA OnParabola ==
  ASSUME NEW i \in 1 .. 3, NEW m \in Marked, Rising(m), NEW d \in {1, -1}
  PROVE  Parabolic(m, i, d) \in Int
<1>1. /\ m.q[i - 1] \in Int /\ m.q[i] \in Int /\ m.q[i + 1] \in Int
      /\ m.n[i - 1] \in Int /\ m.n[i] \in Int /\ m.n[i + 1] \in Int
  BY DEF Marked, Markers
<1>2. m.n[i - 1] < m.n[i] /\ m.n[i] < m.n[i + 1]
  <2>1. i \in 0 .. 3 /\ i - 1 \in 0 .. 3 /\ (i - 1) + 1 = i
    OBVIOUS
  <2> QED
    BY <2>1 DEF Rising
<1>3. PICK up \in Nat \ {0} : up = m.n[i + 1] - m.n[i]
  BY <1>1, <1>2
<1>4. PICK down \in Nat \ {0} : down = m.n[i] - m.n[i - 1]
  BY <1>1, <1>2
<1>5. PICK a \in Int, b \in Int : a = m.q[i + 1] - m.q[i] /\ b = m.q[i] - m.q[i - 1]
  BY <1>1
<1>6. PICK z \in Int : z = d * ((down + d) * a * down + (up - d) * b * up)
  <2>1. d \in Int
    OBVIOUS
  <2>2. (down + d) * a * down \in Int /\ (up - d) * b * up \in Int
    BY <2>1
  <2> QED
    BY <2>1, <2>2
<1>7. PICK w \in Nat \ {0} : w = (up + down) * up * down
  <2>1. PICK v \in Nat \ {0} : v = up + down
    OBVIOUS
  <2>2. PICK u \in Nat \ {0} : u = v * up
    BY TimesPositive
  <2>3. u * down \in Nat \ {0}
    BY TimesPositive
  <2> QED
    BY <2>1, <2>2, <2>3
<1>8. Parabolic(m, i, d) = z \div w
  BY <1>3, <1>5, <1>6, <1>7, <1>4, Zenon DEF Parabolic
<1> QED
  BY <1>8, DivBetween

(* A marker moves by one, and stays between its neighbours.                *)
LEMMA Moves ==
  ASSUME NEW i \in 1 .. 3, NEW m \in Marked, Rising(m), NEW d \in {1, -1},
         d * (m.n[i + d] - m.n[i]) > 1, NEW a, a = Moved(m, i, d)
  PROVE  /\ a \in Marked /\ Rising(a)
         /\ a.n[0] = m.n[0] /\ a.n[4] = m.n[4] /\ a.q[0] = m.q[0] /\ a.q[4] = m.q[4]
<1>0. /\ i \in Markers /\ i - 1 \in Markers /\ i + 1 \in Markers
      /\ 0 \in Markers /\ 4 \in Markers /\ i # 0 /\ i # 4
      /\ \A j \in 0 .. 3 : j \in Markers /\ j + 1 \in Markers
  BY DEF Markers
<1>1. /\ m.q \in [Markers -> Int] /\ m.n \in [Markers -> Int] /\ m.n1 \in [Markers -> Targets]
      /\ m.q[i - 1] \in Int /\ m.q[i] \in Int /\ m.q[i + 1] \in Int
      /\ m.n[i - 1] \in Int /\ m.n[i] \in Int /\ m.n[i + 1] \in Int
  BY <1>0 DEF Marked
<1>2. m.q[i - 1] <= m.q[i] /\ m.n[i - 1] < m.n[i] /\ m.q[i] <= m.q[i + 1] /\ m.n[i] < m.n[i + 1]
  <2>1. i \in 0 .. 3 /\ i - 1 \in 0 .. 3 /\ (i - 1) + 1 = i
    OBVIOUS
  <2> QED
    BY <2>1 DEF Rising
<1>3. PICK p \in Int : p = Parabolic(m, i, d)
  BY OnParabola
<1>4. PICK y \in Int : y = Linear(m, i, d) /\ m.q[i - 1] <= m.q[i] + y /\ m.q[i] + y <= m.q[i + 1]
  BY OnLine
<1>5. PICK h \in Int : /\ h = (IF m.q[i] + p > m.q[i - 1] /\ m.q[i] + p < m.q[i + 1]
                                 THEN m.q[i] + p ELSE m.q[i] + y)
                       /\ m.q[i - 1] <= h /\ h <= m.q[i + 1]
  BY <1>1, <1>4
<1>6. PICK g \in Int : g = m.n[i] + d /\ m.n[i - 1] < g /\ g < m.n[i + 1]
  <2>1. CASE d = 1
    BY <1>1, <1>2, <2>1
  <2>2. CASE d = -1
    <3>1. i + -1 = i - 1
      OBVIOUS
    <3>2. (-1) * (m.n[i - 1] - m.n[i]) > 1
      BY <2>2, <3>1
    <3> QED
      BY <1>1, <1>2, <2>2, <3>2
  <2> QED
    BY <2>1, <2>2
<1>7. a = [m EXCEPT !.q[i] = IF m.q[i] + p > m.q[i - 1] /\ m.q[i] + p < m.q[i + 1]
                               THEN m.q[i] + p ELSE m.q[i] + y,
                    !.n[i] = m.n[i] + d]
  BY <1>3, <1>4 DEF Moved
<1>8. a = [m EXCEPT !.q[i] = h, !.n[i] = g]
  BY <1>5, <1>6, <1>7
<1>9. m = [q |-> m.q, n |-> m.n, n1 |-> m.n1]
  BY DEF Marked
<1>10. PICK f, e : f = [m.q EXCEPT ![i] = h] /\ e = [m.n EXCEPT ![i] = g]
  OBVIOUS
<1>11. f \in [Markers -> Int] /\ e \in [Markers -> Int]
  BY <1>0, <1>1, <1>10
<1>12. a = [m EXCEPT !.q = f, !.n = e]
  BY <1>8, <1>9, <1>10
<1>13. a = [q |-> f, n |-> e, n1 |-> m.n1]
  BY <1>9, <1>12
<1>14. a.q = [m.q EXCEPT ![i] = h] /\ a.n = [m.n EXCEPT ![i] = g] /\ a \in Marked
  BY <1>1, <1>10, <1>11, <1>13 DEF Marked
<1>15. /\ a.q[i] = h /\ a.n[i] = g
       /\ \A j \in Markers : j # i => a.q[j] = m.q[j] /\ a.n[j] = m.n[j]
  BY <1>0, <1>1, <1>14
<1>16. Rising(a)
  <2> SUFFICES ASSUME NEW j \in 0 .. 3 PROVE a.q[j] <= a.q[j + 1] /\ a.n[j] < a.n[j + 1]
    BY DEF Rising
  <2>1. CASE j = i
    BY <1>0, <1>5, <1>6, <1>15, <2>1
  <2>2. CASE j = i - 1
    <3>1. j + 1 = i /\ j # i
      BY <2>2
    <3> QED
      BY <1>0, <1>5, <1>6, <1>15, <2>2, <3>1
  <2>3. CASE j # i /\ j # i - 1
    <3>1. j + 1 # i
      BY <2>3
    <3> QED
      BY <1>0, <1>15, <2>3, <3>1 DEF Rising
  <2> QED
    BY <2>1, <2>2, <2>3
<1> QED
  BY <1>0, <1>14, <1>15, <1>16

(* A marker that moves, or does not.                                       *)
LEMMA Adjusts ==
  ASSUME NEW i \in 1 .. 3, NEW m \in Marked, Rising(m), NEW a, a = Adjust(m, i)
  PROVE  /\ a \in Marked /\ Rising(a)
         /\ a.n[0] = m.n[0] /\ a.n[4] = m.n[4] /\ a.q[0] = m.q[0] /\ a.q[4] = m.q[4]
<1>1. CASE MayMove(m, i, 1)
  <2>1. 1 * (m.n[i + 1] - m.n[i]) > 1 /\ a = Moved(m, i, 1) /\ 1 \in {1, -1}
    BY <1>1, Zenon DEF MayMove, Adjust
  <2> QED
    BY <2>1, Moves
<1>2. CASE ~MayMove(m, i, 1) /\ MayMove(m, i, -1)
  <2>1. PICK d \in {1, -1} : d = -1
    OBVIOUS
  <2>2. MayMove(m, i, d) /\ a = Moved(m, i, d)
    BY <1>2, <2>1, Zenon DEF Adjust
  <2>3. d * (m.n[i + d] - m.n[i]) > 1
    BY <2>2 DEF MayMove
  <2> QED
    BY <2>2, <2>3, Moves
<1>3. CASE ~MayMove(m, i, 1) /\ ~MayMove(m, i, -1)
  BY <1>3, Zenon DEF Adjust
<1> QED
  BY <1>1, <1>2, <1>3

(* What get_qt does to the markers: they stay in order, the first position *)
(* is 1, the last one counts the gap, the outer heights take it in.        *)
Taken(m, x, a) ==
  /\ a \in Marked /\ Rising(a)
  /\ a.n[0] = m.n[0] /\ a.n[4] = m.n[4] + 1
  /\ a.q[0] = (IF x < m.q[0] THEN x ELSE m.q[0])
  /\ a.q[4] = (IF x > m.q[4] THEN x ELSE m.q[4])

LEMMA GetQt ==
  ASSUME P \in Percentiles, NEW m \in Marked, Rising(m), NEW x \in Int,
         NEW a, a = get_qt(m, x)
  PROVE  Taken(m, x, a)
<1>1. PICK a0, a1, a2 : /\ a0 = Absorb(m, x) /\ a1 = Adjust(a0, 1)
                        /\ a2 = Adjust(a1, 2) /\ a = Adjust(a2, 3)
  BY DEF get_qt
<1>2. /\ a0 \in Marked /\ Rising(a0)
      /\ a0.n[0] = m.n[0] /\ a0.n[4] = m.n[4] + 1
      /\ a0.q[0] = (IF x < m.q[0] THEN x ELSE m.q[0])
      /\ a0.q[4] = (IF x > m.q[4] THEN x ELSE m.q[4])
  BY <1>1, Absorbs
<1>3. 1 \in 1 .. 3 /\ 2 \in 1 .. 3 /\ 3 \in 1 .. 3
  OBVIOUS
<1>4. /\ a1 \in Marked /\ Rising(a1)
      /\ a1.n[0] = a0.n[0] /\ a1.n[4] = a0.n[4] /\ a1.q[0] = a0.q[0] /\ a1.q[4] = a0.q[4]
  BY <1>1, <1>2, <1>3, Adjusts
<1>5. /\ a2 \in Marked /\ Rising(a2)
      /\ a2.n[0] = a1.n[0] /\ a2.n[4] = a1.n[4] /\ a2.q[0] = a1.q[0] /\ a2.q[4] = a1.q[4]
  BY <1>1, <1>4, <1>3, Adjusts
<1>6. /\ a \in Marked /\ Rising(a)
      /\ a.n[0] = a2.n[0] /\ a.n[4] = a2.n[4] /\ a.q[0] = a2.q[0] /\ a.q[4] = a2.q[4]
  BY <1>1, <1>5, <1>3, Adjusts
<1> QED
  BY <1>2, <1>4, <1>5, <1>6 DEF Taken

-----------------------------------------------------------------------------
(* What a gap can be.                                                      *)
IntGaps == {x \in Int : -IntMax - 1 <= x}

(* The first five gaps: the heights so far are gaps, and the least and the *)
(* greatest gap are among them.                                            *)
Filling ==
  /\ seen \in 0 .. 5 /\ l = seen
  /\ n = [i \in Markers |-> i + 1]
  /\ \A j \in 0 .. seen - 1 :
       \E x \in IntGaps : q[j] = x * Unit /\ least <= x /\ x <= most
  /\ seen > 0 => \E j \in 0 .. seen - 1 : q[j] = least * Unit
  /\ seen > 0 => \E j \in 0 .. seen - 1 : q[j] = most * Unit

(* From then on get_qt keeps the markers.                                  *)
Running == seen > 5 /\ l = 5 /\ MarkersOrdered /\ ExtremesExact

MarkersType ==
  /\ P \in Percentiles
  /\ [q |-> q, n |-> n, n1 |-> n1] \in Marked
  /\ l \in Nat /\ seen \in Nat /\ least \in Int /\ most \in Int

(* The inductive invariant.                                                *)
MarkersInv == MarkersType /\ (Filling \/ Running)

(* What the types say of each variable.                                    *)
LEMMA MarkersTyped ==
  ASSUME MarkersType
  PROVE  /\ q \in [Markers -> Int] /\ n \in [Markers -> Int] /\ n1 \in [Markers -> Targets]
         /\ \A j \in Markers : q[j] \in Int /\ n[j] \in Int
<1>1. [q |-> q, n |-> n, n1 |-> n1] \in Marked
  BY DEF MarkersType
<1>2. q \in [Markers -> Int] /\ n \in [Markers -> Int] /\ n1 \in [Markers -> Targets]
  BY <1>1 DEF Marked
<1> QED
  BY <1>2

(* The percentile stays, and with it the unit of the desired positions.    *)
LEMMA MarkedStays ==
  ASSUME P' = P
  PROVE  Marked' = Marked
BY DEF Marked, Markers, Targets, Place, One

(* A gap is one that occurs after as many as there were.                   *)
LEMMA ObservedGap ==
  ASSUME MarkersInv, Observe
  PROVE  \E x \in IntGaps : Fill(x) \/ Update(x)
<1>1. PICK k \in Nat : k = seen /\ k < MaxObs
  BY DEF Observe, MarkersInv, MarkersType
<1>2. PICK x \in Gaps[k] : Fill(x) \/ Update(x)
  BY <1>1 DEF Observe
<1>3. k \in 0 .. MaxObs - 1
  BY <1>1, QuantileAssumption
<1>4. Gaps[k] \subseteq Int /\ \A y \in Gaps[k] : -IntMax - 1 <= y
  BY <1>3, QuantileAssumption
<1> QED
  BY <1>2, <1>4 DEF IntGaps

(* A constructed flow has no gap yet.                                      *)
LEMMA MarkersInit == init => MarkersInv
<1> SUFFICES ASSUME init PROVE MarkersInv
  OBVIOUS
<1>2. n1 \in [Markers -> Targets]
  <2>0. P \in Percentiles
    BY DEF init
  <2> SUFFICES ASSUME NEW i \in Markers PROVE Float(Desired[i + 1] * Grid) \in Targets
    BY DEF init
  <2>1. PICK e \in Nat, g \in Nat \ {0} : e = Desired[i + 1] /\ g = Grid /\ One <= e
    BY <2>0, IncrementType, PlaceType
  <2>2. PICK z \in Int : z = e * g /\ Place <= z
    BY <2>0, <2>1, PlaceType, TimesOrder DEF Place
  <2>3. Float(z) \in Targets
    BY <2>0, <2>2, FloatOf
  <2> QED
    BY <2>1, <2>2, <2>3
<1>3. q \in [Markers -> Int] /\ n \in [Markers -> Int]
  BY DEF init, Markers
<1>4. [q |-> q, n |-> n, n1 |-> n1] \in Marked
  BY <1>2, <1>3 DEF Marked
<1>5. MarkersType
  BY <1>4 DEF MarkersType, init
<1>6. Filling
  BY DEF Filling, init
<1> QED
  BY <1>5, <1>6 DEF MarkersInv

(* One of the first five gaps.                                             *)
LEMMA MarkersFill ==
  ASSUME MarkersInv, NEW x \in IntGaps, Fill(x)
  PROVE  MarkersInv'
<1>0. x \in Int /\ Unit \in Nat \ {0} /\ x * Unit \in Int
  BY QuantileAssumption DEF IntGaps
<1>1. MarkersType /\ Filling
  BY DEF MarkersInv, Running, Fill
<1>2. PICK c \in 0 .. 4 : c = seen /\ c = l
  BY <1>1 DEF Filling, Fill
<1>3. c \in Markers /\ seen \in Int /\ least \in Int /\ most \in Int
  BY <1>1, <1>2 DEF Markers, MarkersType
<1>4. /\ seen' = c + 1 /\ l' = c + 1 /\ n' = n /\ n1' = n1 /\ P' = P
      /\ q' = [q EXCEPT ![c] = x * Unit]
  BY <1>2 DEF Fill, Count
<1>5. /\ least' \in Int /\ most' \in Int /\ least' <= x /\ x <= most'
      /\ seen > 0 => least' <= least /\ most <= most'
  BY <1>0, <1>3 DEF Fill, Count
<1>6. q' \in [Markers -> Int] /\ q'[c] = x * Unit /\ \A j \in Markers : j # c => q'[j] = q[j]
  BY <1>0, <1>1, <1>3, <1>4, MarkersTyped
<1>7. MarkersType'
  <2>1. [q |-> q', n |-> n', n1 |-> n1'] \in Marked
    BY <1>1, <1>4, <1>6, MarkersTyped DEF Marked
  <2> QED
    BY <1>1, <1>4, <1>5, <2>1, MarkedStays DEF MarkersType
<1>8. \A j \in 0 .. c : j \in Markers /\ (j # c => j \in 0 .. seen - 1 /\ seen > 0)
  BY <1>2 DEF Markers
<1>9. ASSUME NEW j \in 0 .. c
      PROVE  \E y \in IntGaps : q'[j] = y * Unit /\ least' <= y /\ y <= most'
  <2>1. CASE j = c
    BY <1>5, <1>6, <2>1
  <2>2. CASE j # c
    <3>1. PICK y \in IntGaps : q[j] = y * Unit /\ least <= y /\ y <= most
      BY <1>1, <1>8, <2>2 DEF Filling
    <3>2. y \in Int /\ seen > 0
      BY <1>8, <2>2 DEF IntGaps
    <3>3. least' <= y /\ y <= most'
      BY <1>3, <1>5, <3>1, <3>2
    <3> QED
      BY <1>6, <1>8, <2>2, <3>1, <3>3
  <2> QED
    BY <2>1, <2>2
<1>10. c \in 0 .. c /\ \A j \in 0 .. seen - 1 : j \in 0 .. c /\ j # c /\ j \in Markers
  BY <1>2 DEF Markers
<1>11. \E j \in 0 .. c : q'[j] = least' * Unit
  <2>1. CASE least' = x
    BY <1>6, <1>10, <2>1
  <2>2. CASE least' # x
    <3>1. seen > 0 /\ least' = least
      BY <1>2, <2>2 DEF Fill, Count
    <3>2. PICK j \in 0 .. seen - 1 : q[j] = least * Unit
      BY <1>1, <3>1 DEF Filling
    <3> QED
      BY <1>6, <1>10, <3>1, <3>2
  <2> QED
    BY <2>1, <2>2
<1>12. \E j \in 0 .. c : q'[j] = most' * Unit
  <2>1. CASE most' = x
    BY <1>6, <1>10, <2>1
  <2>2. CASE most' # x
    <3>1. seen > 0 /\ most' = most
      BY <1>2, <2>2 DEF Fill, Count
    <3>2. PICK j \in 0 .. seen - 1 : q[j] = most * Unit
      BY <1>1, <3>1 DEF Filling
    <3> QED
      BY <1>6, <1>10, <3>1, <3>2
  <2> QED
    BY <2>1, <2>2
<1>13. Filling'
  <2>1. seen' - 1 = c /\ seen' \in 0 .. 5
    BY <1>4
  <2>2. n' = [i \in Markers |-> i + 1]
    BY <1>1, <1>4 DEF Filling
  <2> QED
    BY <1>4, <1>9, <1>11, <1>12, <2>1, <2>2 DEF Filling
<1> QED
  BY <1>7, <1>13 DEF MarkersInv

(* What insertSort hands to get_qt: heights in order, the outer ones the   *)
(* least and the greatest gap.                                             *)
LEMMA SortedMarkers ==
  ASSUME MarkersInv, l = 5, NEW s, s = insertSort(q)
  PROVE  /\ s \in [Markers -> Int] /\ Rising([q |-> s, n |-> n, n1 |-> n1])
         /\ n[0] = 1 /\ n[4] = seen
         /\ InRange => s[0] = least * Unit /\ s[4] = most * Unit
<1>0. 0 \in Markers /\ 4 \in Markers /\ 0 \in 0 .. 4 /\ 4 \in 0 .. 4
  BY DEF Markers
<1>1. /\ MarkersType /\ q \in [Markers -> Int] /\ n \in [Markers -> Int]
      /\ \A j \in Markers : q[j] \in Int
  BY MarkersTyped DEF MarkersInv
<1>2. CASE Running
  <2>1. s = q
    BY <1>1, <1>2, SortedStays DEF Running, MarkersOrdered
  <2> QED
    BY <1>1, <1>2, <2>1 DEF Running, MarkersOrdered, ExtremesExact, Rising
<1>3. CASE Filling
  <2>0. seen = 5 /\ 5 - 1 = 4
    BY <1>3 DEF Filling
  <2>1. Unit \in Nat \ {0} /\ IntMax \in Nat /\ least \in Int /\ most \in Int
    BY <1>1, QuantileAssumption DEF MarkersType
  <2>2. \A j \in 0 .. 4 : \E x \in IntGaps : q[j] = x * Unit /\ least <= x /\ x <= most
    BY <1>3, <2>0 DEF Filling
  <2>3. \A j \in Markers : Truncated(q[j]) \in Int /\ Truncated(q[j]) <= q[j]
    <3> SUFFICES ASSUME NEW j \in Markers
                 PROVE  Truncated(q[j]) \in Int /\ Truncated(q[j]) <= q[j]
      OBVIOUS
    <3>1. PICK x \in IntGaps : q[j] = x * Unit
      BY <2>2 DEF Markers
    <3>2. x \in Int /\ -IntMax - 1 <= x
      BY DEF IntGaps
    <3> QED
      BY <3>1, <3>2, TruncatedGap
  <2>4. /\ s \in [Markers -> Int] /\ Sorted(s, 4)
        /\ (\A j \in Markers : Truncated(q[j]) = q[j]) => Same(q, s, 4)
    BY <1>1, <2>3, Sorting
  <2>5. Rising([q |-> s, n |-> n, n1 |-> n1])
    <3> SUFFICES ASSUME NEW j \in 0 .. 3 PROVE s[j] <= s[j + 1] /\ n[j] < n[j + 1]
      BY DEF Rising
    <3>1. j \in 0 .. 4 /\ j + 1 \in 0 .. 4 /\ j <= j + 1 /\ j \in Markers /\ j + 1 \in Markers
      BY DEF Markers
    <3> QED
      BY <1>3, <2>4, <3>1 DEF Sorted, Filling
  <2>6. n[0] = 1 /\ n[4] = seen
    BY <1>0, <1>3, <2>0 DEF Filling
  <2>7. ASSUME InRange PROVE s[0] = least * Unit /\ s[4] = most * Unit
    <3>1. \A j \in Markers : Truncated(q[j]) = q[j]
      <4> SUFFICES ASSUME NEW j \in Markers PROVE Truncated(q[j]) = q[j]
        OBVIOUS
      <4>1. PICK x \in IntGaps : q[j] = x * Unit /\ x <= most
        BY <2>2 DEF Markers
      <4>2. x \in Int /\ -IntMax - 1 <= x
        BY DEF IntGaps
      <4>3. x <= IntMax
        BY <2>1, <2>7, <4>1, <4>2 DEF InRange
      <4> QED
        BY <4>1, <4>2, <4>3, TruncatedGap
    <3>2. Same(q, s, 4)
      BY <2>4, <3>1
    <3>3. \A j \in 0 .. 4 : s[j] \in Int
      BY <2>4 DEF Markers
    <3>4. PICK lo \in Int, hi \in Int : lo = least * Unit /\ hi = most * Unit
      BY <2>1
    <3>5. \A j \in 0 .. 4 : lo <= s[j] /\ s[j] <= hi
      <4> SUFFICES ASSUME NEW j \in 0 .. 4 PROVE lo <= s[j] /\ s[j] <= hi
        OBVIOUS
      <4>1. PICK k \in 0 .. 4 : s[j] = q[k]
        BY <3>2 DEF Same
      <4>2. PICK x \in IntGaps : q[k] = x * Unit /\ least <= x /\ x <= most
        BY <2>2
      <4>3. x \in Int
        BY DEF IntGaps
      <4>4. least * Unit <= x * Unit /\ x * Unit <= most * Unit
        BY <2>1, <4>2, <4>3, TimesOrder
      <4> QED
        BY <3>4, <4>1, <4>2, <4>4
    <3>6. PICK j \in 0 .. 4 : s[j] = lo
      <4>1. PICK k \in 0 .. 4 : q[k] = lo
        BY <1>3, <2>0, <3>4 DEF Filling
      <4> QED
        BY <3>2, <4>1 DEF Same
    <3>7. PICK h \in 0 .. 4 : s[h] = hi
      <4>1. PICK k \in 0 .. 4 : q[k] = hi
        BY <1>3, <2>0, <3>4 DEF Filling
      <4> QED
        BY <3>2, <4>1 DEF Same
    <3>8. s[0] <= s[j] /\ s[h] <= s[4]
      BY <1>0, <2>4 DEF Sorted
    <3> QED
      BY <1>0, <3>3, <3>4, <3>5, <3>6, <3>7, <3>8
  <2> QED
    BY <2>4, <2>5, <2>6, <2>7
<1> QED
  BY <1>2, <1>3 DEF MarkersInv

(* A further gap.                                                          *)
LEMMA MarkersUpdate ==
  ASSUME MarkersInv, NEW x \in IntGaps, Update(x)
  PROVE  MarkersInv'
<1>0. /\ x \in Int /\ Unit \in Nat \ {0} /\ UMod \in Nat \ {0}
      /\ IntMax \in Nat /\ IntMax < UMod
  BY QuantileAssumption DEF IntGaps
<1>1. /\ MarkersType /\ n \in [Markers -> Int] /\ n1 \in [Markers -> Targets] /\ P \in Percentiles
      /\ least \in Int /\ most \in Int /\ seen \in Nat
  BY MarkersTyped DEF MarkersInv, MarkersType
<1>2. l = 5 /\ seen > 4
  <2>1. l = 5
    BY DEF Update
  <2>2. CASE Filling
    BY <2>1, <2>2 DEF Filling
  <2>3. CASE Running
    BY <1>1, <2>1, <2>3 DEF Running
  <2> QED
    BY <2>1, <2>2, <2>3 DEF MarkersInv
<1>3. PICK s : s = insertSort(q)
  OBVIOUS
<1>4. PICK v \in Int : v = x % UMod
  BY <1>0, ModRange
<1>5. PICK w \in Int : w = v * Unit
  BY <1>0
<1>6. PICK m : m = [q |-> s, n |-> n, n1 |-> n1]
  OBVIOUS
<1>7. PICK a : a = get_qt(m, w)
  OBVIOUS
<1>8. /\ q' = a.q /\ n' = a.n /\ n1' = a.n1 /\ l' = l /\ P' = P /\ seen' = seen + 1
      /\ least' = (IF x < least THEN x ELSE least)
      /\ most' = (IF x > most THEN x ELSE most)
  BY <1>2, <1>3, <1>4, <1>5, <1>6, <1>7 DEF Update, Count
<1>9. /\ s \in [Markers -> Int] /\ Rising(m)
      /\ n[0] = 1 /\ n[4] = seen
      /\ InRange => s[0] = least * Unit /\ s[4] = most * Unit
  BY <1>2, <1>3, <1>6, SortedMarkers
<1>10. m \in Marked /\ m.q = s /\ m.n = n
  BY <1>1, <1>6, <1>9 DEF Marked
<1>11. /\ a \in Marked /\ Rising(a)
       /\ a.n[0] = n[0] /\ a.n[4] = n[4] + 1
       /\ a.q[0] = (IF w < s[0] THEN w ELSE s[0])
       /\ a.q[4] = (IF w > s[4] THEN w ELSE s[4])
  <2>1. /\ a \in Marked /\ Rising(a)
        /\ a.n[0] = m.n[0] /\ a.n[4] = m.n[4] + 1
        /\ a.q[0] = (IF w < m.q[0] THEN w ELSE m.q[0])
        /\ a.q[4] = (IF w > m.q[4] THEN w ELSE m.q[4])
    <3>1. P \in Percentiles /\ m \in Marked /\ Rising(m) /\ w \in Int /\ a = get_qt(m, w)
      BY <1>1, <1>7, <1>9, <1>10
    <3>2. Taken(m, w, a)
      BY ONLY <3>1, GetQt
    <3> QED
      BY <3>2 DEF Taken
  <2> QED
    BY <1>10, <2>1, Zenon
<1>12. MarkersType'
  <2>1. [q |-> a.q, n |-> a.n, n1 |-> a.n1] \in Marked
    BY <1>11 DEF Marked
  <2>2. [q |-> q', n |-> n', n1 |-> n1'] \in Marked
    BY <1>8, <2>1
  <2>3. least' \in Int /\ most' \in Int /\ l' \in Nat /\ seen' \in Nat /\ P' \in Percentiles
    BY <1>0, <1>1, <1>2, <1>8
  <2> QED
    BY <1>8, <2>2, <2>3, MarkedStays DEF MarkersType
<1>13. MarkersOrdered'
  BY <1>8, <1>9, <1>11 DEF MarkersOrdered, Rising
<1>14. ASSUME InRange' PROVE q'[0] = least' * Unit /\ q'[4] = most' * Unit
  <2>1. 0 <= x /\ x <= IntMax /\ InRange
    BY <1>0, <1>1, <1>8, <1>14 DEF InRange
  <2>2. v = x
    <3>1. x \in 0 .. UMod - 1
      BY <1>0, <2>1
    <3> QED
      BY <1>0, <1>4, <3>1, ModSmall
  <2>3. w = x * Unit /\ s[0] = least * Unit /\ s[4] = most * Unit
    BY <1>5, <1>9, <2>1, <2>2
  <2>4. PICK lo \in Int, hi \in Int : lo = least * Unit /\ hi = most * Unit
    BY <1>0, <1>1
  <2>5. (x < least => w < lo) /\ (least <= x => lo <= w)
    BY <1>0, <1>1, <2>3, <2>4, TimesOrder
  <2>6. (most < x => hi < w) /\ (x <= most => w <= hi)
    BY <1>0, <1>1, <2>3, <2>4, TimesOrder
  <2>7. q'[0] = least' * Unit
    <3>1. q'[0] = IF w < lo THEN w ELSE lo
      BY <1>8, <1>11, <2>3, <2>4
    <3>2. CASE x < least
      BY <1>8, <2>3, <2>5, <3>1, <3>2
    <3>3. CASE least <= x
      BY <1>0, <1>1, <1>8, <2>4, <2>5, <3>1, <3>3
    <3> QED
      BY <1>0, <1>1, <3>2, <3>3
  <2>8. q'[4] = most' * Unit
    <3>1. q'[4] = IF w > hi THEN w ELSE hi
      BY <1>8, <1>11, <2>3, <2>4
    <3>2. CASE most < x
      BY <1>0, <1>1, <1>8, <2>3, <2>6, <3>1, <3>2
    <3>3. CASE x <= most
      BY <1>0, <1>1, <1>8, <2>4, <2>6, <3>1, <3>3
    <3> QED
      BY <1>0, <1>1, <3>2, <3>3
  <2> QED
    BY <2>7, <2>8
<1>15. Running'
  <2>1. seen' > 5 /\ l' = 5
    BY <1>1, <1>2, <1>8
  <2>2. ExtremesExact'
    BY <1>14 DEF ExtremesExact
  <2> QED
    BY <1>13, <2>1, <2>2 DEF Running
<1> QED
  BY <1>12, <1>15 DEF MarkersInv

(* The invariant holds in every state.                                     *)
THEOREM MarkersKept == QuantileSpec => []MarkersInv
<1>1. init => MarkersInv
  BY MarkersInit
<1>2. MarkersInv /\ [Observe]_quantileVars => MarkersInv'
  <2> SUFFICES ASSUME MarkersInv, [Observe]_quantileVars PROVE MarkersInv'
    OBVIOUS
  <2>1. CASE UNCHANGED quantileVars
    BY <2>1, MarkedStays DEF quantileVars, MarkersInv, MarkersType, Filling, Running, MarkersOrdered,
                ExtremesExact, InRange
  <2>2. CASE Observe
    <3>1. PICK x \in IntGaps : Fill(x) \/ Update(x)
      BY <2>2, ObservedGap
    <3> QED
      BY <3>1, MarkersFill, MarkersUpdate
  <2> QED
    BY <2>1, <2>2
<1> QED
  BY <1>1, <1>2, PTL DEF QuantileSpec

(* For any percentile, any gaps and any number of them, get_qt keeps the   *)
(* heights in order and the positions distinct, from 1 to the number of    *)
(* gaps, so that it never divides by 0 and insertSort never moves, and     *)
(* never cuts off, an estimate.                                            *)
THEOREM MarkersStayOrdered == QuantileSpec => []MarkersOrdered
<1>1. MarkersInv => MarkersOrdered
  BY DEF MarkersInv, MarkersType, Filling, Running, MarkersOrdered
<1> QED
  BY <1>1, MarkersKept, PTL

(* The outer heights of get_qt are the least and the greatest gap, as long *)
(* as the gaps are not negative and fit an int.                            *)
THEOREM ExtremesAreExact == QuantileSpec => []ExtremesExact
<1>1. MarkersInv => ExtremesExact
  BY DEF MarkersInv, MarkersType, Filling, Running, ExtremesExact
<1> QED
  BY <1>1, MarkersKept, PTL

-----------------------------------------------------------------------------
(* How far the inner markers are from where they should be, for the P of   *)
(* the two versions.                                                       *)

(* A desired position y against the exact one, which has e units of ranks, *)
(* after the roundings of k gaps (t: a position) ...                       *)
Close(t, y, e, k) ==
  /\ (2 * Grid) * (y - e * Grid) <= (k * k) * t
  /\ (2 * Grid) * (e * Grid - y) <= (k * k) * t

(* ... and in units of ranks: what y reaches, e reaches but for g.         *)
Near(y, e, g) ==
  \A z \in Int : (z * Grid <= y => z - e <= g) /\ (y <= z * Grid => e - z <= g)

Slack(o, k) == (o * k * k) \div (2 * Grid)

(* The one says the other.                                                 *)
LEMMA CloseNear ==
  ASSUME P \in Percentiles, NEW k \in Nat, NEW y \in Int, NEW e \in Int, Close(Place, y, e, k)
  PROVE  Slack(One, k) \in Nat /\ Near(y, e, Slack(One, k))
<1>1. PICK o \in Nat \ {0}, g \in Nat \ {0} : o = One /\ g = Grid /\ Place = o * g
  BY PlaceType DEF Place
<1>2. PICK s \in Nat \ {0} : s = 2 * g
  OBVIOUS
<1>3. PICK b \in Nat : b = o * k * k /\ (k * k) * Place = b * g
  <2>1. o * k * k \in Nat /\ (k * k) * (o * g) = (o * k * k) * g
    OBVIOUS
  <2> QED
    BY <1>1, <2>1
<1>4. Slack(One, k) = b \div s
  BY <1>1, <1>2, <1>3 DEF Slack
<1>5. Slack(One, k) \in Nat
  BY <1>2, <1>4, DivBetween
<1>6. ASSUME NEW d \in Int, s * (d * g) <= b * g PROVE d <= Slack(One, k)
  <2>1. PICK a \in Int : a = d * s /\ s * (d * g) = a * g
    OBVIOUS
  <2>2. a <= b
    <3>1. ASSUME b < a PROVE FALSE
      <4>1. b * g < a * g /\ b * g \in Int /\ a * g \in Int
        BY <3>1, TimesOrder
      <4> QED
        BY <1>6, <2>1, <4>1
    <3> QED
      BY <3>1
  <2> QED
    BY <1>4, <2>1, <2>2, DivBound
<1>7. s * (y - e * g) <= b * g /\ s * (e * g - y) <= b * g
  BY <1>1, <1>2, <1>3 DEF Close
<1>8. ASSUME NEW z \in Int, z * g <= y PROVE z - e <= Slack(One, k)
  <2>1. PICK v \in Int, d \in Int : v = y - e * g /\ d = z - e
    OBVIOUS
  <2>2. d * g = z * g - e * g /\ d * g \in Int /\ z * g \in Int /\ e * g \in Int
    BY <2>1
  <2>3. d * g <= v
    BY <1>8, <2>1, <2>2
  <2>4. (d * g) * s <= v * s
    BY <1>2, <2>2, <2>3, TimesOrder
  <2>5. s * (d * g) <= b * g
    BY <1>7, <2>1, <2>2, <2>4
  <2> QED
    BY <1>6, <2>1, <2>5
<1>9. ASSUME NEW z \in Int, y <= z * g PROVE e - z <= Slack(One, k)
  <2>1. PICK v \in Int, d \in Int : v = e * g - y /\ d = e - z
    OBVIOUS
  <2>2. d * g = e * g - z * g /\ d * g \in Int /\ z * g \in Int /\ e * g \in Int
    BY <2>1
  <2>3. d * g <= v
    BY <1>9, <2>1, <2>2
  <2>4. (d * g) * s <= v * s
    BY <1>2, <2>2, <2>3, TimesOrder
  <2>5. s * (d * g) <= b * g
    BY <1>7, <2>1, <2>2, <2>4
  <2> QED
    BY <1>6, <2>1, <2>5
<1> QED
  BY <1>1, <1>5, <1>8, <1>9 DEF Near

(* The first desired positions are rounded once.                           *)
LEMMA CloseFirst ==
  ASSUME P \in Percentiles, NEW e \in Nat, One <= e, e <= 5 * One
  PROVE  Close(Place, Float(e * Grid), e, 5)
<1>1. PICK o \in Nat \ {0}, g \in Nat \ {0}, t \in Nat \ {0} :
        o = One /\ g = Grid /\ t = Place /\ t = o * g
  BY PlaceType DEF Place
<1>2. PICK x \in Int : x = e * g /\ t <= x /\ x <= 5 * t
  <2>1. PICK f \in Int : f = 5 * o
    OBVIOUS
  <2>2. o * g <= e * g /\ e * g <= f * g /\ e * g \in Int
    BY <1>1, <2>1, TimesOrder
  <2> QED
    BY <1>1, <2>1, <2>2
<1>3. PICK y \in Int : y = Float(x)
  BY <1>1, <1>2, FloatOf DEF Targets
<1>4. (2 * Grid) * (y - x) <= x /\ (2 * Grid) * (x - y) <= x
  BY <1>1, <1>2, <1>3, FloatOf
<1>5. PICK a \in Int, b \in Int : a = (2 * g) * (y - x) /\ b = (2 * g) * (x - y)
  OBVIOUS
<1>6. a <= (5 * 5) * t /\ b <= (5 * 5) * t
  BY <1>1, <1>2, <1>4, <1>5
<1> QED
  BY <1>1, <1>2, <1>3, <1>5, <1>6 DEF Close

(* One addition rounds once more.                                          *)
LEMMA CloseNext ==
  ASSUME P \in Percentiles, NEW k \in Nat, k <= 2 * Grid, NEW y \in Targets,
         NEW e \in Int, e <= k * One, NEW d \in Nat, d <= One, Close(Place, y, e, k)
  PROVE  Close(Place, Float(y + d * Grid), e + d, k + 1)
<1>1. PICK o \in Nat \ {0}, g \in Nat \ {0}, t \in Nat \ {0} :
        o = One /\ g = Grid /\ t = Place /\ t = o * g
  BY PlaceType DEF Place
<1>2. PICK s \in Nat \ {0} : s = 2 * g /\ s = 2 * Grid /\ k <= s
  BY <1>1
<1>3. y \in Int /\ t <= y
  BY <1>1 DEF Targets
<1>4. PICK b \in Nat : b = k * t /\ (k * k) * t = k * b
  OBVIOUS
<1>5. PICK eg \in Int, dg \in Nat : eg = e * g /\ dg = d * g /\ (e + d) * g = eg + dg
  OBVIOUS
<1>6. eg <= b /\ dg <= t
  <2>1. PICK f \in Int : f = k * o
    OBVIOUS
  <2>2. e * g <= f * g /\ d * g <= o * g /\ f * g = k * (o * g)
    BY <1>1, <2>1, TimesOrder
  <2> QED
    BY <1>1, <1>4, <1>5, <2>2
<1>7. PICK w \in Int : w = s * (y - eg) /\ w <= k * b /\ -w <= k * b
  <2>1. s * (y - eg) <= k * b /\ s * (eg - y) <= k * b
    BY <1>1, <1>2, <1>4, <1>5 DEF Close
  <2>2. s * (eg - y) = -(s * (y - eg)) /\ s * (y - eg) \in Int
    BY <1>3
  <2> QED
    BY <2>1, <2>2
<1>8. k * b <= s * b
  <2>1. CASE b = 0
    BY <2>1
  <2>2. CASE b # 0
    BY <1>2, <2>2, TimesOrder
  <2> QED
    BY <2>1, <2>2
<1>9. y <= 2 * b
  <2>1. PICK h \in Int : h = 2 * b
    OBVIOUS
  <2>2. ASSUME h < y PROVE FALSE
    <3>1. h * s < y * s
      BY <1>3, <2>1, <2>2, TimesOrder
    <3>2. eg * s <= b * s
      BY <1>6, TimesOrder
    <3>3. h * s = 2 * (s * b) /\ b * s = s * b /\ s * b \in Int
      BY <2>1
    <3>4. w = y * s - eg * s /\ y * s \in Int /\ eg * s \in Int
      BY <1>3, <1>7
    <3>5. w <= s * b
      <4>1. k * b \in Int
        OBVIOUS
      <4> QED
        BY <1>7, <1>8, <3>3, <4>1
    <3> QED
      BY <3>1, <3>2, <3>3, <3>4, <3>5
  <2> QED
    BY <1>3, <2>1, <2>2
<1>10. PICK x \in Int : x = y + dg /\ t <= x /\ x <= 2 * b + t
  BY <1>3, <1>6, <1>9
<1>11. PICK z \in Int : z = Float(x)
  BY <1>1, <1>10, FloatOf DEF Targets
<1>12. PICK r \in Int : r = s * (z - x) /\ r <= x /\ -r <= x
  <2>1. s * (z - x) <= x /\ s * (x - z) <= x
    BY <1>1, <1>2, <1>10, <1>11, FloatOf
  <2>2. s * (x - z) = -(s * (z - x)) /\ s * (z - x) \in Int
    OBVIOUS
  <2> QED
    BY <2>1, <2>2
<1>13. PICK v \in Int : v = s * (z - (eg + dg)) /\ v = r + w
  <2>1. s * (z - (eg + dg)) = s * (z - x) + s * (y - eg)
    BY <1>3, <1>10
  <2> QED
    BY <1>7, <1>12, <2>1
<1>14. PICK c \in Int : c = k * b /\ ((k + 1) * (k + 1)) * t = c + 2 * b + t
  <2>1. (k + 1) * (k + 1) = k * k + 2 * k + 1
    OBVIOUS
  <2>2. (k * k + 2 * k + 1) * t = (k * k) * t + 2 * (k * t) + t
    OBVIOUS
  <2> QED
    BY <1>4, <2>1, <2>2
<1>15. v <= c + 2 * b + t /\ -v <= c + 2 * b + t
  BY <1>7, <1>10, <1>12, <1>13, <1>14
<1>16. s * ((eg + dg) - z) = -v
  BY <1>13
<1>17. z = Float(y + d * Grid) /\ (e + d) * Grid = eg + dg
  BY <1>1, <1>5, <1>10, <1>11
<1> QED
  BY <1>1, <1>2, <1>13, <1>14, <1>15, <1>16, <1>17 DEF Close

(* A marker between two others, and where get_qt puts it: o is a position, *)
(* d the exact desired one, g what the float may be off.                   *)
Nudged(o, g, d, below, at, above, new) ==
  /\ below < at /\ at < above
  /\ \/ d + g - at * o >= o /\ above - at > 1 /\ new = at + 1
     \/ d - g - at * o <= -o /\ at - below > 1 /\ new = at - 1
     \/ /\ d - g - at * o > o => above - at <= 1
        /\ d + g - at * o < -o => at - below <= 1
        /\ new = at

(* That is what Adjust does to a position, and to no other one.            *)
LEMMA AdjustNudges ==
  ASSUME NEW i \in 1 .. 3, NEW m \in Marked, Rising(m), NEW a, a = Adjust(m, i),
         P \in Percentiles, 1 <= m.n[i], m.n[i] <= 2 * Grid,
         NEW d \in Int, NEW g \in Nat, Near(m.n1[i], d, g),
         NEW o \in Nat, o = One
  PROVE  /\ a.n1 = m.n1
         /\ \A j \in Markers : j # i => a.n[j] = m.n[j]
         /\ Nudged(o, g, d, m.n[i - 1], m.n[i], m.n[i + 1], a.n[i])
<1>0. i \in Markers /\ i - 1 \in Markers /\ i + 1 \in Markers
  BY DEF Markers
<1>1. PICK below \in Int, at \in Nat \ {0}, above \in Int, y \in Int :
        below = m.n[i - 1] /\ at = m.n[i] /\ above = m.n[i + 1] /\ y = m.n1[i]
  BY <1>0 DEF Marked, Targets
<1>2. below < at /\ at < above
  <2>1. i \in 0 .. 3 /\ i - 1 \in 0 .. 3 /\ (i - 1) + 1 = i
    OBVIOUS
  <2> QED
    BY <1>1, <2>1 DEF Rising
<1>3. i + -1 = i - 1
  OBVIOUS
<1>4. PICK s \in Nat \ {0}, up \in Int, down \in Int :
        /\ s = Grid /\ up = at * o + o /\ down = at * o - o
        /\ Float(at * Place) = (at * o) * s /\ Place = o * s
        /\ up * s = (at * o) * s + o * s /\ down * s = (at * o) * s - o * s
  <2>1. PICK r \in Nat \ {0} : r = Grid /\ Place = o * r
    BY PlaceType DEF Place
  <2>2. Float(at * Place) = at * Place
    BY <1>1, FloatExact
  <2>3. at * (o * r) = (at * o) * r
    OBVIOUS
  <2>4. (at * o + o) * r = (at * o) * r + o * r /\ (at * o - o) * r = (at * o) * r - o * r
    OBVIOUS
  <2> QED
    BY <2>1, <2>2, <2>3, <2>4
<1>5. PICK p \in Int, q1 \in Int : p = (at * o) * s /\ q1 = o * s
  OBVIOUS
<1>10. MayMove(m, i, 1) <=> up * s <= y /\ above - at > 1
  <2>1. MayMove(m, i, 1) <=> 1 * (y - p) >= q1 /\ 1 * (above - at) > 1
    BY <1>1, <1>4, <1>5 DEF MayMove
  <2> QED
    BY <1>1, <1>4, <1>5, <2>1
<1>11. MayMove(m, i, -1) <=> y <= down * s /\ at - below > 1
  <2>1. MayMove(m, i, -1) <=> (-1) * (y - p) >= q1 /\ (-1) * (below - at) > 1
    BY <1>1, <1>3, <1>4, <1>5 DEF MayMove
  <2> QED
    BY <1>1, <1>4, <1>5, <2>1
<1>12. /\ up * s <= y => up - d <= g
       /\ y <= up * s => d - up <= g
       /\ down * s <= y => down - d <= g
       /\ y <= down * s => d - down <= g
  BY <1>1, <1>4 DEF Near
<1>13. /\ up * s <= y \/ y <= up * s
       /\ down * s <= y \/ y <= down * s
  OBVIOUS
<1>6. ASSUME NEW e, a = Moved(m, i, e)
      PROVE  /\ a.n1 = m.n1 /\ a.n[i] = at + e
             /\ \A j \in Markers : j # i => a.n[j] = m.n[j]
  <2>1. a.n1 = m.n1 /\ a.n = [m.n EXCEPT ![i] = @ + e]
    BY <1>6 DEF Moved, Marked
  <2>2. m.n \in [Markers -> Int]
    BY DEF Marked
  <2> QED
    BY <1>0, <1>1, <2>1, <2>2
<1>7. CASE MayMove(m, i, 1)
  <2>1. a = Moved(m, i, 1)
    BY <1>7, Zenon DEF Adjust
  <2>2. a.n1 = m.n1 /\ a.n[i] = at + 1 /\ \A j \in Markers : j # i => a.n[j] = m.n[j]
    BY <1>6, <2>1
  <2> QED
    BY <1>1, <1>2, <1>4, <1>7, <1>10, <1>12, <2>2 DEF Nudged
<1>8. CASE ~MayMove(m, i, 1) /\ MayMove(m, i, -1)
  <2>1. a = Moved(m, i, -1)
    BY <1>8, Zenon DEF Adjust
  <2>2. a.n1 = m.n1 /\ a.n[i] = at + -1 /\ \A j \in Markers : j # i => a.n[j] = m.n[j]
    BY <1>6, <2>1
  <2>3. at + -1 = at - 1
    BY <1>1
  <2> QED
    BY <1>1, <1>2, <1>4, <1>8, <1>11, <1>12, <2>2, <2>3 DEF Nudged
<1>9. CASE ~MayMove(m, i, 1) /\ ~MayMove(m, i, -1)
  <2>1. a = m
    BY <1>9, Zenon DEF Adjust
  <2>2. /\ d - g - at * o > o => above - at <= 1
        /\ d + g - at * o < -o => at - below <= 1
    BY <1>1, <1>4, <1>9, <1>10, <1>11, <1>12, <1>13
  <2> QED
    BY <1>1, <1>2, <2>1, <2>2 DEF Nudged
<1> QED
  BY <1>7, <1>8, <1>9

(* What an observation does to the positions: some markers move with it,   *)
(* then each inner one towards its desired position d.                     *)
Steps(o, g, d1, d2, d3, x1, x2, x3, top, y1, y2, y3) ==
  \E b1, b2, b3 \in Int :
    /\ b1 \in {x1, x1 + 1} /\ b2 \in {x2, x2 + 1} /\ b3 \in {x3, x3 + 1}
    /\ Nudged(o, g, d1, 1, b1, b2, y1)
    /\ Nudged(o, g, d2, y1, b2, b3, y2)
    /\ Nudged(o, g, d3, y2, b3, top, y3)

(* The positions against the desired ones after c updates, for P = 0.5 ... *)
HalfLags(c, g, x1, x2, x3) ==
  /\ -4 - g <= 8 + c - 4 * x1 /\ 8 + c - 4 * x1 <= 4 + g
  /\ 8 + c - 4 * x1 <= 3 * c + g
  /\ -4 - g <= 12 + 2 * c - 4 * x2 /\ 12 + 2 * c - 4 * x2 <= 4 + g
  /\ 12 + 2 * c - 4 * x2 <= 3 * c + g
  /\ -4 - g <= 16 + 3 * c - 4 * x3 /\ 16 + 3 * c - 4 * x3 <= 4 + g
  /\ 16 + 3 * c - 4 * x3 <= 3 * c + g

(* ... and P = 0.99: the third one lags by no more than a position, and    *)
(* when it is ahead, it falls back by one unit with each gap.              *)
HighLags(c, g, x1, x2, x3) ==
  /\ -200 - g <= 596 + 99 * c - 200 * x1 /\ 596 + 99 * c - 200 * x1 <= 600 + g
  /\ -200 - g <= 992 + 198 * c - 200 * x2 /\ 992 + 198 * c - 200 * x2 <= 600 + g
  /\ -200 - g <= 996 + 199 * c - 200 * x3 /\ 996 + 199 * c - 200 * x3 <= 200 + g
  /\ -c <= 996 + 199 * c - 200 * x3

(* Both are kept, the roundings g growing to h.                            *)
LEMMA HalfStep ==
  ASSUME NEW c \in Nat, NEW g \in Nat, NEW h \in Nat, g <= h,
         NEW x1 \in Int, NEW x2 \in Int, NEW x3 \in Int,
         NEW y1 \in Int, NEW y2 \in Int, NEW y3 \in Int, HalfLags(c, g, x1, x2, x3),
         Steps(4, h, 8 + (c + 1), 12 + 2 * (c + 1), 16 + 3 * (c + 1),
               x1, x2, x3, c + 6, y1, y2, y3)
  PROVE  HalfLags(c + 1, h, y1, y2, y3)
<1>1. PICK b1 \in Int, b2 \in Int, b3 \in Int :
        /\ b1 \in {x1, x1 + 1} /\ b2 \in {x2, x2 + 1} /\ b3 \in {x3, x3 + 1}
        /\ Nudged(4, h, 8 + (c + 1), 1, b1, b2, y1)
        /\ Nudged(4, h, 12 + 2 * (c + 1), y1, b2, b3, y2)
        /\ Nudged(4, h, 16 + 3 * (c + 1), y2, b3, c + 6, y3)
  BY DEF Steps
<1>2. /\ -7 - h <= 8 + (c + 1) - 4 * b1 /\ 8 + (c + 1) - 4 * b1 <= 5 + h
      /\ 8 + (c + 1) - 4 * b1 <= 3 * c + 1 + h
      /\ -6 - h <= 12 + 2 * (c + 1) - 4 * b2 /\ 12 + 2 * (c + 1) - 4 * b2 <= 6 + h
      /\ 12 + 2 * (c + 1) - 4 * b2 <= 3 * c + 2 + h
      /\ -5 - h <= 16 + 3 * (c + 1) - 4 * b3 /\ 16 + 3 * (c + 1) - 4 * b3 <= 7 + h
      /\ 16 + 3 * (c + 1) - 4 * b3 <= 3 * c + 3 + h
  BY <1>1 DEF HalfLags
<1>3. /\ -4 - h <= 8 + (c + 1) - 4 * y1 /\ 8 + (c + 1) - 4 * y1 <= 4 + h
      /\ 8 + (c + 1) - 4 * y1 <= 3 * (c + 1) + h
  BY <1>1, <1>2 DEF Nudged
<1>4. /\ -4 - h <= 12 + 2 * (c + 1) - 4 * y2 /\ 12 + 2 * (c + 1) - 4 * y2 <= 4 + h
      /\ 12 + 2 * (c + 1) - 4 * y2 <= 3 * (c + 1) + h
  BY <1>1, <1>2, <1>3 DEF Nudged
<1>5. /\ -4 - h <= 16 + 3 * (c + 1) - 4 * y3 /\ 16 + 3 * (c + 1) - 4 * y3 <= 4 + h
      /\ 16 + 3 * (c + 1) - 4 * y3 <= 3 * (c + 1) + h
  BY <1>1, <1>2, <1>4 DEF Nudged
<1> QED
  BY <1>3, <1>4, <1>5 DEF HalfLags

(* The same for P = 0.99.                                                  *)
LEMMA HighStep ==
  ASSUME NEW c \in Nat, NEW g \in Nat, NEW h \in Nat, g <= h,
         NEW x1 \in Int, NEW x2 \in Int, NEW x3 \in Int,
         NEW y1 \in Int, NEW y2 \in Int, NEW y3 \in Int, HighLags(c, g, x1, x2, x3),
         Steps(200, h, 596 + 99 * (c + 1), 992 + 198 * (c + 1), 996 + 199 * (c + 1),
               x1, x2, x3, c + 6, y1, y2, y3)
  PROVE  HighLags(c + 1, h, y1, y2, y3)
<1>1. PICK b1 \in Int, b2 \in Int, b3 \in Int :
        /\ b1 \in {x1, x1 + 1} /\ b2 \in {x2, x2 + 1} /\ b3 \in {x3, x3 + 1}
        /\ Nudged(200, h, 596 + 99 * (c + 1), 1, b1, b2, y1)
        /\ Nudged(200, h, 992 + 198 * (c + 1), y1, b2, b3, y2)
        /\ Nudged(200, h, 996 + 199 * (c + 1), y2, b3, c + 6, y3)
  BY DEF Steps
<1>2. /\ -301 - h <= 596 + 99 * (c + 1) - 200 * b1 /\ 596 + 99 * (c + 1) - 200 * b1 <= 699 + h
      /\ -202 - h <= 992 + 198 * (c + 1) - 200 * b2 /\ 992 + 198 * (c + 1) - 200 * b2 <= 798 + h
      /\ -201 - h <= 996 + 199 * (c + 1) - 200 * b3 /\ 996 + 199 * (c + 1) - 200 * b3 <= 399 + h
      /\ -(c + 1) <= 996 + 199 * (c + 1) - 200 * b3
  BY <1>1 DEF HighLags, Nudged
<1>3. -200 - h <= 596 + 99 * (c + 1) - 200 * y1 /\ 596 + 99 * (c + 1) - 200 * y1 <= 600 + h
  BY <1>1, <1>2 DEF Nudged
<1>4. -200 - h <= 992 + 198 * (c + 1) - 200 * y2 /\ 992 + 198 * (c + 1) - 200 * y2 <= 600 + h
  BY <1>1, <1>2, <1>3 DEF Nudged
<1>5. /\ -200 - h <= 996 + 199 * (c + 1) - 200 * y3 /\ 996 + 199 * (c + 1) - 200 * y3 <= 200 + h
      /\ -(c + 1) <= 996 + 199 * (c + 1) - 200 * y3
  BY <1>1, <1>2, <1>4 DEF Nudged
<1> QED
  BY <1>3, <1>4, <1>5 DEF HighLags

(* get_qt moves the positions so, where d1, d2 and d3 are what the floats  *)
(* stand for.                                                              *)
LEMMA GetQtSteps ==
  ASSUME P \in Percentiles, NEW m \in Marked, Rising(m), m.n[0] = 1, m.n[4] + 1 <= 2 * Grid,
         NEW x \in Int, NEW a, a = get_qt(m, x), NEW o \in Nat, o = One,
         NEW g \in Nat, NEW d1 \in Int, NEW d2 \in Int, NEW d3 \in Int,
         Near(Float(m.n1[1] + Increment[2] * Grid), d1, g),
         Near(Float(m.n1[2] + Increment[3] * Grid), d2, g),
         Near(Float(m.n1[3] + Increment[4] * Grid), d3, g)
  PROVE  /\ a.n1 = [i \in Markers |-> Float(m.n1[i] + Increment[i + 1] * Grid)]
         /\ Steps(o, g, d1, d2, d3, m.n[1], m.n[2], m.n[3], m.n[4] + 1,
                  a.n[1], a.n[2], a.n[3])
<1>0. /\ 0 \in Markers /\ 1 \in Markers /\ 2 \in Markers /\ 3 \in Markers /\ 4 \in Markers
      /\ 1 \in 1 .. 3 /\ 2 \in 1 .. 3 /\ 3 \in 1 .. 3
      /\ 1 - 1 = 0 /\ 2 - 1 = 1 /\ 3 - 1 = 2 /\ 1 + 1 = 2 /\ 2 + 1 = 3 /\ 3 + 1 = 4
  BY DEF Markers
<1> DEFINE f == [i \in Markers |-> Float(m.n1[i] + Increment[i + 1] * Grid)]
<1>14. Near(f[1], d1, g) /\ Near(f[2], d2, g) /\ Near(f[3], d3, g)
  BY <1>0
<1>1. PICK a0, a1, a2 : /\ a0 = Absorb(m, x) /\ a1 = Adjust(a0, 1)
                        /\ a2 = Adjust(a1, 2) /\ a = Adjust(a2, 3)
  BY DEF get_qt
<1>2. a0 \in Marked /\ Rising(a0) /\ a0.n[0] = 1 /\ a0.n[4] = m.n[4] + 1
  BY <1>1, Absorbs
<1>3. /\ a0.n1 = f
      /\ \A i \in Markers : a0.n[i] \in {m.n[i], m.n[i] + 1}
  BY <1>1 DEF Absorb
<1> HIDE DEF f
<1>4. a1 \in Marked /\ Rising(a1) /\ a1.n[0] = 1 /\ a1.n[4] = m.n[4] + 1
  BY <1>0, <1>1, <1>2, Adjusts
<1>5. a2 \in Marked /\ Rising(a2) /\ a2.n[0] = 1 /\ a2.n[4] = m.n[4] + 1
  BY <1>0, <1>1, <1>4, Adjusts
<1>6. ASSUME NEW b \in Marked, Rising(b), b.n[0] = 1, b.n[4] = m.n[4] + 1, NEW i \in 1 .. 3
      PROVE  1 <= b.n[i] /\ b.n[i] <= 2 * Grid
  <2>1. PICK s \in Nat : s = 2 * Grid
    BY PlaceType
  <2>2. /\ b.n[0] < b.n[1] /\ b.n[1] < b.n[2] /\ b.n[2] < b.n[3] /\ b.n[3] < b.n[4]
        /\ b.n[0] \in Int /\ b.n[1] \in Int /\ b.n[2] \in Int /\ b.n[3] \in Int /\ b.n[4] \in Int
    BY <1>0, <1>6, Neighbours
  <2>3. i = 1 \/ i = 2 \/ i = 3
    OBVIOUS
  <2> QED
    BY <1>6, <2>1, <2>2, <2>3
<1>7. /\ a1.n1 = f /\ \A j \in Markers : j # 1 => a1.n[j] = a0.n[j]
      /\ Nudged(o, g, d1, a0.n[1 - 1], a0.n[1], a0.n[1 + 1], a1.n[1])
  <2>1. 1 <= a0.n[1] /\ a0.n[1] <= 2 * Grid /\ Near(a0.n1[1], d1, g)
    BY <1>14, <1>0, <1>2, <1>3, <1>6
  <2> QED
    BY <1>0, <1>1, <1>2, <1>3, <2>1, AdjustNudges
<1>8. /\ a2.n1 = f /\ \A j \in Markers : j # 2 => a2.n[j] = a1.n[j]
      /\ Nudged(o, g, d2, a1.n[2 - 1], a1.n[2], a1.n[2 + 1], a2.n[2])
  <2>1. 1 <= a1.n[2] /\ a1.n[2] <= 2 * Grid /\ Near(a1.n1[2], d2, g)
    BY <1>14, <1>0, <1>4, <1>6, <1>7
  <2> QED
    BY <1>0, <1>1, <1>4, <1>7, <2>1, AdjustNudges
<1>9. /\ a.n1 = f /\ \A j \in Markers : j # 3 => a.n[j] = a2.n[j]
      /\ Nudged(o, g, d3, a2.n[3 - 1], a2.n[3], a2.n[3 + 1], a.n[3])
  <2>1. 1 <= a2.n[3] /\ a2.n[3] <= 2 * Grid /\ Near(a2.n1[3], d3, g)
    BY <1>14, <1>0, <1>5, <1>6, <1>8
  <2> QED
    BY <1>0, <1>1, <1>5, <1>8, <2>1, AdjustNudges
<1>10. PICK b1 \in Int, b2 \in Int, b3 \in Int :
         /\ b1 = a0.n[1] /\ b2 = a0.n[2] /\ b3 = a0.n[3]
         /\ b1 \in {m.n[1], m.n[1] + 1} /\ b2 \in {m.n[2], m.n[2] + 1}
         /\ b3 \in {m.n[3], m.n[3] + 1}
  BY <1>0, <1>2, <1>3 DEF Marked
<1>11. Nudged(o, g, d1, 1, b1, b2, a.n[1])
  <2>1. a.n[1] = a1.n[1]
    BY <1>0, <1>8, <1>9
  <2> QED
    BY <1>0, <1>2, <1>7, <1>10, <2>1
<1>12. Nudged(o, g, d2, a.n[1], b2, b3, a.n[2])
  <2>1. a.n[1] = a1.n[1] /\ a.n[2] = a2.n[2] /\ a1.n[2] = b2 /\ a1.n[3] = b3
    BY <1>0, <1>7, <1>8, <1>9, <1>10
  <2> QED
    BY <1>0, <1>8, <2>1
<1>13. Nudged(o, g, d3, a.n[2], b3, m.n[4] + 1, a.n[3])
  <2>1. a.n[2] = a2.n[2] /\ a2.n[3] = b3 /\ a2.n[4] = m.n[4] + 1
    BY <1>0, <1>5, <1>7, <1>8, <1>9, <1>10
  <2> QED
    BY <1>0, <1>9, <2>1
<1> QED
  BY <1>9, <1>10, <1>11, <1>12, <1>13 DEF Steps, f

(* What the floats may be off does not get less.                           *)
LEMMA SlackGrows ==
  ASSUME P \in Percentiles, NEW k \in Nat
  PROVE  Slack(One, k) \in Nat /\ Slack(One, k) <= Slack(One, k + 1)
<1>1. PICK o \in Nat \ {0}, s \in Nat \ {0} : o = One /\ s = 2 * Grid
  BY PlaceType
<1>2. PICK a \in Nat : a = o * k * k
  OBVIOUS
<1>3. PICK b \in Nat : b = o * (k + 1) * (k + 1) /\ a <= b
  <2>1. PICK h \in Nat : h = o * k
    OBVIOUS
  <2>2. o * (k + 1) * (k + 1) = o * k * k + 2 * (o * k) + o
    OBVIOUS
  <2> QED
    BY <1>2, <2>1, <2>2
<1>4. a \div s \in Nat /\ (a \div s) * s <= a
  <2>1. PICK z \in Int : z = a \div s /\ a = s * z + (a % s)
    BY ModDiv
  <2>2. PICK r \in 0 .. s - 1 : r = a % s
    BY ModRange
  <2>3. a \div s \in Nat
    BY DivBetween
  <2>4. z * s = s * z /\ z * s \in Int
    OBVIOUS
  <2> QED
    BY <2>1, <2>2, <2>3, <2>4
<1>5. a \div s <= b \div s
  <2>1. PICK z \in Nat : z = a \div s /\ z * s <= b
    <3>1. PICK y \in Nat : y = a \div s /\ y * s <= a
      BY <1>4
    <3> QED
      BY <1>3, <3>1
  <2> QED
    BY <2>1, DivBound
<1>6. Slack(One, k) = a \div s /\ Slack(One, k + 1) = b \div s
  BY <1>1, <1>2, <1>3 DEF Slack
<1> QED
  BY <1>4, <1>5, <1>6

(* The positions after c updates, desired and taken.                       *)
OnRank(c) ==
  /\ P = PLthread => /\ Close(Place, n1[1], 8 + c, c + 5) /\ Close(Place, n1[2], 12 + 2 * c, c + 5)
                     /\ Close(Place, n1[3], 16 + 3 * c, c + 5)
                     /\ HalfLags(c, Slack(One, c + 5), n[1], n[2], n[3])
  /\ P = PRtc => /\ Close(Place, n1[1], 596 + 99 * c, c + 5) /\ Close(Place, n1[2], 992 + 198 * c, c + 5)
                 /\ Close(Place, n1[3], 996 + 199 * c, c + 5)
                 /\ HighLags(c, Slack(One, c + 5), n[1], n[2], n[3])

(* As long as positions are floats.                                        *)
RankInv == \E c \in Nat : /\ seen > 5 => seen = c + 5
                          /\ seen <= 5 => c = 0
                          /\ c = 0 \/ c + 5 <= 2 * Grid => OnRank(c)

(* The units of the two versions.                                          *)
LEMMA Units ==
  /\ P = PLthread => /\ One = 4 /\ Increment = <<0, 1, 2, 3, 4>>
                     /\ Desired = <<4, 8, 12, 16, 20>>
  /\ P = PRtc => /\ One = 200 /\ Increment = <<0, 99, 198, 199, 200>>
                 /\ Desired = <<200, 596, 992, 996, 1000>>
BY DEF PLthread, PRtc, One, Increment, Desired

(* OnRank is about the percentile and the positions.                       *)
LEMMA OnRankOf ==
  ASSUME P' = P, NEW d, NEW y, NEW x, n1' = y, n' = x,
         P = PLthread => /\ Close(Place, y[1], 8 + d, d + 5) /\ Close(Place, y[2], 12 + 2 * d, d + 5)
                         /\ Close(Place, y[3], 16 + 3 * d, d + 5)
                         /\ HalfLags(d, Slack(One, d + 5), x[1], x[2], x[3]),
         P = PRtc => /\ Close(Place, y[1], 596 + 99 * d, d + 5) /\ Close(Place, y[2], 992 + 198 * d, d + 5)
                     /\ Close(Place, y[3], 996 + 199 * d, d + 5)
                     /\ HighLags(d, Slack(One, d + 5), x[1], x[2], x[3])
  PROVE  OnRank(d)'
<1>1. One' = One /\ Place' = Place
  BY DEF One, Place
<1>2. P = PLthread => /\ Close(Place', n1'[1], 8 + d, d + 5)
                      /\ Close(Place', n1'[2], 12 + 2 * d, d + 5)
                      /\ Close(Place', n1'[3], 16 + 3 * d, d + 5)
                      /\ HalfLags(d, Slack(One', d + 5), n'[1], n'[2], n'[3])
  BY <1>1
<1>3. P = PRtc => /\ Close(Place', n1'[1], 596 + 99 * d, d + 5)
                  /\ Close(Place', n1'[2], 992 + 198 * d, d + 5)
                  /\ Close(Place', n1'[3], 996 + 199 * d, d + 5)
                  /\ HighLags(d, Slack(One', d + 5), n'[1], n'[2], n'[3])
  BY <1>1
<1> QED
  BY <1>2, <1>3 DEF OnRank

(* A constructed flow.                                                     *)
LEMMA RankInit == init => RankInv
<1> SUFFICES ASSUME init PROVE RankInv
  OBVIOUS
<1>1. /\ n[1] = 2 /\ n[2] = 3 /\ n[3] = 4 /\ seen = 0 /\ P \in Percentiles
      /\ n1[1] = Float(Desired[2] * Grid) /\ n1[2] = Float(Desired[3] * Grid)
      /\ n1[3] = Float(Desired[4] * Grid)
  BY DEF init, Markers
<1>2. PICK g \in Nat : g = Slack(One, 0 + 5)
  <2>1. 0 + 5 \in Nat
    OBVIOUS
  <2> QED
    BY <1>1, <2>1, SlackGrows
<1>3. ASSUME P = PLthread
      PROVE  /\ Close(Place, n1[1], 8 + 0, 0 + 5) /\ Close(Place, n1[2], 12 + 2 * 0, 0 + 5)
             /\ Close(Place, n1[3], 16 + 3 * 0, 0 + 5) /\ HalfLags(0, g, n[1], n[2], n[3])
  <2>1. One = 4 /\ Desired[2] = 8 /\ Desired[3] = 12 /\ Desired[4] = 16
    BY <1>3, Units
  <2>2. Close(Place, n1[1], 8, 5) /\ Close(Place, n1[2], 12, 5) /\ Close(Place, n1[3], 16, 5)
    BY <1>1, <2>1, CloseFirst
  <2>3. 8 + 0 = 8 /\ 12 + 2 * 0 = 12 /\ 16 + 3 * 0 = 16 /\ 0 + 5 = 5
    OBVIOUS
  <2>4. HalfLags(0, g, n[1], n[2], n[3])
    BY <1>1 DEF HalfLags
  <2> QED
    BY <2>2, <2>3, <2>4
<1>4. ASSUME P = PRtc
      PROVE  /\ Close(Place, n1[1], 596 + 99 * 0, 0 + 5) /\ Close(Place, n1[2], 992 + 198 * 0, 0 + 5)
             /\ Close(Place, n1[3], 996 + 199 * 0, 0 + 5) /\ HighLags(0, g, n[1], n[2], n[3])
  <2>1. One = 200 /\ Desired[2] = 596 /\ Desired[3] = 992 /\ Desired[4] = 996
    BY <1>4, Units
  <2>2. Close(Place, n1[1], 596, 5) /\ Close(Place, n1[2], 992, 5) /\ Close(Place, n1[3], 996, 5)
    BY <1>1, <2>1, CloseFirst
  <2>3. 596 + 99 * 0 = 596 /\ 992 + 198 * 0 = 992 /\ 996 + 199 * 0 = 996 /\ 0 + 5 = 5
    OBVIOUS
  <2>4. HighLags(0, g, n[1], n[2], n[3])
    BY <1>1 DEF HighLags
  <2> QED
    BY <2>2, <2>3, <2>4
<1>5. OnRank(0)
  BY <1>2, <1>3, <1>4 DEF OnRank
<1> QED
  BY <1>1, <1>5 DEF RankInv

(* A further gap.                                                          *)
LEMMA RankUpdate ==
  ASSUME MarkersInv, RankInv, NEW x \in IntGaps, Update(x)
  PROVE  RankInv'
<1>0. x \in Int /\ Unit \in Nat \ {0} /\ UMod \in Nat \ {0}
  BY QuantileAssumption DEF IntGaps
<1>1. /\ MarkersType /\ n \in [Markers -> Int] /\ n1 \in [Markers -> Targets] /\ P \in Percentiles
      /\ \A i \in Markers : n[i] \in Int /\ n1[i] \in Targets
      /\ seen \in Nat /\ 0 \in Markers /\ 1 \in Markers /\ 2 \in Markers /\ 3 \in Markers
  BY MarkersTyped DEF MarkersInv, MarkersType, Markers
<1>2. l = 5 /\ seen > 4
  <2>1. l = 5
    BY DEF Update
  <2>2. CASE Filling
    BY <2>1, <2>2 DEF Filling
  <2>3. CASE Running
    BY <1>1, <2>1, <2>3 DEF Running
  <2> QED
    BY <2>1, <2>2, <2>3 DEF MarkersInv
<1>3. PICK c \in Nat : seen = c + 5 /\ (c = 0 \/ c + 5 <= 2 * Grid => OnRank(c))
  BY <1>1, <1>2 DEF RankInv
<1>4. PICK s : s = insertSort(q)
  OBVIOUS
<1>5. PICK w \in Int : w = (x % UMod) * Unit
  <2>1. PICK v \in Int : v = x % UMod
    BY <1>0, ModRange
  <2> QED
    BY <1>0, <2>1
<1>6. PICK m : m = [q |-> s, n |-> n, n1 |-> n1]
  OBVIOUS
<1>7. PICK a : a = get_qt(m, w)
  OBVIOUS
<1>8. n' = a.n /\ n1' = a.n1 /\ P' = P /\ seen' = seen + 1
  BY <1>4, <1>5, <1>6, <1>7 DEF Update, Count
<1>9. s \in [Markers -> Int] /\ Rising(m) /\ n[0] = 1 /\ n[4] = c + 5
  BY <1>2, <1>3, <1>4, <1>6, SortedMarkers
<1>10. m \in Marked /\ m.n = n /\ m.n1 = n1
  BY <1>1, <1>6, <1>9 DEF Marked
<1>11. a \in Marked
  <2>1. Taken(m, w, a)
    BY <1>1, <1>7, <1>9, <1>10, GetQt
  <2> QED
    BY <2>1 DEF Taken
<1>12. PICK x1 \in Int, x2 \in Int, x3 \in Int, y1 \in Int, y2 \in Int, y3 \in Int :
         /\ x1 = n[1] /\ x2 = n[2] /\ x3 = n[3]
         /\ y1 = a.n[1] /\ y2 = a.n[2] /\ y3 = a.n[3]
  BY <1>1, <1>11 DEF Marked
<1>13. PICK e \in Nat : e = c + 1 /\ seen' = e + 5 /\ e # 0 /\ e + 5 = (c + 5) + 1
  BY <1>3, <1>8
<1>14. ASSUME e + 5 <= 2 * Grid PROVE OnRank(e)'
  <2>1. PICK t \in Nat : t = 2 * Grid /\ c + 5 <= t /\ c + 6 <= t
    BY <1>13, <1>14, PlaceType, <1>1
  <2>2. OnRank(c)
    BY <1>3, <2>1
  <2>3. PICK g \in Nat, h \in Nat : g = Slack(One, c + 5) /\ h = Slack(One, e + 5) /\ g <= h
    <3>1. PICK k \in Nat : k = c + 5
      OBVIOUS
    <3>2. Slack(One, k) \in Nat /\ Slack(One, k + 1) \in Nat /\ Slack(One, k) <= Slack(One, k + 1)
      BY <1>1, SlackGrows
    <3> QED
      BY <1>13, <3>1, <3>2
  <2>4. PICK f : f = [i \in Markers |-> Float(m.n1[i] + Increment[i + 1] * Grid)]
    OBVIOUS
  <2>5. /\ f[1] = Float(n1[1] + Increment[2] * Grid)
        /\ f[2] = Float(n1[2] + Increment[3] * Grid)
        /\ f[3] = Float(n1[3] + Increment[4] * Grid)
    BY <1>1, <1>10, <2>4
  <2>6. ASSUME NEW y \in Targets, NEW d \in Nat, NEW v, v = Float(y + d * Grid), d <= One,
               NEW u \in Int, u <= (c + 5) * One, Close(Place, y, u, c + 5), NEW z, z = u + d
        PROVE  z \in Int /\ Close(Place, v, z, e + 5) /\ Near(v, z, h)
    <3>1. PICK k \in Nat : k = c + 5 /\ k <= 2 * Grid /\ e + 5 = k + 1
      BY <1>13, <2>1
    <3>2. Close(Place, v, u + d, e + 5)
      BY <1>1, <2>6, <3>1, CloseNext
    <3>3. v \in Int
      <4>1. PICK b \in Int : b = y + d * Grid /\ Place <= b
        <5>1. d * Grid \in Nat /\ Place \in Int /\ y \in Int /\ Place <= y
          BY <1>1, PlaceType DEF Targets
        <5> QED
          BY <5>1
      <4> QED
        BY <1>1, <2>6, <4>1, FloatOf DEF Targets
    <3>4. PICK j \in Nat : j = e + 5
      OBVIOUS
    <3>5. z \in Int /\ v \in Int /\ Close(Place, v, z, j)
      BY <2>6, <3>2, <3>3, <3>4
    <3>6. Near(v, z, Slack(One, j))
      BY <1>1, <3>5, CloseNear
    <3> QED
      BY <2>3, <3>4, <3>5, <3>6
  <2>7. PICK o \in Nat : o = One
    BY <1>1, PlaceType
  <2>8. ASSUME NEW d1 \in Int, NEW d2 \in Int, NEW d3 \in Int,
               Near(f[1], d1, h), Near(f[2], d2, h), Near(f[3], d3, h)
        PROVE  a.n1 = f /\ Steps(o, h, d1, d2, d3, x1, x2, x3, c + 6, y1, y2, y3)
    <3>1. m.n[0] = 1 /\ m.n[4] + 1 = c + 6 /\ m.n[4] + 1 <= 2 * Grid
      BY <1>9, <1>10, <2>1
    <3>2. /\ a.n1 = f
          /\ Steps(o, h, d1, d2, d3, m.n[1], m.n[2], m.n[3], m.n[4] + 1,
                   a.n[1], a.n[2], a.n[3])
      <4>1. /\ P \in Percentiles /\ m \in Marked /\ Rising(m) /\ m.n[0] = 1
            /\ m.n[4] + 1 <= 2 * Grid /\ w \in Int /\ a = get_qt(m, w)
            /\ o \in Nat /\ o = One /\ h \in Nat
        BY <1>1, <1>7, <1>9, <1>10, <2>7, <3>1
      <4>2. /\ Near(Float(m.n1[1] + Increment[2] * Grid), d1, h)
            /\ Near(Float(m.n1[2] + Increment[3] * Grid), d2, h)
            /\ Near(Float(m.n1[3] + Increment[4] * Grid), d3, h)
        BY <1>10, <2>5, <2>8
      <4>3. /\ a.n1 = [i \in Markers |-> Float(m.n1[i] + Increment[i + 1] * Grid)]
            /\ Steps(o, h, d1, d2, d3, m.n[1], m.n[2], m.n[3], m.n[4] + 1,
                     a.n[1], a.n[2], a.n[3])
        BY <4>1, <4>2, GetQtSteps
      <4> QED
        BY <2>4, <4>3
    <3> QED
      BY <1>10, <1>12, <3>1, <3>2
  <2>9. ASSUME P = PLthread
        PROVE  /\ a.n1 = f
               /\ Close(Place, f[1], 8 + e, e + 5) /\ Close(Place, f[2], 12 + 2 * e, e + 5)
               /\ Close(Place, f[3], 16 + 3 * e, e + 5) /\ HalfLags(e, h, y1, y2, y3)
    <3>1. /\ Close(Place, n1[1], 8 + c, c + 5) /\ Close(Place, n1[2], 12 + 2 * c, c + 5)
          /\ Close(Place, n1[3], 16 + 3 * c, c + 5) /\ HalfLags(c, g, x1, x2, x3)
      BY <1>12, <2>2, <2>3, <2>9 DEF OnRank
    <3>2. One = 4 /\ Increment[2] = 1 /\ Increment[3] = 2 /\ Increment[4] = 3
      BY <2>9, Units
    <3>3. /\ 8 + c <= (c + 5) * One /\ 12 + 2 * c <= (c + 5) * One /\ 16 + 3 * c <= (c + 5) * One
          /\ 8 + e = (8 + c) + 1 /\ 12 + 2 * e = (12 + 2 * c) + 2 /\ 16 + 3 * e = (16 + 3 * c) + 3
          /\ 8 + c \in Int /\ 12 + 2 * c \in Int /\ 16 + 3 * c \in Int
          /\ 1 <= One /\ 2 <= One /\ 3 <= One
      BY <1>13, <3>2
    <3>4. Close(Place, f[1], 8 + e, e + 5) /\ Near(f[1], 8 + e, h)
      <4>1. PICK y \in Targets, u \in Int, d \in Nat, z \in Int :
              y = n1[1] /\ u = 8 + c /\ d = 1 /\ z = 8 + e /\ z = u + d
        BY <1>1, <3>3
      <4>2. /\ f[1] = Float(y + d * Grid) /\ d <= One /\ u <= (c + 5) * One
            /\ Close(Place, y, u, c + 5)
        BY <2>5, <3>1, <3>2, <3>3, <4>1
      <4> QED
        BY ONLY <2>6, <4>1, <4>2
    <3>5. Close(Place, f[2], 12 + 2 * e, e + 5) /\ Near(f[2], 12 + 2 * e, h)
      <4>1. PICK y \in Targets, u \in Int, d \in Nat, z \in Int :
              y = n1[2] /\ u = 12 + 2 * c /\ d = 2 /\ z = 12 + 2 * e /\ z = u + d
        BY <1>1, <3>3
      <4>2. /\ f[2] = Float(y + d * Grid) /\ d <= One /\ u <= (c + 5) * One
            /\ Close(Place, y, u, c + 5)
        BY <2>5, <3>1, <3>2, <3>3, <4>1
      <4> QED
        BY ONLY <2>6, <4>1, <4>2
    <3>6. Close(Place, f[3], 16 + 3 * e, e + 5) /\ Near(f[3], 16 + 3 * e, h)
      <4>1. PICK y \in Targets, u \in Int, d \in Nat, z \in Int :
              y = n1[3] /\ u = 16 + 3 * c /\ d = 3 /\ z = 16 + 3 * e /\ z = u + d
        BY <1>1, <3>3
      <4>2. /\ f[3] = Float(y + d * Grid) /\ d <= One /\ u <= (c + 5) * One
            /\ Close(Place, y, u, c + 5)
        BY <2>5, <3>1, <3>2, <3>3, <4>1
      <4> QED
        BY ONLY <2>6, <4>1, <4>2
    <3>7. /\ a.n1 = f
          /\ Steps(4, h, 8 + e, 12 + 2 * e, 16 + 3 * e, x1, x2, x3, c + 6, y1, y2, y3)
      <4>1. PICK d1 \in Int, d2 \in Int, d3 \in Int :
              d1 = 8 + e /\ d2 = 12 + 2 * e /\ d3 = 16 + 3 * e
        OBVIOUS
      <4>2. Near(f[1], d1, h) /\ Near(f[2], d2, h) /\ Near(f[3], d3, h)
        BY <3>4, <3>5, <3>6, <4>1
      <4>3. /\ a.n1 = f
            /\ Steps(o, h, d1, d2, d3, x1, x2, x3, c + 6, y1, y2, y3)
        BY ONLY <2>8, <4>1, <4>2
      <4>4. o = 4
        BY <2>7, <3>2
      <4> QED
        BY <4>1, <4>3, <4>4
    <3>8. HalfLags(e, h, y1, y2, y3)
      BY <1>13, <2>3, <3>1, <3>7, HalfStep
    <3> QED
      BY <3>4, <3>5, <3>6, <3>7, <3>8
  <2>10. ASSUME P = PRtc
         PROVE  /\ a.n1 = f
                /\ Close(Place, f[1], 596 + 99 * e, e + 5) /\ Close(Place, f[2], 992 + 198 * e, e + 5)
                /\ Close(Place, f[3], 996 + 199 * e, e + 5) /\ HighLags(e, h, y1, y2, y3)
    <3>1. /\ Close(Place, n1[1], 596 + 99 * c, c + 5) /\ Close(Place, n1[2], 992 + 198 * c, c + 5)
          /\ Close(Place, n1[3], 996 + 199 * c, c + 5) /\ HighLags(c, g, x1, x2, x3)
      BY <1>12, <2>2, <2>3, <2>10 DEF OnRank
    <3>2. One = 200 /\ Increment[2] = 99 /\ Increment[3] = 198 /\ Increment[4] = 199
      BY <2>10, Units
    <3>3. /\ 596 + 99 * c <= (c + 5) * One /\ 992 + 198 * c <= (c + 5) * One
          /\ 996 + 199 * c <= (c + 5) * One
          /\ 596 + 99 * e = (596 + 99 * c) + 99 /\ 992 + 198 * e = (992 + 198 * c) + 198
          /\ 996 + 199 * e = (996 + 199 * c) + 199
          /\ 596 + 99 * c \in Int /\ 992 + 198 * c \in Int /\ 996 + 199 * c \in Int
          /\ 99 <= One /\ 198 <= One /\ 199 <= One
      BY <1>13, <3>2
    <3>4. Close(Place, f[1], 596 + 99 * e, e + 5) /\ Near(f[1], 596 + 99 * e, h)
      <4>1. PICK y \in Targets, u \in Int, d \in Nat, z \in Int :
              y = n1[1] /\ u = 596 + 99 * c /\ d = 99 /\ z = 596 + 99 * e /\ z = u + d
        BY <1>1, <3>3
      <4>2. /\ f[1] = Float(y + d * Grid) /\ d <= One /\ u <= (c + 5) * One
            /\ Close(Place, y, u, c + 5)
        BY <2>5, <3>1, <3>2, <3>3, <4>1
      <4> QED
        BY ONLY <2>6, <4>1, <4>2
    <3>5. Close(Place, f[2], 992 + 198 * e, e + 5) /\ Near(f[2], 992 + 198 * e, h)
      <4>1. PICK y \in Targets, u \in Int, d \in Nat, z \in Int :
              y = n1[2] /\ u = 992 + 198 * c /\ d = 198 /\ z = 992 + 198 * e /\ z = u + d
        BY <1>1, <3>3
      <4>2. /\ f[2] = Float(y + d * Grid) /\ d <= One /\ u <= (c + 5) * One
            /\ Close(Place, y, u, c + 5)
        BY <2>5, <3>1, <3>2, <3>3, <4>1
      <4> QED
        BY ONLY <2>6, <4>1, <4>2
    <3>6. Close(Place, f[3], 996 + 199 * e, e + 5) /\ Near(f[3], 996 + 199 * e, h)
      <4>1. PICK y \in Targets, u \in Int, d \in Nat, z \in Int :
              y = n1[3] /\ u = 996 + 199 * c /\ d = 199 /\ z = 996 + 199 * e /\ z = u + d
        BY <1>1, <3>3
      <4>2. /\ f[3] = Float(y + d * Grid) /\ d <= One /\ u <= (c + 5) * One
            /\ Close(Place, y, u, c + 5)
        BY <2>5, <3>1, <3>2, <3>3, <4>1
      <4> QED
        BY ONLY <2>6, <4>1, <4>2
    <3>7. /\ a.n1 = f
          /\ Steps(200, h, 596 + 99 * e, 992 + 198 * e, 996 + 199 * e,
                   x1, x2, x3, c + 6, y1, y2, y3)
      <4>1. PICK d1 \in Int, d2 \in Int, d3 \in Int :
              d1 = 596 + 99 * e /\ d2 = 992 + 198 * e /\ d3 = 996 + 199 * e
        OBVIOUS
      <4>2. Near(f[1], d1, h) /\ Near(f[2], d2, h) /\ Near(f[3], d3, h)
        BY <3>4, <3>5, <3>6, <4>1
      <4>3. /\ a.n1 = f
            /\ Steps(o, h, d1, d2, d3, x1, x2, x3, c + 6, y1, y2, y3)
        BY ONLY <2>8, <4>1, <4>2
      <4>4. o = 200
        BY <2>7, <3>2
      <4> QED
        BY <4>1, <4>3, <4>4
    <3>8. HighLags(e, h, y1, y2, y3)
      BY <1>13, <2>3, <3>1, <3>7, HighStep
    <3> QED
      BY <3>4, <3>5, <3>6, <3>7, <3>8
  <2> QED
    BY <1>8, <1>12, <2>3, <2>9, <2>10, OnRankOf
<1> QED
  BY <1>13, <1>14 DEF RankInv

(* Where there are more positions than floats, the slack is more than      *)
(* there are positions.                                                    *)
LEMMA BeyondFloats ==
  ASSUME MarkersInv, seen > 5, seen > 2 * Grid, NEW i \in 1 .. 3,
         Increment[i + 1] \in Nat, Increment[i + 1] <= One,
         NEW lag, lag = Rank(i) - n[i] * One
  PROVE  -One - Drift <= lag /\ lag <= Drift
<1>1. /\ MarkersType /\ P \in Percentiles /\ n \in [Markers -> Int]
      /\ \A j \in Markers : n[j] \in Int
  BY MarkersTyped DEF MarkersInv, MarkersType
<1>2. PICK o \in Nat \ {0}, s \in Nat \ {0}, k \in Nat, d \in Nat, y \in Int :
        o = One /\ s = 2 * Grid /\ k = seen /\ d = Increment[i + 1] /\ y = n[i] /\ s < k
  BY <1>1, PlaceType DEF MarkersType, Markers
<1>3. 1 <= y /\ y <= k
  <2>1. MarkersOrdered
    BY <1>2 DEF MarkersInv, Filling, Running
  <2>2. /\ n[0] < n[0 + 1] /\ n[1] < n[1 + 1] /\ n[2] < n[2 + 1] /\ n[3] < n[3 + 1]
        /\ n[0] = 1 /\ n[4] = seen
    BY <2>1 DEF MarkersOrdered
  <2>3. /\ n[0] \in Int /\ n[1] \in Int /\ n[2] \in Int /\ n[3] \in Int
        /\ 0 + 1 = 1 /\ 1 + 1 = 2 /\ 2 + 1 = 3 /\ 3 + 1 = 4 /\ (i = 1 \/ i = 2 \/ i = 3)
    BY <1>1 DEF Markers
  <2> QED
    BY <1>2, <2>2, <2>3
<1>4. PICK a \in Nat : a = k * o
  OBVIOUS
<1>5. o <= y * o /\ y * o <= a /\ y * o \in Int
  <2>1. 1 * o <= y * o /\ y * o <= k * o
    BY <1>3, TimesOrder
  <2> QED
    BY <1>4, <2>1
<1>6. 0 <= (k - 1) * d /\ (k - 1) * d <= a - o /\ (k - 1) * d \in Int
  <2>1. PICK j \in Nat \ {0} : j = k - 1
    BY <1>2
  <2>2. d * j <= o * j
    BY <1>2, TimesOrder
  <2>3. j * d \in Nat /\ d * j = j * d /\ o * j = k * o - o
    BY <2>1
  <2> QED
    BY <1>4, <2>1, <2>2, <2>3
<1>7. PICK r \in Int : r = Drift /\ a <= r
  <2>1. s * a <= k * a
    <3>1. CASE a = 0
      BY <3>1
    <3>2. CASE a # 0
      BY <1>2, <3>2, TimesOrder
    <3> QED
      BY <3>1, <3>2
  <2>2. PICK b \in Nat : b = o * k * k /\ b = k * a
    BY <1>4
  <2>3. a * s <= b
    BY <2>1, <2>2
  <2>4. b \div s \in Int /\ a <= b \div s
    BY <2>3, DivBound
  <2>5. Drift = b \div s
    BY <1>2, <2>2 DEF Drift
  <2> QED
    BY <2>4, <2>5
<1>8. lag = (o + (k - 1) * d) - y * o
  BY <1>2 DEF Rank
<1> QED
  BY <1>2, <1>5, <1>6, <1>7, <1>8

(* The inner markers stay near the positions of the percentile, for the P  *)
(* of the two versions, any gaps and any spacings of floats: k gaps take   *)
(* them from there by no more than k * k / 2^24 positions, which is what   *)
(* the additions to the float n1 round at most, and by one or three.       *)
THEOREM MarkersStayOnRank ==
  Percentiles \subseteq {PRtc, PLthread} => (QuantileSpec => []MarkersOnRank)
<1> SUFFICES ASSUME Percentiles \subseteq {PRtc, PLthread}
             PROVE  QuantileSpec => []MarkersOnRank
  OBVIOUS
<1>1. init => RankInv
  BY RankInit
<1>2. MarkersInv /\ RankInv /\ [Observe]_quantileVars => RankInv'
  <2> SUFFICES ASSUME MarkersInv, RankInv, [Observe]_quantileVars PROVE RankInv'
    OBVIOUS
  <2>1. ASSUME NEW c, OnRank(c), P' = P, n' = n, n1' = n1 PROVE OnRank(c)'
    BY <2>1, OnRankOf DEF OnRank
  <2>2. CASE UNCHANGED quantileVars
    <3>1. PICK c \in Nat : /\ seen > 5 => seen = c + 5
                           /\ seen <= 5 => c = 0
                           /\ c = 0 \/ c + 5 <= 2 * Grid => OnRank(c)
      BY DEF RankInv
    <3>2. P' = P /\ n' = n /\ n1' = n1 /\ seen' = seen
      BY <2>2 DEF quantileVars
    <3>3. c = 0 \/ c + 5 <= 2 * Grid => OnRank(c)'
      BY <2>1, <3>1, <3>2
    <3> QED
      BY <3>1, <3>2, <3>3 DEF RankInv
  <2>3. ASSUME NEW x \in IntGaps, Fill(x) PROVE RankInv'
    <3>1. MarkersType /\ Filling
      BY <2>3 DEF MarkersInv, Running, Fill
    <3>2. n' = n /\ n1' = n1 /\ P' = P /\ seen \in 0 .. 4 /\ seen' = seen + 1
      BY <2>3, <3>1 DEF Filling, Fill, Count
    <3>3. OnRank(0)
      BY <3>2 DEF RankInv
    <3>4. OnRank(0)'
      BY <2>1, <3>2, <3>3
    <3>5. seen' \in 1 .. 5
      BY <3>2
    <3> QED
      BY <3>4, <3>5 DEF RankInv
  <2>4. CASE Observe
    <3>1. PICK x \in IntGaps : Fill(x) \/ Update(x)
      BY <2>4, ObservedGap
    <3> QED
      BY <2>3, <3>1, RankUpdate
  <2> QED
    BY <2>2, <2>4
<1>3. MarkersInv /\ RankInv => MarkersOnRank
  <2> SUFFICES ASSUME MarkersInv, RankInv, seen >= 5, NEW i \in 1 .. 3,
                      NEW lag, lag = Rank(i) - n[i] * One
               PROVE  -One - Drift <= lag /\ lag <= MaxLag * One + Drift
    BY DEF MarkersOnRank
  <2>1. /\ P \in Percentiles /\ i \in {1, 2, 3} /\ seen \in Nat
        /\ n[1] \in Int /\ n[2] \in Int /\ n[3] \in Int
    BY MarkersTyped DEF MarkersInv, MarkersType, Markers
  <2>2. PICK c \in Nat : seen = c + 5 /\ (c = 0 \/ c + 5 <= 2 * Grid => OnRank(c))
    BY <2>1 DEF RankInv
  <2>3. PICK x1 \in Int, x2 \in Int, x3 \in Int : x1 = n[1] /\ x2 = n[2] /\ x3 = n[3]
    BY <2>1
  <2>4. PICK g \in Nat : g = Drift /\ g = Slack(One, c + 5)
    <3>1. PICK k \in Nat : k = c + 5
      OBVIOUS
    <3>2. Slack(One, k) \in Nat
      BY <2>1, SlackGrows
    <3> QED
      BY <2>2, <3>1, <3>2 DEF Drift, Slack
  <2>5. CASE P = PLthread
    <3>1. /\ One = 4 /\ MaxLag = 1
          /\ Increment[2] = 1 /\ Increment[3] = 2 /\ Increment[4] = 3
      BY <2>5, Units DEF MaxLag
    <3>2. CASE OnRank(c)
      <4>1. HalfLags(c, g, x1, x2, x3)
        BY <2>3, <2>4, <2>5, <3>2 DEF OnRank
      <4>2. Rank(1) = 8 + c /\ Rank(2) = 12 + 2 * c /\ Rank(3) = 16 + 3 * c
        BY <2>2, <3>1 DEF Rank
      <4> QED
        BY <2>1, <2>3, <2>4, <3>1, <4>1, <4>2 DEF HalfLags
    <3>3. CASE ~OnRank(c)
      <4>1. seen > 5 /\ seen > 2 * Grid
        BY <2>1, <2>2, <3>3, PlaceType
      <4>2. Increment[i + 1] \in Nat /\ Increment[i + 1] <= One
        BY <2>1, <3>1
      <4>3. -One - Drift <= lag /\ lag <= Drift
        BY <4>1, <4>2, BeyondFloats
      <4>4. lag \in Int
        <5>1. Increment[i + 1] \in Int /\ n[i] \in Int
          BY <2>1, <3>1
        <5> QED
          BY <2>1, <3>1, <5>1 DEF Rank
      <4> QED
        BY <2>4, <3>1, <4>3, <4>4
    <3> QED
      BY <3>2, <3>3
  <2>6. CASE P = PRtc
    <3>1. /\ One = 200 /\ MaxLag = 3
          /\ Increment[2] = 99 /\ Increment[3] = 198 /\ Increment[4] = 199
      BY <2>6, Units DEF MaxLag, PRtc, PLthread
    <3>2. CASE OnRank(c)
      <4>1. HighLags(c, g, x1, x2, x3)
        BY <2>3, <2>4, <2>6, <3>2 DEF OnRank
      <4>2. Rank(1) = 596 + 99 * c /\ Rank(2) = 992 + 198 * c /\ Rank(3) = 996 + 199 * c
        BY <2>2, <3>1 DEF Rank
      <4> QED
        BY <2>1, <2>3, <2>4, <3>1, <4>1, <4>2 DEF HighLags
    <3>3. CASE ~OnRank(c)
      <4>1. seen > 5 /\ seen > 2 * Grid
        BY <2>1, <2>2, <3>3, PlaceType
      <4>2. Increment[i + 1] \in Nat /\ Increment[i + 1] <= One
        BY <2>1, <3>1
      <4>3. -One - Drift <= lag /\ lag <= Drift
        BY <4>1, <4>2, BeyondFloats
      <4>4. lag \in Int
        <5>1. Increment[i + 1] \in Int /\ n[i] \in Int
          BY <2>1, <3>1
        <5> QED
          BY <2>1, <3>1, <5>1 DEF Rank
      <4> QED
        BY <2>4, <3>1, <4>3, <4>4
    <3> QED
      BY <3>2, <3>3
  <2> QED
    BY <2>1, <2>5, <2>6
<1> QED
  BY <1>1, <1>2, <1>3, MarkersKept, PTL DEF QuantileSpec
=============================================================================
