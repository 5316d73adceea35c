-------------------------- MODULE RunToCompletion --------------------------
(***************************************************************************)
(* The run-to-completion version at work (run_to_completion/main.c): the   *)
(* thread of queue t takes a burst, adds its size to re[t], enters each    *)
(* packet in the flow table that all threads share, and frees the buffers. *)
(* SIGINT makes the master add up the table and then print re, while the   *)
(* threads go on.                                                          *)
(*                                                                         *)
(* Buffers (mbufs) have an identity, since a freed one is filled again:    *)
(* the NIC writes the RSS hash of a packet, and so its flow, to the buffer *)
(* of the descriptor.  The three tables free them at different places:     *)
(* FreesInLoop for hash_list (and double_hash with FLOW_LEVEL), FreesAfter *)
(* for linked_list (and double_hash with or without FLOW_LEVEL).           *)
(*                                                                         *)
(* The table counts each flow apart (see DoubleHash, LinkedList, HashList  *)
(* for the three tables).                                                  *)
(***************************************************************************)
EXTENDS Integers, Sequences, FiniteSets, Functions

CONSTANTS N,            \* RX_RINGS
          BufsOf,       \* queue -> the buffers of its pool
          Flows,        \* the flows that occur
          Setups,       \* the builds, with what RSS decides: see Setup
          NbDesc,       \* RX_RING_SIZE: descriptors of a queue
          BurstSize,    \* BURST_SIZE
          MaxPkts,      \* bound of the model: packets of a flow
          Interrupted   \* may SIGINT come?

Queues == 0 .. N - 1
Bufs == UNION {BufsOf[t] : t \in Queues}

(* flowsOf: queue -> the flows that RSS sends to it; freesInLoop: is a     *)
(* buffer freed when its packet is processed?  freesAfter: are the buffers *)
(* freed when all packets are?                                             *)
Setup == {s \in [flowsOf : [Queues -> SUBSET Flows],
                 freesInLoop : BOOLEAN,
                 freesAfter : BOOLEAN] :
           \A t, u \in Queues :
             t # u => s.flowsOf[t] \cap s.flowsOf[u] = {}}

ASSUME RtcAssumption ==
  /\ N \in Nat \ {0}
  /\ DOMAIN BufsOf = Queues
  /\ \A t, u \in Queues : t # u => BufsOf[t] \cap BufsOf[u] = {}
  /\ IsFiniteSet(Flows)
  /\ Setups \subseteq Setup
  /\ NbDesc \in Nat \ {0} /\ BurstSize \in Nat \ {0}
  /\ MaxPkts \in Nat
  /\ Interrupted \in BOOLEAN

VARIABLES setup,        \* the setup of this run
          pool,         \* buffer -> how often it is in its pool
          armed,        \* queue -> buffers of the descriptors to be filled
          filled,       \* queue -> buffers of the filled descriptors
          flow,         \* buffer -> the flow of what was last written to it
          received,     \* flow -> packets received (history)
          pc,           \* thread -> poll, packets or free
          bufs,         \* thread -> its local burst
          buf,          \* thread -> its loop index
          re,           \* queue -> packets taken
          table,        \* flow -> packets counted
          mpc,          \* what the master does: wait, table, queues or exit
          rest,         \* flows or queues that it has still to add up
          sum,          \* what the table adds up to
          printed       \* the sum of what is printed of re

nicVars == <<armed, filled, flow, received>>
threadVars == <<pc, bufs, buf>>
counters == <<re, table>>
masterVars == <<mpc, rest, sum, printed>>
vars == <<setup, pool, nicVars, threadVars, counters, masterVars>>

NoFlow == <<>>

FlowsOf == setup.flowsOf
FreesInLoop == setup.freesInLoop
FreesAfter == setup.freesAfter

TypeOK ==
  /\ setup \in Setups
  /\ pool \in [Bufs -> Nat]
  /\ armed \in [Queues -> Seq(Bufs)] /\ filled \in [Queues -> Seq(Bufs)]
  /\ flow \in [Bufs -> Flows \cup {NoFlow}]
  /\ received \in [Flows -> 0 .. MaxPkts]
  /\ pc \in [Queues -> {"poll", "packets", "free"}]
  /\ bufs \in [Queues -> Seq(Bufs)]
  /\ \A t \in Queues : /\ Len(bufs[t]) <= BurstSize
                       /\ (buf[t] = 0 \/ buf[t] < Len(bufs[t]))
  /\ re \in [Queues -> Nat] /\ table \in [Flows -> Nat]
  /\ mpc \in {"wait", "table", "queues", "exit"}
  /\ mpc = "table" => rest \subseteq Flows
  /\ mpc = "queues" => rest \subseteq Queues
  /\ sum \in Nat /\ printed \in Nat

Init ==
  /\ setup \in Setups
  /\ pool = [b \in Bufs |-> 1]
  /\ armed = [t \in Queues |-> <<>>] /\ filled = [t \in Queues |-> <<>>]
  /\ flow = [b \in Bufs |-> NoFlow]
  /\ received = [f \in Flows |-> 0]
  /\ pc = [t \in Queues |-> "poll"]
  /\ bufs = [t \in Queues |-> <<>>]
  /\ buf = [t \in Queues |-> 0]
  /\ re = [t \in Queues |-> 0]
  /\ table = [f \in Flows |-> 0]
  /\ mpc = "wait" /\ rest = {} /\ sum = 0 /\ printed = 0

Running == mpc # "exit"

-----------------------------------------------------------------------------
(* The driver, external: a descriptor is given a buffer of the pool, when  *)
(* the queue is set up and then in rte_eth_rx_burst.                       *)
Arm(t) ==
  /\ Running
  /\ pc[t] = "poll"
  /\ Len(armed[t]) + Len(filled[t]) < NbDesc
  /\ \E b \in BufsOf[t] :
       /\ pool[b] > 0
       /\ pool' = [pool EXCEPT ![b] = @ - 1]
       /\ armed' = [armed EXCEPT ![t] = Append(@, b)]
  /\ UNCHANGED <<setup, filled, flow, received, threadVars, counters,
                 masterVars>>

(* The NIC, external: a packet of f is written to the next buffer.         *)
Arrive(t, f) ==
  /\ Running
  /\ armed[t] # <<>>
  /\ received[f] < MaxPkts
  /\ received' = [received EXCEPT ![f] = @ + 1]
  /\ flow' = [flow EXCEPT ![Head(armed[t])] = f]
  /\ filled' = [filled EXCEPT ![t] = Append(@, Head(armed[t]))]
  /\ armed' = [armed EXCEPT ![t] = Tail(@)]
  /\ UNCHANGED <<setup, pool, threadVars, counters, masterVars>>

-----------------------------------------------------------------------------
Freed(b) == pool' = [pool EXCEPT ![b] = @ + 1]

Current(t) == bufs[t][buf[t] + 1]

(* Mutations of the definitions below.                                     *)
TakeOne(t, n) == re' = [re EXCEPT ![t] = @ + 1]

StartLate(t) == buf' = [buf EXCEPT ![t] = 1]

FreeAlways == "free"
-----------------------------------------------------------------------------
Take(t, n) == re' = [re EXCEPT ![t] = @ + n]

Start(t) == buf' = [buf EXCEPT ![t] = 0]

(* rte_eth_rx_burst returns packets, which are counted in re.              *)
RxBurst(t) ==
  /\ Running
  /\ pc[t] = "poll"
  /\ \E n \in 1 .. BurstSize :
       /\ n <= Len(filled[t])
       /\ bufs' = [bufs EXCEPT ![t] = SubSeq(filled[t], 1, n)]
       /\ filled' = [filled EXCEPT ![t] = SubSeq(@, n + 1, Len(@))]
       /\ Take(t, n)
  /\ Start(t)
  /\ pc' = [pc EXCEPT ![t] = "packets"]
  /\ UNCHANGED <<setup, pool, armed, flow, received, table, masterVars>>

(* The end of an iteration of a loop over the burst: on to the next buffer *)
(* or, after the last one, to what follows the loop.                       *)
IsLast(t) == buf[t] + 1 = Len(bufs[t])

Advance(t, next) ==
  IF IsLast(t)
    THEN buf' = [buf EXCEPT ![t] = 0] /\ pc' = [pc EXCEPT ![t] = next]
    ELSE buf' = [buf EXCEPT ![t] = @ + 1] /\ UNCHANGED pc

FreeHere(t) == IF FreesInLoop THEN Freed(Current(t)) ELSE UNCHANGED pool

AfterPackets == IF FreesAfter THEN "free" ELSE "poll"

(* The next packet of the burst: its flow is read, its buffer freed in the *)
(* versions that do it here, and the packet counted in the table.          *)
Packet(t) ==
  /\ Running
  /\ pc[t] = "packets"
  /\ buf[t] < Len(bufs[t])
  /\ FreeHere(t)
  /\ table' = [table EXCEPT ![flow[Current(t)]] = @ + 1]
  /\ Advance(t, AfterPackets)
  /\ UNCHANGED <<setup, nicVars, bufs, re, masterVars>>

(* The loop after it frees the buffers of the burst.                       *)
Free(t) ==
  /\ Running
  /\ pc[t] = "free"
  /\ buf[t] < Len(bufs[t])
  /\ Freed(Current(t))
  /\ Advance(t, "poll")
  /\ UNCHANGED <<setup, nicVars, bufs, counters, masterVars>>

-----------------------------------------------------------------------------
workers == <<pool, nicVars, threadVars, counters>>

(* handler: first the table is added up, entry by entry, then re is        *)
(* printed, queue by queue (in any order here).                            *)
Sigint ==
  /\ Interrupted
  /\ mpc = "wait"
  /\ mpc' = "table" /\ rest' = Flows
  /\ UNCHANGED <<setup, workers, sum, printed>>

SumEntry ==
  /\ mpc = "table"
  /\ \E f \in rest : sum' = sum + table[f] /\ rest' = rest \ {f}
  /\ UNCHANGED <<setup, workers, mpc, printed>>

SumEnds ==
  /\ mpc = "table"
  /\ rest = {}
  /\ mpc' = "queues" /\ rest' = Queues
  /\ UNCHANGED <<setup, workers, sum, printed>>

PrintQueue ==
  /\ mpc = "queues"
  /\ \E t \in rest : printed' = printed + re[t] /\ rest' = rest \ {t}
  /\ UNCHANGED <<setup, workers, mpc, sum>>

Exit ==
  /\ mpc = "queues"
  /\ rest = {}
  /\ mpc' = "exit"
  /\ UNCHANGED <<setup, workers, rest, sum, printed>>

-----------------------------------------------------------------------------
Thread(t) == Arm(t) \/ RxBurst(t) \/ Packet(t) \/ Free(t)
Handler == SumEntry \/ SumEnds \/ PrintQueue \/ Exit

Next == \/ \E t \in Queues : Thread(t) \/ \E f \in FlowsOf[t] : Arrive(t, f)
        \/ Sigint
        \/ Handler

Spec == Init /\ [][Next]_vars
-----------------------------------------------------------------------------
(* What a thread holds: the packets of its burst still to be processed,    *)
(* and the buffers still to be freed.                                      *)
FromBuf(t) == SubSeq(bufs[t], buf[t] + 1, Len(bufs[t]))

Unprocessed(t) == IF pc[t] = "packets" THEN FromBuf(t) ELSE <<>>

Unfreed(t) ==
  IF pc[t] = "packets" /\ ~FreesInLoop THEN bufs[t]
  ELSE IF pc[t] = "free" \/ pc[t] = "packets" THEN FromBuf(t)
  ELSE <<>>

(* How often a sequence s has an element of T.                             *)
Times(s, T) == Cardinality({i \in DOMAIN s : s[i] \in T})

(* Every buffer is in one place: it is freed once for each time that it is *)
(* taken from the pool, and is not filled while a thread holds it.         *)
NoAlias ==
  \A t \in Queues : \A b \in BufsOf[t] :
    pool[b] + Times(armed[t], {b}) + Times(filled[t], {b})
      + Times(Unfreed(t), {b}) = 1

BufsOfFlow(f) == {b \in Bufs : flow[b] = f}

(* "per-flow size" (README.md:22): the table counts a packet that was      *)
(* received once, for its own flow, or will when its buffer's turn comes.  *)
CountedOnce ==
  \A t \in Queues : \A f \in FlowsOf[t] :
    received[f] = table[f] + Times(filled[t], BufsOfFlow(f))
                    + Times(Unprocessed(t), BufsOfFlow(f))

(* The final report adds up: the table, summed first, has no more packets  *)
(* than the counters of the queues, printed later, and these no more than  *)
(* the NIC received, though neither is a snapshot.                         *)
ReportConsistent ==
  mpc = "exit" =>
    /\ sum <= printed
    /\ printed <= SumFunctionOnSet(received, Flows)
=============================================================================
