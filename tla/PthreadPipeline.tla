-------------------------- MODULE PthreadPipeline --------------------------
(***************************************************************************)
(* The pthread (pipeline) version at work (pthread/main.c): rx thread t    *)
(* polls receive queue t and hands the bursts to a single-producer,        *)
(* single-consumer ring; tx thread t takes bursts off the ring, adds them  *)
(* to gCtr[t], and for each packet frees its buffer and updates the shared *)
(* DOUBLE_HASH table.  The master thread prints totals from a timer, and a *)
(* final report from the SIGINT handler, which exits the process.  No lock *)
(* is taken anywhere.  The configuration is the intended one: one queue,   *)
(* one ring and one tx thread for each rx thread, on lcores of their own.  *)
(*                                                                         *)
(* A packet is the pair of its bucket (low half of the RSS hash) and its   *)
(* high half; a buffer (mbuf) is counted where it is: in the pool of its   *)
(* queue, armed or filled in the queue's descriptors, in the local array   *)
(* of a thread, in the ring, or leaked.                                    *)
(***************************************************************************)
EXTENDS Integers, Sequences, FiniteSets, Functions

CONSTANTS N,            \* n_rx_thread = n_tx_thread
          NumBuckets,   \* FLOW_NUM
          Highs,        \* the high halves that occur
          QueueOf,      \* bucket -> the queue that RSS chooses for it
          PoolSize,     \* 5000: buffers in the pool of a queue
          NbDesc,       \* nb_rx_desc: descriptors of a queue
          BurstSize,    \* burst_size
          RingCap,      \* RX_RING_SZ - 1: what a ring holds
          MaxPkts,      \* bound of the model: packets that arrive
          MaxTicks,     \* bound of the model: timer callbacks that start
          Interrupted   \* may SIGINT come?

Threads == 0 .. N - 1
Buckets == 0 .. NumBuckets - 1
Flows == Buckets \X Highs

ASSUME PipelineAssumption ==
  /\ N \in Nat \ {0}
  /\ NumBuckets \in Nat \ {0}
  /\ Highs \subseteq Nat /\ IsFiniteSet(Highs)
  /\ QueueOf \in [Buckets -> Threads]
  /\ NbDesc \in Nat \ {0}
  /\ PoolSize \in Nat /\ PoolSize > NbDesc
  /\ BurstSize \in Nat \ {0}
  /\ RingCap \in Nat \ {0}
  /\ MaxPkts \in Nat
  /\ MaxTicks \in Nat
  /\ Interrupted \in BOOLEAN

VARIABLES pool,         \* queue -> free buffers of its pool
          nic,          \* queue -> packets in filled descriptors
          received,     \* ipackets: packets that found a descriptor
          missed,       \* imissed: packets that found none
          rxbufs,       \* rx thread -> its local burst
          ring,         \* ring[0] of the rx thread
          txbufs,       \* tx thread -> what is left of its local burst
          gCtr,         \* tx thread -> packets dequeued
          hi,           \* bucket -> <<hi_f1, hi_f2>>
          ctr,          \* bucket -> <<ctr[0], ctr[1]>>
          leaked,       \* queue -> buffers that nobody holds any more
          seen,         \* flow -> packets processed (history)
          pc,           \* what the master does: wait, timer, count,
                        \*   flows or exit
          idx,          \* its loop index
          sum,          \* its running sum
          old,          \* the total of the last timer callback
          ticks,        \* timer callbacks started (bounds the model)
          printed       \* the total and the number of flows of the report

nicVars == <<nic, received, missed>>
tableVars == <<hi, ctr, seen>>
masterVars == <<pc, idx, sum, old, ticks, printed>>
vars == <<pool, nicVars, rxbufs, ring, txbufs, gCtr, tableVars, leaked,
          masterVars>>

TypeOK ==
  /\ pool \in [Threads -> 0 .. PoolSize]
  /\ nic \in [Threads -> Seq(Flows)]
  /\ received \in Nat /\ missed \in Nat
  /\ rxbufs \in [Threads -> Seq(Flows)]
  /\ ring \in [Threads -> Seq(Flows)]
  /\ txbufs \in [Threads -> Seq(Flows)]
  /\ gCtr \in [Threads -> Nat]
  /\ hi \in [Buckets -> [1 .. 2 -> Highs \cup {0}]]
  /\ ctr \in [Buckets -> [1 .. 2 -> Nat]]
  /\ leaked \in [Threads -> Nat]
  /\ seen \in [Flows -> Nat]
  /\ pc \in {"wait", "timer", "count", "flows", "exit"}
  /\ idx \in Nat /\ sum \in Nat /\ old \in Nat /\ ticks \in Nat
  /\ printed \in [total : Nat, flows : Nat]

Init ==
  /\ pool = [t \in Threads |-> PoolSize - NbDesc]
  /\ nic = [t \in Threads |-> <<>>]
  /\ received = 0 /\ missed = 0
  /\ rxbufs = [t \in Threads |-> <<>>]
  /\ ring = [t \in Threads |-> <<>>]
  /\ txbufs = [t \in Threads |-> <<>>]
  /\ gCtr = [t \in Threads |-> 0]
  /\ hi = [b \in Buckets |-> [k \in 1 .. 2 |-> 0]]
  /\ ctr = [b \in Buckets |-> [k \in 1 .. 2 |-> 0]]
  /\ leaked = [t \in Threads |-> 0]
  /\ seen = [f \in Flows |-> 0]
  /\ pc = "wait" /\ idx = 0 /\ sum = 0 /\ old = 0 /\ ticks = 0
  /\ printed = [total |-> 0, flows |-> 0]

Running == pc # "exit"

AtMost(m, n) == IF m < n THEN m ELSE n

-----------------------------------------------------------------------------
(* Mutations of the definitions below.                                     *)
DropOneMore(s, n) == SubSeq(s, n + 2, Len(s))

RingRoomBurst(t) ==     \* the ring is made for one burst, not for the pool
  AtMost(BurstSize, RingCap) - Len(ring[t])

CountAssigned(t, n) == gCtr' = [gCtr EXCEPT ![t] = n]

CountTwice(t, n) == gCtr' = [gCtr EXCEPT ![t] = @ + 2 * n]

FreeTwice(t) == pool' = [pool EXCEPT ![t] = @ + 2]

EnqueueFirst(t) ==      \* every rx thread writes to the first ring
  /\ Running
  /\ rxbufs[t] # <<>>
  /\ LET n == AtMost(Len(rxbufs[t]), RingCap - Len(ring[0])) IN
       /\ ring' = [ring EXCEPT ![0] = @ \o SubSeq(rxbufs[t], 1, n)]
       /\ leaked' = [leaked EXCEPT ![t] = @ + (Len(rxbufs[t]) - n)]
  /\ rxbufs' = [rxbufs EXCEPT ![t] = <<>>]
  /\ UNCHANGED <<pool, nicVars, txbufs, gCtr, tableVars, masterVars>>

SlotForUnchecked(names, h) ==   \* the flow of slot 1 may take slot 2 as well
  IF names[1] = 0 THEN 1
  ELSE IF names[2] = 0 THEN 2
  ELSE IF names[1] = h THEN 1
  ELSE IF names[2] = h THEN 2
  ELSE 0

InUsePasted(b) == IF ctr[b][1] > 0 THEN 2 ELSE 0
-----------------------------------------------------------------------------
(* A burst s is cut after its n first packets.                             *)
FirstOf(s, n) == SubSeq(s, 1, n)
DropOf(s, n) == SubSeq(s, n + 1, Len(s))
-----------------------------------------------------------------------------
(* The NIC, external: a packet is written to an armed descriptor of the    *)
(* queue that RSS chooses, or missed when there is none.                   *)
Arrive(f) ==
  LET t == QueueOf[f[1]] IN
  /\ Running
  /\ received + missed < MaxPkts
  /\ IF Len(nic[t]) < NbDesc
       THEN /\ nic' = [nic EXCEPT ![t] = Append(@, f)]
            /\ received' = received + 1
            /\ UNCHANGED missed
       ELSE /\ missed' = missed + 1
            /\ UNCHANGED <<nic, received>>
  /\ UNCHANGED <<pool, rxbufs, ring, txbufs, gCtr, tableVars, leaked,
                 masterVars>>

-----------------------------------------------------------------------------
(* lcore_main_rx: rte_eth_rx_burst returns some of the packets of the      *)
(* queue, as many as the pool has buffers to replace theirs.               *)
RxBurst(t) ==
  /\ Running
  /\ rxbufs[t] = <<>>
  /\ \E n \in 1 .. AtMost(Len(nic[t]), AtMost(BurstSize, pool[t])) :
       /\ rxbufs' = [rxbufs EXCEPT ![t] = FirstOf(nic[t], n)]
       /\ nic' = [nic EXCEPT ![t] = DropOf(@, n)]
       /\ pool' = [pool EXCEPT ![t] = @ - n]
  /\ UNCHANGED <<received, missed, ring, txbufs, gCtr, tableVars, leaked,
                 masterVars>>

RingRoom(t) == RingCap - Len(ring[t])

(* lcore_main_rx: rte_ring_enqueue_burst takes what fits; its result is    *)
(* ignored and the local array is reused, so that the rest is leaked.      *)
Enqueue(t) ==
  /\ Running
  /\ rxbufs[t] # <<>>
  /\ LET n == AtMost(Len(rxbufs[t]), RingRoom(t)) IN
       /\ ring' = [ring EXCEPT ![t] = @ \o FirstOf(rxbufs[t], n)]
       /\ leaked' = [leaked EXCEPT ![t] = @ + (Len(rxbufs[t]) - n)]
  /\ rxbufs' = [rxbufs EXCEPT ![t] = <<>>]
  /\ UNCHANGED <<pool, nicVars, txbufs, gCtr, tableVars, masterVars>>

-----------------------------------------------------------------------------
(* gCtr[q] += nb_rx                                                        *)
CountBurst(t, n) == gCtr' = [gCtr EXCEPT ![t] = @ + n]

(* lcore_main_count_double_hash: a burst is taken off the ring and counted *)
(* in gCtr before any of its packets is looked at.                         *)
Dequeue(t) ==
  /\ Running
  /\ txbufs[t] = <<>>
  /\ ring[t] # <<>>
  /\ LET n == AtMost(Len(ring[t]), BurstSize) IN
       /\ txbufs' = [txbufs EXCEPT ![t] = FirstOf(ring[t], n)]
       /\ ring' = [ring EXCEPT ![t] = DropOf(@, n)]
       /\ CountBurst(t, n)
  /\ UNCHANGED <<pool, nicVars, rxbufs, tableVars, leaked, masterVars>>

(* The slot that counts a packet of flow h in a bucket named names: the    *)
(* first slot that is free or named h; 0 when there is none.               *)
SlotFor(names, h) ==
  IF names[1] \in {0, h} THEN 1
  ELSE IF names[2] \in {0, h} THEN 2
  ELSE 0

(* rte_pktmbuf_free: the buffer returns to the pool of its queue.          *)
FreeBuffer(t) == pool' = [pool EXCEPT ![t] = @ + 1]

(* The body of the loop over the burst: free the buffer, then claim or hit *)
(* a slot; a packet of a third flow is in no counter of the table.         *)
Process(t) ==
  /\ Running
  /\ txbufs[t] # <<>>
  /\ LET f == Head(txbufs[t])
         k == SlotFor(hi[f[1]], f[2])
     IN  /\ IF k = 0
              THEN UNCHANGED <<hi, ctr>>
              ELSE /\ hi' = [hi EXCEPT ![f[1]][k] = f[2]]
                   /\ ctr' = [ctr EXCEPT ![f[1]][k] = @ + 1]
         /\ seen' = [seen EXCEPT ![f] = @ + 1]
  /\ txbufs' = [txbufs EXCEPT ![t] = Tail(@)]
  /\ FreeBuffer(t)
  /\ UNCHANGED <<nicVars, rxbufs, ring, gCtr, leaked, masterVars>>

-----------------------------------------------------------------------------
workers == <<pool, nicVars, rxbufs, ring, txbufs, gCtr, tableVars, leaked>>

(* timer_cb, on the master: sums gCtr entry by entry while the tx threads  *)
(* go on, and keeps the total to compute the rate of the next second.      *)
TimerStart ==
  /\ pc = "wait"
  /\ ticks < MaxTicks
  /\ pc' = "timer" /\ idx' = 0 /\ sum' = 0 /\ ticks' = ticks + 1
  /\ UNCHANGED <<workers, old, printed>>

TimerRead ==
  /\ pc = "timer"
  /\ idx < N
  /\ sum' = sum + gCtr[idx] /\ idx' = idx + 1
  /\ UNCHANGED <<workers, pc, old, ticks, printed>>

TimerEnd ==
  /\ pc = "timer"
  /\ idx = N
  /\ old' = sum /\ pc' = "wait"
  /\ UNCHANGED <<workers, idx, sum, ticks, printed>>

(* handler: SIGINT interrupts the master wherever it is; first the sum of  *)
(* gCtr, then the slots in use, bucket by bucket, then exit.               *)
Sigint ==
  /\ Interrupted
  /\ pc \in {"wait", "timer"}
  /\ pc' = "count" /\ idx' = 0 /\ sum' = 0
  /\ UNCHANGED <<workers, old, ticks, printed>>

CountRead ==
  /\ pc = "count"
  /\ idx < N
  /\ sum' = sum + gCtr[idx] /\ idx' = idx + 1
  /\ UNCHANGED <<workers, pc, old, ticks, printed>>

CountEnd ==
  /\ pc = "count"
  /\ idx = N
  /\ printed' = [printed EXCEPT !.total = sum]
  /\ pc' = "flows" /\ idx' = 0 /\ sum' = 0
  /\ UNCHANGED <<workers, old, ticks>>

InUse(b) == (IF ctr[b][1] > 0 THEN 1 ELSE 0) + (IF ctr[b][2] > 0 THEN 1 ELSE 0)

FlowsRead ==
  /\ pc = "flows"
  /\ idx < NumBuckets
  /\ sum' = sum + InUse(idx) /\ idx' = idx + 1
  /\ UNCHANGED <<workers, pc, old, ticks, printed>>

Exit ==
  /\ pc = "flows"
  /\ idx = NumBuckets
  /\ printed' = [printed EXCEPT !.flows = sum]
  /\ pc' = "exit"
  /\ UNCHANGED <<workers, idx, sum, old, ticks>>

-----------------------------------------------------------------------------
Rx(t) == RxBurst(t) \/ Enqueue(t)
Tx(t) == Dequeue(t) \/ Process(t)
Timer == TimerStart \/ TimerRead \/ TimerEnd
Handler == CountRead \/ CountEnd \/ FlowsRead \/ Exit

Next == \/ \E f \in Flows : Arrive(f)
        \/ \E t \in Threads : Rx(t) \/ Tx(t)
        \/ Timer
        \/ Sigint
        \/ Handler

Spec == Init /\ [][Next]_vars

(* The rx and tx threads poll without pause on lcores of their own.        *)
FairSpec == Spec /\ \A t \in Threads : WF_vars(Rx(t)) /\ WF_vars(Tx(t))
-----------------------------------------------------------------------------
(* The buffers of a queue are all accounted for, each in one place: the rx *)
(* thread, the ring and the tx thread pass them on, and free each once.    *)
Conservation ==
  \A t \in Threads :
    pool[t] + NbDesc + Len(rxbufs[t]) + Len(ring[t]) + Len(txbufs[t])
      + leaked[t] = PoolSize

(* Ignoring the result of rte_ring_enqueue_burst loses no buffer: the ring *)
(* holds all the buffers that the pool can have outside the descriptors    *)
(* (RingIsLarge; 65535 for 5000).                                          *)
NoLeak == \A t \in Threads : leaked[t] = 0

RingIsLarge == PoolSize - NbDesc <= RingCap

(* The entries of the shared table that a tx thread writes are its own:    *)
(* a packet is only ever held by the threads of the queue of its bucket.   *)
Owned(s, t) == \A j \in 1 .. Len(s) : QueueOf[s[j][1]] = t

BucketOwned ==
  \A t \in Threads : /\ Owned(nic[t], t)
                     /\ Owned(rxbufs[t], t)
                     /\ Owned(ring[t], t)
                     /\ Owned(txbufs[t], t)

-----------------------------------------------------------------------------
(* The packets between the NIC and the table, in the order of arrival.     *)
Fifo(t) == txbufs[t] \o ring[t] \o rxbufs[t] \o nic[t]

Queue == INSTANCE CountingQueue WITH
  Queues <- Threads,
  fifo <- [t \in Threads |-> Fifo(t)],
  count <- seen

(* Seen from outside, the ring, the bursts and the NIC queue are one FIFO: *)
(* no packet is lost, duplicated or overtaken between the NIC and the      *)
(* table, whatever the interleaving of the threads.                        *)
ImplementsQueue == Queue!Spec

-----------------------------------------------------------------------------
(* The table that the tx threads share without a lock is an ideal table of *)
(* two flows per bucket that keeps no rest.                                *)
Names(b) == {hi[b][1], hi[b][2]} \ {0}

Table == INSTANCE FlowCount WITH
  Capacity <- 2,
  KeepsRest <- FALSE,
  CtrMod <- MaxPkts + 1,
  offered <- [b \in Buckets |-> [h \in Highs |-> seen[<<b, h>>]]],
  tracked <- [b \in Buckets |-> Names(b)],
  count <- [b \in Buckets |-> [h \in Highs |->
             IF h \in Names(b) THEN ctr[b][IF hi[b][1] = h THEN 1 ELSE 2]
                               ELSE 0]],
  rest <- [b \in Buckets |-> 0]

ImplementsFlowCount == Table!Spec

-----------------------------------------------------------------------------
Dequeued == SumFunctionOnSet(gCtr, Threads)

(* The total of the final report is at least the one of the last timer     *)
(* line, and at most what has been dequeued and so what was received,      *)
(* although the entries of gCtr were read at different times and not even  *)
(* from the beginning when SIGINT interrupted the timer.                   *)
ReportedTotal ==
  /\ Dequeued <= received
  /\ pc \in {"flows", "exit"} =>
       /\ old <= printed.total
       /\ printed.total <= Dequeued

(* No negative RX rate: the total of a timer line is never below the one   *)
(* of the line before (timer_cb prints j - old).                           *)
RateNotNegative == [][old' >= old]_vars

(* The number of flows of the final report counts no flow that sent no     *)
(* packet, and none twice, though the table changes during the walk.       *)
ReportedFlows ==
  pc = "exit" => printed.flows <= Cardinality({f \in Flows : seen[f] > 0})
=============================================================================
