-------------------------- MODULE LthreadPipeline --------------------------
(***************************************************************************)
(* One rx lthread of the cooperative version (lthread/main.c) with the tx  *)
(* lthreads that its rings lead to.  The rx lthread hands each burst to    *)
(* the next ring and signals the condition variable of that ring once      *)
(* BURST_SIZE packets have gone to it since the last signal; a tx lthread  *)
(* that finds its ring empty waits for the signal.  lthreads are           *)
(* cooperative: each lcore runs the first of its ready queue until it      *)
(* yields or waits; different lcores interleave.                           *)
(*                                                                         *)
(* Packets and buffers are counted, not told apart: all are of one flow,   *)
(* and table is the counter of its slot.  The counters wrap at CtrMod.     *)
(***************************************************************************)
EXTENDS Integers, Sequences, FiniteSets, Functions

CONSTANTS NW,           \* n_ring: rings of the rx lthread, one tx lthread each
          Setups,       \* the command lines: see Setup
          PoolSize,     \* NB_MBUF
          NbDesc,       \* nb_rxd
          MaxBurst,     \* MAX_PKT_BURST, which is also BURST_SIZE
          RingCap,      \* 65536*4 - 1: what a ring holds
          CtrMod        \* values of a counter

Workers == 0 .. NW - 1
Rx == NW
Lthreads == Workers \cup {Rx}

(* What a command line decides: the lcore that each lthread moves to, and  *)
(* n_rx_queue, the number of condition variables that are initialised.     *)
Setup == [lcoreOf : [Lthreads -> Nat], nCond : Nat]

ASSUME LthreadAssumption ==
  /\ NW \in Nat \ {0}
  /\ Setups \subseteq Setup
  /\ PoolSize \in Nat \ {0} /\ NbDesc \in Nat \ {0}
  /\ MaxBurst \in Nat \ {0} /\ RingCap \in Nat \ {0}
  /\ CtrMod \in Nat \ {0}

VARIABLES setup,        \* the setup of this run
          pool,         \* free buffers
          armed,        \* descriptors that can take a packet
          nic,          \* packets in descriptors
          received,     \* ipackets
          rxpc,         \* next step of the rx lthread: poll, enqueue or signal
          burst,        \* what it holds of pkts_burst
          worker_id,    \* the ring that its last burst went to
          len,          \* worker -> packets since the last signal
          ring,         \* worker -> packets in its ring
          txpc,         \* worker -> next step: poll, free, store or wait
          txburst,      \* worker -> packets that it holds
          re,           \* worker -> packets it has dequeued
          table,        \* the counter of the flow
          seen,         \* worker -> the counter as read, 0 once written
          ring_loss,    \* packets that found the ring full
          ready,        \* lcore -> its ready lthreads, the running one first
          blocked       \* worker -> is it in the queue of its condition?

nicVars == <<armed, nic, received>>
rxVars == <<rxpc, burst, worker_id, len, ring_loss>>
txVars == <<txpc, txburst, re, table, seen>>
schedVars == <<ready, blocked>>
vars == <<setup, pool, nicVars, rxVars, ring, txVars, schedVars>>

LcoreOf == setup.lcoreOf
Lcores == {LcoreOf[x] : x \in Lthreads}

TypeOK ==
  /\ setup \in Setups
  /\ pool \in 0 .. PoolSize /\ armed \in 0 .. NbDesc /\ nic \in 0 .. NbDesc
  /\ received \in 0 .. CtrMod - 1
  /\ rxpc \in {"poll", "enqueue", "signal"}
  /\ burst \in 0 .. MaxBurst
  /\ worker_id \in Workers
  /\ len \in [Workers -> Nat]
  /\ ring \in [Workers -> 0 .. RingCap]
  /\ txpc \in [Workers -> {"poll", "free", "store", "wait"}]
  /\ txburst \in [Workers -> 0 .. MaxBurst]
  /\ re \in [Workers -> 0 .. CtrMod - 1]
  /\ table \in 0 .. CtrMod - 1
  /\ seen \in [Workers -> 0 .. CtrMod - 1]
  /\ ring_loss \in 0 .. CtrMod - 1
  /\ ready \in [Lcores -> Seq(Lthreads)]
  /\ blocked \in [Workers -> BOOLEAN]

AtMost(m, n) == IF m < n THEN m ELSE n

(* The ready queue of an lcore when the first n tx lthreads are created,   *)
(* after the rx lthread: each is appended to the queue of its lcore.       *)
Created(l) ==
  LET queue[n \in 0 .. NW] ==
        IF n = 0 THEN IF LcoreOf[Rx] = l THEN <<Rx>> ELSE <<>>
        ELSE IF LcoreOf[n - 1] = l THEN Append(queue[n - 1], n - 1)
        ELSE queue[n - 1]
  IN  queue[NW]

Init ==
  /\ setup \in Setups
  /\ armed = AtMost(PoolSize, NbDesc)
  /\ pool = PoolSize - armed
  /\ nic = 0 /\ received = 0
  /\ rxpc = "poll" /\ burst = 0 /\ worker_id = 0
  /\ len = [w \in Workers |-> 0]
  /\ ring = [w \in Workers |-> 0]
  /\ txpc = [w \in Workers |-> "poll"]
  /\ txburst = [w \in Workers |-> 0]
  /\ re = [w \in Workers |-> 0]
  /\ table = 0 /\ seen = [w \in Workers |-> 0]
  /\ ring_loss = 0
  /\ ready = [l \in Lcores |-> Created(l)]
  /\ blocked = [w \in Workers |-> FALSE]

(* The addition of a counter.                                              *)
Plus(m, n) == (m + n) % CtrMod

-----------------------------------------------------------------------------
(* The lthread scheduler, external: an lthread runs until it yields, going *)
(* to the end of the ready queue, or waits, leaving the ready queue.       *)
Running(x) ==
  /\ ready[LcoreOf[x]] # <<>>
  /\ Head(ready[LcoreOf[x]]) = x

Yielded(r, x) == [r EXCEPT ![LcoreOf[x]] = Append(Tail(@), x)]

(* lthread_cond_signal: the waiting lthread, if any, becomes ready; a      *)
(* signal that finds none is lost, and so is one to a NULL condition.      *)
Woken(w) ==
  IF blocked[w] THEN [ready EXCEPT ![LcoreOf[w]] = Append(@, w)] ELSE ready

Signal(w) == blocked' = [blocked EXCEPT ![w] = FALSE]

(* lthread_cond_wait: queues the lthread and suspends it; returns at once  *)
(* when the condition is NULL.                                             *)
Wait(w) ==
  IF w < setup.nCond
    THEN /\ blocked' = [blocked EXCEPT ![w] = TRUE]
         /\ ready' = [ready EXCEPT ![LcoreOf[w]] = Tail(@)]
    ELSE UNCHANGED schedVars

-----------------------------------------------------------------------------
(* The NIC, external; a packet without an armed descriptor is missed.      *)
Arrive ==
  /\ armed > 0
  /\ armed' = armed - 1 /\ nic' = nic + 1
  /\ received' = Plus(received, 1)
  /\ UNCHANGED <<setup, pool, rxVars, ring, txVars, schedVars>>

(* rte_eth_rx_burst: re-arms descriptors with what is in the pool, returns *)
(* some of the packets; when there is none the rx lthread yields.          *)
RxPoll ==
  /\ Running(Rx)
  /\ rxpc = "poll"
  /\ LET k == AtMost(pool, NbDesc - armed - nic) IN
       /\ armed' = armed + k
       /\ pool' = pool - k
  /\ IF nic = 0
       THEN /\ ready' = Yielded(ready, Rx)
            /\ UNCHANGED <<nic, rxpc, burst>>
       ELSE /\ \E n \in 1 .. AtMost(nic, MaxBurst) :
                 burst' = n /\ nic' = nic - n
            /\ rxpc' = "enqueue"
            /\ UNCHANGED ready
  /\ UNCHANGED <<setup, received, worker_id, len, ring_loss, ring, txVars,
                 blocked>>

Room(w) == RingCap - ring[w]

(* The burst goes to the next ring, as much of it as fits.                 *)
RxEnqueue ==
  /\ Running(Rx)
  /\ rxpc = "enqueue"
  /\ LET w == (worker_id + 1) % NW
         ret == AtMost(burst, Room(w))
     IN  /\ worker_id' = w
         /\ ring' = [ring EXCEPT ![w] = @ + ret]
         /\ len' = [len EXCEPT ![w] = @ + ret]
         /\ burst' = burst - ret
  /\ rxpc' = "signal"
  /\ UNCHANGED <<setup, pool, nicVars, ring_loss, txVars, schedVars>>

-----------------------------------------------------------------------------
(* Mutations of the definitions below.                                     *)
DueLate(w) == len[w] > MaxBurst

FreeNone == UNCHANGED pool

LossUncounted == UNCHANGED ring_loss
-----------------------------------------------------------------------------
Due(w) == len[w] >= MaxBurst

FreeRest == pool' = pool + burst

CountLoss == ring_loss' = Plus(ring_loss, burst)

(* The signal, when due; what did not fit is counted and freed; yield.     *)
RxSignal ==
  /\ Running(Rx)
  /\ rxpc = "signal"
  /\ IF Due(worker_id)
       THEN /\ Signal(worker_id)
            /\ ready' = Yielded(Woken(worker_id), Rx)
            /\ len' = [len EXCEPT ![worker_id] = 0]
       ELSE /\ ready' = Yielded(ready, Rx)
            /\ UNCHANGED <<blocked, len>>
  /\ CountLoss
  /\ FreeRest
  /\ burst' = 0
  /\ rxpc' = "poll"
  /\ UNCHANGED <<setup, nicVars, worker_id, ring, txVars>>

-----------------------------------------------------------------------------
(* lthread_tx_per_ring: a burst is taken off the ring and counted.         *)
TxDequeue(w) ==
  /\ Running(w)
  /\ txpc[w] = "poll"
  /\ LET n == AtMost(ring[w], MaxBurst) IN
       /\ ring' = [ring EXCEPT ![w] = @ - n]
       /\ txburst' = [txburst EXCEPT ![w] = n]
       /\ re' = [re EXCEPT ![w] = Plus(@, n)]
       /\ txpc' = [txpc EXCEPT ![w] = IF n > 0 THEN "free" ELSE "wait"]
  /\ UNCHANGED <<setup, pool, nicVars, rxVars, table, seen, schedVars>>

(* Mutation: the last packet of a burst is freed only.                     *)
SkipLast(w) == IF txburst[w] = 1 THEN "poll" ELSE "store"

AfterFree(w) == "store"

(* The next packet is freed and its flow's counter read (DoubleHash says   *)
(* which one it is).                                                       *)
TxFree(w) ==
  /\ Running(w)
  /\ txpc[w] = "free"
  /\ pool' = pool + 1
  /\ txburst' = [txburst EXCEPT ![w] = @ - 1]
  /\ seen' = [seen EXCEPT ![w] = table]
  /\ txpc' = [txpc EXCEPT ![w] = AfterFree(w)]
  /\ UNCHANGED <<setup, nicVars, rxVars, ring, re, table, schedVars>>

(* The counter is written back, and another lcore may have written it.     *)
TxStore(w) ==
  /\ Running(w)
  /\ txpc[w] = "store"
  /\ table' = Plus(seen[w], 1)
  /\ seen' = [seen EXCEPT ![w] = 0]
  /\ txpc' = [txpc EXCEPT ![w] = IF txburst[w] > 0 THEN "free" ELSE "poll"]
  /\ UNCHANGED <<setup, pool, nicVars, rxVars, ring, txburst, re, schedVars>>

(* The ring was empty when it was last looked at.                          *)
TxWait(w) ==
  /\ Running(w)
  /\ txpc[w] = "wait"
  /\ Wait(w)
  /\ txpc' = [txpc EXCEPT ![w] = "poll"]
  /\ UNCHANGED <<setup, pool, nicVars, rxVars, ring, txburst, re, table, seen>>

-----------------------------------------------------------------------------
RxStep == RxPoll \/ RxEnqueue \/ RxSignal
TxStep(w) == TxDequeue(w) \/ TxFree(w) \/ TxStore(w) \/ TxWait(w)

Next == Arrive \/ RxStep \/ \E w \in Workers : TxStep(w)

Spec == Init /\ [][Next]_vars

(* Every lcore runs its scheduler without pause, and the traffic goes on.  *)
FairSpec == /\ Spec
            /\ WF_vars(Arrive)
            /\ WF_vars(RxStep)
            /\ \A w \in Workers : WF_vars(TxStep(w))
-----------------------------------------------------------------------------
HasCond(w) == w < setup.nCond

Beside == {w \in Workers : HasCond(w) /\ LcoreOf[w] = LcoreOf[Rx]}

Total(f) == SumFunctionOnSet(f, Workers)

(* Every buffer is in the pool, in the descriptors, with the rx lthread,   *)
(* in a ring or with a tx lthread: what a full ring refuses is freed, once *)
(* (lthread_rx), and what is dequeued is freed, once.                      *)
Conservation ==
  pool + armed + nic + burst + Total(ring) + Total(txburst) = PoolSize

(* ring_loss and re account, modulo the width of the counters, for every   *)
(* packet that the NIC received and that no lthread holds uncounted.       *)
Accounting ==
  received = (nic + burst + Total(ring) + Total(re) + ring_loss) % CtrMod

(* The slot counts every packet that was taken off a ring and is not still *)
(* to be counted, as long as the tx lthreads share an lcore: they do not   *)
(* yield between the reading and the writing of a counter.  (On two lcores *)
(* they may lose packets of each other, as the bursts of a queue go to     *)
(* both.)                                                                  *)
SlotExact ==
  (\A v, w \in Workers : LcoreOf[v] = LcoreOf[w]) =>
    Total(re) % CtrMod =
      (table + Total(txburst)
         + Cardinality({w \in Workers : txpc[w] = "store"})) % CtrMod

(* Beside the rx lthread no signal is lost: a tx lthread sleeps on less    *)
(* than a burst, all of it still to be signalled, as nothing else runs     *)
(* between its look at the ring and its wait, nor between an enqueue and   *)
(* its signal.                                                             *)
SleepsOnResidue ==
  \A w \in Beside :
    blocked[w] /\ ~(rxpc = "signal" /\ worker_id = w) =>
      ring[w] <= len[w] /\ len[w] < MaxBurst
=============================================================================
