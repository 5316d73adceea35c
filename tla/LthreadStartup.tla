--------------------------- MODULE LthreadStartup ---------------------------
(***************************************************************************)
(* How the lthreads of lthread/main.c come to run: lthread_spawner creates *)
(* the rx lthreads, waits until each has counted itself, and only then     *)
(* creates the tx lthreads, each of which creates a reader of its ring.    *)
(* lcores run in parallel; on an lcore an lthread runs until it yields,    *)
(* sleeps, waits or moves to another lcore.                                *)
(*                                                                         *)
(* A setup is what Configuration leaves: the lists of --rx and --tx, of    *)
(* which ThreadTables makes the threads.  The packets are counted in       *)
(* bursts; LthreadPipeline has the details of the rings, and when exactly  *)
(* a signal is due: here any burst may bring one.                          *)
(***************************************************************************)
EXTENDS ThreadTables, FiniteSetsExt

CONSTANTS Setups,       \* [rx, tx, lcores, master]
          RingCap,      \* capacity of a ring, in bursts
          CtrMod,       \* counters are taken modulo this
          None          \* no lthread

(* Configuration leaves no thread on an lcore that is not enabled, except  *)
(* a tx thread, which has no scheduler to move to then: not modelled.      *)
ASSUME StartupAssumption ==
  /\ \A s \in Setups :
       /\ s.rx \in Seq(Params) /\ s.tx \in Seq(TxParams)
       /\ s.master \in s.lcores
       /\ \A t \in 0 .. NThreads(s.rx) - 1 : RxThread(s.rx, t).lcore \in s.lcores
       /\ \A k \in DOMAIN s.tx : s.tx[k].lcore \in s.lcores
  /\ RingCap \in Nat /\ CtrMod \in Nat \ {0}
  /\ None \notin {"spawner", "rx", "tx", "reader"} \X Nat

VARIABLES setup,
          ready,        \* lcore -> its queue of lthreads that may run
          cur,          \* lcore -> the lthread that runs, or None
          at,           \* lthread -> where it is
          rx_counter,
          cond,         \* <<rx thread, index>> of initialised conditions
          copied,       \* tx thread -> its reader has a condition
          worker,       \* rx thread -> worker_id
          fill,         \* tx thread -> bursts in its ring
          re,           \* tx thread -> bursts its reader has taken
          batch_n,      \* queue -> bursts received from it
          ring_loss,    \* bursts that a ring had no room for
          crashed

sched == <<ready, cur>>
traffic == <<worker, fill, re, batch_n, ring_loss>>
vars == <<setup, sched, at, rx_counter, cond, copied, traffic, crashed>>

-----------------------------------------------------------------------------
NRx == NThreads(setup.rx)
NTx == Len(setup.tx)
RxIds == 0 .. NRx - 1
TxIds == 0 .. NTx - 1
Queues == {setup.rx[k].queue : k \in DOMAIN setup.rx}

(* The lthreads.                                                           *)
Spawner == <<"spawner", 0>>
RxL(i) == <<"rx", i>>
TxL(i) == <<"tx", i>>
Reader(i) == <<"reader", i>>
Lthreads == {Spawner} \cup {RxL(i) : i \in RxIds}
              \cup {TxL(i) : i \in TxIds} \cup {Reader(i) : i \in TxIds}

RxConf(i) == RxThread(setup.rx, i)
TxConf(i) == setup.tx[i + 1]
NQueues(i) == Len(RxConf(i).queues)
Rings(i) == RingsOf(setup.tx, i)

(* tx_conf->ready: the condition of the rx thread for this ring.           *)
Ready(i) ==
  <<TxConf(i).thread,
    Cardinality({j \in TxIds : j < i /\ TxConf(j).thread = TxConf(i).thread})>>

Add(n, k) == (n + k) % CtrMod

-----------------------------------------------------------------------------
(* The scheduler.                                                          *)

Runs(t, l) == cur[l] = t /\ ~crashed

(* The lthread that runs on l goes on, or gives way and the lthreads in s  *)
(* become ready: on l, on another lcore.                                   *)
GoOn == UNCHANGED sched

Leave(l) == cur' = [cur EXCEPT ![l] = None]

yield(t, l) == Leave(l) /\ ready' = [ready EXCEPT ![l] = Append(@, t)]

block(l) == Leave(l) /\ UNCHANGED ready

(* lthread_set_affinity: nothing happens on the lcore that it asks for.    *)
set_affinity(t, l, m) ==
  IF m = l THEN GoOn
  ELSE Leave(l) /\ ready' = [ready EXCEPT ![m] = Append(@, t)]

Dispatch(l) ==
  /\ ~crashed
  /\ cur[l] = None /\ ready[l] # <<>>
  /\ cur' = [cur EXCEPT ![l] = Head(ready[l])]
  /\ ready' = [ready EXCEPT ![l] = Tail(@)]
  /\ UNCHANGED <<setup, at, rx_counter, cond, copied, traffic, crashed>>

-----------------------------------------------------------------------------
(* Every lcore has its scheduler; the master's has the spawner.            *)
Init ==
  /\ setup \in Setups
  /\ ready = [l \in setup.lcores |->
                IF l = setup.master THEN <<Spawner>> ELSE <<>>]
  /\ cur = [l \in setup.lcores |-> None]
  /\ at = [t \in Lthreads |-> IF t = Spawner THEN "start" ELSE "none"]
  /\ rx_counter = 0 /\ cond = {} /\ copied = [i \in TxIds |-> FALSE]
  /\ worker = [i \in RxIds |-> 0] /\ fill = [i \in TxIds |-> 0]
  /\ re = [i \in TxIds |-> 0] /\ batch_n = [q \in Queues |-> 0]
  /\ ring_loss = 0 /\ crashed = FALSE

-----------------------------------------------------------------------------
(* lthread_spawner.                                                        *)

Created(ts) == [t \in Lthreads |-> IF t \in Range(ts) THEN "start" ELSE at[t]]

CreateRx(l) ==
  /\ Runs(Spawner, l) /\ at[Spawner] = "start"
  /\ LET rxs == [i \in 1 .. NRx |-> RxL(i - 1)] IN
     /\ at' = [Created(rxs) EXCEPT ![Spawner] = "wait"]
     /\ ready' = [ready EXCEPT ![l] = @ \o rxs]
  /\ UNCHANGED <<setup, cur, rx_counter, cond, copied, traffic, crashed>>

(* Mutations of the wait: none, and one that keeps the lcore.              *)
NoWait == TRUE

AllRxStarted == rx_counter >= NRx

WaitBusy(l) ==
  /\ Runs(Spawner, l) /\ at[Spawner] = "wait" /\ ~AllRxStarted
  /\ UNCHANGED vars

(* lthread_sleep while some rx lthread has not counted itself.             *)
WaitForRx(l) ==
  /\ Runs(Spawner, l) /\ at[Spawner] = "wait" /\ ~AllRxStarted
  /\ at' = [at EXCEPT ![Spawner] = "asleep"]
  /\ block(l)
  /\ UNCHANGED <<setup, rx_counter, cond, copied, traffic, crashed>>

(* The timer of the sleep expires.                                         *)
Wake ==
  /\ ~crashed
  /\ at[Spawner] = "asleep"
  /\ at' = [at EXCEPT ![Spawner] = "wait"]
  /\ ready' = [ready EXCEPT ![setup.master] = Append(@, Spawner)]
  /\ UNCHANGED <<setup, cur, rx_counter, cond, copied, traffic, crashed>>

(* The tx lthreads are created and the spawner waits for all to end, which *)
(* they never do.                                                          *)
CreateTx(l) ==
  /\ Runs(Spawner, l) /\ at[Spawner] = "wait" /\ AllRxStarted
  /\ LET txs == [i \in 1 .. NTx |-> TxL(i - 1)] IN
     /\ at' = [Created(txs) EXCEPT ![Spawner] = "join"]
     /\ ready' = [ready EXCEPT ![l] = @ \o txs]
     /\ Leave(l)
  /\ UNCHANGED <<setup, rx_counter, cond, copied, traffic, crashed>>

-----------------------------------------------------------------------------
(* lthread_rx.                                                             *)

RxMove(i, l) ==
  /\ Runs(RxL(i), l) /\ at[RxL(i)] = "start"
  /\ at' = [at EXCEPT ![RxL(i)] = "moved"]
  /\ set_affinity(RxL(i), l, RxConf(i).lcore)
  /\ UNCHANGED <<setup, rx_counter, cond, copied, traffic, crashed>>

(* One condition per queue, though there is one ring per tx thread.        *)
RxInit(i, l) ==
  /\ Runs(RxL(i), l) /\ at[RxL(i)] = "moved"
  /\ cond' = cond \cup ({i} \X (0 .. NQueues(i) - 1))
  /\ rx_counter' = rx_counter + 1
  /\ at' = [at EXCEPT ![RxL(i)] = "loop"]
  /\ GoOn
  /\ UNCHANGED <<setup, copied, traffic, crashed>>

(* Mutation: the yield is after the loop over the queues.                  *)
RxIdleAlways(i, l) ==
  /\ Runs(RxL(i), l) /\ at[RxL(i)] = "loop"
  /\ yield(RxL(i), l)
  /\ UNCHANGED <<setup, at, rx_counter, cond, copied, traffic, crashed>>

(* The yield is in the loop over the queues: without queues there is none. *)
RxIdle(i, l) ==
  /\ Runs(RxL(i), l) /\ at[RxL(i)] = "loop" /\ NQueues(i) > 0
  /\ yield(RxL(i), l)
  /\ UNCHANGED <<setup, at, rx_counter, cond, copied, traffic, crashed>>

(* lthread_cond_signal makes the reader that waits ready on its lcore.     *)
Signalled(j, rdy) == [rdy EXCEPT ![TxConf(j).lcore] = Append(@, Reader(j))]

(* A burst of one of the queues goes to the ring of the next worker.       *)
RxBurst(i, l) ==
  /\ Runs(RxL(i), l) /\ at[RxL(i)] = "loop" /\ NQueues(i) > 0
  /\ Rings(i) # <<>>
  /\ LET n == Len(Rings(i))
         w == (worker[i] + 1) % n
         j == Rings(i)[w + 1]
         yielded == [ready EXCEPT ![l] = Append(@, RxL(i))]
     IN  /\ worker' = [worker EXCEPT ![i] = w]
         /\ \E k \in 1 .. NQueues(i) :
              batch_n' = [batch_n EXCEPT ![RxConf(i).queues[k][2]] = Add(@, 1)]
         /\ IF fill[j] < RingCap
              THEN fill' = [fill EXCEPT ![j] = @ + 1] /\ UNCHANGED ring_loss
              ELSE ring_loss' = Add(ring_loss, 1) /\ UNCHANGED fill
         /\ \/ UNCHANGED at /\ yield(RxL(i), l)
            \/ /\ <<i, w>> \in cond /\ at[Reader(j)] = "wait"
               /\ at' = [at EXCEPT ![Reader(j)] = "loop"]
               /\ Leave(l)
               /\ ready' = [Signalled(j, ready) EXCEPT ![l] =
                              Append(@, RxL(i))]
  /\ UNCHANGED <<setup, rx_counter, cond, copied, re, crashed>>

(* worker_id is taken modulo n_ring: without a ring, a division by 0.      *)
RxNoRing(i, l) ==
  /\ Runs(RxL(i), l) /\ at[RxL(i)] = "loop" /\ NQueues(i) > 0
  /\ Rings(i) = <<>>
  /\ crashed' = TRUE
  /\ UNCHANGED <<setup, sched, at, rx_counter, cond, copied, traffic>>

-----------------------------------------------------------------------------
(* lthread_tx: after the move and the reader's creation it only sleeps.    *)

TxMove(i, l) ==
  /\ Runs(TxL(i), l) /\ at[TxL(i)] = "start"
  /\ at' = [at EXCEPT ![TxL(i)] = "moved"]
  /\ set_affinity(TxL(i), l, TxConf(i).lcore)
  /\ UNCHANGED <<setup, rx_counter, cond, copied, traffic, crashed>>

TxCreateReader(i, l) ==
  /\ Runs(TxL(i), l) /\ at[TxL(i)] = "moved"
  /\ at' = [at EXCEPT ![TxL(i)] = "asleep", ![Reader(i)] = "start"]
  /\ ready' = [ready EXCEPT ![l] = Append(@, Reader(i))]
  /\ Leave(l)
  /\ UNCHANGED <<setup, rx_counter, cond, copied, traffic, crashed>>

-----------------------------------------------------------------------------
(* lthread_tx_per_ring.                                                    *)

ReaderStart(i, l) ==
  /\ Runs(Reader(i), l) /\ at[Reader(i)] = "start"
  /\ copied' = [copied EXCEPT ![i] = Ready(i) \in cond]
  /\ at' = [at EXCEPT ![Reader(i)] = "loop"]
  /\ GoOn
  /\ UNCHANGED <<setup, rx_counter, cond, traffic, crashed>>

(* A burst is taken and counted; the yield after it is commented out.      *)
ReaderTake(i, l) ==
  /\ Runs(Reader(i), l) /\ at[Reader(i)] = "loop" /\ fill[i] > 0
  /\ fill' = [fill EXCEPT ![i] = @ - 1]
  /\ re' = [re EXCEPT ![i] = Add(@, 1)]
  /\ GoOn
  /\ UNCHANGED <<setup, at, rx_counter, cond, copied, worker, batch_n,
                 ring_loss, crashed>>

ReaderEmpty(i, l) ==
  /\ Runs(Reader(i), l) /\ at[Reader(i)] = "loop" /\ fill[i] = 0
  /\ at' = [at EXCEPT ![Reader(i)] = "empty"]
  /\ GoOn
  /\ UNCHANGED <<setup, rx_counter, cond, copied, traffic, crashed>>

(* Mutation: the ring is polled without a wait.                            *)
ReaderSpin(i, l) ==
  /\ Runs(Reader(i), l) /\ at[Reader(i)] = "empty"
  /\ at' = [at EXCEPT ![Reader(i)] = "loop"]
  /\ GoOn
  /\ UNCHANGED <<setup, rx_counter, cond, copied, traffic, crashed>>

(* lthread_cond_wait returns at once without a condition.                  *)
ReaderWait(i, l) ==
  /\ Runs(Reader(i), l) /\ at[Reader(i)] = "empty"
  /\ \/ copied[i] /\ at' = [at EXCEPT ![Reader(i)] = "wait"] /\ block(l)
     \/ ~copied[i] /\ at' = [at EXCEPT ![Reader(i)] = "loop"] /\ GoOn
  /\ UNCHANGED <<setup, rx_counter, cond, copied, traffic, crashed>>

-----------------------------------------------------------------------------
(* What the scheduler of lcore l or its lthread does next.                 *)
Step(l) ==
  \/ Dispatch(l) \/ CreateRx(l) \/ WaitForRx(l) \/ CreateTx(l)
  \/ \E i \in RxIds : \/ RxMove(i, l) \/ RxInit(i, l) \/ RxIdle(i, l)
                      \/ RxBurst(i, l) \/ RxNoRing(i, l)
  \/ \E i \in TxIds : \/ TxMove(i, l) \/ TxCreateReader(i, l)
                      \/ ReaderStart(i, l) \/ ReaderTake(i, l)
                      \/ ReaderEmpty(i, l) \/ ReaderWait(i, l)

Next == Wake \/ \E l \in setup.lcores : Step(l)

(* Every lcore is a thread of its own, and timers expire.                  *)
Fairness ==
  /\ WF_vars(Wake)
  /\ \A l \in UNION {s.lcores : s \in Setups} :
       WF_vars(l \in setup.lcores /\ Step(l))

Spec == Init /\ [][Next]_vars /\ Fairness
-----------------------------------------------------------------------------
(* Mutation: the loop starts at 1.                                         *)
ReportFrom1 ==
  SumFunctionOnSet(re, {i \in TxIds : 0 < i /\ i < NRx})

(* The total that timer_cb and handler print: re[i] for i below            *)
(* n_rx_thread, though re is indexed by tx thread.                         *)
Reported == SumFunctionOnSet(re, {i \in TxIds : i < NRx})

-----------------------------------------------------------------------------
HasQueues(i) == NQueues(i) > 0
HasCond(i) == LET r == Ready(i) IN r[1] \in RxIds /\ r[2] < NQueues(r[1])
AllFed == \A i \in RxIds : Rings(i) # <<>>

(* When a tx lthread exists every rx lthread is in its loop, so that a     *)
(* reader finds the condition of its ring, unless its rx thread has fewer  *)
(* queues than rings or does not exist.                                    *)
CondCaptured ==
  \A i \in TxIds :
    /\ at[TxL(i)] # "none" => \A k \in RxIds : at[RxL(k)] = "loop"
    /\ at[Reader(i)] \notin {"none", "start"} => (copied[i] <=> HasCond(i))

(* A thread-id that --rx leaves out, with its lcore 0 the master, hangs    *)
(* the program: its lthread never yields, the spawner never wakes up and   *)
(* no tx lthread is ever created.                                          *)
GapHangs ==
  (\E i \in RxIds : ~HasQueues(i) /\ RxConf(i).lcore = setup.master) =>
     \A i \in TxIds : at[TxL(i)] = "none"

(* The bursts in the final report, in the rings and lost at a full ring    *)
(* are those received, provided that there are no more tx than rx threads. *)
ReportComplete ==
  NTx <= NRx =>
    (Reported + SumFunctionOnSet(fill, TxIds) + ring_loss) % CtrMod
      = SumFunctionOnSet(batch_n, Queues) % CtrMod

AllStarted ==
  /\ \A i \in RxIds : at[RxL(i)] = "loop"
  /\ \A i \in TxIds : at[Reader(i)] \notin {"none", "start"}

(* Without gaps, with a ring for every rx thread and with tx threads on    *)
(* lcores of their own, all lthreads start, though the spawner shares its  *)
(* lcore with them.                                                        *)
Starts ==
  (/\ \A i \in RxIds : HasQueues(i)
   /\ AllFed
   /\ \A i, j \in TxIds : i # j => TxConf(i).lcore # TxConf(j).lcore)
    ~> AllStarted

(* What can keep an lcore for ever: a reader without a condition, one that *)
(* another lcore fills the ring of, an rx lthread without queues.          *)
Hogs(l) ==
  \/ \E i \in RxIds : ~HasQueues(i) /\ RxConf(i).lcore = l
  \/ \E i \in TxIds :
       /\ TxConf(i).lcore = l
       /\ ~HasCond(i) \/ RxConf(TxConf(i).thread).lcore # l

(* On any other lcore the rx lthreads poll their queues again and again.   *)
KeepsPolling ==
  \A i \in 0 .. Max({NThreads(s.rx) : s \in Setups}) - 1 :
    (i \in RxIds /\ AllFed /\ at[RxL(i)] = "loop" /\ ~Hogs(RxConf(i).lcore))
      ~> (cur[RxConf(i).lcore] = RxL(i))
=============================================================================
