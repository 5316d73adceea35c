----------------------- MODULE LthreadStartup_proofs ------------------------
(***************************************************************************)
(* Proofs about LthreadStartup, for any lists of rx and tx threads and any *)
(* sizes of the rings and counters.                                        *)
(***************************************************************************)
EXTENDS LthreadStartup, Lemmas

(* The setup and what the tables make of it.                               *)
LEMMA SetupTypes ==
  ASSUME setup \in Setups
  PROVE  /\ NRx \in Nat /\ NTx \in Nat
         /\ setup.master \in setup.lcores
         /\ \A i \in RxIds : /\ NQueues(i) \in Nat
                             /\ RxConf(i).lcore \in setup.lcores
                             /\ Rings(i) \in Seq(TxIds)
                             /\ \A k \in 1 .. NQueues(i) :
                                  RxConf(i).queues[k][2] \in Queues
         /\ \A i \in TxIds : TxConf(i).lcore \in setup.lcores
         /\ IsFiniteSet(RxIds) /\ IsFiniteSet(TxIds) /\ IsFiniteSet(Queues)
<1>1. /\ setup.rx \in Seq(Params) /\ setup.tx \in Seq(TxParams)
      /\ setup.master \in setup.lcores
      /\ \A t \in 0 .. NThreads(setup.rx) - 1 :
           RxThread(setup.rx, t).lcore \in setup.lcores
      /\ \A k \in DOMAIN setup.tx : setup.tx[k].lcore \in setup.lcores
  BY StartupAssumption
<1>2. /\ Len(setup.rx) \in Nat /\ DOMAIN setup.rx = 1 .. Len(setup.rx)
      /\ Len(setup.tx) \in Nat /\ DOMAIN setup.tx = 1 .. Len(setup.tx)
      /\ \A i \in DOMAIN setup.rx : setup.rx[i] \in Params
  BY <1>1, LenProperties, ElementOfSeq
<1>3. NRx \in Nat /\ NTx \in Nat
  BY <1>1, <1>2, NThreadsType DEF NRx, NTx
<1>4. IsFiniteSet(RxIds) /\ IsFiniteSet(TxIds)
  BY <1>3, FS_Interval DEF RxIds, TxIds
<1>5. IsFiniteSet(Queues)
  <2>1. IsFiniteSet(DOMAIN setup.rx)
    BY <1>2, FS_Interval
  <2> DEFINE f == [k \in DOMAIN setup.rx |-> setup.rx[k].queue]
  <2>2. Image(f, DOMAIN setup.rx) = Queues
    BY DEF Image, Queues
  <2>3. IsFiniteSet(Image(f, DOMAIN setup.rx))
    BY <2>1, ImageFinite
  <2> QED
    BY <2>2, <2>3
<1>6. ASSUME NEW i \in TxIds PROVE TxConf(i).lcore \in setup.lcores
  <2>1. i + 1 \in 1 .. Len(setup.tx)
    BY <1>2 DEF TxIds, NTx
  <2> QED
    BY <1>1, <1>2, <2>1 DEF TxConf
<1>7. ASSUME NEW i \in RxIds
      PROVE  /\ NQueues(i) \in Nat
             /\ \A k \in 1 .. NQueues(i) : RxConf(i).queues[k][2] \in Queues
  <2> DEFINE P == Indices(setup.rx, i)
             own == OfThread(setup.rx, i)
             qs == [k \in DOMAIN own |-> <<own[k].port, own[k].queue>>]
  <2>1. P \in Seq(Naming(setup.rx, i))
    BY <1>2, IndicesType
  <2>2. /\ Len(P) \in Nat /\ DOMAIN P = 1 .. Len(P)
        /\ \A k \in DOMAIN P : P[k] \in DOMAIN setup.rx
    BY <1>2, <2>1, LenProperties, ElementOfSeq DEF Naming
  <2>3. /\ DOMAIN own = DOMAIN P
        /\ \A k \in DOMAIN P : own[k] = setup.rx[P[k]]
    BY DEF OfThread
  <2>4. DOMAIN qs = 1 .. Len(P) /\ \A k \in DOMAIN qs : qs[k][2] \in Queues
    BY <2>2, <2>3 DEF Queues
  <2>5. RxConf(i).queues = qs
    BY DEF RxConf, RxThread
  <2> HIDE DEF P, own, qs
  <2>6. Len(qs) = Len(P)
    <3>1. qs \in Seq({qs[k] : k \in 1 .. Len(P)})
      BY <2>2, <2>4, SeqDef DEF qs
    <3>2. DOMAIN qs = 1 .. Len(qs) /\ Len(qs) \in Nat
      BY <3>1, LenProperties
    <3> QED
      BY <2>2, <2>4, <3>2
  <2> QED
    BY <2>2, <2>4, <2>5, <2>6 DEF NQueues
<1>8. ASSUME NEW i \in RxIds PROVE RxConf(i).lcore \in setup.lcores
  BY <1>1 DEF RxConf, RxIds, NRx
<1>9. ASSUME NEW i \in RxIds PROVE Rings(i) \in Seq(TxIds)
  <2> DEFINE P == Indices(setup.tx, i)
             R == [k \in DOMAIN P |-> P[k] - 1]
  <2>1. P \in Seq(Naming(setup.tx, i))
    BY <1>2, IndicesType
  <2>2. /\ Len(P) \in Nat /\ DOMAIN P = 1 .. Len(P)
        /\ \A k \in DOMAIN P : P[k] \in 1 .. Len(setup.tx)
    BY <1>2, <2>1, LenProperties, ElementOfSeq DEF Naming
  <2>3. \A k \in DOMAIN P : P[k] - 1 \in TxIds
    BY <1>2, <2>2 DEF TxIds, NTx
  <2>4. R \in [1 .. Len(P) -> TxIds]
    BY <2>2, <2>3
  <2>5. Rings(i) = R
    BY DEF Rings, RingsOf
  <2> HIDE DEF P, R
  <2> QED
    BY <2>2, <2>4, <2>5, SeqDef
<1> QED
  BY <1>1, <1>3, <1>4, <1>5, <1>6, <1>7, <1>8, <1>9

-----------------------------------------------------------------------------
(* The lthreads are different from one another and from None.              *)
LEMMA LthreadTypes ==
  ASSUME setup \in Setups
  PROVE  /\ Spawner \in Lthreads /\ None \notin Lthreads
         /\ \A i \in RxIds : RxL(i) \in Lthreads
         /\ \A i \in TxIds : TxL(i) \in Lthreads /\ Reader(i) \in Lthreads
<1>1. RxIds \subseteq Nat /\ TxIds \subseteq Nat
  BY SetupTypes DEF RxIds, TxIds
<1>2. Lthreads \subseteq {"spawner", "rx", "tx", "reader"} \X Nat
  BY <1>1 DEF Lthreads, Spawner, RxL, TxL, Reader
<1>3. None \notin Lthreads
  BY <1>2, StartupAssumption
<1> QED
  BY <1>3 DEF Lthreads

(* Lthreads of different kinds or with different ids differ.               *)
LEMMA Different ==
  /\ \A i : RxL(i) # Spawner /\ TxL(i) # Spawner /\ Reader(i) # Spawner
  /\ \A i, j : RxL(i) # TxL(j) /\ RxL(i) # Reader(j) /\ TxL(i) # Reader(j)
  /\ \A i, j : RxL(i) = RxL(j) => i = j
  /\ \A i, j : TxL(i) = TxL(j) => i = j
  /\ \A i, j : Reader(i) = Reader(j) => i = j
BY DEF RxL, TxL, Reader, Spawner

(* Ready queues r and running lthreads c: an lthread is on lcore l, ...    *)
On(r, c, t, l) == c[l] = t \/ ~Absent(t, r[l])

(* ... on one lcore only, and there once.                                  *)
SchedOK(r, c) ==
  /\ r \in [setup.lcores -> Seq(Lthreads)]
  /\ c \in [setup.lcores -> Lthreads \cup {None}]
  /\ \A l \in setup.lcores : Once(r[l]) /\ (c[l] # None => Absent(c[l], r[l]))
  /\ \A t \in Lthreads : \A l, m \in setup.lcores :
       On(r, c, t, l) /\ On(r, c, t, m) => l = m

Nowhere(r, c, t) == \A l \in setup.lcores : ~On(r, c, t, l)

(* The changes that the scheduler makes: the lthread that runs leaves, one *)
(* or several join a queue, an idle lcore takes the first of its queue.    *)
Left(c, d, l) == d = [c EXCEPT ![l] = None]
Joins(r, q, l, t) == q = [r EXCEPT ![l] = Append(@, t)]
JoinAll(r, q, l, s) == q = [r EXCEPT ![l] = @ \o s]
Takes(r, q, c, d, l) ==
  d = [c EXCEPT ![l] = Head(r[l])] /\ q = [r EXCEPT ![l] = Tail(@)]

(* The lthread that runs leaves its lcore.                                 *)
LEMMA LeaveSched ==
  ASSUME setup \in Setups, NEW r, NEW c, SchedOK(r, c), NEW l \in setup.lcores,
         NEW t \in Lthreads, c[l] = t, NEW d, Left(c, d, l)
  PROVE  /\ SchedOK(r, d) /\ Nowhere(r, d, t)
         /\ \A u \in Lthreads : \A m \in setup.lcores :
              On(r, d, u, m) => On(r, c, u, m)
         /\ \A m \in setup.lcores \ {l} : d[m] = c[m]
<1>1. None \notin Lthreads
  BY LthreadTypes
<1>2. /\ d \in [setup.lcores -> Lthreads \cup {None}] /\ d[l] = None
      /\ \A m \in setup.lcores \ {l} : d[m] = c[m]
  BY DEF SchedOK, Left
<1>3. \A u \in Lthreads : \A m \in setup.lcores : On(r, d, u, m) => On(r, c, u, m)
  BY <1>1, <1>2 DEF On
<1>4. \A m \in setup.lcores : ~On(r, d, t, m)
  <2> SUFFICES ASSUME NEW m \in setup.lcores, On(r, d, t, m) PROVE FALSE
    OBVIOUS
  <2>1. On(r, c, t, m) /\ On(r, c, t, l)
    BY <1>3 DEF On
  <2>2. m = l
    BY <2>1 DEF SchedOK
  <2> QED
    BY <1>1, <1>2, <2>2 DEF On, SchedOK
<1> QED
  BY <1>2, <1>3, <1>4 DEF SchedOK, Nowhere

(* Lthreads that are on no lcore join the queue of one.                    *)
LEMMA JoinSched ==
  ASSUME setup \in Setups, NEW r, NEW c, SchedOK(r, c), NEW l \in setup.lcores,
         NEW s \in Seq(Lthreads), Once(s),
         \A i \in 1 .. Len(s) : Nowhere(r, c, s[i]),
         NEW q, JoinAll(r, q, l, s)
  PROVE  /\ SchedOK(q, c)
         /\ \A u \in Lthreads : \A m \in setup.lcores :
              On(q, c, u, m) => On(r, c, u, m) \/ (m = l /\ ~Absent(u, s))
<1>1. r[l] \in Seq(Lthreads) /\ Once(r[l]) /\ \A i \in 1 .. Len(s) : Absent(s[i], r[l])
  BY DEF SchedOK, Nowhere, On
<1>2. /\ r[l] \o s \in Seq(Lthreads) /\ Once(r[l] \o s)
      /\ \A y : Absent(y, r[l]) /\ Absent(y, s) => Absent(y, r[l] \o s)
  BY <1>1, JoinMany
<1>3. /\ q \in [setup.lcores -> Seq(Lthreads)] /\ q[l] = r[l] \o s
      /\ \A m \in setup.lcores \ {l} : q[m] = r[m]
  BY <1>2 DEF SchedOK, JoinAll
<1>4. ASSUME NEW u, NEW m \in setup.lcores, On(q, c, u, m)
      PROVE  On(r, c, u, m) \/ (m = l /\ ~Absent(u, s))
  BY <1>2, <1>3, <1>4 DEF On
<1>5. ASSUME NEW m \in setup.lcores
      PROVE  Once(q[m]) /\ (c[m] # None => Absent(c[m], q[m]))
  <2>1. CASE m # l
    BY <1>3, <2>1 DEF SchedOK
  <2>2. CASE m = l
    <3>1. SUFFICES ASSUME c[l] # None PROVE Absent(c[l], s)
      BY <1>2, <1>3, <2>2 DEF SchedOK
    <3>2. \A i \in 1 .. Len(s) : c[l] # s[i]
      BY DEF Nowhere, On
    <3> QED
      BY <3>2 DEF Absent
  <2> QED
    BY <2>1, <2>2
<1>6. ASSUME NEW t \in Lthreads, NEW m \in setup.lcores, NEW n \in setup.lcores,
             On(q, c, t, m), On(q, c, t, n)
      PROVE  m = n
  <2>1. CASE Absent(t, s)
    BY <1>4, <1>6, <2>1 DEF SchedOK
  <2>2. CASE ~Absent(t, s)
    <3>1. Nowhere(r, c, t)
      BY <2>2 DEF Absent
    <3> QED
      BY <1>4, <1>6, <3>1 DEF Nowhere
  <2> QED
    BY <2>1, <2>2
<1> QED
  BY <1>3, <1>4, <1>5, <1>6 DEF SchedOK

(* One lthread does.                                                       *)
LEMMA JoinOne ==
  ASSUME setup \in Setups, NEW r, NEW c, SchedOK(r, c), NEW l \in setup.lcores,
         NEW t \in Lthreads, Nowhere(r, c, t), NEW q, Joins(r, q, l, t)
  PROVE  /\ SchedOK(q, c)
         /\ \A u \in Lthreads : \A m \in setup.lcores :
              On(q, c, u, m) => On(r, c, u, m) \/ (m = l /\ u = t)
<1> DEFINE s == <<t>>
<1>1. s \in Seq(Lthreads) /\ Len(s) = 1 /\ s[1] = t
  OBVIOUS
<1> HIDE DEF s
<1>2. \A i \in 1 .. Len(s) : i = 1
  BY <1>1
<1>3. Once(s) /\ \A u : Absent(u, s) <=> u # t
  BY <1>1, <1>2 DEF Once, Absent
<1>4. \A i \in 1 .. Len(s) : Nowhere(r, c, s[i])
  BY <1>1, <1>2
<1>5. JoinAll(r, q, l, s)
  <2>1. r[l] \in Seq(Lthreads)
    BY DEF SchedOK
  <2>2. Append(r[l], t) = r[l] \o s
    BY <2>1, AppendIsConcat DEF s
  <2> QED
    BY <2>2 DEF Joins, JoinAll
<1>6. /\ SchedOK(q, c)
      /\ \A u \in Lthreads : \A m \in setup.lcores :
           On(q, c, u, m) => On(r, c, u, m) \/ (m = l /\ ~Absent(u, s))
  BY <1>1, <1>3, <1>4, <1>5, JoinSched
<1> QED
  BY <1>3, <1>6

(* An idle lcore takes the first of its queue.                             *)
LEMMA TakeSched ==
  ASSUME setup \in Setups, NEW r, NEW c, SchedOK(r, c), NEW l \in setup.lcores,
         c[l] = None, r[l] # <<>>, NEW q, NEW d, Takes(r, q, c, d, l)
  PROVE  /\ SchedOK(q, d)
         /\ \A u \in Lthreads : \A m \in setup.lcores :
              On(q, d, u, m) => On(r, c, u, m)
         /\ \A m \in setup.lcores \ {l} : d[m] = c[m]
<1>1. r[l] \in Seq(Lthreads) /\ Once(r[l])
  BY DEF SchedOK
<1>2. /\ Tail(r[l]) \in Seq(Lthreads) /\ Head(r[l]) \in Lthreads
      /\ Once(Tail(r[l])) /\ Absent(Head(r[l]), Tail(r[l]))
      /\ \A y : Absent(y, r[l]) => y # Head(r[l]) /\ Absent(y, Tail(r[l]))
  BY <1>1, LeaveQueue
<1>3. /\ q \in [setup.lcores -> Seq(Lthreads)] /\ q[l] = Tail(r[l])
      /\ \A m \in setup.lcores \ {l} : q[m] = r[m]
      /\ d \in [setup.lcores -> Lthreads \cup {None}] /\ d[l] = Head(r[l])
      /\ \A m \in setup.lcores \ {l} : d[m] = c[m]
  BY <1>2 DEF SchedOK, Takes
<1>4. ASSUME NEW u, NEW m \in setup.lcores, On(q, d, u, m) PROVE On(r, c, u, m)
  BY <1>2, <1>3, <1>4 DEF On
<1>5. ASSUME NEW m \in setup.lcores
      PROVE  Once(q[m]) /\ (d[m] # None => Absent(d[m], q[m]))
  BY <1>2, <1>3 DEF SchedOK
<1> QED
  BY <1>3, <1>4, <1>5 DEF SchedOK

-----------------------------------------------------------------------------
(* How far the start has come.  The spawner creates the rx lthreads first, *)
(* the tx lthreads when all the rx lthreads are in their loops, and a tx   *)
(* lthread creates its reader.                                             *)
States == {"none", "start", "wait", "asleep", "join", "moved", "loop", "empty"}

Stages(a) ==
  /\ a \in [Lthreads -> States]
  /\ a[Spawner] \in {"start", "wait", "asleep", "join"}
  /\ a[Spawner] = "start" => \A i \in RxIds : a[RxL(i)] = "none"
  /\ a[Spawner] # "join" => \A i \in TxIds : a[TxL(i)] = "none"
  /\ a[Spawner] = "join" => \A i \in RxIds : a[RxL(i)] = "loop"
  /\ \A i \in TxIds : a[TxL(i)] # "asleep" => a[Reader(i)] = "none"

(* The rx lthreads that have counted themselves, the conditions that they  *)
(* have initialised and what the readers make of them.                     *)
Loops(a) == {i \in RxIds : a[RxL(i)] = "loop"}

Captured(a, n, c, cp) ==
  /\ n = Cardinality(Loops(a))
  /\ \A i, k : <<i, k>> \in c <=> i \in Loops(a) /\ k \in 0 .. NQueues(i) - 1
  /\ cp \in [TxIds -> BOOLEAN]
  /\ \A i \in TxIds :
       a[Reader(i)] \notin {"none", "start"} => (cp[i] <=> HasCond(i))

Started ==
  setup \in Setups /\ Stages(at) /\ Captured(at, rx_counter, cond, copied)

(* The setup is never changed, nor what depends on it alone.               *)
LEMMA SetupFixed ==
  ASSUME [Next]_vars
  PROVE  setup' = setup
<1>1. CASE UNCHANGED vars
  BY <1>1 DEF vars
<1>2. CASE Wake
  BY <1>2 DEF Wake
<1>3. ASSUME NEW l, Dispatch(l) \/ CreateRx(l) \/ WaitForRx(l) \/ CreateTx(l)
      PROVE  setup' = setup
  BY <1>3 DEF Dispatch, CreateRx, WaitForRx, CreateTx
<1>4. ASSUME NEW l, NEW i, RxMove(i, l) \/ RxInit(i, l) \/ RxIdle(i, l) \/ RxBurst(i, l)
                             \/ RxNoRing(i, l)
      PROVE  setup' = setup
  BY <1>4 DEF RxMove, RxInit, RxIdle, RxBurst, RxNoRing
<1>5. ASSUME NEW l, NEW i, TxMove(i, l) \/ TxCreateReader(i, l) \/ ReaderStart(i, l)
                             \/ ReaderTake(i, l) \/ ReaderEmpty(i, l) \/ ReaderWait(i, l)
      PROVE  setup' = setup
  BY <1>5 DEF TxMove, TxCreateReader, ReaderStart, ReaderTake, ReaderEmpty, ReaderWait
<1> QED
  BY <1>1, <1>2, <1>3, <1>4, <1>5 DEF Next, Step

(* When as many rx lthreads have counted themselves as there are, all of   *)
(* them have.                                                              *)
LEMMA AllCounted ==
  ASSUME setup \in Setups, rx_counter = Cardinality(Loops(at)), AllRxStarted
  PROVE  \A i \in RxIds : at[RxL(i)] = "loop"
<1>1. NRx \in Nat /\ IsFiniteSet(RxIds) /\ Loops(at) \subseteq RxIds
  BY SetupTypes DEF Loops
<1>2. Cardinality(RxIds) = NRx
  <2>1. Cardinality(0 .. NRx - 1) = IF 0 > NRx - 1 THEN 0 ELSE NRx - 1 - 0 + 1
    BY <1>1, FS_Interval
  <2> QED
    BY <1>1, <2>1 DEF RxIds
<1>3. /\ Cardinality(Loops(at)) \in Nat /\ Cardinality(Loops(at)) <= Cardinality(RxIds)
      /\ Cardinality(Loops(at)) = Cardinality(RxIds) => Loops(at) = RxIds
  BY <1>1, FS_Subset, FS_CardinalityType
<1>4. Loops(at) = RxIds
  BY <1>1, <1>2, <1>3 DEF AllRxStarted
<1> QED
  BY <1>4 DEF Loops

(* The lthreads that the spawner creates in one go.                        *)
LEMMA Spawned ==
  ASSUME setup \in Setups
  PROVE  LET rxs == [i \in 1 .. NRx |-> RxL(i - 1)]
             txs == [i \in 1 .. NTx |-> TxL(i - 1)]
         IN  /\ rxs \in Seq(Lthreads) /\ Once(rxs) /\ Range(rxs) = {RxL(i) : i \in RxIds}
             /\ \A t : Absent(t, rxs) <=> t \notin {RxL(i) : i \in RxIds}
             /\ \A i \in 1 .. Len(rxs) : \E k \in RxIds : rxs[i] = RxL(k)
             /\ txs \in Seq(Lthreads) /\ Once(txs) /\ Range(txs) = {TxL(i) : i \in TxIds}
             /\ \A t : Absent(t, txs) <=> t \notin {TxL(i) : i \in TxIds}
             /\ \A i \in 1 .. Len(txs) : \E k \in TxIds : txs[i] = TxL(k)
<1> DEFINE rxs == [i \in 1 .. NRx |-> RxL(i - 1)]
           txs == [i \in 1 .. NTx |-> TxL(i - 1)]
<1>1. /\ NRx \in Nat /\ \A i \in RxIds : RxL(i) \in Lthreads
      /\ NTx \in Nat /\ \A i \in TxIds : TxL(i) \in Lthreads
  BY SetupTypes, LthreadTypes
<1>2. /\ \A i \in 1 .. NRx : i - 1 \in RxIds
      /\ \A i \in RxIds : i + 1 \in 1 .. NRx /\ (i + 1) - 1 = i
      /\ \A i \in 1 .. NTx : i - 1 \in TxIds
      /\ \A i \in TxIds : i + 1 \in 1 .. NTx /\ (i + 1) - 1 = i
      /\ \A i, j \in Int : i - 1 = j - 1 => i = j
  BY <1>1 DEF RxIds, TxIds
<1>3. rxs \in [1 .. NRx -> Lthreads] /\ txs \in [1 .. NTx -> Lthreads]
  BY <1>1, <1>2
<1>4. rxs \in Seq(Lthreads) /\ txs \in Seq(Lthreads)
  BY <1>1, <1>3, SeqDef
<1>5. Len(rxs) = NRx /\ Len(txs) = NTx
  <2> HIDE DEF rxs, txs
  <2>1. /\ DOMAIN rxs = 1 .. Len(rxs) /\ Len(rxs) \in Nat
        /\ DOMAIN txs = 1 .. Len(txs) /\ Len(txs) \in Nat
    BY <1>4, LenProperties
  <2>2. DOMAIN rxs = 1 .. NRx /\ DOMAIN txs = 1 .. NTx
    BY <1>3
  <2>3. Len(rxs) = NRx
    BY <1>1, <2>1, <2>2, SameLength
  <2>4. Len(txs) = NTx
    BY <1>1, <2>1, <2>2, SameLength
  <2> QED
    BY <2>3, <2>4
<1>6. /\ \A i \in 1 .. NRx : rxs[i] = RxL(i - 1)
      /\ \A i \in 1 .. NTx : txs[i] = TxL(i - 1)
      /\ DOMAIN rxs = 1 .. NRx /\ DOMAIN txs = 1 .. NTx
  OBVIOUS
<1> HIDE DEF rxs, txs
<1>7. Once(rxs) /\ Once(txs)
  BY <1>2, <1>5, <1>6, Different DEF Once
<1>8. Range(rxs) = {RxL(i) : i \in RxIds} /\ Range(txs) = {TxL(i) : i \in TxIds}
  <2>1. \A i \in RxIds : \E k \in DOMAIN rxs : rxs[k] = RxL(i)
    BY <1>2, <1>6
  <2>2. \A i \in TxIds : \E k \in DOMAIN txs : txs[k] = TxL(i)
    BY <1>2, <1>6
  <2> QED
    BY <1>2, <1>6, <2>1, <2>2 DEF Range
<1>9. /\ \A t : Absent(t, rxs) <=> t \notin Range(rxs)
      /\ \A t : Absent(t, txs) <=> t \notin Range(txs)
  BY <1>5, <1>6 DEF Absent, Range
<1>10. /\ \A i \in 1 .. Len(rxs) : \E k \in RxIds : rxs[i] = RxL(k)
       /\ \A i \in 1 .. Len(txs) : \E k \in TxIds : txs[i] = TxL(k)
  BY <1>2, <1>5, <1>6
<1> QED
  BY <1>4, <1>7, <1>8, <1>9, <1>10 DEF rxs, txs

-----------------------------------------------------------------------------
(* What the steps do to where the lthreads are.  Each predicate stands for *)
(* the actions named with it.                                              *)
Kept == UNCHANGED <<rx_counter, cond, copied>>
Moves(t, v) == at' = [at EXCEPT ![t] = v]

SpawnsRx ==                                     \* CreateRx
  /\ at[Spawner] = "start" /\ at' \in [Lthreads -> States] /\ at'[Spawner] = "wait"
  /\ \A i \in RxIds : at'[RxL(i)] = "start"
  /\ \A i \in TxIds : at'[TxL(i)] = at[TxL(i)] /\ at'[Reader(i)] = at[Reader(i)]

Sleeps == at[Spawner] = "wait" /\ Moves(Spawner, "asleep")      \* WaitForRx
Wakes == at[Spawner] = "asleep" /\ Moves(Spawner, "wait")       \* Wake

SpawnsTx ==                                     \* CreateTx
  /\ at[Spawner] = "wait" /\ AllRxStarted
  /\ at' \in [Lthreads -> States] /\ at'[Spawner] = "join"
  /\ \A i \in RxIds : at'[RxL(i)] = at[RxL(i)]
  /\ \A i \in TxIds : at'[TxL(i)] = "start" /\ at'[Reader(i)] = at[Reader(i)]

RxMoves(i) == at[RxL(i)] = "start" /\ Moves(RxL(i), "moved")    \* RxMove

RxCounts(i) ==                                  \* RxInit
  /\ at[RxL(i)] = "moved" /\ Moves(RxL(i), "loop")
  /\ rx_counter' = rx_counter + 1
  /\ cond' = cond \cup ({i} \X (0 .. NQueues(i) - 1))
  /\ UNCHANGED copied

TxMoves(i) == at[TxL(i)] = "start" /\ Moves(TxL(i), "moved")    \* TxMove

TxCreates(i) ==                                 \* TxCreateReader
  /\ at[TxL(i)] = "moved"
  /\ at' = [at EXCEPT ![TxL(i)] = "asleep", ![Reader(i)] = "start"]

Copies(i) ==                                    \* ReaderStart
  /\ at[Reader(i)] = "start" /\ Moves(Reader(i), "loop")
  /\ copied' = [copied EXCEPT ![i] = Ready(i) \in cond]
  /\ UNCHANGED <<rx_counter, cond>>

Reads(i) == \E v \in {"loop", "empty", "wait"} :    \* RxBurst, ReaderEmpty, ReaderWait
  at[Reader(i)] \in {"loop", "empty", "wait"} /\ Moves(Reader(i), v)

Change ==
  \/ UNCHANGED at /\ Kept
  \/ (SpawnsRx /\ Kept) \/ (Sleeps /\ Kept) \/ (Wakes /\ Kept) \/ (SpawnsTx /\ Kept)
  \/ \E i \in RxIds : (RxMoves(i) /\ Kept) \/ RxCounts(i)
  \/ \E i \in TxIds : \/ (TxMoves(i) \/ TxCreates(i) \/ Reads(i)) /\ Kept
                      \/ Copies(i)

(* Which worker a burst goes to.                                           *)
LEMMA RingOf ==
  ASSUME setup \in Setups, NEW i \in RxIds, Rings(i) # <<>>, NEW w \in Nat
  PROVE  LET n == Len(Rings(i)) IN
         /\ (w + 1) % n \in Nat
         /\ Rings(i)[((w + 1) % n) + 1] \in TxIds
<1>1. Rings(i) \in Seq(TxIds)
  BY SetupTypes
<1>2. Len(Rings(i)) \in Nat \ {0}
  BY <1>1, EmptySeq, LenProperties
<1>3. PICK n \in Nat \ {0} : n = Len(Rings(i))
  BY <1>2
<1>4. (w + 1) % n \in 0 .. n - 1
  BY ModRange
<1>5. (w + 1) % n \in Nat /\ ((w + 1) % n) + 1 \in 1 .. n
  BY <1>4
<1> QED
  BY <1>1, <1>3, <1>5, ElementOfSeq

(* The spawner creates the rx lthreads.                                    *)
LEMMA CreateRxSpawns ==
  ASSUME setup \in Setups, Stages(at), NEW l, CreateRx(l)
  PROVE  SpawnsRx /\ Kept
<1>1. /\ at[Spawner] = "start" /\ Kept
      /\ at' = [Created([i \in 1 .. NRx |-> RxL(i - 1)]) EXCEPT ![Spawner] = "wait"]
  BY DEF CreateRx, Kept
<1>2. Created([i \in 1 .. NRx |-> RxL(i - 1)])
        = [t \in Lthreads |-> IF t \in {RxL(i) : i \in RxIds} THEN "start" ELSE at[t]]
  BY Spawned, Zenon DEF Created
<1> DEFINE N == {RxL(i) : i \in RxIds}
<1>3. /\ Spawner \notin N /\ \A i \in RxIds : RxL(i) \in N
      /\ \A i \in TxIds : TxL(i) \notin N /\ TxL(i) # Spawner
      /\ \A i \in TxIds : Reader(i) \notin N /\ Reader(i) # Spawner
      /\ \A i \in RxIds : RxL(i) # Spawner
  BY Different
<1> HIDE DEF N
<1>4. at' = [t \in Lthreads |-> IF t = Spawner THEN "wait"
                              ELSE IF t \in N THEN "start" ELSE at[t]]
  BY <1>1, <1>2 DEF N
<1>5. at \in [Lthreads -> States] /\ "wait" \in States /\ "start" \in States
  BY DEF Stages, States
<1>6. at' \in [Lthreads -> States]
  BY <1>4, <1>5
<1>7. /\ Spawner \in Lthreads /\ \A i \in RxIds : RxL(i) \in Lthreads
      /\ \A i \in TxIds : TxL(i) \in Lthreads /\ Reader(i) \in Lthreads
  BY LthreadTypes
<1> QED
  BY <1>1, <1>3, <1>4, <1>6, <1>7 DEF SpawnsRx

(* The spawner creates the tx lthreads.                                    *)
LEMMA CreateTxSpawns ==
  ASSUME setup \in Setups, Stages(at), NEW l, CreateTx(l)
  PROVE  SpawnsTx /\ Kept
<1>1. /\ at[Spawner] = "wait" /\ AllRxStarted /\ Kept
      /\ at' = [Created([i \in 1 .. NTx |-> TxL(i - 1)]) EXCEPT ![Spawner] = "join"]
  BY DEF CreateTx, Kept
<1>2. Created([i \in 1 .. NTx |-> TxL(i - 1)])
        = [t \in Lthreads |-> IF t \in {TxL(i) : i \in TxIds} THEN "start" ELSE at[t]]
  BY Spawned, Zenon DEF Created
<1> DEFINE N == {TxL(i) : i \in TxIds}
<1>3. /\ Spawner \notin N /\ \A i \in TxIds : TxL(i) \in N
      /\ \A i \in RxIds : RxL(i) \notin N /\ RxL(i) # Spawner
      /\ \A i \in TxIds : Reader(i) \notin N /\ Reader(i) # Spawner
      /\ \A i \in TxIds : TxL(i) # Spawner
  BY Different
<1> HIDE DEF N
<1>4. at' = [t \in Lthreads |-> IF t = Spawner THEN "join"
                              ELSE IF t \in N THEN "start" ELSE at[t]]
  BY <1>1, <1>2 DEF N
<1>5. at \in [Lthreads -> States] /\ "join" \in States /\ "start" \in States
  BY DEF Stages, States
<1>6. at' \in [Lthreads -> States]
  BY <1>4, <1>5
<1>7. /\ Spawner \in Lthreads /\ \A i \in RxIds : RxL(i) \in Lthreads
      /\ \A i \in TxIds : TxL(i) \in Lthreads /\ Reader(i) \in Lthreads
  BY LthreadTypes
<1> QED
  BY <1>1, <1>3, <1>4, <1>6, <1>7 DEF SpawnsTx

(* Every step is one of these changes.                                     *)
LEMMA StepChange ==
  ASSUME setup \in Setups, Stages(at), worker \in [RxIds -> Nat], [Next]_vars
  PROVE  Change
<1>1. CASE UNCHANGED vars
  BY <1>1 DEF vars, Change, Kept
<1>2. CASE Wake
  BY <1>2 DEF Wake, Change, Kept, Wakes, Moves
<1>3. ASSUME NEW l, Dispatch(l) PROVE Change
  BY <1>3 DEF Dispatch, Change, Kept
<1>4. ASSUME NEW l, CreateRx(l) PROVE Change
  BY <1>4, CreateRxSpawns DEF Change
<1>5. ASSUME NEW l, CreateTx(l) PROVE Change
  BY <1>5, CreateTxSpawns DEF Change
<1>6. ASSUME NEW l, WaitForRx(l) PROVE Change
  BY <1>6 DEF WaitForRx, Change, Kept, Sleeps, Moves
<1>7. ASSUME NEW l, NEW i \in RxIds, RxMove(i, l) PROVE Change
  <2>1. RxMoves(i) /\ Kept
    BY <1>7 DEF RxMove, RxMoves, Moves, Kept
  <2> QED
    BY <2>1 DEF Change
<1>8. ASSUME NEW l, NEW i \in RxIds, RxInit(i, l) PROVE Change
  <2>1. RxCounts(i)
    BY <1>8 DEF RxInit, RxCounts, Moves
  <2> QED
    BY <2>1 DEF Change
<1>9. ASSUME NEW l, NEW i \in RxIds, RxIdle(i, l) \/ RxNoRing(i, l) PROVE Change
  BY <1>9 DEF RxIdle, RxNoRing, Change, Kept
<1>10. ASSUME NEW l, NEW i \in RxIds, RxBurst(i, l) PROVE Change
  <2> DEFINE j == Rings(i)[((worker[i] + 1) % Len(Rings(i))) + 1]
  <2>1. /\ Kept /\ Rings(i) # <<>>
        /\ \/ UNCHANGED at
           \/ at[Reader(j)] = "wait" /\ at' = [at EXCEPT ![Reader(j)] = "loop"]
    BY <1>10 DEF RxBurst, Kept
  <2>2. j \in TxIds
    BY <2>1, RingOf
  <2> HIDE DEF j
  <2>3. UNCHANGED at \/ Reads(j)
    BY <2>1 DEF Reads, Moves
  <2> QED
    BY <2>1, <2>2, <2>3 DEF Change
<1>11. ASSUME NEW l, NEW i \in TxIds, TxMove(i, l) PROVE Change
  <2>1. TxMoves(i) /\ Kept
    BY <1>11 DEF TxMove, TxMoves, Moves, Kept
  <2> QED
    BY <2>1 DEF Change
<1>12. ASSUME NEW l, NEW i \in TxIds, TxCreateReader(i, l) PROVE Change
  <2>1. TxCreates(i) /\ Kept
    BY <1>12 DEF TxCreateReader, TxCreates, Kept
  <2> QED
    BY <2>1 DEF Change
<1>13. ASSUME NEW l, NEW i \in TxIds, ReaderStart(i, l) PROVE Change
  <2>1. Copies(i)
    BY <1>13 DEF ReaderStart, Copies, Moves
  <2> QED
    BY <2>1 DEF Change
<1>14. ASSUME NEW l, NEW i \in TxIds, ReaderTake(i, l) PROVE Change
  BY <1>14 DEF ReaderTake, Change, Kept
<1>15. ASSUME NEW l, NEW i \in TxIds, ReaderEmpty(i, l) \/ ReaderWait(i, l)
       PROVE  Change
  <2>1. Reads(i) /\ Kept
    BY <1>15 DEF ReaderEmpty, ReaderWait, Reads, Moves, Kept
  <2> QED
    BY <2>1 DEF Change
<1> QED
  BY <1>1, <1>2, <1>3, <1>4, <1>5, <1>6, <1>7, <1>8, <1>9, <1>10, <1>11, <1>12, <1>13,
     <1>14, <1>15 DEF Next, Step

(* Every change keeps the order of the start ...                           *)
LEMMA ChangeStages ==
  ASSUME setup \in Setups, Stages(at), rx_counter = Cardinality(Loops(at)), Change
  PROVE  Stages(at')
<1>0. /\ Spawner \in Lthreads /\ \A i \in RxIds : RxL(i) \in Lthreads
      /\ \A i \in TxIds : TxL(i) \in Lthreads /\ Reader(i) \in Lthreads
      /\ at \in [Lthreads -> States]
  BY LthreadTypes DEF Stages
<1>1. CASE UNCHANGED at
  BY <1>1
<1>2. CASE SpawnsRx
  BY <1>2 DEF SpawnsRx, Stages
<1>3. CASE Sleeps \/ Wakes
  <2>1. /\ at[Spawner] \in {"wait", "asleep"} /\ at'[Spawner] \in {"wait", "asleep"}
        /\ at' \in [Lthreads -> States]
        /\ \A t \in Lthreads : t # Spawner => at'[t] = at[t]
    BY <1>0, <1>3 DEF Sleeps, Wakes, Moves, States
  <2> QED
    BY <1>0, <2>1, Different DEF Stages
<1>4. CASE SpawnsTx
  <2>1. \A i \in RxIds : at[RxL(i)] = "loop"
    BY <1>4, AllCounted DEF SpawnsTx
  <2>2. \A i \in TxIds : at[Reader(i)] = "none"
    BY <1>4 DEF SpawnsTx, Stages
  <2> QED
    BY <1>4, <2>1, <2>2 DEF SpawnsTx, Stages
<1>5. ASSUME NEW i \in RxIds, RxMoves(i) \/ RxCounts(i) PROVE Stages(at')
  <2>1. PICK v \in {"moved", "loop"} :
          /\ at' = [at EXCEPT ![RxL(i)] = v] /\ at[RxL(i)] \in {"start", "moved"}
    BY <1>5 DEF RxMoves, RxCounts, Moves
  <2>2. /\ at' \in [Lthreads -> States] /\ at'[Spawner] = at[Spawner]
        /\ \A k \in TxIds : at'[TxL(k)] = at[TxL(k)] /\ at'[Reader(k)] = at[Reader(k)]
    BY <1>0, <2>1, Different DEF States
  <2>3. at[Spawner] \notin {"start", "join"}
    BY <2>1 DEF Stages
  <2> QED
    BY <2>2, <2>3 DEF Stages
<1>6. ASSUME NEW i \in TxIds, TxMoves(i) PROVE Stages(at')
  <2>1. at' = [at EXCEPT ![TxL(i)] = "moved"] /\ at[TxL(i)] = "start"
    BY <1>6 DEF TxMoves, Moves
  <2>2. /\ at' \in [Lthreads -> States] /\ at'[Spawner] = at[Spawner]
        /\ \A k \in RxIds : at'[RxL(k)] = at[RxL(k)]
        /\ \A k \in TxIds : at'[Reader(k)] = at[Reader(k)]
        /\ \A k \in TxIds : k # i => at'[TxL(k)] = at[TxL(k)]
    BY <1>0, <2>1, Different DEF States
  <2>3. at[Spawner] = "join" /\ at[Reader(i)] = "none"
    BY <2>1 DEF Stages
  <2> QED
    BY <2>2, <2>3 DEF Stages
<1>7. ASSUME NEW i \in TxIds, TxCreates(i) PROVE Stages(at')
  <2>1. /\ at' = [at EXCEPT ![TxL(i)] = "asleep", ![Reader(i)] = "start"]
        /\ at[TxL(i)] = "moved"
    BY <1>7 DEF TxCreates
  <2>2. /\ at' \in [Lthreads -> States] /\ at'[Spawner] = at[Spawner]
        /\ \A k \in RxIds : at'[RxL(k)] = at[RxL(k)]
        /\ \A k \in TxIds : k # i => at'[TxL(k)] = at[TxL(k)] /\ at'[Reader(k)] = at[Reader(k)]
        /\ at'[TxL(i)] = "asleep"
    BY <1>0, <2>1, Different DEF States
  <2>3. at[Spawner] = "join"
    BY <2>1 DEF Stages
  <2> QED
    BY <2>2, <2>3 DEF Stages
<1>8. ASSUME NEW i \in TxIds, Copies(i) \/ Reads(i) PROVE Stages(at')
  <2>1. PICK v \in {"loop", "empty", "wait"} :
          at' = [at EXCEPT ![Reader(i)] = v] /\ at[Reader(i)] # "none"
    BY <1>8 DEF Copies, Reads, Moves
  <2>2. /\ at' \in [Lthreads -> States] /\ at'[Spawner] = at[Spawner]
        /\ \A k \in RxIds : at'[RxL(k)] = at[RxL(k)]
        /\ \A k \in TxIds : at'[TxL(k)] = at[TxL(k)]
        /\ \A k \in TxIds : k # i => at'[Reader(k)] = at[Reader(k)]
    BY <1>0, <2>1, Different DEF States
  <2>3. at[TxL(i)] = "asleep"
    BY <2>1 DEF Stages
  <2> QED
    BY <2>2, <2>3 DEF Stages
<1> QED
  BY <1>1, <1>2, <1>3, <1>4, <1>5, <1>6, <1>7, <1>8 DEF Change

(* ... and what has been captured.                                         *)
LEMMA ChangeCaptured ==
  ASSUME setup \in Setups, Stages(at), Captured(at, rx_counter, cond, copied), Change
  PROVE  Captured(at', rx_counter', cond', copied')
<1>0. /\ Spawner \in Lthreads /\ \A i \in RxIds : RxL(i) \in Lthreads
      /\ \A i \in TxIds : TxL(i) \in Lthreads /\ Reader(i) \in Lthreads
      /\ at \in [Lthreads -> States]
  BY LthreadTypes DEF Stages
<1>1. ASSUME Kept, Loops(at') = Loops(at),
             \A i \in TxIds : at[Reader(i)] \in {"none", "start"} =>
                                at'[Reader(i)] \in {"none", "start"}
      PROVE  Captured(at', rx_counter', cond', copied')
  BY <1>1 DEF Captured, Kept
<1>2. CASE UNCHANGED at /\ Kept
  BY <1>2 DEF Kept
<1>3. CASE SpawnsRx /\ Kept
  <2>1. Loops(at') = Loops(at)
    BY <1>3 DEF Loops, SpawnsRx, Stages
  <2> QED
    BY <1>1, <1>3, <2>1 DEF SpawnsRx
<1>4. CASE (Sleeps \/ Wakes) /\ Kept
  <2>1. \A t \in Lthreads : t # Spawner => at'[t] = at[t]
    BY <1>0, <1>4 DEF Sleeps, Wakes, Moves
  <2>2. Loops(at') = Loops(at) /\ \A i \in TxIds : at'[Reader(i)] = at[Reader(i)]
    BY <1>0, <2>1, Different DEF Loops
  <2> QED
    BY <1>1, <1>4, <2>2
<1>5. CASE SpawnsTx /\ Kept
  <2>1. Loops(at') = Loops(at)
    BY <1>5 DEF Loops, SpawnsTx
  <2> QED
    BY <1>1, <1>5, <2>1 DEF SpawnsTx
<1>6. ASSUME NEW i \in RxIds, RxMoves(i), Kept
      PROVE  Captured(at', rx_counter', cond', copied')
  <2>1. at' = [at EXCEPT ![RxL(i)] = "moved"] /\ at[RxL(i)] = "start"
    BY <1>6 DEF RxMoves, Moves
  <2>2. /\ \A k \in RxIds : k # i => at'[RxL(k)] = at[RxL(k)]
        /\ at'[RxL(i)] = "moved"
        /\ \A k \in TxIds : at'[Reader(k)] = at[Reader(k)]
    BY <1>0, <2>1, Different
  <2>3. Loops(at') = Loops(at)
    BY <2>1, <2>2 DEF Loops
  <2> QED
    BY <1>1, <1>6, <2>2, <2>3
<1>7. ASSUME NEW i \in RxIds, RxCounts(i)
      PROVE  Captured(at', rx_counter', cond', copied')
  <2>1. /\ at' = [at EXCEPT ![RxL(i)] = "loop"] /\ at[RxL(i)] = "moved"
        /\ rx_counter' = rx_counter + 1 /\ copied' = copied
        /\ cond' = cond \cup ({i} \X (0 .. NQueues(i) - 1))
    BY <1>7 DEF RxCounts, Moves
  <2>2. /\ \A k \in RxIds : k # i => at'[RxL(k)] = at[RxL(k)]
        /\ at'[RxL(i)] = "loop"
        /\ \A k \in TxIds : at'[Reader(k)] = at[Reader(k)]
    BY <1>0, <2>1, Different
  <2>3. Loops(at') = Loops(at) \cup {i} /\ i \notin Loops(at) /\ IsFiniteSet(Loops(at))
    <3>1. Loops(at) \in SUBSET RxIds
      BY DEF Loops
    <3>2. IsFiniteSet(Loops(at))
      BY <3>1, SetupTypes, FS_Subset
    <3> QED
      BY <2>1, <2>2, <3>2 DEF Loops
  <2>4. rx_counter' = Cardinality(Loops(at'))
    <3>1. Cardinality(Loops(at) \cup {i}) = Cardinality(Loops(at)) + 1
      BY <2>3, FS_AddElement, Zenon
    <3>2. rx_counter = Cardinality(Loops(at))
      BY DEF Captured
    <3> QED
      BY <2>1, <2>3, <3>1, <3>2, Zenon
  <2>5. \A m, k : <<m, k>> \in cond' <=> m \in Loops(at') /\ k \in 0 .. NQueues(m) - 1
    <3>1. ASSUME NEW m, NEW k
          PROVE  <<m, k>> \in cond' <=>
                   <<m, k>> \in cond \/ (m = i /\ k \in 0 .. NQueues(i) - 1)
      BY <2>1
    <3>2. ASSUME NEW m, NEW k
          PROVE  <<m, k>> \in cond <=> m \in Loops(at) /\ k \in 0 .. NQueues(m) - 1
      BY DEF Captured
    <3> QED
      BY <2>3, <3>1, <3>2, Zenon
  <2> QED
    BY <2>1, <2>2, <2>4, <2>5 DEF Captured
<1>8. ASSUME NEW i \in TxIds, TxMoves(i), Kept
      PROVE  Captured(at', rx_counter', cond', copied')
  <2>1. at' = [at EXCEPT ![TxL(i)] = "moved"]
    BY <1>8 DEF TxMoves, Moves
  <2>2. /\ \A k \in RxIds : at'[RxL(k)] = at[RxL(k)]
        /\ \A k \in TxIds : at'[Reader(k)] = at[Reader(k)]
    BY <1>0, <2>1, Different
  <2>3. Loops(at') = Loops(at)
    BY <2>2 DEF Loops
  <2> QED
    BY <1>1, <1>8, <2>2, <2>3
<1>9. ASSUME NEW i \in TxIds, TxCreates(i), Kept
      PROVE  Captured(at', rx_counter', cond', copied')
  <2>1. at' = [at EXCEPT ![TxL(i)] = "asleep", ![Reader(i)] = "start"]
    BY <1>9 DEF TxCreates
  <2>2. /\ \A k \in RxIds : at'[RxL(k)] = at[RxL(k)]
        /\ \A k \in TxIds : k # i => at'[Reader(k)] = at[Reader(k)]
        /\ at'[Reader(i)] = "start"
    BY <1>0, <2>1, Different
  <2>3. Loops(at') = Loops(at)
    BY <2>2 DEF Loops
  <2> QED
    BY <1>1, <1>9, <2>2, <2>3
<1>10. ASSUME NEW i \in TxIds, Reads(i), Kept
       PROVE  Captured(at', rx_counter', cond', copied')
  <2>1. PICK v : at' = [at EXCEPT ![Reader(i)] = v]
                 /\ at[Reader(i)] \in {"loop", "empty", "wait"}
    BY <1>10 DEF Reads, Moves
  <2>2. /\ \A k \in RxIds : at'[RxL(k)] = at[RxL(k)]
        /\ \A k \in TxIds : k # i => at'[Reader(k)] = at[Reader(k)]
    BY <1>0, <2>1, Different
  <2>3. Loops(at') = Loops(at)
    BY <2>2 DEF Loops
  <2> QED
    BY <1>1, <1>10, <2>1, <2>2, <2>3
<1>11. ASSUME NEW i \in TxIds, Copies(i)
       PROVE  Captured(at', rx_counter', cond', copied')
  <2>1. /\ at' = [at EXCEPT ![Reader(i)] = "loop"] /\ at[Reader(i)] = "start"
        /\ copied' = [copied EXCEPT ![i] = Ready(i) \in cond]
        /\ rx_counter' = rx_counter /\ cond' = cond
    BY <1>11 DEF Copies, Moves
  <2>2. /\ \A k \in RxIds : at'[RxL(k)] = at[RxL(k)]
        /\ \A k \in TxIds : k # i => at'[Reader(k)] = at[Reader(k)]
    BY <1>0, <2>1, Different
  <2>3. Loops(at') = Loops(at)
    BY <2>2 DEF Loops
  <2>4. Loops(at) = RxIds
    BY <2>1 DEF Stages, Loops
  <2>5. Ready(i) \in cond <=> HasCond(i)
    <3> DEFINE t == TxConf(i).thread
               n == Cardinality({j \in TxIds : j < i /\ TxConf(j).thread = t})
    <3>1. Ready(i) = <<t, n>>
      BY DEF Ready
    <3>2. n \in Nat
      <4>1. IsFiniteSet({j \in TxIds : j < i /\ TxConf(j).thread = t})
        BY SetupTypes, FS_Subset
      <4> QED
        BY <4>1, FS_CardinalityType
    <3> HIDE DEF t, n
    <3>3. Ready(i) \in cond <=> t \in RxIds /\ n \in 0 .. NQueues(t) - 1
      BY <2>4, <3>1 DEF Captured
    <3>4. HasCond(i) <=> t \in RxIds /\ n < NQueues(t)
      BY <3>1 DEF HasCond
    <3>5. t \in RxIds => NQueues(t) \in Nat
      BY SetupTypes
    <3> QED
      BY <3>2, <3>3, <3>4, <3>5
  <2>6. copied' \in [TxIds -> BOOLEAN] /\ (copied'[i] <=> HasCond(i))
        /\ \A k \in TxIds : k # i => copied'[k] = copied[k]
    <3>1. copied \in [TxIds -> BOOLEAN] /\ (Ready(i) \in cond) \in BOOLEAN
      BY DEF Captured
    <3> QED
      BY <2>1, <2>5, <3>1, Zenon
  <2> QED
    BY <2>1, <2>2, <2>3, <2>6 DEF Captured
<1> QED
  BY <1>2, <1>3, <1>4, <1>5, <1>6, <1>7, <1>8, <1>9, <1>10, <1>11 DEF Change

-----------------------------------------------------------------------------
(* The numbers of bursts.                                                  *)
Numbers(w, f, r, b, x) ==
  /\ w \in [RxIds -> Nat] /\ f \in [TxIds -> Nat] /\ r \in [TxIds -> Nat]
  /\ b \in [Queues -> Nat] /\ x \in Nat

Bursts(f, S) == SumFunctionOnSet(f, S)

(* The bursts received are in the rings, taken or lost; counters wrap.     *)
Balance(f, r, b, x) ==
  (Bursts(r, TxIds) + Bursts(f, TxIds) + x) % CtrMod = Bursts(b, Queues) % CtrMod

(* Counters are equal up to their width.                                   *)
Cong(a, b) == a % CtrMod = b % CtrMod

(* They stay so when the same is added to both.                            *)
LEMMA CongPlus ==
  ASSUME NEW a \in Int, NEW b \in Int, NEW c \in Int, Cong(a, b),
         NEW u, u = a + c, NEW v, v = b + c
  PROVE  Cong(u, v)
<1>1. PICK m \in Nat \ {0} : m = CtrMod
  BY StartupAssumption
<1>2. a % m = b % m
  BY <1>1 DEF Cong
<1>3. (a + c) % m = (b + c) % m
  BY <1>2, ModSame
<1> QED
  BY <1>1, <1>3 DEF Cong

(* A counter after an increment.                                           *)
LEMMA CongAdd ==
  ASSUME NEW n \in Nat
  PROVE  Add(n, 1) \in Nat /\ Cong(Add(n, 1), n + 1)
<1>1. PICK m \in Nat \ {0} : m = CtrMod
  BY StartupAssumption
<1>2. PICK k \in Int : k = n + 1
  OBVIOUS
<1>3. PICK r \in 0 .. m - 1 : r = k % m
  BY ModRange
<1>4. r % m = r
  BY ModSmall
<1>5. Add(n, 1) = r
  BY <1>1, <1>2, <1>3 DEF Add
<1> QED
  BY <1>1, <1>2, <1>3, <1>4, <1>5 DEF Cong

(* One counter of several, that of x, is set to v.                         *)
Changed(f, e, S, x, v) == f \in [S -> Nat] => e = [f EXCEPT ![x] = v]

(* The sum changes by as much.                                             *)
LEMMA SumChanged ==
  ASSUME NEW S, IsFiniteSet(S), NEW f \in [S -> Nat], NEW x \in S, NEW v \in Nat,
         NEW e, Changed(f, e, S, x, v)
  PROVE  /\ e \in [S -> Nat] /\ Bursts(f, S) \in Int /\ Bursts(e, S) \in Int
         /\ Bursts(e, S) = Bursts(f, S) + (v - f[x])
<1>1. e = [f EXCEPT ![x] = v]
  BY DEF Changed
<1>2. /\ e \in [S -> Nat] /\ e[x] = v
      /\ \A y \in S : f[y] \in Int /\ e[y] \in Int
      /\ \A y \in S \ {x} : e[y] = f[y]
  BY <1>1
<1>3. SumFunctionOnSet(e, S) = SumFunctionOnSet(f, S) + (e[x] - f[x])
  <2>1. \A y \in S : f[y] \in Int /\ e[y] \in Int
    BY <1>2
  <2>2. \A y \in S \ {x} : e[y] = f[y]
    BY <1>2
  <2> QED
    BY ONLY IsFiniteSet(S), x \in S, <2>1, <2>2, SumUpdate
<1>4. SumFunctionOnSet(f, S) \in Int /\ SumFunctionOnSet(e, S) \in Int
  BY <1>2, SumInt
<1> QED
  BY <1>2, <1>3, <1>4 DEF Bursts

(* An increment, wrapped or not, is one more in the sum.                   *)
LEMMA SumAdd ==
  ASSUME NEW S, IsFiniteSet(S), NEW f \in [S -> Nat], NEW x \in S,
         NEW e, Changed(f, e, S, x, Add(f[x], 1))
  PROVE  /\ e \in [S -> Nat] /\ Bursts(f, S) \in Int /\ Bursts(e, S) \in Int
         /\ Cong(Bursts(e, S), Bursts(f, S) + 1)
<1>1. PICK n \in Nat : n = f[x]
  OBVIOUS
<1>2. PICK v \in Nat : v = Add(n, 1) /\ Cong(v, n + 1)
  BY CongAdd
<1>3. Changed(f, e, S, x, v)
  BY <1>1, <1>2
<1>4. /\ e \in [S -> Nat] /\ Bursts(f, S) \in Int /\ Bursts(e, S) \in Int
      /\ Bursts(e, S) = Bursts(f, S) + (v - f[x])
  BY <1>3, SumChanged
<1>5. PICK a \in Int, b \in Int : a = Bursts(f, S) /\ b = Bursts(e, S)
  BY <1>4
<1>6. PICK c \in Int, k \in Int : c = a - n /\ k = n + 1
  OBVIOUS
<1>7. b = v + c /\ a + 1 = k + c /\ v \in Int /\ Cong(v, k)
  BY <1>1, <1>2, <1>4, <1>5, <1>6
<1>8. PICK d \in Int : d = a + 1
  OBVIOUS
<1>9. Cong(b, d)
  BY <1>7, <1>8, CongPlus
<1> QED
  BY <1>4, <1>5, <1>8, <1>9

(* A burst is received, and stored or lost.                                *)
LEMMA BurstReceived ==
  ASSUME setup \in Setups, Numbers(worker, fill, re, batch_n, ring_loss),
         Balance(fill, re, batch_n, ring_loss),
         NEW i \in RxIds, NEW l, RxBurst(i, l)
  PROVE  /\ Numbers(worker', fill', re', batch_n', ring_loss')
         /\ Balance(fill', re', batch_n', ring_loss')
<1>0. /\ IsFiniteSet(TxIds) /\ IsFiniteSet(Queues)
      /\ \A k \in 1 .. NQueues(i) : RxConf(i).queues[k][2] \in Queues
  BY SetupTypes
<1>1. /\ worker \in [RxIds -> Nat] /\ fill \in [TxIds -> Nat] /\ re \in [TxIds -> Nat]
      /\ batch_n \in [Queues -> Nat] /\ ring_loss \in Nat
  BY DEF Numbers
<1> DEFINE w == (worker[i] + 1) % Len(Rings(i))
           j == Rings(i)[w + 1]
<1>2. /\ Rings(i) # <<>> /\ re' = re /\ worker' = [worker EXCEPT ![i] = w]
      /\ \E k \in 1 .. NQueues(i) :
           batch_n' = [batch_n EXCEPT ![RxConf(i).queues[k][2]] = Add(@, 1)]
      /\ \/ fill' = [fill EXCEPT ![j] = @ + 1] /\ ring_loss' = ring_loss
         \/ ring_loss' = Add(ring_loss, 1) /\ fill' = fill
  BY DEF RxBurst
<1>3. w \in Nat /\ j \in TxIds
  BY <1>1, <1>2, RingOf
<1> HIDE DEF w, j
<1>4. PICK q \in Queues : batch_n' = [batch_n EXCEPT ![q] = Add(@, 1)]
  BY <1>0, <1>2
<1>5. worker' \in [RxIds -> Nat]
  BY <1>1, <1>2, <1>3
<1>6. /\ batch_n' \in [Queues -> Nat]
      /\ Bursts(batch_n, Queues) \in Int /\ Bursts(batch_n', Queues) \in Int
      /\ Cong(Bursts(batch_n', Queues), Bursts(batch_n, Queues) + 1)
  <2>1. Changed(batch_n, batch_n', Queues, q, Add(batch_n[q], 1))
    BY <1>4 DEF Changed
  <2> QED
    BY <1>0, <1>1, <2>1, SumAdd
<1>7. PICK B \in Int, C \in Int : /\ B = Bursts(batch_n, Queues)
                                  /\ C = Bursts(batch_n', Queues)
  BY <1>6
<1>8. Bursts(re, TxIds) \in Int /\ Bursts(fill, TxIds) \in Int
  <2>1. \A y \in TxIds : re[y] \in Int /\ fill[y] \in Int
    BY <1>1
  <2> QED
    BY <1>0, <2>1, SumInt DEF Bursts
<1>9. PICK R \in Int, F \in Int : R = Bursts(re, TxIds) /\ F = Bursts(fill, TxIds)
  BY <1>8
<1>10. PICK a \in Int, b \in Int, d \in Int :
         a = R + F + ring_loss /\ b = a + 1 /\ d = B + 1 /\ Cong(a, B) /\ Cong(C, d)
  BY <1>1, <1>6, <1>7, <1>9 DEF Balance, Cong
<1>11. Cong(b, C)
  <2>1. PICK c \in Int : c = 1
    OBVIOUS
  <2>2. Cong(b, d)
    BY <1>10, <2>1, CongPlus
  <2> QED
    BY <1>10, <2>2 DEF Cong
<1>12. CASE fill' = [fill EXCEPT ![j] = @ + 1] /\ ring_loss' = ring_loss
  <2>1. PICK v \in Nat : v = fill[j] + 1
    BY <1>1, <1>3
  <2>2. Changed(fill, fill', TxIds, j, v)
    BY <1>12, <2>1 DEF Changed
  <2>3. /\ fill' \in [TxIds -> Nat]
        /\ Bursts(fill', TxIds) = Bursts(fill, TxIds) + (v - fill[j])
    BY <1>0, <1>1, <1>3, <2>2, SumChanged
  <2>4. Bursts(re', TxIds) + Bursts(fill', TxIds) + ring_loss' = b
    <3>1. Bursts(re', TxIds) = R /\ Bursts(fill', TxIds) = F + (v - fill[j])
      BY <1>2, <1>9, <2>3
    <3>2. fill[j] \in Nat
      BY <1>1, <1>3
    <3> QED
      BY <1>1, <1>10, <1>12, <2>1, <3>1, <3>2
  <2>5. Balance(fill', re', batch_n', ring_loss')
    BY <1>7, <1>11, <2>4 DEF Balance, Cong
  <2> QED
    BY <1>1, <1>2, <1>5, <1>6, <1>12, <2>3, <2>5 DEF Numbers
<1>13. CASE ring_loss' = Add(ring_loss, 1) /\ fill' = fill
  <2>1. PICK v \in Nat : v = ring_loss' /\ Cong(v, ring_loss + 1)
    BY <1>1, <1>13, CongAdd
  <2>2. PICK c \in Int, k \in Int, u \in Int : c = R + F /\ k = ring_loss + 1 /\ u = v + c
    BY <1>1
  <2>3. Cong(v, k) /\ b = k + c /\ v \in Int
    BY <1>1, <1>10, <2>1, <2>2
  <2>4. Cong(u, b)
    BY <2>2, <2>3, CongPlus
  <2>5. Bursts(re', TxIds) + Bursts(fill', TxIds) + ring_loss' = u
    BY <1>2, <1>9, <1>13, <2>1, <2>2
  <2>6. Balance(fill', re', batch_n', ring_loss')
    BY <1>7, <1>11, <2>4, <2>5 DEF Balance, Cong
  <2> QED
    BY <1>1, <1>2, <1>5, <1>6, <1>13, <2>1, <2>6 DEF Numbers
<1> QED
  BY <1>2, <1>12, <1>13

(* A burst is taken from a ring.                                           *)
LEMMA BurstTaken ==
  ASSUME setup \in Setups, Numbers(worker, fill, re, batch_n, ring_loss),
         Balance(fill, re, batch_n, ring_loss),
         NEW i \in TxIds, NEW l, ReaderTake(i, l)
  PROVE  /\ Numbers(worker', fill', re', batch_n', ring_loss')
         /\ Balance(fill', re', batch_n', ring_loss')
<1>0. IsFiniteSet(TxIds)
  BY SetupTypes
<1>1. fill \in [TxIds -> Nat] /\ re \in [TxIds -> Nat] /\ ring_loss \in Nat
  BY DEF Numbers
<1>2. /\ fill' = [fill EXCEPT ![i] = @ - 1] /\ re' = [re EXCEPT ![i] = Add(@, 1)]
      /\ worker' = worker /\ batch_n' = batch_n /\ ring_loss' = ring_loss /\ fill[i] > 0
  BY DEF ReaderTake
<1>3. PICK v \in Nat : v = fill[i] - 1
  BY <1>1, <1>2
<1>4. /\ fill' \in [TxIds -> Nat] /\ Bursts(fill, TxIds) \in Int
      /\ Bursts(fill', TxIds) = Bursts(fill, TxIds) + (v - fill[i])
  <2>1. Changed(fill, fill', TxIds, i, v)
    BY <1>2, <1>3 DEF Changed
  <2> QED
    BY <1>0, <1>1, <2>1, SumChanged
<1>5. /\ re' \in [TxIds -> Nat] /\ Bursts(re, TxIds) \in Int /\ Bursts(re', TxIds) \in Int
      /\ Cong(Bursts(re', TxIds), Bursts(re, TxIds) + 1)
  <2>1. Changed(re, re', TxIds, i, Add(re[i], 1))
    BY <1>2 DEF Changed
  <2> QED
    BY <1>0, <1>1, <2>1, SumAdd
<1>6. PICK R \in Int, F \in Int, Q \in Int :
        R = Bursts(re, TxIds) /\ F = Bursts(fill, TxIds) /\ Q = Bursts(re', TxIds)
  BY <1>4, <1>5
<1>7. PICK c \in Int, k \in Int, u \in Int, a \in Int :
        /\ c = F - 1 + ring_loss /\ k = R + 1 /\ u = Q + c /\ a = k + c /\ Cong(Q, k)
  BY <1>1, <1>5, <1>6
<1>8. Cong(u, a)
  BY <1>7, CongPlus
<1>9. a = R + F + ring_loss /\ Bursts(re', TxIds) + Bursts(fill', TxIds) + ring_loss' = u
  <2>1. Bursts(fill', TxIds) = F + (v - fill[i]) /\ fill[i] \in Nat
    BY <1>1, <1>4, <1>6
  <2> QED
    BY <1>1, <1>2, <1>3, <1>6, <1>7, <2>1
<1>10. Balance(fill', re', batch_n', ring_loss')
  BY <1>2, <1>6, <1>8, <1>9 DEF Balance, Cong
<1> QED
  BY <1>1, <1>2, <1>4, <1>5, <1>10 DEF Numbers

(* No other step touches the numbers.                                      *)
LEMMA NumbersStep ==
  ASSUME setup \in Setups, Numbers(worker, fill, re, batch_n, ring_loss),
         Balance(fill, re, batch_n, ring_loss), [Next]_vars
  PROVE  /\ Numbers(worker', fill', re', batch_n', ring_loss')
         /\ Balance(fill', re', batch_n', ring_loss')
<1> DEFINE Kind == \/ UNCHANGED traffic
                   \/ \E l : \E i \in RxIds : RxBurst(i, l)
                   \/ \E l : \E i \in TxIds : ReaderTake(i, l)
<1>1. UNCHANGED vars => UNCHANGED traffic
  BY DEF vars
<1>2. Wake => UNCHANGED traffic
  BY DEF Wake
<1>3. ASSUME NEW l, Dispatch(l) \/ CreateRx(l) \/ WaitForRx(l) \/ CreateTx(l)
      PROVE  UNCHANGED traffic
  BY <1>3 DEF Dispatch, CreateRx, WaitForRx, CreateTx
<1>4. ASSUME NEW l, NEW i, RxMove(i, l) \/ RxInit(i, l) \/ RxIdle(i, l) \/ RxNoRing(i, l)
      PROVE  UNCHANGED traffic
  BY <1>4 DEF RxMove, RxInit, RxIdle, RxNoRing
<1>5. ASSUME NEW l, NEW i, TxMove(i, l) \/ TxCreateReader(i, l) \/ ReaderStart(i, l)
                             \/ ReaderEmpty(i, l) \/ ReaderWait(i, l)
      PROVE  UNCHANGED traffic
  BY <1>5 DEF TxMove, TxCreateReader, ReaderStart, ReaderEmpty, ReaderWait
<1>6. Kind
  BY <1>1, <1>2, <1>3, <1>4, <1>5 DEF Next, Step
<1>7. CASE UNCHANGED traffic
  BY <1>7 DEF traffic
<1> QED
  BY <1>6, <1>7, BurstReceived, BurstTaken

-----------------------------------------------------------------------------
(* The inductive invariant of the start and of the numbers.                *)
StartInv ==
  /\ Started
  /\ Numbers(worker, fill, re, batch_n, ring_loss)
  /\ Balance(fill, re, batch_n, ring_loss)

(* It holds at first: nobody has counted itself, nothing was received.     *)
LEMMA StartInit ==
  ASSUME Init
  PROVE  StartInv
<1>1. /\ setup \in Setups
      /\ at = [t \in Lthreads |-> IF t = Spawner THEN "start" ELSE "none"]
      /\ rx_counter = 0 /\ cond = {} /\ copied = [i \in TxIds |-> FALSE]
      /\ worker = [i \in RxIds |-> 0] /\ fill = [i \in TxIds |-> 0]
      /\ re = [i \in TxIds |-> 0] /\ batch_n = [q \in Queues |-> 0]
      /\ ring_loss = 0
  BY DEF Init
<1>2. /\ Spawner \in Lthreads /\ \A i \in RxIds : RxL(i) \in Lthreads
      /\ \A i \in TxIds : TxL(i) \in Lthreads /\ Reader(i) \in Lthreads
  BY <1>1, LthreadTypes
<1>3. /\ at \in [Lthreads -> States] /\ at[Spawner] = "start"
      /\ \A i \in RxIds : at[RxL(i)] = "none"
      /\ \A i \in TxIds : at[TxL(i)] = "none" /\ at[Reader(i)] = "none"
  BY <1>1, <1>2, Different DEF States
<1>4. Stages(at)
  BY <1>3 DEF Stages
<1>5. Loops(at) = {}
  BY <1>3 DEF Loops
<1>6. Cardinality(Loops(at)) = 0
  BY <1>5, FS_EmptySet
<1>7. copied \in [TxIds -> BOOLEAN]
  BY <1>1
<1>8. Captured(at, rx_counter, cond, copied)
  BY <1>1, <1>3, <1>5, <1>6, <1>7 DEF Captured
<1>9. Numbers(worker, fill, re, batch_n, ring_loss)
  BY <1>1 DEF Numbers
<1>10. Bursts(re, TxIds) = 0 /\ Bursts(fill, TxIds) = 0 /\ Bursts(batch_n, Queues) = 0
  <2>1. IsFiniteSet(TxIds) /\ IsFiniteSet(Queues)
    BY <1>1, SetupTypes
  <2>2. /\ \A x \in TxIds : re[x] = 0
        /\ \A x \in TxIds : fill[x] = 0
        /\ \A x \in Queues : batch_n[x] = 0
    BY <1>1
  <2> QED
    BY <2>1, <2>2, SumZero DEF Bursts
<1>11. Balance(fill, re, batch_n, ring_loss)
  BY <1>1, <1>10 DEF Balance
<1> QED
  BY <1>1, <1>4, <1>8, <1>9, <1>11 DEF StartInv, Started

(* Every step keeps it.                                                    *)
LEMMA StartStep ==
  ASSUME StartInv, [Next]_vars
  PROVE  StartInv'
<1>1. /\ setup \in Setups /\ Stages(at) /\ Captured(at, rx_counter, cond, copied)
      /\ Numbers(worker, fill, re, batch_n, ring_loss)
      /\ Balance(fill, re, batch_n, ring_loss)
  BY DEF StartInv, Started
<1>2. setup' = setup
  BY SetupFixed
<1>3. Change
  BY <1>1, StepChange DEF Numbers
<1>4. Stages(at')
  BY <1>1, <1>3, ChangeStages DEF Captured
<1>5. Captured(at', rx_counter', cond', copied')
  BY <1>1, <1>3, ChangeCaptured
<1>6. /\ Numbers(worker', fill', re', batch_n', ring_loss')
      /\ Balance(fill', re', batch_n', ring_loss')
  BY <1>1, NumbersStep
<1>7. /\ NRx' = NRx /\ NTx' = NTx /\ RxIds' = RxIds /\ TxIds' = TxIds /\ Queues' = Queues
  BY <1>2 DEF NRx, NTx, RxIds, TxIds, Queues
<1>8. Lthreads' = Lthreads
  BY <1>7 DEF Lthreads, Spawner, RxL, TxL, Reader
<1>9. Stages(at)'
  BY <1>4, <1>7, <1>8 DEF Stages, Spawner, RxL, TxL, Reader
<1>10. (Numbers(worker, fill, re, batch_n, ring_loss)
         /\ Balance(fill, re, batch_n, ring_loss))'
  BY <1>6, <1>7 DEF Numbers, Balance, Bursts
<1>11. Captured(at, rx_counter, cond, copied)'
  <2>1. Loops(at)' = Loops(at')
    BY <1>7 DEF Loops, RxL
  <2>2. ASSUME NEW i PROVE NQueues(i)' = NQueues(i)
    BY <1>2 DEF NQueues, RxConf
  <2>3. ASSUME NEW i PROVE Ready(i)' = Ready(i)
    BY <1>2, <1>7 DEF Ready, TxConf
  <2>4. ASSUME NEW i PROVE HasCond(i)' <=> HasCond(i)
    BY <1>7, <2>2, <2>3 DEF HasCond
  <2> QED
    BY <1>5, <1>7, <2>1, <2>2, <2>4 DEF Captured, Reader
<1> QED
  BY <1>1, <1>2, <1>9, <1>10, <1>11 DEF StartInv, Started

(* The invariant holds throughout.                                         *)
THEOREM StartInvariant == Spec => []StartInv
<1>1. Init => StartInv
  BY StartInit
<1>2. StartInv /\ [Next]_vars => StartInv'
  BY StartStep
<1> QED
  BY <1>1, <1>2, PTL DEF Spec

(* A reader has a condition exactly if its rx thread has initialised one   *)
(* for its ring, and when a tx lthread exists all the rx lthreads are in   *)
(* their loops: for any lists of --rx and --tx.                            *)
THEOREM ConditionsCaptured == Spec => []CondCaptured
<1>1. StartInv => CondCaptured
  <2> SUFFICES ASSUME StartInv PROVE CondCaptured
    OBVIOUS
  <2>1. Stages(at) /\ Captured(at, rx_counter, cond, copied)
    BY DEF StartInv, Started
  <2> QED
    BY <2>1 DEF Stages, Captured, CondCaptured
<1> QED
  BY <1>1, StartInvariant, PTL

(* The final report, which sums over as many readers as there are rx       *)
(* threads, lacks no burst if there are no more tx than rx threads.        *)
THEOREM ReportIsComplete == Spec => []ReportComplete
<1>1. StartInv => ReportComplete
  <2> SUFFICES ASSUME StartInv, NTx <= NRx
               PROVE  (Reported + SumFunctionOnSet(fill, TxIds) + ring_loss) % CtrMod
                        = SumFunctionOnSet(batch_n, Queues) % CtrMod
    BY DEF ReportComplete
  <2>1. setup \in Setups /\ Balance(fill, re, batch_n, ring_loss)
    BY DEF StartInv, Started
  <2>2. NRx \in Nat /\ NTx \in Nat
    BY <2>1, SetupTypes
  <2>3. {i \in TxIds : i < NRx} = TxIds
    BY <2>2 DEF TxIds
  <2> QED
    BY <2>1, <2>3 DEF Balance, Bursts, Reported
<1> QED
  BY <1>1, StartInvariant, PTL

-----------------------------------------------------------------------------
(* Where the lthreads are scheduled.  One that rests, as it does not exist *)
(* yet or waits, is on no lcore; the spawner is on the master and an rx    *)
(* lthread that has moved is on its own lcore; one without queues that has *)
(* come to its loop never leaves it.                                       *)
Resting(b, u) ==
  b[u] \in {"none", "asleep", "join"} \/ (b[u] = "wait" /\ u # Spawner)

Home(b, u, m) ==
  /\ u = Spawner => m = setup.master
  /\ \A i \in RxIds : u = RxL(i) /\ b[u] \in {"moved", "loop"} => m = RxConf(i).lcore

Fits(b, u, m) == ~Resting(b, u) /\ Home(b, u, m)

Stuck(b, u) == \E i \in RxIds : u = RxL(i) /\ ~HasQueues(i) /\ b[u] = "loop"

Placed(b, q, d) ==
  /\ SchedOK(q, d)
  /\ \A u \in Lthreads : \A m \in setup.lcores : On(q, d, u, m) => Fits(b, u, m)
  /\ \A i \in RxIds : Stuck(b, RxL(i)) => d[RxConf(i).lcore] = RxL(i)

(* Where an lthread fits depends on its own state only.                    *)
LEMMA SameFits ==
  ASSUME NEW a, NEW b, NEW u, a[u] = b[u]
  PROVE  /\ \A m : Fits(a, u, m) <=> Fits(b, u, m)
         /\ Stuck(a, u) <=> Stuck(b, u)
BY DEF Fits, Resting, Home, Stuck

(* The readers and the tx lthreads fit anywhere.                           *)
LEMMA TxFits ==
  ASSUME NEW b, NEW i, NEW m
  PROVE  /\ b[TxL(i)] \in {"start", "moved"} => Fits(b, TxL(i), m)
         /\ b[Reader(i)] \in {"start", "loop", "empty"} => Fits(b, Reader(i), m)
         /\ ~Stuck(b, TxL(i)) /\ ~Stuck(b, Reader(i)) /\ ~Stuck(b, Spawner)
BY Different DEF Fits, Resting, Home, Stuck

(* The lthread that runs goes on, in another state.                        *)
LEMMA StayPlaced ==
  ASSUME setup \in Setups, NEW a, NEW b, NEW r, NEW c, Placed(a, r, c),
         NEW l \in setup.lcores, NEW t \in Lthreads, c[l] = t, Fits(b, t, l),
         \A u \in Lthreads : u # t => b[u] = a[u]
  PROVE  Placed(b, r, c)
<1>1. SchedOK(r, c) /\ On(r, c, t, l)
  BY DEF Placed, On
<1>2. ASSUME NEW u \in Lthreads, NEW m \in setup.lcores, On(r, c, u, m)
      PROVE  Fits(b, u, m)
  <2>1. CASE u = t
    <3>1. m = l
      BY <1>1, <1>2, <2>1 DEF SchedOK
    <3> QED
      BY <2>1, <3>1
  <2>2. CASE u # t
    <3>1. Fits(a, u, m) /\ a[u] = b[u]
      BY <1>2, <2>2 DEF Placed
    <3> QED
      BY <3>1, SameFits
  <2> QED
    BY <2>1, <2>2
<1>3. ASSUME NEW i \in RxIds, Stuck(b, RxL(i)) PROVE c[RxConf(i).lcore] = RxL(i)
  <2>1. RxL(i) \in Lthreads
    BY LthreadTypes
  <2>2. CASE RxL(i) = t
    <3>1. b[t] = "loop"
      BY <1>3, <2>2 DEF Stuck
    <3>2. l = RxConf(i).lcore
      BY <2>2, <3>1 DEF Fits, Home
    <3> QED
      BY <2>2, <3>2
  <2>3. CASE RxL(i) # t
    <3>1. a[RxL(i)] = b[RxL(i)]
      BY <2>1, <2>3
    <3>2. Stuck(a, RxL(i))
      BY <1>3, <3>1, SameFits
    <3> QED
      BY <3>2 DEF Placed
  <2> QED
    BY <2>2, <2>3
<1> QED
  BY <1>1, <1>2, <1>3 DEF Placed

(* It leaves its lcore.                                                    *)
LEMMA LeavePlaced ==
  ASSUME setup \in Setups, NEW a, NEW r, NEW c, Placed(a, r, c),
         NEW l \in setup.lcores, NEW t \in Lthreads, c[l] = t, ~Stuck(a, t),
         NEW d, Left(c, d, l)
  PROVE  /\ Placed(a, r, d) /\ Nowhere(r, d, t)
         /\ \A u \in Lthreads : Nowhere(r, c, u) => Nowhere(r, d, u)
<1>1. SchedOK(r, c)
  BY DEF Placed
<1>2. /\ SchedOK(r, d) /\ Nowhere(r, d, t)
      /\ \A u \in Lthreads : \A m \in setup.lcores : On(r, d, u, m) => On(r, c, u, m)
      /\ \A m \in setup.lcores \ {l} : d[m] = c[m]
  BY <1>1, LeaveSched
<1>3. ASSUME NEW i \in RxIds, Stuck(a, RxL(i)) PROVE d[RxConf(i).lcore] = RxL(i)
  <2>1. c[RxConf(i).lcore] = RxL(i) /\ RxL(i) # t
    BY <1>3 DEF Placed
  <2>2. RxConf(i).lcore \in setup.lcores /\ RxConf(i).lcore # l
    BY <2>1, SetupTypes
  <2> QED
    BY <1>2, <2>1, <2>2
<1> QED
  BY <1>2, <1>3 DEF Placed, Nowhere

(* Lthreads that are on no lcore change their states.                      *)
LEMMA RestPlaced ==
  ASSUME setup \in Setups, NEW a, NEW b, NEW r, NEW c, Placed(a, r, c),
         \A u \in Lthreads : b[u] = a[u] \/ (Nowhere(r, c, u) /\ ~Stuck(b, u))
  PROVE  Placed(b, r, c)
<1>1. ASSUME NEW u \in Lthreads, NEW m \in setup.lcores, On(r, c, u, m)
      PROVE  Fits(b, u, m)
  <2>1. b[u] = a[u] /\ Fits(a, u, m)
    BY <1>1 DEF Placed, Nowhere
  <2> QED
    BY <2>1, SameFits
<1>2. ASSUME NEW i \in RxIds, Stuck(b, RxL(i)) PROVE c[RxConf(i).lcore] = RxL(i)
  <2>1. RxL(i) \in Lthreads
    BY LthreadTypes
  <2>2. b[RxL(i)] = a[RxL(i)]
    BY <1>2, <2>1
  <2>3. Stuck(a, RxL(i))
    BY <1>2, <2>2, SameFits
  <2> QED
    BY <2>3 DEF Placed
<1> QED
  BY <1>1, <1>2 DEF Placed

(* One that is on no lcore joins a queue.                                  *)
LEMMA JoinPlaced ==
  ASSUME setup \in Setups, NEW b, NEW r, NEW d, Placed(b, r, d),
         NEW m \in setup.lcores, NEW t \in Lthreads, Nowhere(r, d, t), Fits(b, t, m),
         NEW q, Joins(r, q, m, t)
  PROVE  /\ Placed(b, q, d)
         /\ \A u \in Lthreads : u # t /\ Nowhere(r, d, u) => Nowhere(q, d, u)
<1>1. SchedOK(r, d)
  BY DEF Placed
<1>2. /\ SchedOK(q, d)
      /\ \A u \in Lthreads : \A k \in setup.lcores :
           On(q, d, u, k) => On(r, d, u, k) \/ (k = m /\ u = t)
  BY <1>1, JoinOne
<1> QED
  BY <1>2 DEF Placed, Nowhere

(* Several do.                                                             *)
LEMMA JoinAllPlaced ==
  ASSUME setup \in Setups, NEW b, NEW r, NEW d, Placed(b, r, d),
         NEW m \in setup.lcores, NEW s \in Seq(Lthreads), Once(s),
         \A i \in 1 .. Len(s) : Nowhere(r, d, s[i]) /\ Fits(b, s[i], m),
         NEW q, JoinAll(r, q, m, s)
  PROVE  Placed(b, q, d)
<1>1. SchedOK(r, d)
  BY DEF Placed
<1>2. /\ SchedOK(q, d)
      /\ \A u \in Lthreads : \A k \in setup.lcores :
           On(q, d, u, k) => On(r, d, u, k) \/ (k = m /\ ~Absent(u, s))
  BY <1>1, JoinSched
<1>3. \A u : ~Absent(u, s) => Fits(b, u, m)
  BY DEF Absent
<1> QED
  BY <1>2, <1>3 DEF Placed

(* The lthread that runs fits where it is.                                 *)
LEMMA RunsFits ==
  ASSUME NEW a, NEW r, NEW c, Placed(a, r, c), NEW l \in setup.lcores,
         NEW t \in Lthreads, c[l] = t
  PROVE  Fits(a, t, l)
BY DEF Placed, On

(* One that rests is on no lcore.                                          *)
LEMMA RestsNowhere ==
  ASSUME NEW a, NEW r, NEW c, Placed(a, r, c), NEW t \in Lthreads, Resting(a, t)
  PROVE  Nowhere(r, c, t)
BY DEF Placed, Nowhere, Fits

(* lthread_yield.                                                          *)
LEMMA YieldPlaced ==
  ASSUME setup \in Setups, Placed(at, ready, cur), NEW l \in setup.lcores,
         NEW t \in Lthreads, cur[l] = t, ~Stuck(at, t), yield(t, l)
  PROVE  Placed(at, ready', cur')
<1>1. Left(cur, cur', l) /\ Joins(ready, ready', l, t)
  BY DEF yield, Leave, Left, Joins
<1>2. Placed(at, ready, cur') /\ Nowhere(ready, cur', t)
  BY <1>1, LeavePlaced
<1>3. Fits(at, t, l)
  BY RunsFits
<1> QED
  BY <1>1, <1>2, <1>3, JoinPlaced

(* lthread_set_affinity: to lcore m.                                       *)
LEMMA MovePlaced ==
  ASSUME setup \in Setups, Placed(at, ready, cur), NEW l \in setup.lcores,
         NEW t \in Lthreads, cur[l] = t, ~Stuck(at, t), NEW m \in setup.lcores,
         set_affinity(t, l, m), Fits(at', t, m), ~Stuck(at', t),
         \A u \in Lthreads : u # t => at'[u] = at[u]
  PROVE  Placed(at', ready', cur')
<1>1. CASE m = l
  <2>1. ready' = ready /\ cur' = cur
    BY <1>1 DEF set_affinity, GoOn, sched
  <2>2. Placed(at', ready, cur)
    BY <1>1, StayPlaced
  <2> QED
    BY <2>1, <2>2
<1>2. CASE m # l
  <2>1. Left(cur, cur', l) /\ Joins(ready, ready', m, t)
    BY <1>2 DEF set_affinity, Leave, Left, Joins
  <2>2. Placed(at, ready, cur') /\ Nowhere(ready, cur', t)
    BY <2>1, LeavePlaced
  <2>3. Placed(at', ready, cur')
    <3>1. \A u \in Lthreads :
            at'[u] = at[u] \/ (Nowhere(ready, cur', u) /\ ~Stuck(at', u))
      BY <2>2
    <3> QED
      BY <2>2, <3>1, RestPlaced
  <2> QED
    BY <2>1, <2>2, <2>3, JoinPlaced
<1> QED
  BY <1>1, <1>2

(* The spawner's steps.                                                    *)
LEMMA SpawnerPlaced ==
  ASSUME setup \in Setups, Stages(at), Placed(at, ready, cur),
         \/ Wake
         \/ \E l \in setup.lcores : CreateRx(l) \/ WaitForRx(l) \/ CreateTx(l)
  PROVE  Placed(at', ready', cur')
<1>0. /\ Spawner \in Lthreads /\ \A i \in RxIds : RxL(i) \in Lthreads
      /\ \A i \in TxIds : TxL(i) \in Lthreads /\ Reader(i) \in Lthreads
      /\ at \in [Lthreads -> States] /\ setup.master \in setup.lcores
  BY LthreadTypes, SetupTypes DEF Stages
<1>1. CASE Wake
  <2>1. /\ at[Spawner] = "asleep" /\ at' = [at EXCEPT ![Spawner] = "wait"]
        /\ Joins(ready, ready', setup.master, Spawner) /\ cur' = cur
    BY <1>1 DEF Wake, Joins
  <2>2. Nowhere(ready, cur, Spawner)
    BY <1>0, <2>1, RestsNowhere DEF Resting
  <2>3. at'[Spawner] = "wait" /\ \A u \in Lthreads : u # Spawner => at'[u] = at[u]
    BY <1>0, <2>1
  <2>4. Placed(at', ready, cur)
    <3>1. \A u \in Lthreads :
            at'[u] = at[u] \/ (Nowhere(ready, cur, u) /\ ~Stuck(at', u))
      BY <2>2, <2>3, TxFits
    <3> QED
      BY <3>1, RestPlaced
  <2>5. Fits(at', Spawner, setup.master)
    BY <2>3, Different DEF Fits, Resting, Home
  <2>6. Placed(at', ready', cur)
    BY <1>0, <2>1, <2>2, <2>4, <2>5, JoinPlaced
  <2> QED
    BY <2>1, <2>6
<1>2. ASSUME NEW l \in setup.lcores, WaitForRx(l) PROVE Placed(at', ready', cur')
  <2>1. /\ cur[l] = Spawner /\ at' = [at EXCEPT ![Spawner] = "asleep"]
        /\ Left(cur, cur', l) /\ ready' = ready
    BY <1>2 DEF WaitForRx, Runs, block, Leave, Left
  <2>2. Placed(at, ready, cur') /\ Nowhere(ready, cur', Spawner)
    BY <1>0, <2>1, TxFits, LeavePlaced
  <2>3. \A u \in Lthreads :
          at'[u] = at[u] \/ (Nowhere(ready, cur', u) /\ ~Stuck(at', u))
    BY <1>0, <2>1, <2>2, TxFits
  <2>4. Placed(at', ready, cur')
    BY <2>2, <2>3, RestPlaced
  <2> QED
    BY <2>1, <2>4
<1>3. ASSUME NEW l \in setup.lcores, CreateRx(l) PROVE Placed(at', ready', cur')
  <2> DEFINE rxs == [i \in 1 .. NRx |-> RxL(i - 1)]
             mid == [at EXCEPT ![Spawner] = "wait"]
  <2>1. cur[l] = Spawner /\ JoinAll(ready, ready', l, rxs) /\ cur' = cur
    BY <1>3 DEF CreateRx, Runs, JoinAll
  <2>2. SpawnsRx
    BY <1>3, CreateRxSpawns
  <2>3. /\ rxs \in Seq(Lthreads) /\ Once(rxs)
        /\ \A i \in 1 .. Len(rxs) : \E k \in RxIds : rxs[i] = RxL(k)
    BY Spawned
  <2>4. mid[Spawner] = "wait" /\ \A u \in Lthreads : u # Spawner => mid[u] = at[u]
    BY <1>0
  <2> HIDE DEF rxs, mid
  <2>5. Fits(at, Spawner, l)
    BY <1>0, <2>1, RunsFits
  <2>6. Fits(mid, Spawner, l)
    BY <2>4, <2>5, Different DEF Fits, Resting, Home
  <2>7. Placed(mid, ready, cur)
    BY <1>0, <2>1, <2>4, <2>6, StayPlaced
  <2>8. /\ at'[Spawner] = "wait" /\ \A i \in RxIds : at'[RxL(i)] = "start"
        /\ \A i \in TxIds : at'[TxL(i)] = at[TxL(i)] /\ at'[Reader(i)] = at[Reader(i)]
        /\ \A i \in RxIds : at[RxL(i)] = "none"
    BY <2>2 DEF SpawnsRx, Stages
  <2>9. ASSUME NEW i \in RxIds
        PROVE  Nowhere(ready, cur, RxL(i)) /\ Fits(at', RxL(i), l) /\ ~Stuck(at', RxL(i))
    <3>1. Resting(at, RxL(i))
      BY <2>8 DEF Resting
    <3>2. Nowhere(ready, cur, RxL(i))
      BY <1>0, <3>1, RestsNowhere
    <3> QED
      BY <2>8, <3>2, Different DEF Fits, Resting, Home, Stuck
  <2>10. \A u \in Lthreads :
           at'[u] = mid[u] \/ (Nowhere(ready, cur, u) /\ ~Stuck(at', u))
    <3> SUFFICES ASSUME NEW u \in Lthreads, \A i \in RxIds : u # RxL(i)
                 PROVE  at'[u] = mid[u]
      BY <2>9
    <3>1. u = Spawner \/ \E i \in TxIds : u = TxL(i) \/ u = Reader(i)
      BY DEF Lthreads
    <3> QED
      BY <2>4, <2>8, <3>1, Different
  <2>11. Placed(at', ready, cur)
    BY <2>7, <2>10, RestPlaced
  <2>12. \A i \in 1 .. Len(rxs) : Nowhere(ready, cur, rxs[i]) /\ Fits(at', rxs[i], l)
    BY <2>3, <2>9
  <2>13. Placed(at', ready', cur)
    BY <2>1, <2>3, <2>11, <2>12, JoinAllPlaced
  <2> QED
    BY <2>1, <2>13
<1>4. ASSUME NEW l \in setup.lcores, CreateTx(l) PROVE Placed(at', ready', cur')
  <2> DEFINE txs == [i \in 1 .. NTx |-> TxL(i - 1)]
  <2>1. cur[l] = Spawner /\ JoinAll(ready, ready', l, txs) /\ Left(cur, cur', l)
    BY <1>4 DEF CreateTx, Runs, JoinAll, Leave, Left
  <2>2. SpawnsTx
    BY <1>4, CreateTxSpawns
  <2>3. /\ txs \in Seq(Lthreads) /\ Once(txs)
        /\ \A i \in 1 .. Len(txs) : \E k \in TxIds : txs[i] = TxL(k)
    BY Spawned
  <2> HIDE DEF txs
  <2>4. /\ Placed(at, ready, cur') /\ Nowhere(ready, cur', Spawner)
        /\ \A u \in Lthreads : Nowhere(ready, cur, u) => Nowhere(ready, cur', u)
    BY <1>0, <2>1, TxFits, LeavePlaced
  <2>5. /\ \A i \in RxIds : at'[RxL(i)] = at[RxL(i)]
        /\ \A i \in TxIds : at'[TxL(i)] = "start" /\ at'[Reader(i)] = at[Reader(i)]
        /\ \A i \in TxIds : at[TxL(i)] = "none"
    BY <2>2 DEF SpawnsTx, Stages
  <2>6. ASSUME NEW i \in TxIds
        PROVE  Nowhere(ready, cur', TxL(i)) /\ Fits(at', TxL(i), l) /\ ~Stuck(at', TxL(i))
    <3>1. Resting(at, TxL(i))
      BY <2>5 DEF Resting
    <3>2. Nowhere(ready, cur, TxL(i))
      BY <1>0, <3>1, RestsNowhere
    <3> QED
      BY <1>0, <2>4, <2>5, <3>2, TxFits
  <2>7. \A u \in Lthreads :
          at'[u] = at[u] \/ (Nowhere(ready, cur', u) /\ ~Stuck(at', u))
    <3> SUFFICES ASSUME NEW u \in Lthreads, \A i \in TxIds : u # TxL(i), u # Spawner
                 PROVE  at'[u] = at[u]
      BY <2>4, <2>6, TxFits
    <3>1. (\E i \in RxIds : u = RxL(i)) \/ (\E i \in TxIds : u = Reader(i))
      BY DEF Lthreads
    <3> QED
      BY <2>5, <3>1
  <2>8. Placed(at', ready, cur')
    BY <2>4, <2>7, RestPlaced
  <2>9. \A i \in 1 .. Len(txs) : Nowhere(ready, cur', txs[i]) /\ Fits(at', txs[i], l)
    BY <2>3, <2>6
  <2> QED
    BY <2>1, <2>3, <2>8, <2>9, JoinAllPlaced
<1> QED
  BY <1>1, <1>2, <1>3, <1>4

(* The scheduler takes the next lthread of a queue.                        *)
LEMMA DispatchPlaced ==
  ASSUME setup \in Setups, Placed(at, ready, cur), NEW l \in setup.lcores, Dispatch(l)
  PROVE  Placed(at, ready', cur')
<1>1. /\ cur[l] = None /\ ready[l] # <<>> /\ SchedOK(ready, cur)
      /\ Takes(ready, ready', cur, cur', l)
  BY DEF Dispatch, Placed, Takes
<1>2. PICK d, q : d = cur' /\ q = ready'
  OBVIOUS
<1>3. Takes(ready, q, cur, d, l)
  BY <1>1, <1>2
<1>4. /\ SchedOK(q, d)
      /\ \A u \in Lthreads : \A m \in setup.lcores :
           On(q, d, u, m) => On(ready, cur, u, m)
      /\ \A m \in setup.lcores \ {l} : d[m] = cur[m]
  BY <1>1, <1>3, TakeSched
<1>5. ASSUME NEW i \in RxIds, Stuck(at, RxL(i)) PROVE d[RxConf(i).lcore] = RxL(i)
  <2>1. cur[RxConf(i).lcore] = RxL(i) /\ RxL(i) # None
    BY <1>5, LthreadTypes DEF Placed
  <2>2. RxConf(i).lcore \in setup.lcores /\ RxConf(i).lcore # l
    BY <1>1, <2>1, SetupTypes
  <2> QED
    BY <1>4, <2>1, <2>2
<1>6. Placed(at, q, d)
  BY <1>4, <1>5 DEF Placed
<1> QED
  BY <1>2, <1>6

(* The steps of the rx lthreads.                                           *)
LEMMA RxPlaced ==
  ASSUME setup \in Setups, Stages(at), worker \in [RxIds -> Nat],
         Placed(at, ready, cur), NEW l \in setup.lcores, NEW i \in RxIds,
         \/ RxMove(i, l) \/ RxInit(i, l) \/ RxIdle(i, l) \/ RxBurst(i, l)
         \/ RxNoRing(i, l)
  PROVE  Placed(at', ready', cur')
<1>0. /\ RxL(i) \in Lthreads /\ at \in [Lthreads -> States] /\ RxConf(i).lcore \in setup.lcores
      /\ \A j \in TxIds : Reader(j) \in Lthreads /\ TxConf(j).lcore \in setup.lcores
  BY LthreadTypes, SetupTypes DEF Stages
<1>1. NQueues(i) > 0 => ~Stuck(at, RxL(i))
  BY Different DEF Stuck, HasQueues
<1>2. CASE RxMove(i, l)
  <2>1. /\ cur[l] = RxL(i) /\ at[RxL(i)] = "start" /\ at' = [at EXCEPT ![RxL(i)] = "moved"]
        /\ set_affinity(RxL(i), l, RxConf(i).lcore)
    BY <1>2 DEF RxMove, Runs
  <2>2. at'[RxL(i)] = "moved" /\ \A u \in Lthreads : u # RxL(i) => at'[u] = at[u]
    BY <1>0, <2>1
  <2>3. ~Stuck(at, RxL(i)) /\ ~Stuck(at', RxL(i))
    BY <2>1, <2>2 DEF Stuck
  <2>4. Fits(at', RxL(i), RxConf(i).lcore)
    BY <2>2, Different DEF Fits, Resting, Home
  <2> QED
    BY <1>0, <2>1, <2>2, <2>3, <2>4, MovePlaced
<1>3. CASE RxInit(i, l)
  <2>1. /\ cur[l] = RxL(i) /\ at[RxL(i)] = "moved" /\ at' = [at EXCEPT ![RxL(i)] = "loop"]
        /\ ready' = ready /\ cur' = cur
    BY <1>3 DEF RxInit, Runs, GoOn, sched
  <2>2. at'[RxL(i)] = "loop" /\ \A u \in Lthreads : u # RxL(i) => at'[u] = at[u]
    BY <1>0, <2>1
  <2>3. Fits(at, RxL(i), l)
    BY <1>0, <2>1, RunsFits
  <2>4. Fits(at', RxL(i), l)
    BY <2>1, <2>2, <2>3, Different DEF Fits, Resting, Home
  <2>5. Placed(at', ready, cur)
    BY <1>0, <2>1, <2>2, <2>4, StayPlaced
  <2> QED
    BY <2>1, <2>5
<1>4. CASE RxIdle(i, l)
  <2>1. cur[l] = RxL(i) /\ NQueues(i) > 0 /\ yield(RxL(i), l) /\ at' = at
    BY <1>4 DEF RxIdle, Runs
  <2>2. Placed(at, ready', cur')
    BY <1>0, <1>1, <2>1, YieldPlaced
  <2> QED
    BY <2>1, <2>2
<1>5. CASE RxNoRing(i, l)
  BY <1>5 DEF RxNoRing, sched
<1>6. CASE RxBurst(i, l)
  <2> DEFINE j == Rings(i)[((worker[i] + 1) % Len(Rings(i))) + 1]
  <2>1. /\ cur[l] = RxL(i) /\ NQueues(i) > 0 /\ Rings(i) # <<>>
        /\ \/ at' = at /\ yield(RxL(i), l)
           \/ /\ at[Reader(j)] = "wait" /\ at' = [at EXCEPT ![Reader(j)] = "loop"]
              /\ Leave(l)
              /\ ready' = [Signalled(j, ready) EXCEPT ![l] = Append(@, RxL(i))]
    BY <1>6 DEF RxBurst, Runs
  <2>2. j \in TxIds
    BY <2>1, RingOf
  <2> HIDE DEF j
  <2>3. CASE at' = at /\ yield(RxL(i), l)
    <3>1. Placed(at, ready', cur')
      BY <1>0, <1>1, <2>1, <2>3, YieldPlaced
    <3> QED
      BY <2>3, <3>1
  <2>4. CASE /\ at[Reader(j)] = "wait" /\ at' = [at EXCEPT ![Reader(j)] = "loop"]
             /\ Leave(l)
             /\ ready' = [Signalled(j, ready) EXCEPT ![l] = Append(@, RxL(i))]
    <3>1. PICK q : q = Signalled(j, ready)
      OBVIOUS
    <3>2. /\ Left(cur, cur', l) /\ Joins(ready, q, TxConf(j).lcore, Reader(j))
          /\ Joins(q, ready', l, RxL(i))
      BY <2>4, <3>1 DEF Leave, Left, Signalled, Joins
    <3>3. Nowhere(ready, cur, Reader(j))
      BY <1>0, <2>2, <2>4, Different, RestsNowhere DEF Resting
    <3>4. /\ Placed(at, ready, cur') /\ Nowhere(ready, cur', RxL(i))
          /\ Nowhere(ready, cur', Reader(j))
      BY <1>0, <1>1, <2>1, <2>2, <3>2, <3>3, LeavePlaced
    <3>5. at'[Reader(j)] = "loop" /\ \A u \in Lthreads : u # Reader(j) => at'[u] = at[u]
      BY <1>0, <2>2, <2>4
    <3>6. \A u \in Lthreads :
            at'[u] = at[u] \/ (Nowhere(ready, cur', u) /\ ~Stuck(at', u))
      BY <3>4, <3>5, TxFits
    <3>7. Placed(at', ready, cur')
      BY <3>4, <3>6, RestPlaced
    <3>8. Fits(at', Reader(j), TxConf(j).lcore)
      BY <3>5, TxFits
    <3>9. Placed(at', q, cur') /\ Nowhere(q, cur', RxL(i))
      BY <1>0, <2>2, <3>2, <3>4, <3>7, <3>8, Different, JoinPlaced
    <3>10. Fits(at', RxL(i), l)
      <4>1. Fits(at, RxL(i), l) /\ at'[RxL(i)] = at[RxL(i)]
        BY <1>0, <2>1, <3>5, Different, RunsFits
      <4> QED
        BY <4>1, SameFits
    <3> QED
      BY <1>0, <3>2, <3>9, <3>10, JoinPlaced
  <2> QED
    BY <2>1, <2>3, <2>4
<1> QED
  BY <1>2, <1>3, <1>4, <1>5, <1>6

(* The steps of the tx lthreads and of the readers.                        *)
LEMMA TxPlaced ==
  ASSUME setup \in Setups, Stages(at), Placed(at, ready, cur),
         NEW l \in setup.lcores, NEW i \in TxIds,
         \/ TxMove(i, l) \/ TxCreateReader(i, l) \/ ReaderStart(i, l)
         \/ ReaderTake(i, l) \/ ReaderEmpty(i, l) \/ ReaderWait(i, l)
  PROVE  Placed(at', ready', cur')
<1>0. /\ TxL(i) \in Lthreads /\ Reader(i) \in Lthreads
      /\ at \in [Lthreads -> States] /\ TxConf(i).lcore \in setup.lcores
  BY LthreadTypes, SetupTypes DEF Stages
<1>1. CASE TxMove(i, l)
  <2>1. /\ cur[l] = TxL(i) /\ at' = [at EXCEPT ![TxL(i)] = "moved"]
        /\ set_affinity(TxL(i), l, TxConf(i).lcore)
    BY <1>1 DEF TxMove, Runs
  <2>2. at'[TxL(i)] = "moved" /\ \A u \in Lthreads : u # TxL(i) => at'[u] = at[u]
    BY <1>0, <2>1
  <2>3. ~Stuck(at, TxL(i)) /\ ~Stuck(at', TxL(i)) /\ Fits(at', TxL(i), TxConf(i).lcore)
    BY <2>2, TxFits
  <2> QED
    BY <1>0, <2>1, <2>2, <2>3, MovePlaced
<1>2. CASE TxCreateReader(i, l)
  <2>1. /\ cur[l] = TxL(i) /\ at[TxL(i)] = "moved"
        /\ at' = [at EXCEPT ![TxL(i)] = "asleep", ![Reader(i)] = "start"]
        /\ Joins(ready, ready', l, Reader(i)) /\ Left(cur, cur', l)
    BY <1>2 DEF TxCreateReader, Runs, Leave, Left, Joins
  <2>2. at[Reader(i)] = "none"
    BY <2>1 DEF Stages
  <2>3. Nowhere(ready, cur, Reader(i))
    BY <1>0, <2>2, RestsNowhere DEF Resting
  <2>4. /\ Placed(at, ready, cur') /\ Nowhere(ready, cur', TxL(i))
        /\ Nowhere(ready, cur', Reader(i))
    BY <1>0, <2>1, <2>3, TxFits, LeavePlaced
  <2>5. /\ at'[Reader(i)] = "start"
        /\ \A u \in Lthreads : u # Reader(i) /\ u # TxL(i) => at'[u] = at[u]
    BY <1>0, <2>1, Different
  <2>6. \A u \in Lthreads :
          at'[u] = at[u] \/ (Nowhere(ready, cur', u) /\ ~Stuck(at', u))
    BY <2>4, <2>5, TxFits
  <2>7. Placed(at', ready, cur')
    BY <2>4, <2>6, RestPlaced
  <2>8. Fits(at', Reader(i), l)
    BY <2>5, TxFits
  <2> QED
    BY <1>0, <2>1, <2>4, <2>7, <2>8, JoinPlaced
<1>3. ASSUME cur[l] = Reader(i), ready' = ready, cur' = cur,
             NEW v \in {"loop", "empty"}, at' = [at EXCEPT ![Reader(i)] = v]
      PROVE  Placed(at', ready', cur')
  <2>1. at'[Reader(i)] = v /\ \A u \in Lthreads : u # Reader(i) => at'[u] = at[u]
    BY <1>0, <1>3
  <2>2. Fits(at', Reader(i), l)
    BY <2>1, TxFits
  <2>3. Placed(at', ready, cur)
    BY <1>0, <1>3, <2>1, <2>2, StayPlaced
  <2> QED
    BY <1>3, <2>3
<1>4. CASE ReaderStart(i, l) \/ ReaderEmpty(i, l)
  BY <1>3, <1>4 DEF ReaderStart, ReaderEmpty, Runs, GoOn, sched
<1>5. CASE ReaderTake(i, l)
  BY <1>5 DEF ReaderTake, GoOn, sched
<1>6. CASE ReaderWait(i, l)
  <2>1. CASE ~copied[i]
    BY <1>3, <1>6, <2>1 DEF ReaderWait, Runs, GoOn, sched
  <2>2. CASE copied[i]
    <3>1. /\ cur[l] = Reader(i) /\ at' = [at EXCEPT ![Reader(i)] = "wait"]
          /\ Left(cur, cur', l) /\ ready' = ready
      BY <1>6, <2>2 DEF ReaderWait, Runs, block, Leave, Left
    <3>2. Placed(at, ready, cur') /\ Nowhere(ready, cur', Reader(i))
      BY <1>0, <3>1, TxFits, LeavePlaced
    <3>3. \A u \in Lthreads :
            at'[u] = at[u] \/ (Nowhere(ready, cur', u) /\ ~Stuck(at', u))
      BY <1>0, <3>1, <3>2, TxFits
    <3>4. Placed(at', ready, cur')
      BY <3>2, <3>3, RestPlaced
    <3> QED
      BY <3>1, <3>4
  <2> QED
    BY <2>1, <2>2
<1> QED
  BY <1>1, <1>2, <1>4, <1>5, <1>6

(* Every step keeps the lthreads in their places.                          *)
LEMMA PlacedStep ==
  ASSUME StartInv, Placed(at, ready, cur), [Next]_vars
  PROVE  Placed(at', ready', cur')
<1>0. setup \in Setups /\ Stages(at) /\ worker \in [RxIds -> Nat]
  BY DEF StartInv, Started, Numbers
<1>1. CASE UNCHANGED vars
  BY <1>1 DEF vars, sched
<1>2. CASE Wake
  BY <1>0, <1>2, SpawnerPlaced
<1>3. ASSUME NEW l \in setup.lcores, Dispatch(l) PROVE Placed(at', ready', cur')
  <2>1. at' = at
    BY <1>3 DEF Dispatch
  <2>2. Placed(at, ready', cur')
    BY <1>0, <1>3, DispatchPlaced
  <2> QED
    BY <2>1, <2>2
<1>4. ASSUME NEW l \in setup.lcores, CreateRx(l) \/ WaitForRx(l) \/ CreateTx(l)
      PROVE  Placed(at', ready', cur')
  BY <1>0, <1>4, SpawnerPlaced
<1>5. ASSUME NEW l \in setup.lcores, NEW i \in RxIds,
             \/ RxMove(i, l) \/ RxInit(i, l) \/ RxIdle(i, l) \/ RxBurst(i, l)
             \/ RxNoRing(i, l)
      PROVE  Placed(at', ready', cur')
  BY <1>0, <1>5, RxPlaced
<1>6. ASSUME NEW l \in setup.lcores, NEW i \in TxIds,
             \/ TxMove(i, l) \/ TxCreateReader(i, l) \/ ReaderStart(i, l)
             \/ ReaderTake(i, l) \/ ReaderEmpty(i, l) \/ ReaderWait(i, l)
      PROVE  Placed(at', ready', cur')
  BY <1>0, <1>6, TxPlaced
<1> QED
  BY <1>1, <1>2, <1>3, <1>4, <1>5, <1>6 DEF Next, Step

(* At first only the spawner is ready, on the master.                      *)
LEMMA PlacedInit ==
  ASSUME Init
  PROVE  Placed(at, ready, cur)
<1>1. /\ setup \in Setups /\ cur = [l \in setup.lcores |-> None]
      /\ at = [t \in Lthreads |-> IF t = Spawner THEN "start" ELSE "none"]
  BY DEF Init
<1>2. ready = [l \in setup.lcores |-> IF l = setup.master THEN <<Spawner>> ELSE <<>>]
  BY DEF Init
<1>3. /\ Spawner \in Lthreads /\ None \notin Lthreads
      /\ \A i \in RxIds : RxL(i) \in Lthreads
  BY <1>1, LthreadTypes
<1>4. PICK one, nil : /\ one = <<Spawner>> /\ nil = <<>>
                      /\ one \in Seq(Lthreads) /\ nil \in Seq(Lthreads)
                      /\ Len(one) = 1 /\ one[1] = Spawner /\ Len(nil) = 0
  <2>1. /\ <<Spawner>> \in Seq(Lthreads) /\ Len(<<Spawner>>) = 1
        /\ <<Spawner>>[1] = Spawner
    BY <1>3
  <2>2. <<>> \in Seq(Lthreads) /\ Len(<<>>) = 0
    OBVIOUS
  <2> QED
    BY <2>1, <2>2, Zenon
<1>5. /\ Once(one) /\ Once(nil) /\ \A t : Absent(t, nil)
      /\ \A t : Absent(t, one) <=> t # Spawner
  <2>1. (\A k \in 1 .. 1 : k = 1) /\ 1 \in 1 .. 1 /\ 1 .. 0 = {}
    OBVIOUS
  <2> QED
    BY <1>4, <2>1 DEF Once, Absent
<1>6. /\ \A l \in setup.lcores : cur[l] = None
      /\ \A l \in setup.lcores : (ready[l] = one /\ l = setup.master) \/ ready[l] = nil
  BY <1>1, <1>2, <1>4
<1>7. ASSUME NEW t \in Lthreads, NEW l \in setup.lcores, On(ready, cur, t, l)
      PROVE  t = Spawner /\ l = setup.master
  BY <1>3, <1>5, <1>6, <1>7 DEF On
<1>8. /\ ready \in [setup.lcores -> Seq(Lthreads)]
      /\ cur \in [setup.lcores -> Lthreads \cup {None}]
  BY <1>1, <1>2, <1>4
<1>9. SchedOK(ready, cur)
  BY <1>5, <1>6, <1>7, <1>8 DEF SchedOK
<1>10. at[Spawner] = "start" /\ \A i \in RxIds : at[RxL(i)] = "none"
  BY <1>1, <1>3, Different
<1>11. Fits(at, Spawner, setup.master)
  BY <1>10, Different DEF Fits, Resting, Home
<1>12. \A i \in RxIds : ~Stuck(at, RxL(i))
  BY <1>10 DEF Stuck
<1> QED
  BY <1>7, <1>9, <1>11, <1>12 DEF Placed

-----------------------------------------------------------------------------
(* A gap in the thread-ids whose lthread is on the master.                 *)
MasterGap == \E i \in RxIds : ~HasQueues(i) /\ RxConf(i).lcore = setup.master

GapInv ==
  /\ StartInv
  /\ Placed(at, ready, cur)
  /\ MasterGap => at[Spawner] # "join"

(* The spawner would create the tx lthreads when all the rx lthreads are   *)
(* in their loops: the one of the gap has the master to itself by then.    *)
LEMMA NeverJoins ==
  ASSUME StartInv, Placed(at, ready, cur), MasterGap, NEW l \in setup.lcores, CreateTx(l)
  PROVE  FALSE
<1>1. setup \in Setups /\ rx_counter = Cardinality(Loops(at))
  BY DEF StartInv, Started, Captured
<1>2. PICK i \in RxIds : ~HasQueues(i) /\ RxConf(i).lcore = setup.master
  BY DEF MasterGap
<1>3. cur[l] = Spawner /\ AllRxStarted
  BY DEF CreateTx, Runs
<1>4. at[RxL(i)] = "loop"
  BY <1>1, <1>3, AllCounted
<1>5. cur[setup.master] = RxL(i)
  BY <1>2, <1>4 DEF Placed, Stuck
<1>6. Spawner \in Lthreads
  BY <1>1, LthreadTypes
<1>7. l = setup.master
  BY <1>3, <1>6, RunsFits DEF Fits, Home
<1> QED
  BY <1>3, <1>5, <1>7, Different

(* Every step keeps the invariant.                                         *)
LEMMA GapStep ==
  ASSUME GapInv, [Next]_vars
  PROVE  GapInv'
<1>1. StartInv /\ Placed(at, ready, cur) /\ (MasterGap => at[Spawner] # "join")
  BY DEF GapInv
<1>2. StartInv'
  BY <1>1, StartStep
<1>3. setup' = setup
  BY SetupFixed
<1>4. Placed(at', ready', cur')
  BY <1>1, PlacedStep
<1>5. NRx' = NRx /\ NTx' = NTx /\ RxIds' = RxIds /\ TxIds' = TxIds
  BY <1>3 DEF NRx, NTx, RxIds, TxIds
<1>6. Lthreads' = Lthreads
  BY <1>5 DEF Lthreads, Spawner, RxL, TxL, Reader
<1>7. ASSUME NEW i PROVE RxConf(i)' = RxConf(i) /\ (HasQueues(i)' <=> HasQueues(i))
  BY <1>3 DEF RxConf, HasQueues, NQueues
<1>8. Placed(at, ready, cur)'
  <2>1. SchedOK(ready, cur)'
    BY <1>3, <1>4, <1>6 DEF Placed, SchedOK, On
  <2>2. ASSUME NEW u, NEW m PROVE Fits(at, u, m)' <=> Fits(at', u, m)
    BY <1>3, <1>5, <1>7 DEF Fits, Resting, Home, Spawner, RxL
  <2>3. ASSUME NEW u PROVE Stuck(at, u)' <=> Stuck(at', u)
    BY <1>5, <1>7 DEF Stuck, RxL
  <2> QED
    BY <1>3, <1>4, <1>5, <1>6, <1>7, <2>1, <2>2, <2>3 DEF Placed, On, RxL
<1>9. MasterGap' <=> MasterGap
  BY <1>3, <1>5, <1>7 DEF MasterGap
<1>10. MasterGap => at'[Spawner] # "join"
  <2> SUFFICES ASSUME MasterGap, at'[Spawner] = "join" PROVE FALSE
    OBVIOUS
  <2>1. setup \in Setups /\ Stages(at) /\ worker \in [RxIds -> Nat]
        /\ at \in [Lthreads -> States]
    BY <1>1 DEF StartInv, Started, Numbers, Stages
  <2>2. /\ Spawner \in Lthreads /\ \A i \in RxIds : RxL(i) \in Lthreads
        /\ \A i \in TxIds : TxL(i) \in Lthreads /\ Reader(i) \in Lthreads
    BY <2>1, LthreadTypes
  <2>3. at[Spawner] # "join"
    BY <1>1
  <2>4. ASSUME NEW l \in setup.lcores, CreateTx(l) PROVE FALSE
    BY <1>1, <2>4, NeverJoins
  <2>5. ~(UNCHANGED vars) /\ ~Wake
    BY <2>1, <2>2, <2>3 DEF vars, Wake
  <2>6. ASSUME NEW l, Dispatch(l) \/ WaitForRx(l) PROVE FALSE
    BY <2>1, <2>2, <2>3, <2>6 DEF Dispatch, WaitForRx
  <2>7. ASSUME NEW l, CreateRx(l) PROVE FALSE
    BY <2>1, <2>7, CreateRxSpawns DEF SpawnsRx
  <2>8. ASSUME NEW l, NEW i \in RxIds, RxMove(i, l) \/ RxInit(i, l) \/ RxIdle(i, l)
                                         \/ RxNoRing(i, l)
        PROVE  FALSE
    BY <2>1, <2>2, <2>3, <2>8, Different DEF RxMove, RxInit, RxIdle, RxNoRing
  <2>9. ASSUME NEW l, NEW i \in RxIds, RxBurst(i, l) PROVE FALSE
    <3>1. PICK j : at' = at \/ at' = [at EXCEPT ![Reader(j)] = "loop"]
      BY <2>9 DEF RxBurst
    <3> QED
      BY <2>1, <2>2, <2>3, <3>1, Different
  <2>10. ASSUME NEW l, NEW i \in TxIds, TxMove(i, l) \/ TxCreateReader(i, l)
                                          \/ ReaderStart(i, l) \/ ReaderTake(i, l)
                                          \/ ReaderEmpty(i, l) \/ ReaderWait(i, l)
         PROVE  FALSE
    BY <2>1, <2>2, <2>3, <2>10, Different
    DEF TxMove, TxCreateReader, ReaderStart, ReaderTake, ReaderEmpty, ReaderWait
  <2> QED
    BY <2>4, <2>5, <2>6, <2>7, <2>8, <2>9, <2>10 DEF Next, Step
<1>11. at[Spawner]' = at'[Spawner]
  BY DEF Spawner
<1> QED
  BY <1>2, <1>8, <1>9, <1>10, <1>11 DEF GapInv

(* A thread-id that --rx leaves out, on the master, keeps the tx lthreads  *)
(* from ever being created, whatever the other options are.                *)
THEOREM GapsHang == Spec => []GapHangs
<1>1. Init => GapInv
  <2> SUFFICES ASSUME Init PROVE GapInv
    OBVIOUS
  <2>1. StartInv /\ Placed(at, ready, cur)
    BY StartInit, PlacedInit
  <2>2. setup \in Setups
    BY <2>1 DEF StartInv, Started
  <2>3. at[Spawner] = "start"
    BY <2>2, LthreadTypes DEF Init
  <2> QED
    BY <2>1, <2>3 DEF GapInv
<1>2. GapInv /\ [Next]_vars => GapInv'
  BY GapStep
<1>3. GapInv => GapHangs
  <2> SUFFICES ASSUME GapInv, MasterGap, NEW i \in TxIds PROVE at[TxL(i)] = "none"
    BY DEF GapHangs, MasterGap
  <2>1. Stages(at) /\ at[Spawner] # "join"
    BY DEF GapInv, StartInv, Started
  <2> QED
    BY <2>1 DEF Stages
<1> QED
  BY <1>1, <1>2, <1>3, PTL DEF Spec
=============================================================================
