----------------------- MODULE LthreadPipeline_proofs -----------------------
(***************************************************************************)
(* Proofs about LthreadPipeline, for any number of tx lthreads, any        *)
(* assignment of the lthreads to lcores and any sizes of the pool, the     *)
(* rings, the bursts and the counters.                                     *)
(***************************************************************************)
EXTENDS LthreadPipeline, Lemmas

(* The constants are numbers, and the tx lthreads are finitely many.       *)
LEMMA ConstantTypes ==
  /\ NW \in Nat \ {0}
  /\ PoolSize \in Nat \ {0} /\ NbDesc \in Nat \ {0}
  /\ MaxBurst \in Nat \ {0} /\ RingCap \in Nat \ {0} /\ CtrMod \in Nat \ {0}
  /\ IsFiniteSet(Workers)
<1>1. /\ NW \in Nat \ {0}
      /\ PoolSize \in Nat \ {0} /\ NbDesc \in Nat \ {0}
      /\ MaxBurst \in Nat \ {0} /\ RingCap \in Nat \ {0}
      /\ CtrMod \in Nat \ {0}
  BY LthreadAssumption
<1>2. IsFiniteSet(Workers)
  BY <1>1, FS_Interval DEF Workers
<1> QED
  BY <1>1, <1>2

(* The rx lthread is none of the tx lthreads.                              *)
LEMMA LthreadTypes ==
  Workers \subseteq Lthreads /\ Rx \in Lthreads /\ Rx \notin Workers
BY ConstantTypes DEF Lthreads, Workers, Rx

(* Every lthread has an lcore.                                             *)
LEMMA LcoreTypes ==
  ASSUME setup \in Setups
  PROVE  LcoreOf \in [Lthreads -> Nat] /\ \A x \in Lthreads : LcoreOf[x] \in Lcores
<1>1. setup \in Setup
  BY LthreadAssumption
<1> QED
  BY <1>1 DEF Setup, LcoreOf, Lcores

(* What changes at one worker changes a total by as much.                  *)
LEMMA TotalUpdate ==
  ASSUME NEW f \in [Workers -> Int], NEW w \in Workers, NEW v \in Int
  PROVE  /\ Total(f) \in Int
         /\ Total([f EXCEPT ![w] = v]) = Total(f) + (v - f[w])
<1> DEFINE e == [f EXCEPT ![w] = v]
<1>1. /\ \A y \in Workers : f[y] \in Int /\ e[y] \in Int
      /\ \A y \in Workers \ {w} : e[y] = f[y]
      /\ e[w] = v
  OBVIOUS
<1>2. SumFunctionOnSet(f, Workers) \in Int
  BY <1>1, ConstantTypes, SumInt
<1> HIDE DEF e
<1>3. SumFunctionOnSet(e, Workers) = SumFunctionOnSet(f, Workers) + (e[w] - f[w])
  BY <1>1, ConstantTypes, SumUpdate
<1> QED
  BY <1>1, <1>2, <1>3 DEF Total, e

(* Totals of natural numbers, and of one of them.                          *)
LEMMA TotalNat ==
  ASSUME NEW f \in [Workers -> Nat]
  PROVE  Total(f) \in Nat /\ \A w \in Workers : f[w] <= Total(f)
<1>1. \A y \in Workers : f[y] \in Nat
  OBVIOUS
<1>2. SumFunctionOnSet(f, Workers) \in Nat
  BY <1>1, ConstantTypes, SumNat
<1>3. ASSUME NEW w \in Workers PROVE f[w] <= SumFunctionOnSet(f, Workers)
  <2>1. \A y \in Workers : f[y] \in Int
    BY <1>1
  <2>2. SumFunctionOnSet(f, Workers)
          = f[w] + SumFunctionOnSet(f, Workers \ {w})
    BY <2>1, ConstantTypes, SumStep
  <2>3. IsFiniteSet(Workers \ {w}) /\ \A y \in Workers \ {w} : f[y] \in Nat
    BY <1>1, ConstantTypes, FS_Subset
  <2>4. SumFunctionOnSet(f, Workers \ {w}) \in Nat
    BY <2>3, SumNat
  <2> QED
    BY <1>1, <2>2, <2>4
<1> QED
  BY <1>2, <1>3 DEF Total

(* The total of zeroes.                                                    *)
LEMMA TotalZero == Total([w \in Workers |-> 0]) = 0
<1>1. \A y \in Workers : [w \in Workers |-> 0][y] = 0
  OBVIOUS
<1> QED
  BY <1>1, ConstantTypes, SumZero DEF Total

-----------------------------------------------------------------------------
(* The ready queues.  Yielding and waking keep them queues of lthreads in  *)
(* which nobody is twice, and change no other queue.                       *)
QueuesOK(r) == /\ r \in [Lcores -> Seq(Lthreads)]
               /\ \A l \in Lcores : Once(r[l])

First(r, x) == r[LcoreOf[x]] # <<>> /\ Head(r[LcoreOf[x]]) = x

(* lthread_yield by the lthread that runs.                                 *)
LEMMA YieldReady ==
  ASSUME setup \in Setups, NEW r, QueuesOK(r), NEW x \in Lthreads, First(r, x)
  PROVE  /\ QueuesOK(Yielded(r, x))
         /\ \A l \in Lcores \ {LcoreOf[x]} : Yielded(r, x)[l] = r[l]
         /\ \A l \in Lcores : \A y : Absent(y, r[l]) => Absent(y, Yielded(r, x)[l])
<1> DEFINE m == LcoreOf[x] q == r[m]
<1>1. m \in Lcores /\ q \in Seq(Lthreads) /\ q # <<>> /\ Once(q) /\ Head(q) = x
  BY LcoreTypes DEF QueuesOK, First
<1>2. /\ Append(Tail(q), x) \in Seq(Lthreads)
      /\ Once(Append(Tail(q), x))
      /\ \A y : Absent(y, q) => Absent(y, Append(Tail(q), x))
  BY <1>1, YieldQueue
<1>3. Yielded(r, x) = [r EXCEPT ![m] = Append(Tail(q), x)]
  BY DEF Yielded
<1> HIDE DEF m, q
<1>4. /\ \A l \in Lcores \ {m} : Yielded(r, x)[l] = r[l]
      /\ Yielded(r, x)[m] = Append(Tail(q), x)
      /\ Yielded(r, x) \in [Lcores -> Seq(Lthreads)]
  BY <1>1, <1>2, <1>3 DEF QueuesOK
<1>5. QueuesOK(Yielded(r, x))
  BY <1>2, <1>4 DEF QueuesOK
<1>6. r[m] = q
  BY DEF q
<1>7. \A l \in Lcores : \A y : Absent(y, r[l]) => Absent(y, Yielded(r, x)[l])
  BY <1>2, <1>4, <1>6, Zenon
<1> QED
  BY <1>4, <1>5, <1>7 DEF m

(* lthread_cond_signal to a waiting lthread, which is in no ready queue.   *)
LEMMA WakeReady ==
  ASSUME setup \in Setups, QueuesOK(ready), NEW w \in Workers,
         blocked[w] => Absent(w, ready[LcoreOf[w]])
  PROVE  /\ QueuesOK(Woken(w))
         /\ \A x \in Lthreads : First(ready, x) => First(Woken(w), x)
         /\ \A l \in Lcores : \A y : y # w /\ Absent(y, ready[l])
              => Absent(y, Woken(w)[l])
<1>1. CASE ~blocked[w]
  BY <1>1 DEF Woken
<1>2. CASE blocked[w]
  <2> DEFINE m == LcoreOf[w] q == ready[m]
  <2>1. /\ m \in Lcores /\ w \in Lthreads /\ q \in Seq(Lthreads)
        /\ Once(q) /\ Absent(w, q)
    BY <1>2, LcoreTypes, LthreadTypes DEF QueuesOK
  <2>2. /\ Append(q, w) \in Seq(Lthreads) /\ Append(q, w) # <<>>
        /\ q # <<>> => Head(Append(q, w)) = Head(q)
        /\ Once(Append(q, w))
        /\ \A y : y # w /\ Absent(y, q) => Absent(y, Append(q, w))
    BY <2>1, JoinQueue
  <2>3. Woken(w) = [ready EXCEPT ![m] = Append(q, w)] /\ ready[m] = q
    BY <1>2 DEF Woken
  <2> HIDE DEF m, q
  <2>4. /\ \A l \in Lcores \ {m} : Woken(w)[l] = ready[l]
        /\ Woken(w)[m] = Append(q, w)
        /\ Woken(w) \in [Lcores -> Seq(Lthreads)]
    BY <2>1, <2>2, <2>3 DEF QueuesOK
  <2>5. QueuesOK(Woken(w))
    BY <2>2, <2>4 DEF QueuesOK
  <2>6. \A l \in Lcores : \A y : y # w /\ Absent(y, ready[l])
          => Absent(y, Woken(w)[l])
    BY <2>2, <2>3, <2>4, Zenon
  <2>7. ASSUME NEW x \in Lthreads, First(ready, x) PROVE First(Woken(w), x)
    <3>1. LcoreOf[x] \in Lcores
      BY LcoreTypes
    <3> QED
      BY <2>2, <2>3, <2>4, <2>7, <3>1 DEF First
  <2> QED
    BY <2>5, <2>6, <2>7
<1> QED
  BY <1>1, <1>2

(* lthreads are cooperative: an lthread that is in the middle of its loop  *)
(* is still at the front of its queue, and one that waits is in none.      *)
SchedOK ==
  /\ QueuesOK(ready)
  /\ \A w \in Workers : blocked[w] => Absent(w, ready[LcoreOf[w]])
  /\ rxpc # "poll" => First(ready, Rx)
  /\ \A w \in Workers : txpc[w] # "poll" => First(ready, w)

(* The setup never changes, nor do the lcores.                             *)
LEMMA SetupFixed ==
  ASSUME [Next]_vars
  PROVE  /\ setup' = setup /\ LcoreOf' = LcoreOf /\ Lcores' = Lcores
         /\ Beside' = Beside
         /\ \A r, x : First(r, x)' <=> First(r', x)
<1>1. setup' = setup
  BY DEF Next, vars, Arrive, RxStep, RxPoll, RxEnqueue, RxSignal, TxStep,
         TxDequeue, TxFree, TxStore, TxWait
<1> QED
  BY <1>1 DEF LcoreOf, Lcores, Beside, HasCond, First

(* Only one lthread runs on an lcore.                                      *)
LEMMA OneRuns ==
  ASSUME NEW r, NEW x, NEW y, First(r, x), First(r, y), LcoreOf[x] = LcoreOf[y]
  PROVE  x = y
BY DEF First

(* The rx lthread yields, having woken a tx lthread or not.                *)
LEMMA RxYields ==
  ASSUME TypeOK, SchedOK, NEW r, QueuesOK(r), First(r, Rx),
         \A x \in Lthreads : First(ready, x) => First(r, x)
  PROVE  /\ QueuesOK(Yielded(r, Rx))
         /\ \A w \in Workers : First(ready, w) => First(Yielded(r, Rx), w)
         /\ \A l \in Lcores : \A y : Absent(y, r[l]) => Absent(y, Yielded(r, Rx)[l])
<1>1. setup \in Setups /\ Rx \in Lthreads
  BY LthreadTypes DEF TypeOK
<1>2. /\ QueuesOK(Yielded(r, Rx))
      /\ \A l \in Lcores \ {LcoreOf[Rx]} : Yielded(r, Rx)[l] = r[l]
      /\ \A l \in Lcores : \A y : Absent(y, r[l]) => Absent(y, Yielded(r, Rx)[l])
  BY <1>1, YieldReady
<1>3. ASSUME NEW w \in Workers, First(ready, w)
      PROVE  First(Yielded(r, Rx), w)
  <2>1. First(r, w) /\ w # Rx /\ LcoreOf[w] \in Lcores
    BY <1>1, <1>3, LthreadTypes, LcoreTypes
  <2>2. LcoreOf[w] # LcoreOf[Rx]
    BY <2>1, OneRuns
  <2> QED
    BY <1>2, <2>1, <2>2 DEF First
<1> QED
  BY <1>2, <1>3

(* Every step keeps the scheduler's rules.                                 *)
LEMMA StepSched ==
  ASSUME TypeOK, SchedOK, [Next]_vars
  PROVE  SchedOK'
<1>1. /\ setup' = setup /\ LcoreOf' = LcoreOf /\ Lcores' = Lcores
      /\ \A r, x : First(r, x)' <=> First(r', x)
  BY SetupFixed
<1>2. /\ setup \in Setups /\ Rx \in Lthreads /\ Workers \subseteq Lthreads
      /\ Rx \notin Workers
      /\ txpc \in [Workers -> {"poll", "free", "store", "wait"}]
      /\ blocked \in [Workers -> BOOLEAN] /\ worker_id \in Workers
  BY LthreadTypes DEF TypeOK
<1> SUFFICES
      /\ QueuesOK(ready')
      /\ \A w \in Workers : blocked'[w] => Absent(w, ready'[LcoreOf[w]])
      /\ rxpc' # "poll" => First(ready', Rx)
      /\ \A w \in Workers : txpc'[w] # "poll" => First(ready', w)
  BY <1>1 DEF SchedOK, QueuesOK, First
<1>3. \A x : Running(x) <=> First(ready, x)
  BY DEF Running, First
<1>4. CASE UNCHANGED <<ready, blocked>> /\ rxpc' = rxpc /\ txpc' = txpc
  BY <1>4 DEF SchedOK
<1>5. CASE Arrive \/ UNCHANGED vars
  BY <1>4, <1>5 DEF Arrive, vars, schedVars, rxVars, txVars
<1>6. CASE RxPoll
  <2>1. First(ready, Rx) /\ UNCHANGED <<txpc, blocked>>
    BY <1>3, <1>6 DEF RxPoll, txVars
  <2>2. CASE nic = 0
    <3>1. ready' = Yielded(ready, Rx) /\ rxpc' = "poll"
      BY <1>6, <2>2 DEF RxPoll
    <3>2. /\ QueuesOK(ready')
          /\ \A w \in Workers : First(ready, w) => First(ready', w)
          /\ \A l \in Lcores : \A y : Absent(y, ready[l]) => Absent(y, ready'[l])
      BY <2>1, <3>1, RxYields DEF SchedOK
    <3>3. \A w \in Workers : LcoreOf[w] \in Lcores
      BY <1>2, LcoreTypes
    <3> QED
      BY <2>1, <3>1, <3>2, <3>3 DEF SchedOK
  <2>3. CASE nic # 0
    <3>1. ready' = ready
      BY <1>6, <2>3 DEF RxPoll
    <3> QED
      BY <2>1, <3>1 DEF SchedOK
  <2> QED
    BY <2>2, <2>3
<1>7. CASE RxEnqueue
  <2>1. First(ready, Rx) /\ UNCHANGED <<txpc, ready, blocked>>
    BY <1>3, <1>7 DEF RxEnqueue, txVars, schedVars
  <2> QED
    BY <2>1 DEF SchedOK
<1>8. CASE RxSignal
  <2>1. First(ready, Rx) /\ UNCHANGED txpc /\ rxpc' = "poll"
    BY <1>3, <1>8 DEF RxSignal, txVars
  <2>2. \A w \in Workers : LcoreOf[w] \in Lcores
    BY <1>2, LcoreTypes
  <2>3. CASE Due(worker_id)
    <3> DEFINE v == worker_id r == Woken(v)
    <3>1. /\ ready' = Yielded(r, Rx)
          /\ blocked' = [blocked EXCEPT ![v] = FALSE]
      BY <1>8, <2>3 DEF RxSignal, Signal
    <3>2. /\ QueuesOK(r)
          /\ \A x \in Lthreads : First(ready, x) => First(r, x)
          /\ \A l \in Lcores : \A y : y # v /\ Absent(y, ready[l])
               => Absent(y, r[l])
      BY <1>2, WakeReady DEF SchedOK
    <3> HIDE DEF v, r
    <3>3. /\ QueuesOK(ready')
          /\ \A w \in Workers : First(ready, w) => First(ready', w)
          /\ \A l \in Lcores : \A y : Absent(y, r[l]) => Absent(y, ready'[l])
      BY <1>2, <2>1, <3>1, <3>2, RxYields
    <3>4. \A w \in Workers : blocked'[w] => w # v /\ blocked[w]
      BY <1>2, <3>1 DEF v
    <3>5. \A w \in Workers : blocked'[w] => Absent(w, ready'[LcoreOf[w]])
      BY <2>2, <3>2, <3>3, <3>4 DEF SchedOK
    <3> QED
      BY <2>1, <3>3, <3>5 DEF SchedOK
  <2>4. CASE ~Due(worker_id)
    <3>1. ready' = Yielded(ready, Rx) /\ blocked' = blocked
      BY <1>8, <2>4 DEF RxSignal
    <3>2. /\ QueuesOK(ready')
          /\ \A w \in Workers : First(ready, w) => First(ready', w)
          /\ \A l \in Lcores : \A y : Absent(y, ready[l]) => Absent(y, ready'[l])
      BY <2>1, <3>1, RxYields DEF SchedOK
    <3> QED
      BY <2>1, <2>2, <3>1, <3>2 DEF SchedOK
  <2> QED
    BY <2>3, <2>4
<1>9. ASSUME NEW w \in Workers, TxDequeue(w) \/ TxFree(w) \/ TxStore(w)
      PROVE  /\ QueuesOK(ready')
             /\ \A x \in Workers :
                  blocked'[x] => Absent(x, ready'[LcoreOf[x]])
             /\ rxpc' # "poll" => First(ready', Rx)
             /\ \A x \in Workers : txpc'[x] # "poll" => First(ready', x)
  <2>1. First(ready, w) /\ UNCHANGED <<ready, blocked, rxpc>>
    BY <1>3, <1>9 DEF TxDequeue, TxFree, TxStore, rxVars, schedVars
  <2>2. \A x \in Workers \ {w} : txpc'[x] = txpc[x]
    BY <1>2, <1>9 DEF TxDequeue, TxFree, TxStore
  <2> QED
    BY <2>1, <2>2 DEF SchedOK
<1>10. ASSUME NEW w \in Workers, TxWait(w)
       PROVE  /\ QueuesOK(ready')
              /\ \A x \in Workers :
                   blocked'[x] => Absent(x, ready'[LcoreOf[x]])
              /\ rxpc' # "poll" => First(ready', Rx)
              /\ \A x \in Workers : txpc'[x] # "poll" => First(ready', x)
  <2>1. /\ First(ready, w) /\ rxpc' = rxpc
        /\ txpc' = [txpc EXCEPT ![w] = "poll"]
    BY <1>3, <1>10 DEF TxWait, rxVars
  <2>2. /\ \A x \in Workers : txpc'[x] # "poll" => x # w /\ txpc[x] # "poll"
        /\ w # Rx /\ w \in Lthreads
    BY <1>2, <2>1
  <2>3. CASE w < setup.nCond
    <3> DEFINE m == LcoreOf[w] q == ready[m]
    <3>1. /\ ready' = [ready EXCEPT ![m] = Tail(q)] /\ ready[m] = q
          /\ blocked' = [blocked EXCEPT ![w] = TRUE]
      BY <1>10, <2>3 DEF TxWait, Wait
    <3>2. m \in Lcores /\ q \in Seq(Lthreads) /\ Once(q) /\ q # <<>>
          /\ Head(q) = w
      BY <1>2, <2>1, <2>2, LcoreTypes DEF SchedOK, QueuesOK, First
    <3>3. /\ Tail(q) \in Seq(Lthreads) /\ Once(Tail(q)) /\ Absent(w, Tail(q))
          /\ \A y : Absent(y, q) => Absent(y, Tail(q))
      BY <3>2, LeaveQueue
    <3> HIDE DEF q
    <3>4. /\ ready' \in [Lcores -> Seq(Lthreads)] /\ ready'[m] = Tail(q)
          /\ \A l \in Lcores \ {m} : ready'[l] = ready[l]
      BY <3>1, <3>2, <3>3 DEF SchedOK, QueuesOK
    <3>5. QueuesOK(ready')
      BY <3>3, <3>4 DEF SchedOK, QueuesOK
    <3>6. \A x \in Lthreads : LcoreOf[x] \in Lcores
      BY <1>2, LcoreTypes
    <3>7. ASSUME NEW x \in Workers, blocked'[x]
          PROVE  Absent(x, ready'[LcoreOf[x]])
      <4>1. CASE x = w
        BY <3>3, <3>4, <4>1
      <4>2. CASE x # w
        <5>1. blocked[x] /\ Absent(x, ready[LcoreOf[x]])
          BY <1>2, <3>1, <3>7, <4>2 DEF SchedOK
        <5>2. CASE LcoreOf[x] = m
          BY <3>1, <3>3, <3>4, <5>1, <5>2
        <5>3. CASE LcoreOf[x] # m
          BY <1>2, <3>4, <3>6, <5>1, <5>3
        <5> QED
          BY <5>2, <5>3
      <4> QED
        BY <4>1, <4>2
    <3>8. ASSUME NEW x \in Lthreads, x # w, First(ready, x)
          PROVE  First(ready', x)
      <4>1. LcoreOf[x] # m
        BY <2>1, <3>8, OneRuns
      <4> QED
        BY <3>4, <3>6, <3>8, <4>1 DEF First
    <3> QED
      BY <1>2, <2>1, <2>2, <3>5, <3>7, <3>8 DEF SchedOK
  <2>4. CASE ~(w < setup.nCond)
    <3>1. UNCHANGED <<ready, blocked>>
      BY <1>10, <2>4 DEF TxWait, Wait, schedVars
    <3> QED
      BY <2>1, <2>2, <3>1 DEF SchedOK
  <2> QED
    BY <2>3, <2>4
<1> QED
  BY <1>5, <1>6, <1>7, <1>8, <1>9, <1>10 DEF Next, RxStep, TxStep

-----------------------------------------------------------------------------
(* Types, the conservation of buffers and the shape of the bursts are      *)
(* inductive together with the rules of the scheduler.                     *)
Shape ==
  /\ armed + nic <= NbDesc
  /\ rxpc = "poll" => burst = 0
  /\ \A w \in Workers : /\ txpc[w] = "free" => txburst[w] > 0
                        /\ txpc[w] \in {"poll", "wait"} => txburst[w] = 0

Inv == TypeOK /\ SchedOK /\ Shape /\ Conservation

(* The queue of an lcore at start, n tx lthreads having been created.      *)
IsCreated(q, l, n) ==
  q = [k \in 0 .. n |->
        IF k = 0 THEN IF LcoreOf[Rx] = l THEN <<Rx>> ELSE <<>>
        ELSE IF LcoreOf[k - 1] = l THEN Append(q[k - 1], k - 1)
        ELSE q[k - 1]]

(* Created is defined by choosing such a q.                                *)
LEMMA CreatedDef ==
  ASSUME NEW l
  PROVE  Created(l) = (CHOOSE q : IsCreated(q, l, NW))[NW]
BY Zenon DEF Created, IsCreated

(* There is such a q: the tx lthreads are created one by one.              *)
LEMMA CreatedExists ==
  ASSUME NEW l
  PROVE  \E q : IsCreated(q, l, NW)
<1> DEFINE T == {n \in Nat : \E q : IsCreated(q, l, n)}
<1>1. 0 \in T
  <2> DEFINE q == [k \in 0 .. 0 |-> IF LcoreOf[Rx] = l THEN <<Rx>> ELSE <<>>]
  <2>1. IsCreated(q, l, 0)
    BY DEF IsCreated
  <2> QED
    BY <2>1
<1>2. ASSUME NEW n \in T PROVE n + 1 \in T
  <2>1. PICK q : IsCreated(q, l, n)
    OBVIOUS
  <2> DEFINE val(k) == IF k = 0 THEN IF LcoreOf[Rx] = l THEN <<Rx>> ELSE <<>>
                       ELSE IF LcoreOf[k - 1] = l THEN Append(q[k - 1], k - 1)
                       ELSE q[k - 1]
             p == [k \in 0 .. n + 1 |-> val(k)]
  <2>2. \A k \in 0 .. n : q[k] = val(k)
    BY <2>1 DEF IsCreated
  <2>3. \A k \in 0 .. n : p[k] = q[k]
    BY <2>2
  <2>4. \A k \in 0 .. n + 1 : k # 0 => k - 1 \in 0 .. n
    OBVIOUS
  <2>5. IsCreated(p, l, n + 1)
    BY <2>3, <2>4 DEF IsCreated
  <2> QED
    BY <2>5
<1>3. T = Nat
  <2> HIDE DEF T
  <2>1. T \in SUBSET Nat
    BY DEF T
  <2> QED
    BY <1>1, <1>2, <2>1, SetInduction
<1> QED
  BY <1>3, ConstantTypes

(* Hence the ready queues start as queues in which nobody is twice.        *)
LEMMA CreatedQueue ==
  ASSUME NEW l
  PROVE  Created(l) \in Seq(Lthreads) /\ Once(Created(l))
<1>1. PICK q : IsCreated(q, l, NW) /\ Created(l) = q[NW]
  BY CreatedDef, CreatedExists
<1> DEFINE ok(n) == /\ q[n] \in Seq(Lthreads) /\ Once(q[n])
                    /\ \A x \in Workers : n <= x => Absent(x, q[n])
           T == {n \in Nat : n <= NW => ok(n)}
<1>2. 0 \in T
  <2>1. q[0] = IF LcoreOf[Rx] = l THEN <<Rx>> ELSE <<>>
    BY <1>1, ConstantTypes DEF IsCreated
  <2>2. ASSUME q[0] = <<>> PROVE ok(0)
    BY <2>2, EmptySeq DEF Once, Absent
  <2>3. ASSUME q[0] = <<Rx>> PROVE ok(0)
    <3>1. <<Rx>> \in Seq(Lthreads) /\ Len(<<Rx>>) = 1 /\ <<Rx>>[1] = Rx
      BY LthreadTypes
    <3>2. \A i \in 1 .. Len(<<Rx>>) : i = 1
      BY <3>1
    <3> QED
      BY <2>3, <3>1, <3>2, LthreadTypes DEF Once, Absent
  <2> QED
    BY <2>1, <2>2, <2>3
<1>3. ASSUME NEW n \in T PROVE n + 1 \in T
  <2>1. SUFFICES ASSUME n + 1 <= NW PROVE ok(n + 1)
    OBVIOUS
  <2>2. n \in Nat /\ ok(n) /\ n \in Workers /\ n \in Lthreads
    BY <2>1, ConstantTypes, LthreadTypes DEF Workers
  <2>3. q[n + 1] = IF LcoreOf[n] = l THEN Append(q[n], n) ELSE q[n]
    <3>1. n + 1 \in 0 .. NW /\ n + 1 # 0 /\ (n + 1) - 1 = n
      BY <2>1, <2>2, ConstantTypes
    <3> QED
      BY <1>1, <3>1 DEF IsCreated
  <2>4. \A x \in Workers : n + 1 <= x => n <= x /\ x # n
    BY <2>2 DEF Workers
  <2>5. CASE LcoreOf[n] # l
    BY <2>2, <2>3, <2>4, <2>5
  <2>6. CASE LcoreOf[n] = l
    <3>1. Absent(n, q[n])
      BY <2>2
    <3>2. /\ Append(q[n], n) \in Seq(Lthreads) /\ Once(Append(q[n], n))
          /\ \A y : y # n /\ Absent(y, q[n]) => Absent(y, Append(q[n], n))
      BY <2>2, <3>1, JoinQueue
    <3> QED
      BY <2>2, <2>3, <2>4, <2>6, <3>2
  <2> QED
    BY <2>5, <2>6
<1>4. T = Nat
  <2> HIDE DEF T
  <2>1. T \in SUBSET Nat
    BY DEF T
  <2> QED
    BY <1>2, <1>3, <2>1, SetInduction
<1>5. ok(NW)
  BY <1>4, ConstantTypes
<1> QED
  BY <1>1, <1>5

(* The initial states satisfy the invariant.                               *)
LEMMA InitInv ==
  ASSUME Init
  PROVE  Inv
<1> USE ConstantTypes
<1>1. setup \in Setups /\ armed \in 0 .. NbDesc /\ armed <= PoolSize
  BY DEF Init, AtMost
<1>2. QueuesOK(ready) /\ ready \in [Lcores -> Seq(Lthreads)]
  BY CreatedQueue DEF Init, QueuesOK
<1>3. SchedOK
  BY <1>2 DEF Init, SchedOK
<1>4. TypeOK
  BY <1>1, <1>2 DEF Init, TypeOK, Workers
<1>5. Shape
  BY <1>1 DEF Init, Shape
<1>6. Conservation
  <2>1. Total(ring) = 0 /\ Total(txburst) = 0
    BY TotalZero DEF Init
  <2> QED
    BY <1>1, <2>1 DEF Init, Conservation
<1> QED
  BY <1>3, <1>4, <1>5, <1>6 DEF Inv

(* The numbers of a step, without the ready queues.                        *)
Numbers ==
  /\ pool \in Nat /\ armed \in Nat /\ nic \in Nat
  /\ burst \in 0 .. MaxBurst
  /\ ring \in [Workers -> 0 .. RingCap]
  /\ txburst \in [Workers -> 0 .. MaxBurst]

(* The conservation law gives the bound of the pool, the shape of the      *)
(* descriptors those of the NIC.                                           *)
LEMMA Bounds ==
  ASSUME Numbers, Shape, Conservation
  PROVE  /\ pool \in 0 .. PoolSize /\ armed \in 0 .. NbDesc
         /\ nic \in 0 .. NbDesc
<1>1. ring \in [Workers -> Nat] /\ txburst \in [Workers -> Nat]
  BY ConstantTypes DEF Numbers
<1>2. Total(ring) \in Nat /\ Total(txburst) \in Nat
  BY <1>1, TotalNat
<1>3. burst \in Nat /\ pool \in Nat /\ armed \in Nat /\ nic \in Nat
  BY ConstantTypes DEF Numbers
<1>4. pool <= PoolSize
  <2> DEFINE a == Total(ring) b == Total(txburst)
  <2>1. a \in Nat /\ b \in Nat /\ pool + armed + nic + burst + a + b = PoolSize
    BY <1>2 DEF Conservation
  <2> HIDE DEF a, b
  <2> QED
    BY <1>3, <2>1
<1> QED
  BY <1>3, <1>4, ConstantTypes DEF Shape

(* What a step does to the numbers it does to the buffers: none is lost,   *)
(* none is there twice.                                                    *)
LEMMA StepNumbers ==
  ASSUME Inv, [Next]_vars
  PROVE  Numbers' /\ Shape' /\ Conservation'
<1> USE ConstantTypes
<1> DEFINE a == Total(ring) b == Total(txburst)
<1>1. /\ pool \in Nat /\ armed \in Nat /\ nic \in Nat /\ burst \in 0 .. MaxBurst
      /\ worker_id \in Workers
      /\ ring \in [Workers -> 0 .. RingCap] /\ ring \in [Workers -> Int]
      /\ txburst \in [Workers -> 0 .. MaxBurst] /\ txburst \in [Workers -> Int]
      /\ txpc \in [Workers -> {"poll", "free", "store", "wait"}]
  BY DEF Inv, TypeOK
<1>2. a \in Int /\ b \in Int /\ pool + armed + nic + burst + a + b = PoolSize
  <2>1. 0 \in Workers
    BY DEF Workers
  <2>2. a \in Int /\ b \in Int
    BY <1>1, <2>1, TotalUpdate
  <2> QED
    BY <2>2 DEF Inv, Conservation
<1>3. Shape
  BY DEF Inv
<1>4. CASE UNCHANGED vars
  BY <1>3, <1>4, <1>1 DEF Inv, vars, nicVars, rxVars, txVars, Numbers, Shape,
                          Conservation
<1>5. CASE Arrive
  <2>1. /\ armed > 0 /\ armed' = armed - 1 /\ nic' = nic + 1
        /\ UNCHANGED <<pool, burst, rxpc, ring, txburst, txpc>>
    BY <1>5 DEF Arrive, rxVars, txVars
  <2>2. Numbers' /\ Shape'
    BY <1>1, <1>3, <2>1 DEF Numbers, Shape
  <2>3. Total(ring)' = a /\ Total(txburst)' = b
    BY <2>1
  <2> HIDE DEF a, b
  <2>4. pool + armed' + nic' + burst + a + b = PoolSize
    BY <1>1, <1>2, <2>1
  <2> QED
    BY <2>1, <2>2, <2>3, <2>4 DEF Conservation
<1>6. CASE RxPoll
  <2> DEFINE k == AtMost(pool, NbDesc - armed - nic)
  <2>1. k \in Nat /\ k <= pool /\ k <= NbDesc - armed - nic
    BY <1>1, <1>3 DEF Shape, AtMost
  <2>2. /\ armed' = armed + k /\ pool' = pool - k
        /\ rxpc = "poll" /\ burst = 0
        /\ UNCHANGED <<ring, txburst, txpc>>
    BY <1>3, <1>6 DEF RxPoll, txVars, Shape
  <2> HIDE DEF k
  <2>3. PICK n \in 0 .. MaxBurst :
          /\ burst' = n /\ nic' = nic - n /\ n <= nic
          /\ rxpc' = "poll" => n = 0
    <3>1. CASE nic = 0
      <4>1. burst' = 0 /\ nic' = 0
        BY <1>6, <2>2, <3>1 DEF RxPoll
      <4> QED
        BY <3>1, <4>1
    <3>2. CASE nic # 0
      <4>1. PICK n \in 1 .. AtMost(nic, MaxBurst) :
              burst' = n /\ nic' = nic - n /\ rxpc' = "enqueue"
        BY <1>6, <3>2 DEF RxPoll
      <4>2. n \in 0 .. MaxBurst /\ n <= nic
        BY <1>1, <4>1 DEF AtMost
      <4> QED
        BY <4>1, <4>2
    <3> QED
      BY <3>1, <3>2
  <2>4. Numbers'
    BY <1>1, <2>1, <2>2, <2>3 DEF Numbers
  <2>5. Shape'
    BY <1>1, <1>3, <2>1, <2>2, <2>3 DEF Shape
  <2>6. Total(ring)' = a /\ Total(txburst)' = b
    BY <2>2
  <2> HIDE DEF a, b
  <2>7. pool' + armed' + nic' + burst' + a + b = PoolSize
    BY <1>1, <1>2, <2>1, <2>2, <2>3
  <2> QED
    BY <2>4, <2>5, <2>6, <2>7 DEF Conservation
<1>7. CASE RxEnqueue
  <2> DEFINE w == (worker_id + 1) % NW ret == AtMost(burst, Room(w))
  <2>1. w \in Workers
    BY <1>1 DEF Workers
  <2>2. /\ ring' = [ring EXCEPT ![w] = @ + ret] /\ burst' = burst - ret
        /\ rxpc' = "signal"
        /\ UNCHANGED <<pool, armed, nic, txburst, txpc>>
    BY <1>7 DEF RxEnqueue, nicVars, txVars
  <2> HIDE DEF w
  <2>3. ret \in 0 .. burst /\ ring[w] + ret \in 0 .. RingCap /\ ring[w] \in Nat
    BY <1>1, <2>1 DEF AtMost, Room
  <2> HIDE DEF ret
  <2>4. Numbers'
    BY <1>1, <2>1, <2>2, <2>3 DEF Numbers
  <2>5. Shape'
    BY <1>3, <2>2 DEF Shape
  <2>6. Total(ring)' = a + ret /\ Total(txburst)' = b
    <3>1. ring[w] + ret \in Int
      BY <2>3
    <3>2. Total(ring') = Total(ring) + ((ring[w] + ret) - ring[w])
      BY <1>1, <2>1, <2>2, <3>1, TotalUpdate
    <3> HIDE DEF a
    <3>3. (ring[w] + ret) - ring[w] = ret
      BY <2>3
    <3> QED
      BY <2>2, <3>2, <3>3 DEF a
  <2> HIDE DEF a, b
  <2>7. pool + armed + nic + burst' + (a + ret) + b = PoolSize
    BY <1>1, <1>2, <2>2, <2>3
  <2> QED
    BY <2>2, <2>4, <2>5, <2>6, <2>7 DEF Conservation
<1>8. CASE RxSignal
  <2>1. /\ pool' = pool + burst /\ burst' = 0 /\ rxpc' = "poll"
        /\ UNCHANGED <<armed, nic, ring, txburst, txpc>>
    BY <1>8 DEF RxSignal, FreeRest, nicVars, txVars
  <2>2. Numbers' /\ Shape'
    BY <1>1, <1>3, <2>1 DEF Numbers, Shape
  <2>3. Total(ring)' = a /\ Total(txburst)' = b
    BY <2>1
  <2> HIDE DEF a, b
  <2>4. pool' + armed + nic + burst' + a + b = PoolSize
    BY <1>1, <1>2, <2>1
  <2> QED
    BY <2>1, <2>2, <2>3, <2>4 DEF Conservation
<1>9. ASSUME NEW w \in Workers, TxDequeue(w)
      PROVE  Numbers' /\ Shape' /\ Conservation'
  <2> DEFINE n == AtMost(ring[w], MaxBurst)
  <2>1. /\ ring' = [ring EXCEPT ![w] = @ - n]
        /\ txburst' = [txburst EXCEPT ![w] = n]
        /\ txpc' = [txpc EXCEPT ![w] = IF n > 0 THEN "free" ELSE "wait"]
        /\ txpc[w] = "poll"
        /\ UNCHANGED <<pool, armed, nic, burst, rxpc>>
    BY <1>9 DEF TxDequeue, nicVars, rxVars
  <2>2. n \in 0 .. MaxBurst /\ ring[w] - n \in 0 .. RingCap /\ ring[w] \in Nat
    BY <1>1 DEF AtMost
  <2> HIDE DEF n
  <2>3. txburst[w] = 0
    BY <1>3, <2>1 DEF Shape
  <2>4. Numbers'
    BY <1>1, <2>1, <2>2 DEF Numbers
  <2>5. Shape'
    BY <1>1, <1>3, <2>1, <2>2 DEF Shape
  <2>6. Total(ring)' = a - n /\ Total(txburst)' = b + n
    <3>1. ring[w] - n \in Int /\ n \in Int
      BY <2>2
    <3>2. /\ Total(ring') = Total(ring) + ((ring[w] - n) - ring[w])
          /\ Total(txburst') = Total(txburst) + (n - txburst[w])
      BY <1>1, <2>1, <3>1, TotalUpdate
    <3> HIDE DEF a, b
    <3> QED
      BY <1>2, <2>2, <2>3, <3>2 DEF a, b
  <2> HIDE DEF a, b
  <2>7. pool + armed + nic + burst + (a - n) + (b + n) = PoolSize
    BY <1>1, <1>2, <2>2
  <2> QED
    BY <2>1, <2>4, <2>5, <2>6, <2>7 DEF Conservation
<1>10. ASSUME NEW w \in Workers, TxFree(w)
       PROVE  Numbers' /\ Shape' /\ Conservation'
  <2>1. /\ pool' = pool + 1
        /\ txburst' = [txburst EXCEPT ![w] = @ - 1]
        /\ txpc' = [txpc EXCEPT ![w] = "store"]
        /\ txpc[w] = "free"
        /\ UNCHANGED <<armed, nic, burst, rxpc, ring>>
    BY <1>10 DEF TxFree, AfterFree, nicVars, rxVars
  <2>2. txburst[w] - 1 \in 0 .. MaxBurst /\ txburst[w] \in Nat
    BY <1>1, <1>3, <2>1 DEF Shape
  <2>3. Numbers'
    BY <1>1, <2>1, <2>2 DEF Numbers
  <2>4. Shape'
    BY <1>1, <1>3, <2>1 DEF Shape
  <2>5. Total(ring)' = a /\ Total(txburst)' = b - 1
    <3>1. txburst[w] - 1 \in Int
      BY <2>2
    <3>2. Total(txburst') = Total(txburst) + ((txburst[w] - 1) - txburst[w])
      BY <1>1, <2>1, <3>1, TotalUpdate
    <3> HIDE DEF a, b
    <3> QED
      BY <1>2, <2>1, <2>2, <3>2 DEF a, b
  <2> HIDE DEF a, b
  <2>6. pool' + armed + nic + burst + a + (b - 1) = PoolSize
    BY <1>1, <1>2, <2>1
  <2> QED
    BY <2>1, <2>3, <2>4, <2>5, <2>6 DEF Conservation
<1>11. ASSUME NEW w \in Workers, TxStore(w) \/ TxWait(w)
       PROVE  Numbers' /\ Shape' /\ Conservation'
  <2>1. UNCHANGED <<pool, armed, nic, burst, rxpc, ring, txburst>>
    BY <1>11 DEF TxStore, TxWait, nicVars, rxVars
  <2>2. \/ /\ txpc[w] = "store"
           /\ txpc' = [txpc EXCEPT ![w] = IF txburst[w] > 0 THEN "free"
                                                            ELSE "poll"]
        \/ /\ txpc[w] = "wait"
           /\ txpc' = [txpc EXCEPT ![w] = "poll"]
    BY <1>11 DEF TxStore, TxWait
  <2>3. Shape'
    BY <1>1, <1>3, <2>1, <2>2 DEF Shape
  <2> QED
    BY <1>1, <2>1, <2>3 DEF Inv, Numbers, Conservation
<1> QED
  BY <1>4, <1>5, <1>6, <1>7, <1>8, <1>9, <1>10, <1>11 DEF Next, RxStep, TxStep

(* The sum of a counter fits the counter.                                  *)
LEMMA PlusType ==
  ASSUME NEW m \in Int, NEW n \in Int
  PROVE  Plus(m, n) \in 0 .. CtrMod - 1
BY ConstantTypes, ModRange DEF Plus

(* The types of everything else.                                           *)
Others ==
  /\ setup \in Setups
  /\ received \in 0 .. CtrMod - 1
  /\ rxpc \in {"poll", "enqueue", "signal"}
  /\ worker_id \in Workers
  /\ len \in [Workers -> Nat]
  /\ txpc \in [Workers -> {"poll", "free", "store", "wait"}]
  /\ re \in [Workers -> 0 .. CtrMod - 1]
  /\ table \in 0 .. CtrMod - 1
  /\ seen \in [Workers -> 0 .. CtrMod - 1]
  /\ ring_loss \in 0 .. CtrMod - 1
  /\ blocked \in [Workers -> BOOLEAN]

(* Every step keeps them.                                                  *)
LEMMA StepOthers ==
  ASSUME TypeOK, [Next]_vars
  PROVE  Others'
<1> USE ConstantTypes
<1>1. Others
  BY DEF TypeOK, Others
<1>2. /\ burst \in Int /\ nic \in Int /\ ring \in [Workers -> 0 .. RingCap]
      /\ 0 \in 0 .. CtrMod - 1
  BY DEF TypeOK
<1>3. CASE UNCHANGED vars
  BY <1>1, <1>3 DEF Others, vars, nicVars, rxVars, txVars, schedVars
<1>4. CASE Arrive
  <2>1. received' \in 0 .. CtrMod - 1
    BY <1>1, <1>4, PlusType DEF Arrive, Others
  <2> QED
    BY <1>1, <1>4, <2>1 DEF Arrive, Others, rxVars, txVars, schedVars
<1>5. CASE RxPoll
  BY <1>1, <1>5 DEF RxPoll, Others, txVars
<1>6. CASE RxEnqueue
  <2> DEFINE w == (worker_id + 1) % NW ret == AtMost(burst, Room(w))
  <2>1. w \in Workers
    BY <1>1 DEF Others, Workers
  <2>2. worker_id' = w /\ len' = [len EXCEPT ![w] = @ + ret]
    BY <1>6 DEF RxEnqueue
  <2>3. /\ rxpc' = "signal"
        /\ UNCHANGED <<setup, received, ring_loss, txpc, re, table, seen, blocked>>
    BY <1>6 DEF RxEnqueue, nicVars, txVars, schedVars
  <2> HIDE DEF w
  <2>4. ret \in Nat
    <3>1. burst \in Nat /\ ring[w] \in 0 .. RingCap
      BY <1>2, <2>1 DEF TypeOK
    <3> QED
      BY <3>1 DEF AtMost, Room
  <2> HIDE DEF ret
  <2>5. len' \in [Workers -> Nat]
    BY <1>1, <2>1, <2>2, <2>4 DEF Others
  <2> QED
    BY <1>1, <2>1, <2>2, <2>3, <2>5 DEF Others
<1>7. CASE RxSignal
  <2>1. ring_loss' \in 0 .. CtrMod - 1
    BY <1>1, <1>2, <1>7, PlusType DEF RxSignal, CountLoss, Others
  <2>2. len' \in [Workers -> Nat]
    BY <1>1, <1>7 DEF RxSignal, Others
  <2>3. blocked' \in [Workers -> BOOLEAN]
    <3>1. \/ blocked' = [blocked EXCEPT ![worker_id] = FALSE]
          \/ blocked' = blocked
      BY <1>7 DEF RxSignal, Signal
    <3> QED
      BY <1>1, <3>1 DEF Others
  <2> QED
    BY <1>1, <1>7, <2>1, <2>2, <2>3 DEF RxSignal, Others, nicVars, txVars
<1>8. ASSUME NEW w \in Workers, TxDequeue(w) PROVE Others'
  <2> DEFINE n == AtMost(ring[w], MaxBurst) v == Plus(re[w], n)
             p == IF n > 0 THEN "free" ELSE "wait"
  <2>1. n \in Int
    BY <1>2 DEF AtMost
  <2>2. v \in 0 .. CtrMod - 1
    BY <1>1, <2>1, PlusType DEF Others
  <2>3. /\ re' = [re EXCEPT ![w] = v] /\ txpc' = [txpc EXCEPT ![w] = p]
        /\ p \in {"free", "wait"}
        /\ UNCHANGED <<setup, received, rxpc, worker_id, len, table, seen,
                       ring_loss, blocked>>
    BY <1>8 DEF TxDequeue, nicVars, rxVars, schedVars
  <2> HIDE DEF v, p
  <2> QED
    BY <1>1, <2>2, <2>3 DEF Others
<1>9. ASSUME NEW w \in Workers, TxFree(w) PROVE Others'
  BY <1>1, <1>9 DEF TxFree, AfterFree, Others, nicVars, rxVars, schedVars
<1>10. ASSUME NEW w \in Workers, TxStore(w) PROVE Others'
  <2>1. table' \in 0 .. CtrMod - 1
    BY <1>1, <1>10, PlusType DEF TxStore, Others
  <2> QED
    BY <1>1, <1>2, <1>10, <2>1 DEF TxStore, Others, nicVars, rxVars, schedVars
<1>11. ASSUME NEW w \in Workers, TxWait(w) PROVE Others'
  <2>1. blocked' \in [Workers -> BOOLEAN]
    BY <1>1, <1>11 DEF TxWait, Wait, Others, schedVars
  <2> QED
    BY <1>1, <1>11, <2>1 DEF TxWait, Others, nicVars, rxVars
<1> QED
  BY <1>3, <1>4, <1>5, <1>6, <1>7, <1>8, <1>9, <1>10, <1>11
  DEF Next, RxStep, TxStep

(* Every step keeps the invariant.                                         *)
LEMMA StepInv ==
  ASSUME Inv, [Next]_vars
  PROVE  Inv'
<1>1. SchedOK' /\ Others' /\ Numbers' /\ Shape' /\ Conservation'
  BY StepSched, StepOthers, StepNumbers DEF Inv
<1>2. /\ pool' \in 0 .. PoolSize /\ armed' \in 0 .. NbDesc
      /\ nic' \in 0 .. NbDesc
  <2>1. (Numbers /\ Shape /\ Conservation)' =>
          (/\ pool \in 0 .. PoolSize /\ armed \in 0 .. NbDesc
           /\ nic \in 0 .. NbDesc)'
    BY Bounds, PTL
  <2> QED
    BY <1>1, <2>1
<1>3. TypeOK'
  BY <1>1, <1>2 DEF TypeOK, Others, Numbers, SchedOK, QueuesOK
<1> QED
  BY <1>1, <1>3 DEF Inv

(* The types of all components of the pipeline, and the bounds of the pool *)
(* of the descriptors, of the bursts and of the rings.                     *)
THEOREM TypesCorrect == Spec => []TypeOK
<1>1. Init => Inv
  BY InitInv
<1>2. Inv /\ [Next]_vars => Inv'
  BY StepInv
<1>3. Inv => TypeOK
  BY DEF Inv
<1> QED
  BY <1>1, <1>2, <1>3, PTL DEF Spec

(* No buffer is lost or freed twice, wherever the lthreads run: what the   *)
(* NIC, the rx lthread, the rings and the tx lthreads hold and what is in  *)
(* the pool are always all the buffers.                                    *)
THEOREM BuffersConserved == Spec => []Conservation
<1>1. Init => Inv
  BY InitInv
<1>2. Inv /\ [Next]_vars => Inv'
  BY StepInv
<1>3. Inv => Conservation
  BY DEF Inv
<1> QED
  BY <1>1, <1>2, <1>3, PTL DEF Spec

-----------------------------------------------------------------------------
(* The sum that Accounting is about.                                       *)
Accounted == nic + burst + Total(ring) + Total(re) + ring_loss

(* The numbers it is made of.                                              *)
LEMMA AccountTypes ==
  ASSUME TypeOK
  PROVE  /\ nic \in Int /\ burst \in Int /\ ring_loss \in Int /\ received \in Int
         /\ ring \in [Workers -> Int] /\ re \in [Workers -> Int]
         /\ Total(ring) \in Int /\ Total(re) \in Int /\ Accounted \in Int
<1>1. /\ nic \in Int /\ burst \in Int /\ ring_loss \in Int /\ received \in Int
      /\ ring \in [Workers -> Int] /\ re \in [Workers -> Int]
  BY ConstantTypes DEF TypeOK
<1>2. 0 \in Workers
  BY ConstantTypes DEF Workers
<1>3. Total(ring) \in Int /\ Total(re) \in Int
  BY <1>1, <1>2, TotalUpdate
<1>4. Accounted \in Int
  <2> DEFINE a == Total(ring) e == Total(re)
  <2>1. a \in Int /\ e \in Int
    BY <1>3
  <2> HIDE DEF a, e
  <2>2. nic + burst + a + e + ring_loss \in Int
    BY <1>1, <2>1
  <2> QED
    BY <2>2 DEF Accounted, a, e
<1> QED
  BY <1>1, <1>3, <1>4

(* A step that moves packets moves none in or out of the account, except   *)
(* for the arrival of one; counters that wrap keep it modulo their width.  *)
LEMMA StepAccount ==
  ASSUME Inv, Next
  PROVE  \/ Arrive /\ Accounted' = Accounted + 1
         \/ received' = received /\ Accounted' % CtrMod = Accounted % CtrMod
<1> USE ConstantTypes
<1> DEFINE a == Total(ring) e == Total(re)
<1>1. /\ nic \in Int /\ burst \in Int /\ ring_loss \in Int
      /\ ring \in [Workers -> Int] /\ re \in [Workers -> Int]
      /\ a \in Int /\ e \in Int
  BY AccountTypes DEF Inv
<1>2. Accounted = nic + burst + a + e + ring_loss
  BY DEF Accounted
<1>3. worker_id \in Workers
  BY DEF Inv, TypeOK
<1>4. CASE Arrive
  <2>1. /\ nic' = nic + 1 /\ UNCHANGED <<burst, ring_loss>>
        /\ Total(ring)' = a /\ Total(re)' = e
    BY <1>4 DEF Arrive, rxVars, txVars
  <2> HIDE DEF a, e
  <2>2. (nic + 1) + burst + a + e + ring_loss
          = (nic + burst + a + e + ring_loss) + 1
    BY <1>1
  <2> QED
    BY <1>2, <1>4, <2>1, <2>2 DEF Accounted
<1>5. CASE RxPoll
  <2>1. /\ UNCHANGED <<received, ring_loss>>
        /\ Total(ring)' = a /\ Total(re)' = e /\ burst = 0
    BY <1>5 DEF RxPoll, txVars, Inv, Shape
  <2>2. PICK n \in Int : burst' = n /\ nic' = nic - n
    <3>1. CASE nic = 0
      BY <1>5, <2>1, <3>1 DEF RxPoll
    <3>2. CASE nic # 0
      <4>1. PICK n \in 1 .. AtMost(nic, MaxBurst) : burst' = n /\ nic' = nic - n
        BY <1>5, <3>2 DEF RxPoll
      <4> QED
        BY <4>1
    <3> QED
      BY <3>1, <3>2
  <2> HIDE DEF a, e
  <2>3. (nic - n) + n + a + e + ring_loss = nic + burst + a + e + ring_loss
    BY <1>1, <2>1, <2>2
  <2>4. Accounted' = Accounted
    BY <1>2, <2>1, <2>2, <2>3 DEF Accounted
  <2> QED
    BY <2>1, <2>4
<1>6. CASE RxEnqueue
  <2> DEFINE w == (worker_id + 1) % NW ret == AtMost(burst, Room(w))
  <2>1. w \in Workers
    BY <1>3 DEF Workers
  <2>2. /\ ring' = [ring EXCEPT ![w] = @ + ret] /\ burst' = burst - ret
        /\ UNCHANGED <<nic, received, ring_loss>> /\ Total(re)' = e
    BY <1>6 DEF RxEnqueue, nicVars, txVars
  <2> HIDE DEF w
  <2>3. ret \in Int /\ ring[w] \in Int
    BY <1>1, <2>1 DEF AtMost, Room
  <2> HIDE DEF ret
  <2>4. Total(ring') = Total(ring) + ((ring[w] + ret) - ring[w])
    <3>1. ring[w] + ret \in Int
      BY <2>3
    <3> QED
      BY <1>1, <2>1, <2>2, <3>1, TotalUpdate
  <2>5. Total(ring') = a + ((ring[w] + ret) - ring[w])
    BY <2>4
  <2> HIDE DEF a, e
  <2>6. nic + (burst - ret) + (a + ((ring[w] + ret) - ring[w])) + e + ring_loss
          = nic + burst + a + e + ring_loss
    BY <1>1, <2>3
  <2>7. Accounted' = Accounted
    BY <1>2, <2>2, <2>5, <2>6 DEF Accounted
  <2> QED
    BY <2>2, <2>7
<1>7. CASE RxSignal
  <2>1. /\ burst' = 0 /\ ring_loss' = (ring_loss + burst) % CtrMod
        /\ UNCHANGED <<nic, received>> /\ Total(ring)' = a /\ Total(re)' = e
    BY <1>7 DEF RxSignal, CountLoss, Plus, nicVars, txVars
  <2> HIDE DEF a, e
  <2> DEFINE x == ring_loss + burst y == nic + a + e
  <2>2. x \in Int /\ y \in Int /\ x + y = nic + burst + a + e + ring_loss
    BY <1>1
  <2>3. nic + 0 + a + e + (x % CtrMod) = (x % CtrMod) + y
    <3>1. x % CtrMod \in Int
      BY <2>2, ModRange
    <3> DEFINE z == x % CtrMod
    <3> HIDE DEF x, z
    <3>2. nic + 0 + a + e + z = z + y
      BY <1>1, <3>1 DEF z
    <3> QED
      BY <3>2 DEF z
  <2> HIDE DEF x, y
  <2>4. ((x % CtrMod) + y) % CtrMod = (x + y) % CtrMod
    BY <2>2, ModPlus
  <2>5. Accounted' = nic + 0 + a + e + (x % CtrMod)
    BY <2>1 DEF Accounted, x
  <2> QED
    BY <1>2, <2>1, <2>2, <2>3, <2>4, <2>5
<1>8. ASSUME NEW w \in Workers, TxDequeue(w)
      PROVE  received' = received /\ Accounted' % CtrMod = Accounted % CtrMod
  <2> DEFINE n == AtMost(ring[w], MaxBurst) x == re[w] + n z == x % CtrMod
  <2>1. /\ ring' = [ring EXCEPT ![w] = ring[w] - n]
        /\ re' = [re EXCEPT ![w] = z]
        /\ UNCHANGED <<nic, burst, received, ring_loss>>
    BY <1>8 DEF TxDequeue, Plus, nicVars, rxVars
  <2>2. n \in Int /\ ring[w] \in Int /\ re[w] \in Int
    BY <1>1 DEF AtMost
  <2> HIDE DEF n
  <2>3. x \in Int /\ ring[w] - n \in Int
    BY <2>2
  <2> HIDE DEF x
  <2>4. z \in Int
    BY <2>3, ModRange
  <2> HIDE DEF z
  <2>5. /\ Total(ring') = Total(ring) + ((ring[w] - n) - ring[w])
        /\ Total(re') = Total(re) + (z - re[w])
    BY <1>1, <2>1, <2>3, <2>4, TotalUpdate
  <2>6. Total(ring') = a + ((ring[w] - n) - ring[w]) /\ Total(re') = e + (z - re[w])
    BY <2>5
  <2> HIDE DEF a, e
  <2> DEFINE y == nic + burst + (a - n) + (e - re[w]) + ring_loss
  <2>7. /\ y \in Int
        /\ nic + burst + (a + ((ring[w] - n) - ring[w])) + (e + (z - re[w]))
             + ring_loss = z + y
    BY <1>1, <2>2, <2>4
  <2>8. x + y = nic + burst + a + e + ring_loss
    BY <1>1, <2>2 DEF x
  <2> HIDE DEF y
  <2>9. (z + y) % CtrMod = (x + y) % CtrMod
    BY <2>3, <2>7, ModPlus DEF z
  <2> QED
    BY <1>2, <2>1, <2>6, <2>7, <2>8, <2>9 DEF Accounted
<1>9. ASSUME NEW w \in Workers, TxFree(w) \/ TxStore(w) \/ TxWait(w)
      PROVE  received' = received /\ Accounted' % CtrMod = Accounted % CtrMod
  <2>1. UNCHANGED <<nic, burst, received, ring_loss, ring, re>>
    BY <1>9 DEF TxFree, TxStore, TxWait, nicVars, rxVars
  <2> QED
    BY <2>1 DEF Accounted
<1> QED
  BY <1>4, <1>5, <1>6, <1>7, <1>8, <1>9 DEF Next, RxStep, TxStep

(* Every packet that the NIC received is still held, counted in re or      *)
(* counted in ring_loss, modulo the width of the counters.                 *)
THEOREM PacketsAccounted == Spec => []Accounting
<1>1. Init => Inv /\ Accounting
  <2> SUFFICES ASSUME Init PROVE Inv /\ Accounting
    OBVIOUS
  <2>1. Total(ring) = 0 /\ Total(re) = 0
    BY TotalZero DEF Init
  <2>2. 0 % CtrMod = 0 /\ 0 + 0 + 0 + 0 + 0 = 0
    BY ConstantTypes
  <2> QED
    BY <2>1, <2>2, InitInv DEF Init, Accounting
<1>2. Inv /\ Accounting /\ [Next]_vars => (Inv /\ Accounting)'
  <2> SUFFICES ASSUME Inv, Accounting, [Next]_vars PROVE Accounting'
    BY StepInv
  <2>1. received = Accounted % CtrMod /\ Accounted \in Int
    BY AccountTypes DEF Accounting, Accounted, Inv
  <2>2. CASE UNCHANGED vars
    BY <2>2 DEF vars, nicVars, rxVars, txVars, Accounting
  <2>3. CASE Next
    <3>1. CASE Arrive /\ Accounted' = Accounted + 1
      <4>1. received' = (received + 1) % CtrMod
        BY <3>1 DEF Arrive, Plus
      <4>2. ((Accounted % CtrMod) + 1) % CtrMod = (Accounted + 1) % CtrMod
        <5>1. 1 \in Int /\ CtrMod \in Nat \ {0}
          BY ConstantTypes
        <5> QED
          BY <2>1, <5>1, ModPlus, Zenon
      <4>3. received' = Accounted' % CtrMod
        BY <2>1, <3>1, <4>1, <4>2
      <4> QED
        BY <4>3 DEF Accounting, Accounted
    <3>2. CASE received' = received /\ Accounted' % CtrMod = Accounted % CtrMod
      <4>1. received' = Accounted' % CtrMod
        BY <2>1, <3>2
      <4> QED
        BY <4>1 DEF Accounting, Accounted
    <3> QED
      BY <2>3, <3>1, <3>2, StepAccount
  <2> QED
    BY <2>2, <2>3
<1> QED
  BY <1>1, <1>2, PTL DEF Spec

-----------------------------------------------------------------------------
(* Why a tx lthread beside the rx lthread misses no signal: less than a    *)
(* burst is unsignalled but between an enqueue and its signal; the ring    *)
(* is still empty when the tx lthread, having found it so, comes to wait;  *)
(* and what is in the ring of one that waits is unsignalled.               *)
Residue ==
  /\ \A w \in Workers : len[w] < MaxBurst \/ (rxpc = "signal" /\ worker_id = w)
  /\ \A w \in Beside : /\ txpc[w] = "wait" => ring[w] = 0
                       /\ blocked[w] => ring[w] <= len[w]

(* Every step keeps it.                                                    *)
LEMMA StepResidue ==
  ASSUME Inv, Residue, [Next]_vars
  PROVE  Residue'
<1> USE ConstantTypes
<1>1. Beside' = Beside /\ Beside \subseteq Workers
  BY SetupFixed DEF Beside
<1>2. /\ burst \in 0 .. MaxBurst /\ ring \in [Workers -> 0 .. RingCap]
      /\ len \in [Workers -> Nat] /\ worker_id \in Workers
      /\ txpc \in [Workers -> {"poll", "free", "store", "wait"}]
      /\ blocked \in [Workers -> BOOLEAN]
  BY DEF Inv, TypeOK
<1>3. CASE UNCHANGED vars
  BY <1>1, <1>3 DEF vars, rxVars, txVars, schedVars, Residue
<1>4. CASE Arrive
  BY <1>1, <1>4 DEF Arrive, rxVars, txVars, schedVars, Residue
<1>5. CASE RxPoll
  <2>1. /\ rxpc = "poll"
        /\ UNCHANGED <<len, worker_id, txpc, ring, blocked>>
    BY <1>5 DEF RxPoll, txVars
  <2> QED
    BY <1>1, <2>1 DEF Residue
<1>6. CASE RxEnqueue
  <2> DEFINE v == (worker_id + 1) % NW ret == AtMost(burst, Room(v))
  <2>1. v \in Workers
    BY <1>2 DEF Workers
  <2>2. /\ ring' = [ring EXCEPT ![v] = @ + ret]
        /\ len' = [len EXCEPT ![v] = @ + ret]
        /\ rxpc = "enqueue" /\ rxpc' = "signal" /\ worker_id' = v
        /\ UNCHANGED <<txpc, blocked>>
    BY <1>6 DEF RxEnqueue, txVars, schedVars
  <2> HIDE DEF v
  <2>3. ret \in Nat
    BY <1>2, <2>1 DEF AtMost, Room
  <2> HIDE DEF ret
  <2>4. \A w \in Workers :
          len'[w] < MaxBurst \/ (rxpc' = "signal" /\ worker_id' = w)
    BY <1>2, <2>1, <2>2 DEF Residue
  <2>5. \A w \in Beside : txpc[w] # "wait"
    <3>1. First(ready, Rx)
      BY <2>2 DEF Inv, SchedOK
    <3>2. \A w \in Beside : txpc[w] = "wait" => First(ready, w)
      BY <1>1 DEF Inv, SchedOK
    <3>3. \A w \in Beside : LcoreOf[w] = LcoreOf[Rx] /\ w # Rx
      BY LthreadTypes DEF Beside
    <3> QED
      BY <3>1, <3>2, <3>3, OneRuns
  <2>6. \A w \in Beside : blocked[w] => ring'[w] <= len'[w]
    BY <1>1, <1>2, <2>1, <2>2, <2>3 DEF Residue
  <2> QED
    BY <1>1, <2>2, <2>4, <2>5, <2>6 DEF Residue
<1>7. CASE RxSignal
  <2>1. /\ rxpc = "signal" /\ rxpc' = "poll"
        /\ UNCHANGED <<worker_id, txpc, ring>>
    BY <1>7 DEF RxSignal, txVars
  <2>2. CASE Due(worker_id)
    <3>1. /\ len' = [len EXCEPT ![worker_id] = 0]
          /\ blocked' = [blocked EXCEPT ![worker_id] = FALSE]
      BY <1>7, <2>2 DEF RxSignal, Signal
    <3>2. \A w \in Workers : len'[w] < MaxBurst
      BY <1>2, <3>1 DEF Residue
    <3>3. \A w \in Beside : blocked'[w] => blocked[w] /\ len'[w] = len[w]
      BY <1>1, <1>2, <3>1
    <3> QED
      BY <1>1, <2>1, <3>2, <3>3 DEF Residue
  <2>3. CASE ~Due(worker_id)
    <3>1. UNCHANGED <<len, blocked>>
      BY <1>7, <2>3 DEF RxSignal
    <3>2. len[worker_id] < MaxBurst
      BY <1>2, <2>3 DEF Due
    <3> QED
      BY <1>1, <2>1, <3>1, <3>2 DEF Residue
  <2> QED
    BY <2>2, <2>3
<1>8. ASSUME NEW v \in Workers, TxDequeue(v) PROVE Residue'
  <2> DEFINE n == AtMost(ring[v], MaxBurst)
  <2>1. /\ ring' = [ring EXCEPT ![v] = @ - n]
        /\ txpc' = [txpc EXCEPT ![v] = IF n > 0 THEN "free" ELSE "wait"]
        /\ UNCHANGED <<rxpc, worker_id, len, blocked>>
    BY <1>8 DEF TxDequeue, rxVars, schedVars
  <2>2. n \in Nat /\ (n = 0 => ring[v] = 0) /\ ring[v] \in Nat
    BY <1>2 DEF AtMost
  <2> HIDE DEF n
  <2>3. \A w \in Beside : txpc'[w] = "wait" => ring'[w] = 0
    BY <1>1, <1>2, <2>1, <2>2 DEF Residue
  <2>4. \A w \in Beside : blocked[w] => ring'[w] <= len[w]
    <3>1. \A w \in Workers : ring'[w] <= ring[w] /\ ring'[w] \in Int
      BY <1>2, <2>1, <2>2
    <3>2. \A w \in Workers : ring[w] \in Int /\ len[w] \in Int
      BY <1>2
    <3> QED
      BY <1>1, <3>1, <3>2 DEF Residue
  <2> QED
    BY <1>1, <2>1, <2>3, <2>4 DEF Residue
<1>9. ASSUME NEW v \in Workers, TxFree(v) \/ TxStore(v) PROVE Residue'
  <2>1. /\ UNCHANGED <<ring, rxpc, worker_id, len, blocked>>
        /\ \A w \in Workers : txpc'[w] = "wait" => txpc[w] = "wait"
    BY <1>2, <1>9 DEF TxFree, AfterFree, TxStore, rxVars, schedVars
  <2> QED
    BY <1>1, <2>1 DEF Residue
<1>10. ASSUME NEW v \in Workers, TxWait(v) PROVE Residue'
  <2>1. /\ UNCHANGED <<ring, rxpc, worker_id, len>>
        /\ txpc' = [txpc EXCEPT ![v] = "poll"] /\ txpc[v] = "wait"
    BY <1>10 DEF TxWait, rxVars
  <2>2. \A w \in Workers : blocked'[w] => blocked[w] \/ w = v
    BY <1>2, <1>10 DEF TxWait, Wait, schedVars
  <2>3. v \in Beside => ring[v] <= len[v]
    BY <1>2, <2>1 DEF Residue
  <2>4. \A w \in Workers : txpc'[w] = "wait" => txpc[w] = "wait"
    BY <1>2, <2>1
  <2> QED
    BY <1>1, <2>1, <2>2, <2>3, <2>4 DEF Residue
<1> QED
  BY <1>3, <1>4, <1>5, <1>6, <1>7, <1>8, <1>9, <1>10 DEF Next, RxStep, TxStep

(* A tx lthread that shares the lcore of the rx lthread sleeps on less     *)
(* than a burst, all of it still to be signalled: no wake-up is lost.      *)
THEOREM NoSignalLost == Spec => []SleepsOnResidue
<1>1. Init => Inv /\ Residue
  <2> SUFFICES ASSUME Init PROVE Residue
    BY InitInv
  <2> QED
    BY ConstantTypes DEF Init, Residue, Beside
<1>2. Inv /\ Residue /\ [Next]_vars => (Inv /\ Residue)'
  BY StepInv, StepResidue
<1>3. Inv /\ Residue => SleepsOnResidue
  BY DEF Residue, SleepsOnResidue, Beside
<1> QED
  BY <1>1, <1>2, <1>3, PTL DEF Spec

-----------------------------------------------------------------------------
(* The tx lthreads that have read the counter and not yet written it.      *)
Storing == {w \in Workers : txpc[w] = "store"}

Together == \A v, w \in Workers : LcoreOf[v] = LcoreOf[w]

(* On one lcore nobody writes the counter between its reading and its      *)
(* writing by a tx lthread.                                                *)
ReadIsFresh == \A w \in Storing : seen[w] = table

SlotInv == Together => ReadIsFresh /\ SlotExact

(* On one lcore only the lthread that takes a step can be storing.         *)
LEMMA OneStores ==
  ASSUME Inv, Together, NEW w \in Workers, Running(w)
  PROVE  Storing \subseteq {w}
<1>1. First(ready, w) /\ \A x \in Storing : First(ready, x) /\ x \in Workers
  BY DEF Inv, SchedOK, Storing, Running, First
<1> QED
  BY <1>1, OneRuns DEF Together

(* The two sides of SlotExact and their types.                             *)
Counted == table + Total(txburst) + Cardinality(Storing)

(* Both are numbers.                                                       *)
LEMMA CountedTypes ==
  ASSUME TypeOK
  PROVE  /\ IsFiniteSet(Storing) /\ Cardinality(Storing) \in Int
         /\ table \in Int /\ re \in [Workers -> Int]
         /\ txburst \in [Workers -> Int]
         /\ Total(re) \in Int /\ Total(txburst) \in Int
         /\ Counted \in Int
<1>1. /\ table \in Int /\ re \in [Workers -> Int] /\ txburst \in [Workers -> Int]
  BY ConstantTypes DEF TypeOK
<1>2. IsFiniteSet(Storing) /\ Cardinality(Storing) \in Int
  <2>1. IsFiniteSet(Storing)
    BY ConstantTypes, FS_Subset DEF Storing
  <2>2. Cardinality(Storing) \in Nat
    BY <2>1, FS_CardinalityType
  <2> QED
    BY <2>1, <2>2
<1>3. 0 \in Workers
  BY ConstantTypes DEF Workers
<1>4. Total(re) \in Int /\ Total(txburst) \in Int
  BY <1>1, <1>3, TotalUpdate
<1>5. Counted \in Int
  <2> DEFINE b == Total(txburst) c == Cardinality(Storing)
  <2>1. b \in Int /\ c \in Int
    BY <1>2, <1>4
  <2> HIDE DEF b, c
  <2>2. table + b + c \in Int
    BY <1>1, <2>1
  <2> QED
    BY <2>2 DEF Counted, b, c
<1> QED
  BY <1>1, <1>2, <1>4, <1>5

(* Every step keeps the slot exact, on one lcore.                          *)
LEMMA StepSlot ==
  ASSUME Inv, SlotInv, [Next]_vars
  PROVE  SlotInv'
<1>1. Together' <=> Together
  BY SetupFixed DEF Together
<1> SUFFICES ASSUME Together PROVE ReadIsFresh' /\ SlotExact'
  BY <1>1 DEF SlotInv
<1>2. ReadIsFresh /\ Total(re) % CtrMod = Counted % CtrMod
  BY DEF SlotInv, SlotExact, Counted, Storing, Together
<1>3. SUFFICES ReadIsFresh' /\ Total(re') % CtrMod = Counted' % CtrMod
  BY DEF SlotExact, Counted, Storing
<1> DEFINE e == Total(re) b == Total(txburst) c == Cardinality(Storing)
<1>4. /\ IsFiniteSet(Storing) /\ c \in Int /\ table \in Int /\ e \in Int /\ b \in Int
      /\ re \in [Workers -> Int] /\ txburst \in [Workers -> Int]
      /\ Counted = table + b + c /\ Counted \in Int
      /\ CtrMod \in Nat \ {0}
  BY CountedTypes, ConstantTypes DEF Inv, Counted
<1>5. /\ ring \in [Workers -> 0 .. RingCap] /\ seen \in [Workers -> Int]
      /\ txpc \in [Workers -> {"poll", "free", "store", "wait"}]
  BY ConstantTypes DEF Inv, TypeOK
<1>6. CASE UNCHANGED <<txpc, txburst, re, table, seen>>
  <2>1. Storing' = Storing
    BY <1>6 DEF Storing
  <2> QED
    BY <1>2, <1>6, <2>1 DEF ReadIsFresh, Counted
<1>7. CASE Arrive \/ RxStep \/ UNCHANGED vars
  BY <1>6, <1>7 DEF Arrive, RxStep, RxPoll, RxEnqueue, RxSignal, vars, txVars
<1>8. ASSUME NEW w \in Workers, TxDequeue(w)
      PROVE  ReadIsFresh' /\ Total(re') % CtrMod = Counted' % CtrMod
  <2> DEFINE n == AtMost(ring[w], MaxBurst) x == re[w] + n z == x % CtrMod
  <2>1. /\ re' = [re EXCEPT ![w] = z] /\ txburst' = [txburst EXCEPT ![w] = n]
        /\ txpc' = [txpc EXCEPT ![w] = IF n > 0 THEN "free" ELSE "wait"]
        /\ txpc[w] = "poll" /\ UNCHANGED <<table, seen>>
    BY <1>8 DEF TxDequeue, Plus
  <2>2. n \in Int /\ re[w] \in Int /\ txburst[w] = 0
    BY <1>4, <1>5, <2>1, ConstantTypes DEF AtMost, Inv, Shape
  <2> HIDE DEF n
  <2>3. Storing' = Storing
    BY <1>5, <2>1 DEF Storing
  <2>4. x \in Int
    BY <2>2
  <2> HIDE DEF x
  <2>5. z \in Int
    BY <1>4, <2>4, ModRange
  <2> HIDE DEF z
  <2>6. /\ Total(re') = e + (z - re[w])
        /\ Total(txburst') = b + (n - txburst[w])
    BY <1>4, <2>1, <2>2, <2>5, TotalUpdate
  <2> DEFINE y == e - re[w]
  <2> HIDE DEF e, b, c
  <2>7. /\ y \in Int /\ e + (z - re[w]) = z + y /\ x + y = e + n
        /\ b + (n - txburst[w]) = b + n
    BY <1>4, <2>2, <2>5 DEF x
  <2> HIDE DEF y
  <2>8. Total(re') % CtrMod = (e + n) % CtrMod
    <3>1. (z + y) % CtrMod = (x + y) % CtrMod
      BY <1>4, <2>4, <2>7, ModPlus DEF z
    <3> QED
      BY <2>6, <2>7, <3>1
  <2>9. Counted' = Counted + n
    <3>1. Counted' = table + (b + n) + c
      BY <2>1, <2>3, <2>6, <2>7 DEF Counted, c
    <3> QED
      BY <1>4, <2>2, <3>1
  <2>10. (e + n) % CtrMod = (Counted + n) % CtrMod
    <3>1. e % CtrMod = Counted % CtrMod
      BY <1>2 DEF e
    <3>2. /\ e \in Int /\ Counted \in Int /\ n \in Int
          /\ CtrMod \in Nat \ {0}
      BY <1>4, <2>2
    <3> QED
      BY <3>1, <3>2, ModSame, Zenon
  <2> QED
    BY <1>2, <2>1, <2>3, <2>8, <2>9, <2>10 DEF ReadIsFresh
<1>9. ASSUME NEW w \in Workers, TxFree(w)
      PROVE  ReadIsFresh' /\ Total(re') % CtrMod = Counted' % CtrMod
  <2>1. /\ txburst' = [txburst EXCEPT ![w] = txburst[w] - 1]
        /\ seen' = [seen EXCEPT ![w] = table]
        /\ txpc' = [txpc EXCEPT ![w] = "store"] /\ txpc[w] = "free"
        /\ UNCHANGED <<re, table>> /\ Running(w)
    BY <1>9 DEF TxFree, AfterFree
  <2>2. Storing' = Storing \cup {w} /\ w \notin Storing
    BY <1>5, <2>1 DEF Storing
  <2>3. Cardinality(Storing') = c + 1
    BY <1>4, <2>2, FS_AddElement
  <2>4. Storing' = {w}
    BY <2>1, <2>2, OneStores
  <2>5. ReadIsFresh'
    BY <1>5, <2>1, <2>4 DEF ReadIsFresh
  <2>6. txburst[w] - 1 \in Int /\ txburst[w] \in Int
    BY <1>4
  <2>7. Total(txburst') = b + ((txburst[w] - 1) - txburst[w])
    BY <1>4, <2>1, <2>6, TotalUpdate
  <2>8. Counted' = table + (b + ((txburst[w] - 1) - txburst[w])) + (c + 1)
    BY <2>1, <2>3, <2>7 DEF Counted
  <2> HIDE DEF b, c
  <2>9. Counted' = Counted
    BY <1>4, <2>6, <2>8
  <2> QED
    BY <1>2, <2>1, <2>5, <2>9
<1>10. ASSUME NEW w \in Workers, TxStore(w)
       PROVE  ReadIsFresh' /\ Total(re') % CtrMod = Counted' % CtrMod
  <2>1. /\ table' = (seen[w] + 1) % CtrMod
        /\ txpc' = [txpc EXCEPT ![w] = IF txburst[w] > 0 THEN "free"
                                                         ELSE "poll"]
        /\ txpc[w] = "store" /\ UNCHANGED <<re, txburst>> /\ Running(w)
    BY <1>10 DEF TxStore, Plus
  <2>2. Storing' = Storing \ {w} /\ w \in Storing
    BY <1>5, <2>1 DEF Storing
  <2>3. Cardinality(Storing') = c - 1
    BY <1>4, <2>2, FS_RemoveElement
  <2>4. Storing' = {}
    BY <2>1, <2>2, OneStores
  <2>5. ReadIsFresh'
    BY <2>4 DEF ReadIsFresh
  <2>6. seen[w] = table
    BY <1>2, <2>2 DEF ReadIsFresh
  <2> DEFINE x == table + 1 z == x % CtrMod y == b + (c - 1)
  <2>7. Counted' = z + b + (c - 1)
    BY <2>1, <2>3, <2>6 DEF Counted
  <2> HIDE DEF b, c
  <2>8. x \in Int /\ y \in Int /\ x + y = Counted
    BY <1>4
  <2> HIDE DEF x
  <2>9. z \in Int
    BY <1>4, <2>8, ModRange
  <2> HIDE DEF z
  <2>10. Counted' = z + y
    BY <1>4, <2>7, <2>9
  <2> HIDE DEF y
  <2>11. (z + y) % CtrMod = (x + y) % CtrMod
    BY <1>4, <2>8, ModPlus DEF z
  <2> QED
    BY <1>2, <2>1, <2>5, <2>8, <2>10, <2>11
<1>11. ASSUME NEW w \in Workers, TxWait(w)
       PROVE  ReadIsFresh' /\ Total(re') % CtrMod = Counted' % CtrMod
  <2>1. /\ txpc' = [txpc EXCEPT ![w] = "poll"] /\ txpc[w] = "wait"
        /\ UNCHANGED <<txburst, re, table, seen>>
    BY <1>11 DEF TxWait
  <2>2. Storing' = Storing
    BY <1>5, <2>1 DEF Storing
  <2> QED
    BY <1>2, <2>1, <2>2 DEF ReadIsFresh, Counted
<1> QED
  BY <1>7, <1>8, <1>9, <1>10, <1>11 DEF Next, TxStep

(* As long as the tx lthreads share an lcore the slot of the flow counts   *)
(* every packet that was taken off a ring and is not still to be counted,  *)
(* though nothing but their not yielding protects the counter.             *)
THEOREM SlotStaysExact == Spec => []SlotExact
<1>1. Init => Inv /\ SlotInv
  <2> SUFFICES ASSUME Init PROVE SlotInv
    BY InitInv
  <2>1. Storing = {}
    BY DEF Init, Storing
  <2>2. Total(re) = 0 /\ Total(txburst) = 0 /\ table = 0
    BY TotalZero DEF Init
  <2>3. Cardinality(Storing) = 0
    BY <2>1, FS_EmptySet
  <2>4. 0 % CtrMod = (0 + 0 + 0) % CtrMod
    BY ConstantTypes
  <2> QED
    BY <2>1, <2>2, <2>3, <2>4 DEF SlotInv, ReadIsFresh, SlotExact, Storing
<1>2. Inv /\ SlotInv /\ [Next]_vars => (Inv /\ SlotInv)'
  BY StepInv, StepSlot
<1>3. SlotInv => SlotExact
  BY DEF SlotInv, SlotExact, Together
<1> QED
  BY <1>1, <1>2, <1>3, PTL DEF Spec
=============================================================================
