----------------------- MODULE PthreadPipeline_proofs -----------------------
(* Proofs about PthreadPipeline, for any number of threads, buckets and    *)
(* buffers.                                                                *)
EXTENDS PthreadPipeline, Lemmas

(* FirstOf and DropOf cut a sequence in two.                               *)
LEMMA Cut ==
  ASSUME NEW S, NEW s \in Seq(S), NEW n \in 0 .. Len(s)
  PROVE  /\ FirstOf(s, n) \in Seq(S)
         /\ DropOf(s, n) \in Seq(S)
         /\ Len(FirstOf(s, n)) = n
         /\ Len(DropOf(s, n)) = Len(s) - n
         /\ \A j \in 1 .. n : FirstOf(s, n)[j] = s[j]
         /\ \A j \in 1 .. Len(s) - n : DropOf(s, n)[j] = s[n + j]
         /\ FirstOf(s, n) \o DropOf(s, n) = s
<1>1. Len(s) \in Nat /\ \A j \in 1 .. Len(s) : s[j] \in S
  BY LenProperties, ElementOfSeq
<1>2. /\ FirstOf(s, n) \in Seq(S)
      /\ Len(FirstOf(s, n)) = n
      /\ \A j \in 1 .. n : FirstOf(s, n)[j] = s[j]
  BY <1>1, SubSeqProperties DEF FirstOf
<1>3. /\ DropOf(s, n) \in Seq(S)
      /\ Len(DropOf(s, n)) = Len(s) - n
      /\ \A j \in 1 .. Len(s) - n : DropOf(s, n)[j] = s[n + j]
  <2>1. n + 1 \in 1 .. Len(s) + 1
    BY <1>1
  <2> QED
    BY <1>1, <2>1, SubSeqProperties DEF DropOf
<1>4. FirstOf(s, n) \o DropOf(s, n) = s
  <2>1. /\ 1 \in 1 .. Len(s) + 1
        /\ n \in 1 - 1 .. Len(s)
        /\ Len(s) \in n .. Len(s)
    BY <1>1
  <2> QED
    BY <2>1, ConcatAdjacentSubSeq, SubSeqFull DEF FirstOf, DropOf
<1> QED
  BY <1>2, <1>3, <1>4

(* The constants are numbers; a pool has buffers beyond the descriptors.   *)
LEMMA ConstantTypes ==
  /\ N \in Nat /\ NumBuckets \in Nat
  /\ PoolSize \in Nat /\ NbDesc \in Nat
  /\ BurstSize \in Nat \ {0} /\ RingCap \in Nat
  /\ 0 < PoolSize - NbDesc
BY PipelineAssumption

(* RSS sends every packet to the queue of a thread.                        *)
LEMMA QueueOfType ==
  ASSUME NEW f \in Flows
  PROVE  /\ QueueOf[f[1]] \in Threads
         /\ f[1] \in Buckets
         /\ f[2] \in Highs
BY PipelineAssumption DEF Flows

-----------------------------------------------------------------------------
(* Types and the conservation of buffers are inductive together: the bound *)
(* of a pool is the conservation law of its queue, and the law of what is  *)
(* leaked needs that rte_ring_enqueue_burst never finds a negative room.   *)
RingFits == \A t \in Threads : Len(ring[t]) <= RingCap

Inv == TypeOK /\ Conservation /\ RingFits

(* The numbers that the conservation law of a queue adds up.               *)
LEMMA Numbers ==
  ASSUME TypeOK, NEW t \in Threads
  PROVE  /\ pool[t] \in Nat /\ leaked[t] \in Nat
         /\ nic[t] \in Seq(Flows) /\ Len(nic[t]) \in Nat
         /\ rxbufs[t] \in Seq(Flows) /\ Len(rxbufs[t]) \in Nat
         /\ ring[t] \in Seq(Flows) /\ Len(ring[t]) \in Nat
         /\ txbufs[t] \in Seq(Flows) /\ Len(txbufs[t]) \in Nat
<1>1. /\ pool[t] \in 0 .. PoolSize /\ leaked[t] \in Nat
      /\ nic[t] \in Seq(Flows) /\ rxbufs[t] \in Seq(Flows)
      /\ ring[t] \in Seq(Flows) /\ txbufs[t] \in Seq(Flows)
  BY DEF TypeOK
<1> QED
  BY <1>1, ConstantTypes, LenProperties

(* The law needs to be looked at for the queue of the step only.           *)
Held(t) == pool[t] + NbDesc + Len(rxbufs[t]) + Len(ring[t]) + Len(txbufs[t])
             + leaked[t]

(* A step of one queue that keeps its sum keeps the law of every queue.    *)
LEMMA OthersConserved ==
  ASSUME TypeOK, Conservation, NEW t \in Threads,
         \A u \in Threads \ {t} :
           UNCHANGED <<pool[u], rxbufs[u], ring[u], txbufs[u], leaked[u]>>,
         Held(t)' = Held(t)
  PROVE  Conservation'
<1> SUFFICES ASSUME NEW u \in Threads PROVE Held(u)' = PoolSize
  BY DEF Conservation, Held
<1>1. Held(u) = PoolSize
  BY DEF Conservation, Held
<1>2. CASE u = t
  BY <1>1, <1>2
<1>3. CASE u # t
  BY <1>1, <1>3 DEF Held
<1> QED
  BY <1>2, <1>3

(* All the buffers start in the pools and the descriptors.                 *)
LEMMA InitInv == Init => Inv
<1> SUFFICES ASSUME Init PROVE Inv
  OBVIOUS
<1>1. TypeOK
  BY ConstantTypes DEF Init, TypeOK
<1>2. Conservation
  BY ConstantTypes DEF Init, Conservation
<1>3. RingFits
  BY ConstantTypes DEF Init, RingFits
<1> QED
  BY <1>1, <1>2, <1>3 DEF Inv

(* Every step of the NIC, of a thread or of the master keeps the invariant.*)
LEMMA StepInv == Inv /\ [Next]_vars => Inv'
<1> SUFFICES ASSUME Inv, [Next]_vars PROVE Inv'
  OBVIOUS
<1> USE DEF Inv
<1>1. ASSUME NEW f \in Flows, Arrive(f) PROVE Inv'
  <2> DEFINE t == QueueOf[f[1]]
  <2>1. t \in Threads
    BY QueueOfType
  <2>2. nic' \in [Threads -> Seq(Flows)]
    <3>1. Append(nic[t], f) \in Seq(Flows)
      BY <2>1, AppendProperties DEF TypeOK
    <3> QED
      BY <1>1, <2>1, <3>1 DEF Arrive, TypeOK
  <2>3. received' \in Nat /\ missed' \in Nat
    <3>1. \/ received' = received + 1 /\ missed' = missed
          \/ missed' = missed + 1 /\ received' = received
      BY <1>1 DEF Arrive
    <3> QED
      BY <3>1 DEF TypeOK
  <2>4. UNCHANGED <<pool, rxbufs, ring, txbufs, gCtr, hi, ctr, seen, leaked,
                    pc, idx, sum, old, ticks, printed>>
    BY <1>1 DEF Arrive, tableVars, masterVars
  <2> QED
    BY <2>2, <2>3, <2>4 DEF TypeOK, Conservation, RingFits
<1>2. ASSUME NEW t \in Threads, RxBurst(t) PROVE Inv'
  <2>1. PICK n \in 1 .. AtMost(Len(nic[t]), AtMost(BurstSize, pool[t])) :
          /\ rxbufs' = [rxbufs EXCEPT ![t] = FirstOf(nic[t], n)]
          /\ nic' = [nic EXCEPT ![t] = DropOf(@, n)]
          /\ pool' = [pool EXCEPT ![t] = @ - n]
    BY <1>2 DEF RxBurst
  <2>2. /\ nic[t] \in Seq(Flows)
        /\ pool[t] \in 0 .. PoolSize
        /\ rxbufs[t] = <<>>
    BY <1>2 DEF RxBurst, TypeOK
  <2>3. n \in 0 .. Len(nic[t]) /\ n \in 0 .. pool[t]
    <3>1. Len(nic[t]) \in Nat /\ BurstSize \in Nat /\ pool[t] \in Nat
      BY <2>2, ConstantTypes, LenProperties
    <3> QED
      BY <3>1 DEF AtMost
  <2>4. /\ FirstOf(nic[t], n) \in Seq(Flows)
        /\ DropOf(nic[t], n) \in Seq(Flows)
        /\ Len(FirstOf(nic[t], n)) = n
    BY <2>2, <2>3, Cut
  <2>5. UNCHANGED <<received, missed, ring, txbufs, gCtr, hi, ctr, seen,
                    leaked, pc, idx, sum, old, ticks, printed>>
    BY <1>2 DEF RxBurst, tableVars, masterVars
  <2>6. TypeOK'
    <3>1. pool[t] - n \in 0 .. PoolSize
      BY <2>2, <2>3, ConstantTypes
    <3>2. pool' \in [Threads -> 0 .. PoolSize]
      BY <2>1, <3>1 DEF TypeOK
    <3>3. /\ rxbufs' \in [Threads -> Seq(Flows)]
          /\ nic' \in [Threads -> Seq(Flows)]
      BY <2>1, <2>4 DEF TypeOK
    <3> QED
      BY <2>5, <3>2, <3>3 DEF TypeOK
  <2>7. Conservation'
    <3>0. /\ pool[t] \in Nat /\ leaked[t] \in Nat /\ NbDesc \in Nat
          /\ Len(rxbufs[t]) \in Nat /\ Len(ring[t]) \in Nat
          /\ Len(txbufs[t]) \in Nat
      BY Numbers, ConstantTypes
    <3>1. /\ pool'[t] = pool[t] - n
          /\ Len(rxbufs'[t]) = n /\ Len(rxbufs[t]) = 0
          /\ UNCHANGED <<ring[t], txbufs[t], leaked[t]>>
      BY <2>1, <2>2, <2>4, <2>5, EmptySeq DEF TypeOK
    <3>2. Held(t)' = Held(t)
      <4> DEFINE p == pool[t]  x == Len(rxbufs[t])  r == Len(ring[t])
                 y == Len(txbufs[t])  l == leaked[t]
      <4>1. Held(t)' = (p - n) + NbDesc + n + r + y + l
        BY <3>1 DEF Held
      <4>2. Held(t) = p + NbDesc + x + r + y + l /\ x = 0
        BY <3>1 DEF Held
      <4>3. p \in Nat /\ x \in Nat /\ r \in Nat /\ y \in Nat /\ l \in Nat
        BY <3>0
      <4> HIDE DEF p, x, r, y, l
      <4> QED
        BY <3>0, <4>1, <4>2, <4>3
    <3> QED
      BY <2>1, <2>5, <3>2, OthersConserved DEF TypeOK
  <2> QED
    BY <2>5, <2>6, <2>7 DEF RingFits
<1>3. ASSUME NEW t \in Threads, Enqueue(t) PROVE Inv'
  <2>1. /\ rxbufs[t] \in Seq(Flows) /\ ring[t] \in Seq(Flows)
        /\ Len(rxbufs[t]) \in Nat /\ Len(ring[t]) \in Nat
        /\ leaked[t] \in Nat
    BY LenProperties DEF TypeOK
  <2>2. PICK n \in Nat :
          /\ n <= Len(rxbufs[t]) /\ n <= RingCap - Len(ring[t])
          /\ ring' = [ring EXCEPT ![t] = @ \o FirstOf(rxbufs[t], n)]
          /\ leaked' = [leaked EXCEPT ![t] = @ + (Len(rxbufs[t]) - n)]
    <3> DEFINE n == AtMost(Len(rxbufs[t]), RingRoom(t))
    <3>0. RingRoom(t) = RingCap - Len(ring[t]) /\ RingRoom(t) \in Nat
      BY <2>1, ConstantTypes DEF RingRoom, RingFits
    <3>1. /\ n \in Nat /\ n <= Len(rxbufs[t]) /\ n <= RingCap - Len(ring[t])
      BY <2>1, <3>0 DEF AtMost
    <3>2. /\ ring' = [ring EXCEPT ![t] = @ \o FirstOf(rxbufs[t], n)]
          /\ leaked' = [leaked EXCEPT ![t] = @ + (Len(rxbufs[t]) - n)]
      BY <1>3 DEF Enqueue
    <3> QED
      BY <3>1, <3>2
  <2>3. /\ rxbufs' = [rxbufs EXCEPT ![t] = <<>>]
        /\ UNCHANGED <<pool, nic, received, missed, txbufs, gCtr, hi, ctr,
                       seen, pc, idx, sum, old, ticks, printed>>
    BY <1>3 DEF Enqueue, nicVars, tableVars, masterVars
  <2>4. /\ FirstOf(rxbufs[t], n) \in Seq(Flows)
        /\ Len(FirstOf(rxbufs[t], n)) = n
    BY <2>1, <2>2, Cut
  <2>5. /\ ring[t] \o FirstOf(rxbufs[t], n) \in Seq(Flows)
        /\ Len(ring[t] \o FirstOf(rxbufs[t], n)) = Len(ring[t]) + n
    <3>1. /\ ring[t] \o FirstOf(rxbufs[t], n) \in Seq(Flows)
          /\ Len(ring[t] \o FirstOf(rxbufs[t], n))
               = Len(ring[t]) + Len(FirstOf(rxbufs[t], n))
      BY <2>1, <2>4, ConcatProperties, Zenon
    <3> QED
      BY <2>4, <3>1
  <2>6. TypeOK'
    <3>1. leaked' \in [Threads -> Nat]
      BY <2>1, <2>2 DEF TypeOK
    <3>2. ring' \in [Threads -> Seq(Flows)]
      BY <2>2, <2>5 DEF TypeOK
    <3>3. rxbufs' \in [Threads -> Seq(Flows)]
      BY <2>3, EmptySeq DEF TypeOK
    <3> QED
      BY <2>3, <3>1, <3>2, <3>3 DEF TypeOK
  <2>7. Conservation'
    <3>0. /\ pool[t] \in Nat /\ leaked[t] \in Nat /\ NbDesc \in Nat
          /\ Len(rxbufs[t]) \in Nat /\ Len(ring[t]) \in Nat
          /\ Len(txbufs[t]) \in Nat
      BY Numbers, ConstantTypes
    <3>1. /\ Len(ring'[t]) = Len(ring[t]) + n
          /\ leaked'[t] = leaked[t] + (Len(rxbufs[t]) - n)
          /\ Len(rxbufs'[t]) = 0
          /\ UNCHANGED <<pool[t], txbufs[t]>>
      BY <2>2, <2>3, <2>5, EmptySeq DEF TypeOK
    <3>2. Held(t)' = Held(t)
      <4> DEFINE p == pool[t]  x == Len(rxbufs[t])  r == Len(ring[t])
                 y == Len(txbufs[t])  l == leaked[t]
      <4>1. Held(t)' = p + NbDesc + 0 + (r + n) + y + (l + (x - n))
        BY <3>1 DEF Held
      <4>2. Held(t) = p + NbDesc + x + r + y + l
        BY DEF Held
      <4>3. p \in Nat /\ x \in Nat /\ r \in Nat /\ y \in Nat /\ l \in Nat
        BY <3>0
      <4> HIDE DEF p, x, r, y, l
      <4> QED
        BY <3>0, <4>1, <4>2, <4>3
    <3> QED
      BY <2>2, <2>3, <3>2, OthersConserved DEF TypeOK
  <2>8. RingFits'
    BY <2>1, <2>2, <2>5, ConstantTypes, LenProperties DEF TypeOK, RingFits
  <2> QED
    BY <2>6, <2>7, <2>8
<1>4. ASSUME NEW t \in Threads, Dequeue(t) PROVE Inv'
  <2>1. /\ ring[t] \in Seq(Flows) /\ txbufs[t] = <<>>
        /\ Len(ring[t]) \in Nat
    BY <1>4, LenProperties DEF Dequeue, TypeOK
  <2>2. PICK n \in 0 .. Len(ring[t]) :
          /\ txbufs' = [txbufs EXCEPT ![t] = FirstOf(ring[t], n)]
          /\ ring' = [ring EXCEPT ![t] = DropOf(@, n)]
          /\ gCtr' = [gCtr EXCEPT ![t] = @ + n]
    <3> DEFINE n == AtMost(Len(ring[t]), BurstSize)
    <3>1. n \in 0 .. Len(ring[t])
      BY <2>1, ConstantTypes DEF AtMost
    <3>2. /\ txbufs' = [txbufs EXCEPT ![t] = FirstOf(ring[t], n)]
          /\ ring' = [ring EXCEPT ![t] = DropOf(@, n)]
          /\ gCtr' = [gCtr EXCEPT ![t] = @ + n]
      BY <1>4 DEF Dequeue, CountBurst
    <3> QED
      BY <3>1, <3>2
  <2>3. UNCHANGED <<pool, nic, received, missed, rxbufs, hi, ctr, seen,
                    leaked, pc, idx, sum, old, ticks, printed>>
    BY <1>4 DEF Dequeue, nicVars, tableVars, masterVars
  <2>4. /\ FirstOf(ring[t], n) \in Seq(Flows)
        /\ DropOf(ring[t], n) \in Seq(Flows)
        /\ Len(FirstOf(ring[t], n)) = n
        /\ Len(DropOf(ring[t], n)) = Len(ring[t]) - n
    BY <2>1, <2>2, Cut
  <2>5. TypeOK'
    <3>1. /\ txbufs' \in [Threads -> Seq(Flows)]
          /\ ring' \in [Threads -> Seq(Flows)]
      BY <2>2, <2>4 DEF TypeOK
    <3>2. gCtr' \in [Threads -> Nat]
      BY <2>2 DEF TypeOK
    <3> QED
      BY <2>3, <3>1, <3>2 DEF TypeOK
  <2>6. Conservation'
    <3>0. /\ pool[t] \in Nat /\ leaked[t] \in Nat /\ NbDesc \in Nat
          /\ Len(rxbufs[t]) \in Nat /\ Len(ring[t]) \in Nat
          /\ Len(txbufs[t]) \in Nat
      BY Numbers, ConstantTypes
    <3>1. /\ Len(txbufs'[t]) = n /\ Len(txbufs[t]) = 0
          /\ Len(ring'[t]) = Len(ring[t]) - n
          /\ UNCHANGED <<pool[t], rxbufs[t], leaked[t]>>
      BY <2>1, <2>2, <2>3, <2>4, EmptySeq DEF TypeOK
    <3>2. Held(t)' = Held(t)
      <4> DEFINE p == pool[t]  x == Len(rxbufs[t])  r == Len(ring[t])
                 y == Len(txbufs[t])  l == leaked[t]
      <4>1. Held(t)' = p + NbDesc + x + (r - n) + n + l
        BY <3>1 DEF Held
      <4>2. Held(t) = p + NbDesc + x + r + y + l /\ y = 0
        BY <3>1 DEF Held
      <4>3. p \in Nat /\ x \in Nat /\ r \in Nat /\ y \in Nat /\ l \in Nat
        BY <3>0
      <4> HIDE DEF p, x, r, y, l
      <4> QED
        BY <3>0, <4>1, <4>2, <4>3
    <3> QED
      BY <2>2, <2>3, <3>2, OthersConserved DEF TypeOK
  <2>7. RingFits'
    BY <2>1, <2>2, <2>4, ConstantTypes DEF TypeOK, RingFits
  <2> QED
    BY <2>5, <2>6, <2>7
<1>5. ASSUME NEW t \in Threads, Process(t) PROVE Inv'
  <2> DEFINE f == Head(txbufs[t])
             k == SlotFor(hi[f[1]], f[2])
  <2>1. /\ txbufs[t] \in Seq(Flows) /\ txbufs[t] # <<>>
        /\ f \in Flows
        /\ Tail(txbufs[t]) \in Seq(Flows)
        /\ Len(Tail(txbufs[t])) = Len(txbufs[t]) - 1
        /\ Len(txbufs[t]) \in Nat
    BY <1>5, HeadTailProperties, LenProperties DEF Process, TypeOK
  <2>2. f[1] \in Buckets /\ f[2] \in Highs
    BY <2>1, QueueOfType
  <2>3. /\ txbufs' = [txbufs EXCEPT ![t] = Tail(@)]
        /\ pool' = [pool EXCEPT ![t] = @ + 1]
        /\ seen' = [seen EXCEPT ![f] = @ + 1]
        /\ UNCHANGED <<nic, received, missed, rxbufs, ring, gCtr, leaked, pc,
                       idx, sum, old, ticks, printed>>
    BY <1>5 DEF Process, FreeBuffer, nicVars, masterVars
  <2>4. /\ hi' \in [Buckets -> [1 .. 2 -> Highs \cup {0}]]
        /\ ctr' \in [Buckets -> [1 .. 2 -> Nat]]
    <3>1. CASE k = 0
      BY <1>5, <3>1 DEF Process, TypeOK
    <3>2. CASE k # 0
      <4>1. /\ hi' = [hi EXCEPT ![f[1]][k] = f[2]]
            /\ ctr' = [ctr EXCEPT ![f[1]][k] = @ + 1]
        BY <1>5, <3>2 DEF Process
      <4>2. k \in 1 .. 2
        BY <3>2 DEF SlotFor
      <4> HIDE DEF f, k
      <4>0. /\ hi[f[1]] \in [1 .. 2 -> Highs \cup {0}]
            /\ ctr[f[1]] \in [1 .. 2 -> Nat]
        BY <2>2 DEF TypeOK
      <4>3. /\ [hi[f[1]] EXCEPT ![k] = f[2]] \in [1 .. 2 -> Highs \cup {0}]
            /\ [ctr[f[1]] EXCEPT ![k] = @ + 1] \in [1 .. 2 -> Nat]
        <5>1. ctr[f[1]][k] + 1 \in Nat
          BY <4>0, <4>2
        <5> QED
          BY <2>2, <4>0, <4>2, <5>1
      <4> QED
        BY <2>2, <4>1, <4>3 DEF TypeOK
    <3> QED
      BY <3>1, <3>2
  <2>5. Conservation'
    <3>0. /\ pool[t] \in Nat /\ leaked[t] \in Nat /\ NbDesc \in Nat
          /\ Len(rxbufs[t]) \in Nat /\ Len(ring[t]) \in Nat
          /\ Len(txbufs[t]) \in Nat
      BY Numbers, ConstantTypes
    <3>1. /\ pool'[t] = pool[t] + 1
          /\ Len(txbufs'[t]) = Len(txbufs[t]) - 1
          /\ UNCHANGED <<rxbufs[t], ring[t], leaked[t]>>
      BY <2>1, <2>3 DEF TypeOK
    <3>2. Held(t)' = Held(t)
      <4> DEFINE p == pool[t]  x == Len(rxbufs[t])  r == Len(ring[t])
                 y == Len(txbufs[t])  l == leaked[t]
      <4>1. Held(t)' = (p + 1) + NbDesc + x + r + (y - 1) + l
        BY <3>1 DEF Held
      <4>2. Held(t) = p + NbDesc + x + r + y + l
        BY DEF Held
      <4>3. p \in Nat /\ x \in Nat /\ r \in Nat /\ y \in Nat /\ l \in Nat
        BY <3>0
      <4> HIDE DEF p, x, r, y, l
      <4> QED
        BY <3>0, <4>1, <4>2, <4>3
    <3> QED
      BY <2>3, <3>2, OthersConserved DEF TypeOK
  <2>6. pool[t] + 1 \in 0 .. PoolSize
    <3> DEFINE p == pool[t]  x == Len(rxbufs[t])  r == Len(ring[t])
               y == Len(txbufs[t])  l == leaked[t]
    <3>1. p + NbDesc + x + r + y + l = PoolSize
      BY DEF Conservation
    <3>2. p \in Nat /\ x \in Nat /\ r \in Nat /\ y \in Nat /\ l \in Nat
      BY Numbers
    <3>3. y # 0
      BY <2>1, EmptySeq
    <3> HIDE DEF p, x, r, y, l
    <3>4. p + 1 \in 0 .. PoolSize
      BY <3>1, <3>2, <3>3, ConstantTypes
    <3> QED
      BY <3>4 DEF p
  <2>7. TypeOK'
    <3>1. pool' \in [Threads -> 0 .. PoolSize]
      BY <2>3, <2>6 DEF TypeOK
    <3>2. txbufs' \in [Threads -> Seq(Flows)]
      BY <2>1, <2>3 DEF TypeOK
    <3>3. seen' \in [Flows -> Nat]
      BY <2>1, <2>3 DEF TypeOK
    <3> QED
      BY <2>3, <2>4, <3>1, <3>2, <3>3 DEF TypeOK
  <2> QED
    BY <2>3, <2>5, <2>7 DEF RingFits
<1>6. CASE Timer \/ Sigint \/ Handler
  <2>1. UNCHANGED workers
    BY <1>6 DEF Timer, Sigint, Handler, TimerStart, TimerRead, TimerEnd,
      CountRead, CountEnd, FlowsRead, Exit
  <2>2. /\ pc' \in {"wait", "timer", "count", "flows", "exit"}
        /\ idx' \in Nat /\ sum' \in Nat /\ old' \in Nat /\ ticks' \in Nat
        /\ printed' \in [total : Nat, flows : Nat]
    <3>0. CASE TimerStart \/ TimerEnd \/ Sigint
      BY <3>0 DEF TimerStart, TimerEnd, Sigint, TypeOK
    <3>1. CASE CountEnd \/ Exit
      <4>1. /\ printed \in [total : Nat, flows : Nat]
            /\ sum \in Nat /\ idx \in Nat /\ old \in Nat /\ ticks \in Nat
        BY DEF TypeOK
      <4>2. /\ \/ printed' = [printed EXCEPT !.total = sum]
               \/ printed' = [printed EXCEPT !.flows = sum]
            /\ pc' \in {"flows", "exit"}
            /\ idx' \in {0, idx} /\ sum' \in {0, sum}
            /\ old' = old /\ ticks' = ticks
        BY <3>1 DEF CountEnd, Exit
      <4>3. printed' \in [total : Nat, flows : Nat]
        BY <4>1, <4>2
      <4>4. pc' \in {"wait", "timer", "count", "flows", "exit"}
        BY <4>2
      <4>5. idx' \in Nat /\ sum' \in Nat /\ old' \in Nat /\ ticks' \in Nat
        BY <4>1, <4>2
      <4> QED
        BY <4>3, <4>4, <4>5
    <3>2. CASE TimerRead \/ CountRead
      <4>1. gCtr[idx] \in Nat
        BY <3>2, ConstantTypes DEF TimerRead, CountRead, TypeOK, Threads
      <4>2. /\ sum' = sum + gCtr[idx] /\ idx' = idx + 1
            /\ UNCHANGED <<pc, old, ticks, printed>>
        BY <3>2 DEF TimerRead, CountRead
      <4>3. sum \in Nat /\ idx \in Nat
        BY DEF TypeOK
      <4>4. sum' \in Nat /\ idx' \in Nat
        BY <4>1, <4>2, <4>3
      <4> QED
        BY <4>2, <4>4 DEF TypeOK
    <3>3. CASE FlowsRead
      BY <3>3 DEF FlowsRead, InUse, TypeOK
    <3> QED
      BY <1>6, <3>0, <3>1, <3>2, <3>3 DEF Timer, Handler
  <2> QED
    BY <2>1, <2>2 DEF TypeOK, Conservation, RingFits, workers, nicVars,
      tableVars
<1>7. CASE UNCHANGED vars
  BY <1>7 DEF vars, nicVars, tableVars, masterVars, TypeOK, Conservation,
    RingFits
<1> QED
  BY <1>1, <1>2, <1>3, <1>4, <1>5, <1>6, <1>7 DEF Next, Rx, Tx

(* Type correctness: in particular no pool ever holds more buffers than it *)
(* was made with, as it would after a double free.                         *)
THEOREM TypeCorrect == Spec => []TypeOK
<1>1. Inv => TypeOK
  BY DEF Inv
<1> QED
  BY InitInv, StepInv, <1>1, PTL DEF Spec

(* No buffer is lost track of: what the threads, the ring and the pool of  *)
(* a queue hold adds up, with what enqueue leaked, to the pool's size.     *)
THEOREM BuffersConserved == Spec => []Conservation
<1>1. Inv => Conservation
  BY DEF Inv
<1> QED
  BY InitInv, StepInv, <1>1, PTL DEF Spec

-----------------------------------------------------------------------------
(* When the ring holds as many buffers as a pool can have out of the NIC,  *)
(* a burst always fits.                                                    *)
InvNoLeak == Inv /\ NoLeak

(* A burst always fits in a ring made for the whole pool: what it holds is *)
(* at most what the pool has handed out and the ring does not hold yet.    *)
LEMMA BurstFits ==
  ASSUME InvNoLeak, RingIsLarge, NEW t \in Threads
  PROVE  AtMost(Len(rxbufs[t]), RingRoom(t)) = Len(rxbufs[t])
<1> DEFINE p == pool[t]  x == Len(rxbufs[t])  r == Len(ring[t])
           y == Len(txbufs[t])
<1>1. p + NbDesc + x + r + y + 0 = PoolSize
  BY DEF InvNoLeak, Inv, Conservation, NoLeak
<1>2. p \in Nat /\ x \in Nat /\ r \in Nat /\ y \in Nat
  BY Numbers DEF InvNoLeak, Inv
<1>3. RingRoom(t) = RingCap - r
  BY DEF RingRoom
<1> HIDE DEF p, x, r, y
<1>4. x <= RingCap - r
  BY <1>1, <1>2, ConstantTypes DEF RingIsLarge
<1>5. ~(RingCap - r < x)
  BY <1>2, <1>4, ConstantTypes
<1>6. AtMost(x, RingRoom(t)) = x
  BY <1>2, <1>3, <1>4, <1>5, ConstantTypes DEF AtMost
<1> QED
  BY <1>6 DEF x

(* So that lcore_main_rx, which ignores what enqueue returns, leaks none.  *)
LEMMA StepNoLeak ==
  ASSUME RingIsLarge PROVE InvNoLeak /\ [Next]_vars => InvNoLeak'
<1> SUFFICES ASSUME InvNoLeak, [Next]_vars PROVE NoLeak'
  BY StepInv DEF InvNoLeak
<1>1. ASSUME NEW t \in Threads, Enqueue(t) PROVE NoLeak'
  <2>1. leaked' = [leaked EXCEPT ![t] = @ + (Len(rxbufs[t]) - Len(rxbufs[t]))]
    BY <1>1, BurstFits DEF Enqueue
  <2>2. leaked \in [Threads -> Nat] /\ Len(rxbufs[t]) \in Nat
    BY Numbers DEF InvNoLeak, Inv, TypeOK
  <2> QED
    BY <2>1, <2>2 DEF InvNoLeak, NoLeak
<1>2. CASE UNCHANGED leaked
  BY <1>2 DEF InvNoLeak, NoLeak
<1>3. ASSUME NEW t \in Threads, RxBurst(t) \/ Tx(t) PROVE UNCHANGED leaked
  BY <1>3 DEF Tx, RxBurst, Dequeue, Process
<1>4. ASSUME NEW f \in Flows, Arrive(f) PROVE UNCHANGED leaked
  BY <1>4 DEF Arrive
<1>5. ASSUME Timer \/ Sigint \/ Handler PROVE UNCHANGED leaked
  BY <1>5 DEF Timer, Sigint, Handler, TimerStart, TimerRead, TimerEnd,
    CountRead, CountEnd, FlowsRead, Exit, workers
<1>6. CASE UNCHANGED vars
  BY <1>2, <1>6 DEF vars
<1> QED
  BY <1>1, <1>2, <1>3, <1>4, <1>5, <1>6 DEF Next, Rx

(* The ignored result of rte_ring_enqueue_burst is harmless: no buffer is  *)
(* ever leaked when the ring is large (65535 slots for 5000 buffers).      *)
THEOREM NothingLeaks == RingIsLarge => (Spec => []NoLeak)
<1> SUFFICES ASSUME RingIsLarge PROVE Spec => []NoLeak
  OBVIOUS
<1>1. Init => InvNoLeak
  BY InitInv DEF InvNoLeak, Init, NoLeak
<1>2. InvNoLeak /\ [Next]_vars => InvNoLeak'
  BY StepNoLeak
<1>3. InvNoLeak => NoLeak
  BY DEF InvNoLeak
<1> QED
  BY <1>1, <1>2, <1>3, PTL DEF Spec

-----------------------------------------------------------------------------
(* Ownership of the buckets: what a thread holds is cut, concatenated and  *)
(* extended, and stays with the threads of the queue.                      *)
LEMMA OwnedParts ==
  ASSUME NEW t, NEW s \in Seq(Flows), Owned(s, t)
  PROVE  /\ \A n \in 0 .. Len(s) :
              Owned(FirstOf(s, n), t) /\ Owned(DropOf(s, n), t)
         /\ s # <<>> => Owned(Tail(s), t)
<1>0. Len(s) \in Nat
  BY LenProperties
<1>1. ASSUME NEW n \in 0 .. Len(s)
      PROVE  Owned(FirstOf(s, n), t) /\ Owned(DropOf(s, n), t)
  <2>1. /\ Len(FirstOf(s, n)) = n
        /\ Len(DropOf(s, n)) = Len(s) - n
        /\ \A j \in 1 .. n : FirstOf(s, n)[j] = s[j]
        /\ \A j \in 1 .. Len(s) - n : DropOf(s, n)[j] = s[n + j]
    BY Cut
  <2>2. /\ \A j \in 1 .. n : j \in 1 .. Len(s)
        /\ \A j \in 1 .. Len(s) - n : n + j \in 1 .. Len(s)
    BY <1>0
  <2>3. Owned(FirstOf(s, n), t)
    BY <2>1, <2>2 DEF Owned
  <2>4. Owned(DropOf(s, n), t)
    BY <2>1, <2>2 DEF Owned
  <2> QED
    BY <2>3, <2>4
<1>2. ASSUME s # <<>> PROVE Owned(Tail(s), t)
  <2>1. /\ Len(Tail(s)) = Len(s) - 1
        /\ \A j \in 1 .. Len(s) - 1 : Tail(s)[j] = s[j + 1]
    BY <1>2, HeadTailProperties
  <2>2. \A j \in 1 .. Len(s) - 1 : j + 1 \in 1 .. Len(s)
    BY <1>0
  <2> QED
    BY <2>1, <2>2 DEF Owned
<1> QED
  BY <1>1, <1>2

(* The same for bursts that are joined, and for a packet that is added.    *)
LEMMA OwnedJoined ==
  ASSUME NEW t, NEW a \in Seq(Flows), NEW b \in Seq(Flows),
         Owned(a, t), Owned(b, t)
  PROVE  Owned(a \o b, t)
<1>0. Len(a) \in Nat /\ Len(b) \in Nat
  BY LenProperties
<1>1. /\ Len(a \o b) = Len(a) + Len(b)
      /\ \A j \in 1 .. Len(a) + Len(b) :
           (a \o b)[j] = IF j <= Len(a) THEN a[j] ELSE b[j - Len(a)]
  BY ConcatProperties
<1>2. \A j \in 1 .. Len(a) + Len(b) :
        IF j <= Len(a) THEN j \in 1 .. Len(a) ELSE j - Len(a) \in 1 .. Len(b)
  BY <1>0
<1> QED
  BY <1>1, <1>2 DEF Owned

(* A packet that RSS sends to the queue may be added to what is owned.     *)
LEMMA OwnedAdded ==
  ASSUME NEW t, NEW s \in Seq(Flows), Owned(s, t), NEW f \in Flows,
         QueueOf[f[1]] = t
  PROVE  Owned(Append(s, f), t)
<1>0. Len(s) \in Nat
  BY LenProperties
<1>1. /\ Len(Append(s, f)) = Len(s) + 1
      /\ \A j \in 1 .. Len(s) : Append(s, f)[j] = s[j]
      /\ Append(s, f)[Len(s) + 1] = f
  BY AppendProperties
<1>2. \A j \in 1 .. Len(s) + 1 : j \in 1 .. Len(s) \/ j = Len(s) + 1
  BY <1>0
<1> QED
  BY <1>1, <1>2 DEF Owned

(* Nothing is owned at first; no step passes a packet to another queue.    *)
LEMMA StepOwned == Inv /\ BucketOwned /\ [Next]_vars => BucketOwned'
<1> SUFFICES ASSUME Inv, BucketOwned, [Next]_vars PROVE BucketOwned'
  OBVIOUS
<1> USE DEF Inv
<1>0. /\ txbufs \in [Threads -> Seq(Flows)] /\ ring \in [Threads -> Seq(Flows)]
      /\ rxbufs \in [Threads -> Seq(Flows)] /\ nic \in [Threads -> Seq(Flows)]
  BY DEF TypeOK
<1>e. \A t : Owned(<<>>, t)
  BY DEF Owned
<1>1. ASSUME NEW f \in Flows, Arrive(f) PROVE BucketOwned'
  <2> DEFINE t == QueueOf[f[1]]
  <2>1. t \in Threads
    BY QueueOfType
  <2>2. UNCHANGED <<txbufs, ring, rxbufs>>
    BY <1>1 DEF Arrive
  <2>3. nic' = nic \/ nic' = [nic EXCEPT ![t] = Append(@, f)]
    BY <1>1 DEF Arrive
  <2>4. Owned(Append(nic[t], f), t)
    BY <1>0, <2>1, OwnedAdded DEF BucketOwned
  <2>5. \A u \in Threads : Owned(nic'[u], u)
    <3> HIDE DEF t
    <3> QED
      BY <1>0, <2>1, <2>3, <2>4 DEF BucketOwned
  <2> QED
    BY <2>2, <2>5 DEF BucketOwned, Owned
<1>2. ASSUME NEW t \in Threads, RxBurst(t) PROVE BucketOwned'
  <2>1. PICK n \in 1 .. AtMost(Len(nic[t]), AtMost(BurstSize, pool[t])) :
          /\ rxbufs' = [rxbufs EXCEPT ![t] = FirstOf(nic[t], n)]
          /\ nic' = [nic EXCEPT ![t] = DropOf(@, n)]
    BY <1>2 DEF RxBurst
  <2>2. n \in 0 .. Len(nic[t])
    <3>1. Len(nic[t]) \in Nat /\ BurstSize \in Nat /\ pool[t] \in Nat
      BY ConstantTypes, Numbers
    <3> QED
      BY <3>1 DEF AtMost
  <2>3. UNCHANGED <<txbufs, ring>>
    BY <1>2 DEF RxBurst
  <2>4. Owned(FirstOf(nic[t], n), t) /\ Owned(DropOf(nic[t], n), t)
    BY <1>0, <2>2, OwnedParts DEF BucketOwned
  <2>5. \A u \in Threads : Owned(nic'[u], u) /\ Owned(rxbufs'[u], u)
    BY <1>0, <2>1, <2>4 DEF BucketOwned
  <2> QED
    BY <2>3, <2>5 DEF BucketOwned, Owned
<1>3. ASSUME NEW t \in Threads, Enqueue(t) PROVE BucketOwned'
  <2> DEFINE n == AtMost(Len(rxbufs[t]), RingRoom(t))
  <2>1. /\ ring' = [ring EXCEPT ![t] = @ \o FirstOf(rxbufs[t], n)]
        /\ rxbufs' = [rxbufs EXCEPT ![t] = <<>>]
        /\ UNCHANGED <<txbufs, nic>>
    BY <1>3 DEF Enqueue, nicVars
  <2>2. n \in 0 .. Len(rxbufs[t])
    <3>1. /\ Len(rxbufs[t]) \in Nat /\ Len(ring[t]) \in Nat
          /\ Len(ring[t]) <= RingCap
      BY Numbers DEF RingFits
    <3> QED
      BY <3>1, ConstantTypes DEF AtMost, RingRoom
  <2> HIDE DEF n
  <2>3. Owned(FirstOf(rxbufs[t], n), t) /\ FirstOf(rxbufs[t], n) \in Seq(Flows)
    BY <1>0, <2>2, OwnedParts, Cut DEF BucketOwned
  <2>4. Owned(ring[t] \o FirstOf(rxbufs[t], n), t)
    BY <1>0, <2>3, OwnedJoined DEF BucketOwned
  <2>5. \A u \in Threads : Owned(ring'[u], u) /\ Owned(rxbufs'[u], u)
    BY <1>0, <1>e, <2>1, <2>4 DEF BucketOwned
  <2> QED
    BY <2>1, <2>5 DEF BucketOwned, Owned
<1>4. ASSUME NEW t \in Threads, Dequeue(t) PROVE BucketOwned'
  <2> DEFINE n == AtMost(Len(ring[t]), BurstSize)
  <2>1. /\ txbufs' = [txbufs EXCEPT ![t] = FirstOf(ring[t], n)]
        /\ ring' = [ring EXCEPT ![t] = DropOf(@, n)]
        /\ UNCHANGED <<rxbufs, nic>>
    BY <1>4 DEF Dequeue, nicVars
  <2>2. n \in 0 .. Len(ring[t])
    BY Numbers, ConstantTypes DEF AtMost
  <2> HIDE DEF n
  <2>3. Owned(FirstOf(ring[t], n), t) /\ Owned(DropOf(ring[t], n), t)
    BY <1>0, <2>2, OwnedParts DEF BucketOwned
  <2>4. \A u \in Threads : Owned(ring'[u], u) /\ Owned(txbufs'[u], u)
    BY <1>0, <2>1, <2>3 DEF BucketOwned
  <2> QED
    BY <2>1, <2>4 DEF BucketOwned, Owned
<1>5. ASSUME NEW t \in Threads, Process(t) PROVE BucketOwned'
  <2>1. /\ txbufs' = [txbufs EXCEPT ![t] = Tail(@)]
        /\ txbufs[t] # <<>>
        /\ UNCHANGED <<rxbufs, nic, ring>>
    BY <1>5 DEF Process, nicVars
  <2>2. Owned(Tail(txbufs[t]), t)
    BY <1>0, <2>1, OwnedParts DEF BucketOwned
  <2>3. \A u \in Threads : Owned(txbufs'[u], u)
    BY <1>0, <2>1, <2>2 DEF BucketOwned
  <2> QED
    BY <2>1, <2>3 DEF BucketOwned, Owned
<1>6. CASE UNCHANGED <<nic, rxbufs, ring, txbufs>>
  BY <1>6 DEF BucketOwned, Owned
<1>7. CASE Timer \/ Sigint \/ Handler \/ UNCHANGED vars
  BY <1>6, <1>7 DEF Timer, Sigint, Handler, TimerStart, TimerRead, TimerEnd,
    CountRead, CountEnd, FlowsRead, Exit, workers, vars, nicVars
<1> QED
  BY <1>1, <1>2, <1>3, <1>4, <1>5, <1>7 DEF Next, Rx, Tx

(* No two tx threads ever write the same entry of the shared table, so it  *)
(* needs no lock: a packet stays with the threads of its bucket's queue.   *)
THEOREM BucketsOwned == Spec => []BucketOwned
<1>1. Init => Inv /\ BucketOwned
  BY InitInv DEF Init, BucketOwned, Owned
<1>2. Inv /\ BucketOwned /\ [Next]_vars => (Inv /\ BucketOwned)'
  BY StepInv, StepOwned
<1> QED
  BY <1>1, <1>2, PTL DEF Spec

-----------------------------------------------------------------------------
(* The stages implement one FIFO per queue: only an arrival and the        *)
(* processing of a packet are steps of it, the others leave it unchanged.  *)
FifoMap == [t \in Threads |-> Fifo(t)]

(* Fifo(t) is a queue in four parts.                                       *)
LEMMA FifoParts ==
  \A t : Fifo(t) = FourOf(txbufs[t], ring[t], rxbufs[t], nic[t])
BY DEF Fifo, FourOf

(* A step that changes the queue of one thread only is one of FifoMap.     *)
LEMMA FifoOfStep ==
  ASSUME NEW t \in Threads, NEW q,
         Fifo(t)' = q,
         \A u \in Threads \ {t} :
           UNCHANGED <<txbufs[u], ring[u], rxbufs[u], nic[u]>>
  PROVE  FifoMap' = [FifoMap EXCEPT ![t] = q]
BY DEF FifoMap, Fifo

(* A step that only moves packets within a queue leaves FifoMap unchanged. *)
LEMMA FifoUnchanged ==
  ASSUME NEW t \in Threads,
         Fifo(t)' = Fifo(t),
         \A u \in Threads \ {t} :
           UNCHANGED <<txbufs[u], ring[u], rxbufs[u], nic[u]>>
  PROVE  FifoMap' = FifoMap
BY DEF FifoMap, Fifo

(* A step of the pipeline is a reception or a processing of the queue of a *)
(* thread, or moves packets from a stage to the next and is a stutter.     *)
LEMMA StepQueue ==
  ASSUME RingIsLarge
  PROVE  InvNoLeak /\ [Next]_vars => [Queue!Next]_Queue!vars
<1> SUFFICES ASSUME InvNoLeak, [Next]_vars PROVE [Queue!Next]_Queue!vars
  OBVIOUS
<1> USE DEF InvNoLeak, Inv
<1>0. /\ txbufs \in [Threads -> Seq(Flows)] /\ ring \in [Threads -> Seq(Flows)]
      /\ rxbufs \in [Threads -> Seq(Flows)] /\ nic \in [Threads -> Seq(Flows)]
  BY DEF TypeOK
<1>a. FifoMap' = FifoMap /\ seen' = seen => UNCHANGED Queue!vars
  BY DEF FifoMap, Queue!vars
<1>1. ASSUME NEW f \in Flows, Arrive(f) PROVE [Queue!Next]_Queue!vars
  <2> DEFINE t == QueueOf[f[1]]
  <2>1. t \in Threads
    BY QueueOfType
  <2>2. UNCHANGED <<txbufs, ring, rxbufs, seen>>
    BY <1>1 DEF Arrive, tableVars
  <2>3. CASE UNCHANGED nic
    BY <1>a, <2>2, <2>3 DEF FifoMap, Fifo
  <2>4. CASE nic' = [nic EXCEPT ![t] = Append(@, f)]
    <3>1. Fifo(t)' = Append(Fifo(t), f)
      <4>1. Fifo(t)' = FourOf(txbufs[t], ring[t], rxbufs[t], Append(nic[t], f))
        BY <1>0, <2>1, <2>2, <2>4 DEF Fifo, FourOf
      <4> DEFINE a == txbufs[t]  b == ring[t]  c == rxbufs[t]  d == nic[t]
      <4>2. /\ a \in Seq(Flows) /\ b \in Seq(Flows)
            /\ c \in Seq(Flows) /\ d \in Seq(Flows)
        BY <1>0, <2>1
      <4>3. Fifo(t)' = FourOf(a, b, c, Append(d, f)) /\ Fifo(t) = FourOf(a, b, c, d)
        BY <4>1, FifoParts
      <4> HIDE DEF a, b, c, d
      <4>4. FourOf(a, b, c, Append(d, f)) = Append(FourOf(a, b, c, d), f)
        BY <4>2, AddToLast, SMTT(60)
      <4> QED
        BY <4>3, <4>4
    <3>2. FifoMap' = [FifoMap EXCEPT ![t] = Append(Fifo(t), f)]
      BY <1>0, <2>1, <2>2, <2>4, <3>1, FifoOfStep
    <3>3. Queue!Receive(t, f)
      BY <2>1, <2>2, <3>2 DEF Queue!Receive, FifoMap
    <3> QED
      BY <2>1, <3>3 DEF Queue!Next
  <2> QED
    BY <1>1, <2>3, <2>4 DEF Arrive
<1>2. ASSUME NEW t \in Threads, RxBurst(t) PROVE UNCHANGED Queue!vars
  <2>1. PICK n \in 1 .. AtMost(Len(nic[t]), AtMost(BurstSize, pool[t])) :
          /\ rxbufs' = [rxbufs EXCEPT ![t] = FirstOf(nic[t], n)]
          /\ nic' = [nic EXCEPT ![t] = DropOf(@, n)]
    BY <1>2 DEF RxBurst
  <2>2. n \in 0 .. Len(nic[t])
    <3>1. Len(nic[t]) \in Nat /\ BurstSize \in Nat /\ pool[t] \in Nat
      BY ConstantTypes, Numbers
    <3> QED
      BY <3>1 DEF AtMost
  <2>3. rxbufs[t] = <<>> /\ UNCHANGED <<txbufs, ring, seen>>
    BY <1>2 DEF RxBurst, tableVars
  <2> DEFINE u == FirstOf(nic[t], n)
             v == DropOf(nic[t], n)
  <2>4. u \in Seq(Flows) /\ v \in Seq(Flows) /\ nic[t] = u \o v
    BY <1>0, <2>2, Cut
  <2>5. Fifo(t)' = FourOf(txbufs[t], ring[t], u, v)
    BY <1>0, <2>1, <2>3 DEF Fifo, FourOf
  <2>6. Fifo(t) = FourOf(txbufs[t], ring[t], <<>>, u \o v)
    BY <2>3, <2>4 DEF Fifo, FourOf
  <2>7. Fifo(t)' = Fifo(t)
    <3> HIDE DEF u, v
    <3>1. txbufs[t] \in Seq(Flows) /\ ring[t] \in Seq(Flows)
      BY <1>0
    <3> QED
      BY <2>4, <2>5, <2>6, <3>1, MoveToThird
  <2>8. FifoMap' = FifoMap
    BY <1>0, <2>1, <2>3, <2>7, FifoUnchanged
  <2> QED
    BY <1>a, <2>3, <2>8
<1>3. ASSUME NEW t \in Threads, Enqueue(t) PROVE UNCHANGED Queue!vars
  <2>1. /\ ring' = [ring EXCEPT ![t] = @ \o FirstOf(rxbufs[t], Len(rxbufs[t]))]
        /\ rxbufs' = [rxbufs EXCEPT ![t] = <<>>]
        /\ UNCHANGED <<txbufs, nic, seen>>
    BY <1>3, BurstFits DEF Enqueue, nicVars, tableVars
  <2>2. FirstOf(rxbufs[t], Len(rxbufs[t])) = rxbufs[t]
    BY <1>0, SubSeqFull DEF FirstOf
  <2>3. Fifo(t)' = FourOf(txbufs[t], ring[t] \o rxbufs[t], <<>>, nic[t])
    BY <1>0, <2>1, <2>2 DEF Fifo, FourOf
  <2>4. Fifo(t)' = Fifo(t)
    BY <1>0, <2>3, MoveToSecond, FifoParts
  <2>5. FifoMap' = FifoMap
    BY <1>0, <2>1, <2>4, FifoUnchanged
  <2> QED
    BY <1>a, <2>1, <2>5
<1>4. ASSUME NEW t \in Threads, Dequeue(t) PROVE UNCHANGED Queue!vars
  <2> DEFINE n == AtMost(Len(ring[t]), BurstSize)
             u == FirstOf(ring[t], n)
             v == DropOf(ring[t], n)
  <2>1. /\ txbufs' = [txbufs EXCEPT ![t] = u]
        /\ ring' = [ring EXCEPT ![t] = v]
        /\ txbufs[t] = <<>>
        /\ UNCHANGED <<rxbufs, nic, seen>>
    BY <1>4 DEF Dequeue, nicVars, tableVars
  <2>2. n \in 0 .. Len(ring[t])
    BY Numbers, ConstantTypes DEF AtMost
  <2>3. u \in Seq(Flows) /\ v \in Seq(Flows) /\ ring[t] = u \o v
    BY <1>0, <2>2, Cut
  <2>4. Fifo(t)' = FourOf(u, v, rxbufs[t], nic[t])
    BY <1>0, <2>1 DEF Fifo, FourOf
  <2>5. Fifo(t) = FourOf(<<>>, u \o v, rxbufs[t], nic[t])
    BY <2>1, <2>3 DEF Fifo, FourOf
  <2>6. Fifo(t)' = Fifo(t)
    <3> HIDE DEF u, v
    <3> QED
      BY <2>3, <2>4, <2>5, MoveToFirst
  <2>7. FifoMap' = FifoMap
    BY <1>0, <2>1, <2>6, FifoUnchanged
  <2> QED
    BY <1>a, <2>1, <2>7
<1>5. ASSUME NEW t \in Threads, Process(t) PROVE Queue!Take(t)
  <2>1. /\ txbufs[t] # <<>>
        /\ txbufs' = [txbufs EXCEPT ![t] = Tail(@)]
        /\ seen' = [seen EXCEPT ![Head(txbufs[t])] = @ + 1]
        /\ UNCHANGED <<nic, rxbufs, ring>>
    BY <1>5 DEF Process, nicVars
  <2>2. /\ txbufs[t] \in Seq(Flows) /\ ring[t] \in Seq(Flows)
        /\ rxbufs[t] \in Seq(Flows) /\ nic[t] \in Seq(Flows)
    BY <1>0
  <2>3. /\ Fifo(t) # <<>>
        /\ Head(Fifo(t)) = Head(txbufs[t])
        /\ Tail(Fifo(t)) = FourOf(Tail(txbufs[t]), ring[t], rxbufs[t], nic[t])
    <3> DEFINE a == txbufs[t]  b == ring[t]  c == rxbufs[t]  d == nic[t]
    <3>1. /\ a \in Seq(Flows) /\ a # <<>> /\ b \in Seq(Flows)
          /\ c \in Seq(Flows) /\ d \in Seq(Flows)
      BY <2>1, <2>2
    <3>2. Fifo(t) = FourOf(a, b, c, d)
      BY FifoParts
    <3> HIDE DEF a, b, c, d
    <3>3. /\ FourOf(a, b, c, d) # <<>>
          /\ Head(FourOf(a, b, c, d)) = Head(a)
          /\ Tail(FourOf(a, b, c, d)) = FourOf(Tail(a), b, c, d)
      BY <3>1, TakeFromFirst
    <3> QED
      BY <3>2, <3>3 DEF a, b, c, d
  <2>4. Fifo(t)' = Tail(Fifo(t))
    BY <1>0, <2>1, <2>3 DEF Fifo, FourOf
  <2>5. FifoMap' = [FifoMap EXCEPT ![t] = Tail(Fifo(t))]
    BY <1>0, <2>1, <2>4, FifoOfStep
  <2> QED
    BY <2>1, <2>3, <2>5 DEF Queue!Take, FifoMap
<1>6. CASE Timer \/ Sigint \/ Handler
  <2>1. UNCHANGED workers
    BY <1>6 DEF Timer, Sigint, Handler, TimerStart, TimerRead, TimerEnd,
      CountRead, CountEnd, FlowsRead, Exit
  <2> QED
    BY <1>a, <2>1 DEF workers, nicVars, tableVars, FifoMap, Fifo
<1>7. CASE UNCHANGED vars
  BY <1>a, <1>7 DEF vars, nicVars, tableVars, FifoMap, Fifo
<1> QED
  BY <1>1, <1>2, <1>3, <1>4, <1>5, <1>6, <1>7 DEF Next, Rx, Tx, Queue!Next

(* The pipeline loses, duplicates and reorders nothing that the NIC has    *)
(* received: it implements one unbounded FIFO per queue.                   *)
THEOREM PipelineImplementsQueue == RingIsLarge => (Spec => ImplementsQueue)
<1> SUFFICES ASSUME RingIsLarge PROVE Spec => ImplementsQueue
  OBVIOUS
<1>1. Init => InvNoLeak
  BY InitInv DEF InvNoLeak, Init, NoLeak
<1>2. InvNoLeak /\ [Next]_vars => InvNoLeak'
  BY StepNoLeak
<1>3. Init => Queue!Init
  BY DEF Init, Queue!Init, Fifo
<1>4. InvNoLeak /\ [Next]_vars => [Queue!Next]_Queue!vars
  BY StepQueue
<1> QED
  BY <1>1, <1>2, <1>3, <1>4, PTL DEF Spec, ImplementsQueue, Queue!Spec

-----------------------------------------------------------------------------
(* What the master reports: totals that it reads entry by entry while the  *)
(* tx threads count.                                                       *)

(* The threads are finitely many.                                          *)
LEMMA FiniteThreads == IsFiniteSet(Threads)
BY ConstantTypes, FS_Interval DEF Threads

-----------------------------------------------------------------------------
(* What arrived at a queue, wherever it is now: counted by the tx thread,  *)
(* on its way, or leaked.                                                  *)
ArrivedAt(t) ==
  gCtr[t] + Len(ring[t]) + Len(rxbufs[t]) + Len(nic[t]) + leaked[t]

Arrived == [t \in Threads |-> ArrivedAt(t)]

AllArrived == SumFunctionOnSet(Arrived, Threads) = received

(* The summands are numbers.                                               *)
LEMMA ArrivedType ==
  ASSUME TypeOK, NEW t \in Threads
  PROVE  ArrivedAt(t) \in Nat /\ gCtr[t] \in Nat
<1>1. gCtr[t] \in Nat
  BY DEF TypeOK
<1>2. /\ Len(ring[t]) \in Nat /\ Len(rxbufs[t]) \in Nat
      /\ Len(nic[t]) \in Nat /\ leaked[t] \in Nat
  BY Numbers
<1> DEFINE g == gCtr[t]  r == Len(ring[t])  x == Len(rxbufs[t])
           n == Len(nic[t])  l == leaked[t]
<1>3. /\ ArrivedAt(t) = g + r + x + n + l
      /\ g \in Nat /\ r \in Nat /\ x \in Nat /\ n \in Nat /\ l \in Nat
  BY <1>1, <1>2 DEF ArrivedAt
<1> HIDE DEF g, r, x, n, l
<1>4. ArrivedAt(t) \in Nat
  BY <1>3
<1> QED
  BY <1>1, <1>4

(* A step at one queue changes the sum by what it adds there.              *)
LEMMA ArrivedStep ==
  ASSUME TypeOK, AllArrived, NEW t \in Threads, NEW d \in Int,
         \A u \in Threads \ {t} :
           UNCHANGED <<gCtr[u], ring[u], rxbufs[u], nic[u], leaked[u]>>,
         ArrivedAt(t)' = ArrivedAt(t) + d,
         received' = received + d
  PROVE  AllArrived'
<1>1. \A u \in Threads : Arrived[u] \in Int
  BY ArrivedType DEF Arrived
<1>2. \A u \in Threads \ {t} : Arrived'[u] = Arrived[u]
  BY DEF Arrived, ArrivedAt
<1>3. Arrived'[t] = Arrived[t] + d
  BY DEF Arrived
<1>a. \A u \in Threads : Arrived'[u] \in Int
  BY <1>1, <1>2, <1>3
<1>4. SumFunctionOnSet(Arrived', Threads)
        = SumFunctionOnSet(Arrived, Threads) + (Arrived'[t] - Arrived[t])
  BY <1>1, <1>2, <1>a, FiniteThreads, SumUpdate
<1>5. Arrived'[t] - Arrived[t] = d
  BY <1>1, <1>3
<1> QED
  BY <1>4, <1>5 DEF AllArrived

(* Every packet received is at one place or another; only an arrival adds  *)
(* to the sum.                                                             *)
LEMMA StepArrived == Inv /\ AllArrived /\ [Next]_vars => AllArrived'
<1> SUFFICES ASSUME Inv, AllArrived, [Next]_vars PROVE AllArrived'
  OBVIOUS
<1> USE DEF Inv
<1>0. /\ txbufs \in [Threads -> Seq(Flows)] /\ ring \in [Threads -> Seq(Flows)]
      /\ rxbufs \in [Threads -> Seq(Flows)] /\ nic \in [Threads -> Seq(Flows)]
      /\ gCtr \in [Threads -> Nat] /\ leaked \in [Threads -> Nat]
      /\ received \in Nat
  BY DEF TypeOK
<1>s. CASE UNCHANGED <<gCtr, ring, rxbufs, nic, leaked, received>>
  BY <1>s DEF AllArrived, Arrived, ArrivedAt
<1>1. ASSUME NEW f \in Flows, Arrive(f) PROVE AllArrived'
  <2> DEFINE t == QueueOf[f[1]]
  <2>1. t \in Threads
    BY QueueOfType
  <2>2. UNCHANGED <<gCtr, ring, rxbufs, leaked>>
    BY <1>1 DEF Arrive
  <2>3. CASE nic' = nic /\ received' = received
    BY <1>s, <2>2, <2>3
  <2>4. CASE nic' = [nic EXCEPT ![t] = Append(@, f)] /\ received' = received + 1
    <3> HIDE DEF t
    <3>1. Len(nic'[t]) = Len(nic[t]) + 1
      BY <1>0, <2>1, <2>4, AppendProperties
    <3> DEFINE g == gCtr[t]  r == Len(ring[t])  x == Len(rxbufs[t])
               n == Len(nic[t])  l == leaked[t]
    <3>2. /\ ArrivedAt(t)' = g + r + x + (n + 1) + l
          /\ ArrivedAt(t) = g + r + x + n + l
      BY <2>2, <3>1 DEF ArrivedAt
    <3>3. g \in Nat /\ r \in Nat /\ x \in Nat /\ n \in Nat /\ l \in Nat
      BY <1>0, <2>1, Numbers
    <3> HIDE DEF g, r, x, n, l
    <3>4. ArrivedAt(t)' = ArrivedAt(t) + 1
      BY <3>2, <3>3
    <3> QED
      BY <1>0, <2>1, <2>2, <2>4, <3>4, ArrivedStep
  <2> QED
    BY <1>1, <2>3, <2>4 DEF Arrive
<1>2. ASSUME NEW t \in Threads, RxBurst(t) PROVE AllArrived'
  <2>1. PICK m \in 1 .. AtMost(Len(nic[t]), AtMost(BurstSize, pool[t])) :
          /\ rxbufs' = [rxbufs EXCEPT ![t] = FirstOf(nic[t], m)]
          /\ nic' = [nic EXCEPT ![t] = DropOf(@, m)]
    BY <1>2 DEF RxBurst
  <2>2. m \in 0 .. Len(nic[t]) /\ m \in Nat
    <3>1. Len(nic[t]) \in Nat /\ BurstSize \in Nat /\ pool[t] \in Nat
      BY ConstantTypes, Numbers
    <3> QED
      BY <3>1 DEF AtMost
  <2>3. /\ UNCHANGED <<gCtr, ring, leaked, received>>
        /\ Len(rxbufs[t]) = 0
    BY <1>2, EmptySeq DEF RxBurst
  <2>4. Len(rxbufs'[t]) = m /\ Len(nic'[t]) = Len(nic[t]) - m
    <3>1. /\ Len(FirstOf(nic[t], m)) = m
          /\ Len(DropOf(nic[t], m)) = Len(nic[t]) - m
      <4>1. nic[t] \in Seq(Flows) /\ m \in 0 .. Len(nic[t])
        BY <1>0, <2>2
      <4> QED
        BY <4>1, Cut
    <3>2. rxbufs'[t] = FirstOf(nic[t], m) /\ nic'[t] = DropOf(nic[t], m)
      BY <1>0, <2>1
    <3> QED
      BY <3>1, <3>2
  <2> DEFINE g == gCtr[t]  r == Len(ring[t])  x == Len(rxbufs[t])
             n == Len(nic[t])  l == leaked[t]
  <2>5. /\ ArrivedAt(t)' = g + r + m + (n - m) + l
        /\ ArrivedAt(t) = g + r + x + n + l
        /\ x = 0
    BY <2>3, <2>4 DEF ArrivedAt
  <2>6. g \in Nat /\ r \in Nat /\ x \in Nat /\ n \in Nat /\ l \in Nat
    BY <1>0, Numbers
  <2> HIDE DEF g, r, x, n, l
  <2>7. ArrivedAt(t)' = ArrivedAt(t) + 0 /\ received' = received + 0
    BY <1>0, <2>2, <2>3, <2>5, <2>6
  <2> QED
    BY <1>0, <2>1, <2>3, <2>7, ArrivedStep
<1>3. ASSUME NEW t \in Threads, Enqueue(t) PROVE AllArrived'
  <2> DEFINE m == AtMost(Len(rxbufs[t]), RingRoom(t))
  <2>1. /\ ring' = [ring EXCEPT ![t] = @ \o FirstOf(rxbufs[t], m)]
        /\ leaked' = [leaked EXCEPT ![t] = @ + (Len(rxbufs[t]) - m)]
        /\ rxbufs' = [rxbufs EXCEPT ![t] = <<>>]
        /\ UNCHANGED <<gCtr, nic, received>>
    BY <1>3 DEF Enqueue, nicVars
  <2>2. m \in 0 .. Len(rxbufs[t]) /\ m \in Nat
    <3>1. /\ Len(rxbufs[t]) \in Nat /\ Len(ring[t]) \in Nat
          /\ Len(ring[t]) <= RingCap
      BY Numbers DEF RingFits
    <3> QED
      BY <3>1, ConstantTypes DEF AtMost, RingRoom
  <2> HIDE DEF m
  <2>3. /\ FirstOf(rxbufs[t], m) \in Seq(Flows)
        /\ Len(FirstOf(rxbufs[t], m)) = m
    BY <1>0, <2>2, Cut
  <2>4. /\ Len(ring'[t]) = Len(ring[t]) + m
        /\ Len(rxbufs'[t]) = 0
        /\ leaked'[t] = leaked[t] + (Len(rxbufs[t]) - m)
    <3>1. Len(ring[t] \o FirstOf(rxbufs[t], m))
            = Len(ring[t]) + Len(FirstOf(rxbufs[t], m))
      BY <1>0, <2>3, ConcatProperties, Zenon
    <3> QED
      BY <1>0, <2>1, <2>3, <3>1, EmptySeq
  <2> DEFINE g == gCtr[t]  r == Len(ring[t])  x == Len(rxbufs[t])
             n == Len(nic[t])  l == leaked[t]
  <2>5. /\ ArrivedAt(t)' = g + (r + m) + 0 + n + (l + (x - m))
        /\ ArrivedAt(t) = g + r + x + n + l
    BY <2>1, <2>4 DEF ArrivedAt
  <2>6. g \in Nat /\ r \in Nat /\ x \in Nat /\ n \in Nat /\ l \in Nat
    BY <1>0, Numbers
  <2> HIDE DEF g, r, x, n, l
  <2>7. ArrivedAt(t)' = ArrivedAt(t) + 0 /\ received' = received + 0
    BY <1>0, <2>1, <2>2, <2>5, <2>6
  <2> QED
    BY <1>0, <2>1, <2>7, ArrivedStep
<1>4. ASSUME NEW t \in Threads, Dequeue(t) PROVE AllArrived'
  <2> DEFINE m == AtMost(Len(ring[t]), BurstSize)
  <2>1. /\ ring' = [ring EXCEPT ![t] = DropOf(@, m)]
        /\ gCtr' = [gCtr EXCEPT ![t] = @ + m]
        /\ UNCHANGED <<rxbufs, nic, leaked, received>>
    BY <1>4 DEF Dequeue, CountBurst, nicVars
  <2>2. m \in 0 .. Len(ring[t]) /\ m \in Nat
    BY Numbers, ConstantTypes DEF AtMost
  <2> HIDE DEF m
  <2>3. Len(ring'[t]) = Len(ring[t]) - m /\ gCtr'[t] = gCtr[t] + m
    BY <1>0, <2>1, <2>2, Cut
  <2> DEFINE g == gCtr[t]  r == Len(ring[t])  x == Len(rxbufs[t])
             n == Len(nic[t])  l == leaked[t]
  <2>5. /\ ArrivedAt(t)' = (g + m) + (r - m) + x + n + l
        /\ ArrivedAt(t) = g + r + x + n + l
    BY <2>1, <2>3 DEF ArrivedAt
  <2>6. g \in Nat /\ r \in Nat /\ x \in Nat /\ n \in Nat /\ l \in Nat
    BY <1>0, Numbers
  <2> HIDE DEF g, r, x, n, l
  <2>7. ArrivedAt(t)' = ArrivedAt(t) + 0 /\ received' = received + 0
    BY <1>0, <2>1, <2>2, <2>5, <2>6
  <2> QED
    BY <1>0, <2>1, <2>7, ArrivedStep
<1>5. ASSUME NEW t \in Threads, Process(t) PROVE AllArrived'
  BY <1>5, <1>s DEF Process, nicVars
<1>6. CASE Timer \/ Sigint \/ Handler \/ UNCHANGED vars
  BY <1>s, <1>6 DEF Timer, Sigint, Handler, TimerStart, TimerRead, TimerEnd,
    CountRead, CountEnd, FlowsRead, Exit, workers, vars, nicVars
<1> QED
  BY <1>1, <1>2, <1>3, <1>4, <1>5, <1>6 DEF Next, Rx, Tx

(* So what the tx threads have counted is at most what was received.       *)
LEMMA DequeuedBound ==
  ASSUME TypeOK, AllArrived
  PROVE  Dequeued \in Nat /\ Dequeued <= received
<1>1. \A t \in Threads : gCtr[t] \in Nat /\ Arrived[t] \in Nat /\ gCtr[t] <= Arrived[t]
  <2> TAKE t \in Threads
  <2>1. /\ gCtr[t] \in Nat /\ leaked[t] \in Nat /\ Len(ring[t]) \in Nat
        /\ Len(rxbufs[t]) \in Nat /\ Len(nic[t]) \in Nat
    BY Numbers, ArrivedType
  <2> DEFINE g == gCtr[t]  r == Len(ring[t])  x == Len(rxbufs[t])
             n == Len(nic[t])  l == leaked[t]
  <2>2. /\ Arrived[t] = g + r + x + n + l
        /\ g \in Nat /\ r \in Nat /\ x \in Nat /\ n \in Nat /\ l \in Nat
    BY <2>1 DEF Arrived, ArrivedAt
  <2>3. g = gCtr[t]
    OBVIOUS
  <2> HIDE DEF g, r, x, n, l
  <2> QED
    BY <2>2, <2>3
<1>2. Dequeued <= SumFunctionOnSet(Arrived, Threads)
  BY <1>1, FiniteThreads, SumLeq DEF Dequeued
<1>3. Dequeued \in Nat
  BY <1>1, FiniteThreads, SumNat DEF Dequeued
<1> QED
  BY <1>2, <1>3 DEF AllArrived

-----------------------------------------------------------------------------
(* The entries of gCtr as the last complete timer callback read them, and  *)
(* as the current loop has read them so far: neither read more than there  *)
(* is now, and the current loop no less than the last one.                 *)
Reads(last, read) ==
  /\ last \in [Threads -> Nat] /\ read \in [Threads -> Nat]
  /\ \A t \in Threads : last[t] <= gCtr[t] /\ read[t] <= gCtr[t]
  /\ old = SumFunctionOnSet(last, Threads)
  /\ pc \in {"timer", "count"} =>
       /\ idx <= N
       /\ sum = SumFunctionOnSet(read, 0 .. idx - 1)
       /\ \A t \in 0 .. idx - 1 : last[t] <= read[t]

Readings == \E last, read : Reads(last, read)

(* The total that is printed lies between the last one and the sum of the  *)
(* entries.                                                                *)
TotalBetween ==
  pc \in {"flows", "exit"} =>
    /\ old <= printed.total
    /\ printed.total <= Dequeued

(* Counters that only grow leave what was read behind.                     *)
LEMMA GrowsOnly ==
  ASSUME TypeOK, gCtr' \in [Threads -> Nat],
         \A t \in Threads : gCtr[t] <= gCtr'[t]
  PROVE  /\ Dequeued <= Dequeued'
         /\ Readings /\ UNCHANGED masterVars => Readings'
<1>0. \A t \in Threads : gCtr[t] \in Int /\ gCtr'[t] \in Int
  BY DEF TypeOK
<1>1. Dequeued <= Dequeued'
  BY <1>0, FiniteThreads, SumLeq DEF Dequeued
<1>2. ASSUME Readings, UNCHANGED masterVars PROVE Readings'
  <2>1. PICK last, read : Reads(last, read)
    BY <1>2 DEF Readings
  <2>2. Reads(last, read)'
    <3>1. \A t \in Threads : last[t] <= gCtr'[t] /\ read[t] <= gCtr'[t]
      <4> TAKE t \in Threads
      <4>1. /\ last[t] \in Nat /\ read[t] \in Nat
            /\ gCtr[t] \in Nat /\ gCtr'[t] \in Nat
            /\ last[t] <= gCtr[t] /\ read[t] <= gCtr[t] /\ gCtr[t] <= gCtr'[t]
        BY <2>1 DEF Reads, TypeOK
      <4> QED
        BY <4>1
    <3> QED
      BY <1>2, <2>1, <3>1 DEF Reads, masterVars
  <2> QED
    BY <2>2 DEF Readings
<1> QED
  BY <1>1, <1>2

(* The sum of a complete loop: between the last total and what there is.   *)
LEMMA CompleteLoop ==
  ASSUME TypeOK, NEW last, NEW read, Reads(last, read),
         pc \in {"timer", "count"}, idx = N
  PROVE  /\ sum = SumFunctionOnSet(read, Threads)
         /\ old <= sum
         /\ sum <= Dequeued
<1>1. 0 .. idx - 1 = Threads
  BY DEF Threads
<1>2. sum = SumFunctionOnSet(read, Threads)
  BY <1>1 DEF Reads
<1>3. \A t \in Threads : /\ last[t] \in Int /\ read[t] \in Int /\ gCtr[t] \in Int
                         /\ last[t] <= read[t] /\ read[t] <= gCtr[t]
  BY <1>1 DEF Reads, TypeOK
<1>4. SumFunctionOnSet(last, Threads) <= SumFunctionOnSet(read, Threads)
  BY <1>3, FiniteThreads, SumLeq
<1>5. SumFunctionOnSet(read, Threads) <= Dequeued
  BY <1>3, FiniteThreads, SumLeq DEF Dequeued
<1> QED
  BY <1>2, <1>4, <1>5 DEF Reads

(* A loop that starts has read nothing.                                    *)
LEMMA LoopStarts ==
  ASSUME TypeOK, Readings, UNCHANGED <<gCtr, old>>, idx' = 0, sum' = 0
  PROVE  Readings'
<1>1. PICK last, read : Reads(last, read)
  BY DEF Readings
<1>2. idx' <= N /\ 0 .. idx' - 1 = {}
  BY ConstantTypes
<1>3. sum' = SumFunctionOnSet(read, 0 .. idx' - 1)
  BY <1>2, SumEmpty
<1>4. Reads(last, read)'
  BY <1>1, <1>2, <1>3 DEF Reads
<1> QED
  BY <1>4 DEF Readings

(* A loop that reads its next entry reads at least what the last one did.  *)
LEMMA LoopReads ==
  ASSUME TypeOK, Readings, UNCHANGED <<gCtr, old, pc>>, idx < N,
         pc \in {"timer", "count"},
         sum' = sum + gCtr[idx], idx' = idx + 1
  PROVE  Readings'
<1>1. PICK last, read : Reads(last, read)
  BY DEF Readings
<1>m. PICK more : more = [read EXCEPT ![idx] = gCtr[idx]]
  OBVIOUS
<1>2. idx \in Nat /\ idx \in Threads /\ gCtr[idx] \in Nat /\ N \in Nat
  BY ConstantTypes DEF TypeOK, Threads
<1>3. more \in [Threads -> Nat]
  BY <1>1, <1>2, <1>m DEF Reads
<1>4. /\ idx' - 1 = idx
      /\ 0 .. idx \subseteq Threads /\ 0 .. idx - 1 \subseteq Threads
      /\ IsFiniteSet(0 .. idx - 1)
  <2>1. IsFiniteSet(0 .. idx - 1)
    BY <1>2, FS_Interval
  <2>2. 0 .. idx \subseteq Threads /\ 0 .. idx - 1 \subseteq Threads
    BY <1>2 DEF Threads
  <2>3. idx' - 1 = idx
    BY <1>2
  <2> QED
    BY <2>1, <2>2, <2>3
<1>5. \A i \in 0 .. idx - 1 : more[i] = read[i]
  <2>1. \A i \in 0 .. idx - 1 : i # idx
    BY <1>2
  <2> QED
    BY <1>1, <1>2, <1>4, <1>m, <2>1 DEF Reads
<1>6. more[idx] = gCtr[idx]
  BY <1>1, <1>2, <1>m DEF Reads
<1>7. SumFunctionOnSet(more, 0 .. idx - 1) = SumFunctionOnSet(read, 0 .. idx - 1)
  BY <1>4, <1>5, SumSame
<1>8. SumFunctionOnSet(more, 0 .. idx)
        = SumFunctionOnSet(more, 0 .. idx - 1) + more[idx]
  <2>1. \A i \in 0 .. idx : more[i] \in Int
    BY <1>3, <1>4
  <2> QED
    BY <1>2, <2>1, SumUpTo
<1>9. sum' = SumFunctionOnSet(more, 0 .. idx' - 1)
  BY <1>1, <1>4, <1>6, <1>7, <1>8 DEF Reads
<1>10. \A t \in Threads : last[t] <= gCtr[t] /\ more[t] <= gCtr[t]
  <2> TAKE t \in Threads
  <2>1. last[t] <= gCtr[t] /\ read[t] <= gCtr[t] /\ gCtr[t] \in Nat
    BY <1>1 DEF Reads, TypeOK
  <2>2. more[t] = IF t = idx THEN gCtr[t] ELSE read[t]
    BY <1>1, <1>m DEF Reads
  <2> QED
    BY <2>1, <2>2
<1>11. \A t \in 0 .. idx : last[t] <= more[t]
  <2> TAKE t \in 0 .. idx
  <2>1. t = idx \/ t \in 0 .. idx - 1
    BY <1>2
  <2> QED
    BY <1>1, <1>2, <1>5, <1>6, <2>1 DEF Reads
<1>12. Reads(last, more)'
  <2>1. idx' <= N
    BY <1>2
  <2> QED
    BY <1>1, <1>3, <1>4, <1>9, <1>10, <1>11, <2>1 DEF Reads
<1> QED
  BY <1>12 DEF Readings

(* What holds of the totals, in every state.                               *)
TotalsInv == Inv /\ AllArrived /\ Readings /\ TotalBetween

(* At first nothing has arrived and nothing was read.                      *)
LEMMA InitTotals == Init => TotalsInv
<1> SUFFICES ASSUME Init PROVE TotalsInv
  OBVIOUS
<1>1. Inv
  BY InitInv
<1>2. AllArrived
  <2>1. \A t \in Threads : Arrived[t] = 0
    <3>1. Len(<<>>) = 0
      BY EmptySeq
    <3> QED
      BY <3>1 DEF Init, Arrived, ArrivedAt
  <2>2. SumFunctionOnSet(Arrived, Threads) = 0
    BY <2>1, FiniteThreads, SumZero
  <2> QED
    BY <2>2 DEF AllArrived, Init
<1>3. Readings
  <2>1. PICK zero : zero = [t \in Threads |-> 0]
    OBVIOUS
  <2>2. SumFunctionOnSet(zero, Threads) = 0
    BY <2>1, FiniteThreads, SumZero
  <2>3. Reads(zero, zero)
    BY <2>1, <2>2 DEF Reads, Init
  <2> QED
    BY <2>3 DEF Readings
<1>4. TotalBetween
  BY DEF Init, TotalBetween
<1> QED
  BY <1>1, <1>2, <1>3, <1>4 DEF TotalsInv

(* Every step keeps it, and the total of the timer never falls.            *)
LEMMA StepTotals ==
  TotalsInv /\ [Next]_vars => TotalsInv' /\ (old' >= old)
<1> SUFFICES ASSUME TotalsInv, [Next]_vars
             PROVE  (Readings /\ TotalBetween)' /\ (old' >= old)
  BY StepInv, StepArrived DEF TotalsInv
<1> USE DEF TotalsInv, Inv
<1>0. old \in Nat /\ N \in Nat /\ Dequeued \in Nat
  BY DequeuedBound, ConstantTypes DEF TypeOK
<1>1. ASSUME UNCHANGED masterVars, gCtr' \in [Threads -> Nat],
             \A t \in Threads : gCtr[t] <= gCtr'[t]
      PROVE  (Readings /\ TotalBetween)' /\ (old' >= old)
  <2>1. Readings' /\ Dequeued <= Dequeued'
    BY <1>1, GrowsOnly
  <2>2. Dequeued' \in Nat
    BY <1>1, FiniteThreads, SumNat DEF Dequeued
  <2>3. printed.total \in Nat
    BY DEF TypeOK
  <2>4. TotalBetween'
    BY <1>0, <1>1, <2>1, <2>2, <2>3 DEF TotalBetween, masterVars
  <2> QED
    BY <1>0, <1>1, <2>1, <2>4 DEF masterVars
<1>2. CASE UNCHANGED <<masterVars, gCtr>>
  <2>1. gCtr' \in [Threads -> Nat] /\ \A t \in Threads : gCtr[t] <= gCtr'[t]
    BY <1>2 DEF TypeOK
  <2> QED
    BY <1>1, <1>2, <2>1
<1>3. CASE \E t \in Threads : Dequeue(t)
  <2>1. PICK t \in Threads : Dequeue(t)
    BY <1>3
  <2>2. PICK n \in Nat : gCtr' = [gCtr EXCEPT ![t] = @ + n]
    <3>1. gCtr' = [gCtr EXCEPT ![t] = @ + AtMost(Len(ring[t]), BurstSize)]
      BY <2>1 DEF Dequeue, CountBurst
    <3>2. AtMost(Len(ring[t]), BurstSize) \in Nat
      BY Numbers, ConstantTypes DEF AtMost
    <3> QED
      BY <3>1, <3>2
  <2>3. gCtr' \in [Threads -> Nat] /\ \A u \in Threads : gCtr[u] <= gCtr'[u]
    <3>1. gCtr \in [Threads -> Nat]
      BY DEF TypeOK
    <3>2. gCtr' \in [Threads -> Nat]
      BY <2>2, <3>1
    <3>3. \A u \in Threads : gCtr'[u] = IF u = t THEN gCtr[u] + n ELSE gCtr[u]
      BY <2>2, <3>1
    <3> QED
      BY <3>1, <3>2, <3>3
  <2>4. UNCHANGED masterVars
    BY <2>1 DEF Dequeue
  <2> QED
    BY <1>1, <2>3, <2>4
<1>4. CASE TimerStart \/ Sigint
  <2>1. /\ UNCHANGED <<gCtr, old>> /\ idx' = 0 /\ sum' = 0
        /\ pc' \in {"timer", "count"}
    BY <1>4 DEF TimerStart, Sigint, workers
  <2>2. Readings'
    BY <2>1, LoopStarts
  <2> QED
    BY <1>0, <2>1, <2>2 DEF TotalBetween
<1>5. CASE TimerRead \/ CountRead
  <2>1. /\ UNCHANGED <<gCtr, old, pc>> /\ idx < N /\ pc \in {"timer", "count"}
        /\ sum' = sum + gCtr[idx] /\ idx' = idx + 1
    BY <1>5 DEF TimerRead, CountRead, workers
  <2>2. Readings'
    BY <2>1, LoopReads
  <2> QED
    BY <1>0, <2>1, <2>2 DEF TotalBetween
<1>6. CASE TimerEnd
  <2>1. /\ pc = "timer" /\ idx = N /\ old' = sum /\ pc' = "wait"
        /\ UNCHANGED gCtr
    BY <1>6 DEF TimerEnd, workers
  <2>2. PICK last, read : Reads(last, read)
    BY DEF Readings
  <2>3. sum = SumFunctionOnSet(read, Threads) /\ old <= sum
    BY <2>1, <2>2, CompleteLoop
  <2>4. Reads(read, read)'
    BY <2>1, <2>2, <2>3 DEF Reads
  <2>5. Readings'
    BY <2>4 DEF Readings
  <2>6. sum \in Nat
    BY DEF TypeOK
  <2> QED
    BY <1>0, <2>1, <2>3, <2>5, <2>6 DEF TotalBetween
<1>7. CASE CountEnd
  <2>1. /\ pc = "count" /\ idx = N /\ pc' = "flows"
        /\ printed' = [printed EXCEPT !.total = sum]
        /\ UNCHANGED <<gCtr, old>> /\ idx' = 0 /\ sum' = 0
    BY <1>7 DEF CountEnd, workers
  <2>2. PICK last, read : Reads(last, read)
    BY DEF Readings
  <2>3. old <= sum /\ sum <= Dequeued
    BY <2>1, <2>2, CompleteLoop
  <2>4. printed'.total = sum /\ Dequeued' = Dequeued
    BY <2>1 DEF TypeOK, Dequeued
  <2>5. Readings'
    BY <2>1, LoopStarts
  <2> QED
    BY <1>0, <2>1, <2>3, <2>4, <2>5 DEF TotalBetween
<1>8. CASE FlowsRead \/ Exit
  <2>1. /\ pc = "flows" /\ pc' \in {"flows", "exit"}
        /\ UNCHANGED <<gCtr, old>>
        /\ printed'.total = printed.total
    BY <1>8 DEF FlowsRead, Exit, workers, TypeOK
  <2>2. PICK last, read : Reads(last, read)
    BY DEF Readings
  <2>3. Reads(last, read)'
    BY <2>1, <2>2 DEF Reads
  <2>4. Dequeued' = Dequeued
    BY <2>1 DEF Dequeued
  <2> QED
    BY <1>0, <2>1, <2>3, <2>4 DEF TotalBetween, Readings
<1>9. CASE \/ \E f \in Flows : Arrive(f)
           \/ \E t \in Threads : Rx(t) \/ Process(t)
           \/ UNCHANGED vars
  BY <1>2, <1>9 DEF Arrive, Rx, RxBurst, Enqueue, Process, vars
<1> QED
  BY <1>3, <1>4, <1>5, <1>6, <1>7, <1>8, <1>9
  DEF Next, Rx, Tx, Timer, Handler

(* The total of the final report is between the last total of the timer    *)
(* and what was received, however reading and counting interleave.         *)
THEOREM TotalIsReported == Spec => []ReportedTotal
<1>1. Init => TotalsInv
  BY InitTotals
<1>2. TotalsInv /\ [Next]_vars => TotalsInv'
  BY StepTotals
<1>3. TotalsInv => ReportedTotal
  BY DequeuedBound DEF TotalsInv, Inv, ReportedTotal, TotalBetween
<1> QED
  BY <1>1, <1>2, <1>3, PTL DEF Spec

(* The rate that the timer prints, the difference of two totals, is never  *)
(* negative: no entry is read smaller than it was read before.             *)
THEOREM RateIsNotNegative == Spec => RateNotNegative
<1>1. Init => TotalsInv
  BY InitTotals
<1>2. TotalsInv /\ [Next]_vars => TotalsInv'
  BY StepTotals
<1>3. TotalsInv /\ [Next]_vars => [old' >= old]_vars
  BY StepTotals
<1> QED
  BY <1>1, <1>2, <1>3, PTL DEF Spec, RateNotNegative

-----------------------------------------------------------------------------
(* The slots of a bucket fill up in order and name different flows; a slot *)
(* that counts is named by a flow that sent packets.  This also holds of a *)
(* bucket that gets packets of a flow whose high half is the free mark 0.  *)
SlotsOf(b) ==
  /\ hi[b][1] = 0 => hi[b][2] = 0 /\ ctr[b][2] = 0
  /\ hi[b][1] # 0 => hi[b][2] # hi[b][1]
  /\ \A k \in 1 .. 2 :
       ctr[b][k] > 0 => hi[b][k] \in Highs /\ seen[<<b, hi[b][k]>>] > 0

SlotsInv == \A b \in Buckets : SlotsOf(b)

(* What the processing of a packet of flow (b, h) does to the table.       *)
Counts(b, h, k) ==
  /\ k = SlotFor(hi[b], h)
  /\ seen' = [seen EXCEPT ![<<b, h>>] = @ + 1]
  /\ \A c \in Buckets \ {b} : hi'[c] = hi[c] /\ ctr'[c] = ctr[c]
  /\ \A j \in 1 .. 2 :
       /\ hi'[b][j] = IF j = k THEN h ELSE hi[b][j]
       /\ ctr'[b][j] = IF j = k THEN ctr[b][j] + 1 ELSE ctr[b][j]

(* A tx thread counts the packet at the head of its burst.                 *)
LEMMA ProcessTable ==
  ASSUME TypeOK, NEW t \in Threads, Process(t)
  PROVE  \E b \in Buckets, h \in Highs, k \in 0 .. 2 :
           Head(txbufs[t]) = <<b, h>> /\ Counts(b, h, k)
<1> DEFINE f == Head(txbufs[t])
           k == SlotFor(hi[f[1]], f[2])
<1>1. f \in Flows
  BY HeadTailProperties DEF Process, TypeOK
<1>2. /\ f[1] \in Buckets /\ f[2] \in Highs /\ f = <<f[1], f[2]>>
      /\ k \in 0 .. 2
  BY <1>1 DEF Flows, SlotFor
<1>3. seen' = [seen EXCEPT ![f] = @ + 1]
  BY DEF Process
<1>4. k = 0 => UNCHANGED <<hi, ctr>>
  BY DEF Process
<1>5. k # 0 => /\ hi' = [hi EXCEPT ![f[1]][k] = f[2]]
               /\ ctr' = [ctr EXCEPT ![f[1]][k] = @ + 1]
  BY DEF Process
<1>6. k = SlotFor(hi[f[1]], f[2])
  OBVIOUS
<1>7. /\ hi \in [Buckets -> [1 .. 2 -> Highs \cup {0}]]
      /\ ctr \in [Buckets -> [1 .. 2 -> Nat]]
  BY DEF TypeOK
<1> HIDE DEF f, k
<1>8. \A c \in Buckets \ {f[1]} : hi'[c] = hi[c] /\ ctr'[c] = ctr[c]
  BY <1>2, <1>4, <1>5, <1>7
<1>9. \A j \in 1 .. 2 :
        /\ hi'[f[1]][j] = IF j = k THEN f[2] ELSE hi[f[1]][j]
        /\ ctr'[f[1]][j] = IF j = k THEN ctr[f[1]][j] + 1 ELSE ctr[f[1]][j]
  <2>1. CASE k = 0
    BY <1>4, <2>1
  <2>2. CASE k # 0
    <3>1. /\ hi'[f[1]] = [hi[f[1]] EXCEPT ![k] = f[2]]
          /\ ctr'[f[1]] = [ctr[f[1]] EXCEPT ![k] = @ + 1]
      BY <1>2, <1>5, <1>7, <2>2
    <3>2. /\ hi[f[1]] \in [1 .. 2 -> Highs \cup {0}]
          /\ ctr[f[1]] \in [1 .. 2 -> Nat]
      BY <1>2, <1>7
    <3> QED
      BY <3>1, <3>2
  <2> QED
    BY <2>1, <2>2
<1>10. f = Head(txbufs[t])
  BY DEF f
<1>11. Counts(f[1], f[2], k)
  <2>1. seen' = [seen EXCEPT ![<<f[1], f[2]>>] = @ + 1]
    BY <1>2, <1>3
  <2> QED
    BY <1>6, <1>8, <1>9, <2>1 DEF Counts
<1> QED
  BY <1>2, <1>10, <1>11

(* The other steps leave the table alone.                                  *)
LEMMA TableUnchanged ==
  ASSUME [Next]_vars, ~ \E t \in Threads : Process(t)
  PROVE  UNCHANGED <<hi, ctr, seen>>
<1>1. CASE \E f \in Flows : Arrive(f)
  BY <1>1 DEF Arrive, tableVars
<1>2. CASE \E t \in Threads : RxBurst(t) \/ Enqueue(t) \/ Dequeue(t)
  BY <1>2 DEF RxBurst, Enqueue, Dequeue, tableVars
<1>3. CASE Timer \/ Sigint \/ Handler
  BY <1>3 DEF Timer, Sigint, Handler, TimerStart, TimerRead, TimerEnd,
    CountRead, CountEnd, FlowsRead, Exit, workers, tableVars
<1>4. CASE UNCHANGED vars
  BY <1>4 DEF vars, tableVars
<1> QED
  BY <1>1, <1>2, <1>3, <1>4 DEF Next, Rx, Tx

(* The slots of every bucket stay in order.                                *)
LEMMA StepSlots == TypeOK /\ SlotsInv /\ [Next]_vars => SlotsInv'
<1> SUFFICES ASSUME TypeOK, SlotsInv, [Next]_vars PROVE SlotsInv'
  OBVIOUS
<1>1. CASE ~ \E t \in Threads : Process(t)
  BY <1>1, TableUnchanged DEF SlotsInv, SlotsOf
<1>2. CASE \E t \in Threads : Process(t)
  <2>1. PICK t \in Threads : Process(t)
    BY <1>2
  <2>2. PICK b \in Buckets, h \in Highs, k \in 0 .. 2 : Counts(b, h, k)
    BY <2>1, ProcessTable
  <2>3. /\ \A g \in Flows : seen[g] \in Nat /\ seen'[g] >= seen[g]
        /\ seen'[<<b, h>>] > 0
        /\ \A g \in Flows : seen'[g] \in Nat
    <3>1. seen \in [Flows -> Nat] /\ <<b, h>> \in Flows
      BY DEF TypeOK, Flows
    <3>2. \A g \in Flows :
            seen'[g] = IF g = <<b, h>> THEN seen[g] + 1 ELSE seen[g]
      BY <2>2, <3>1 DEF Counts
    <3> QED
      BY <3>1, <3>2
  <2>4. ASSUME NEW c \in Buckets, NEW g \in Highs, seen[<<c, g>>] > 0
        PROVE  seen'[<<c, g>>] > 0
    <3>1. <<c, g>> \in Flows
      BY DEF Flows
    <3> QED
      BY <2>3, <2>4, <3>1
  <2>5. ASSUME NEW c \in Buckets \ {b} PROVE SlotsOf(c)'
    BY <2>2, <2>4 DEF SlotsInv, SlotsOf, Counts
  <2>6. SlotsOf(b)'
    <3>0. /\ hi[b][1] \in Highs \cup {0} /\ hi[b][2] \in Highs \cup {0}
          /\ ctr[b][1] \in Nat /\ ctr[b][2] \in Nat
      BY DEF TypeOK
    <3>1. SlotsOf(b)
      BY DEF SlotsInv
    <3>2. /\ hi'[b][1] = IF k = 1 THEN h ELSE hi[b][1]
          /\ hi'[b][2] = IF k = 2 THEN h ELSE hi[b][2]
          /\ ctr'[b][1] = IF k = 1 THEN ctr[b][1] + 1 ELSE ctr[b][1]
          /\ ctr'[b][2] = IF k = 2 THEN ctr[b][2] + 1 ELSE ctr[b][2]
      BY <2>2 DEF Counts
    <3>3. /\ k = 1 => hi[b][1] \in {0, h}
          /\ k = 2 => hi[b][1] \notin {0, h} /\ hi[b][2] \in {0, h}
      BY <2>2 DEF SlotFor, Counts
    <3>4. /\ hi'[b][1] = 0 => hi'[b][2] = 0 /\ ctr'[b][2] = 0
          /\ hi'[b][1] # 0 => hi'[b][2] # hi'[b][1]
      BY <3>0, <3>1, <3>2, <3>3 DEF SlotsOf
    <3>5. ASSUME NEW j \in 1 .. 2, ctr'[b][j] > 0
          PROVE  hi'[b][j] \in Highs /\ seen'[<<b, hi'[b][j]>>] > 0
      <4>1. CASE j = k
        BY <2>2, <2>3, <4>1 DEF Counts
      <4>2. CASE j # k
        BY <2>2, <2>4, <3>1, <3>5, <4>2 DEF SlotsOf, Counts
      <4> QED
        BY <4>1, <4>2
    <3> QED
      BY <3>4, <3>5 DEF SlotsOf
  <2> QED
    BY <2>5, <2>6 DEF SlotsInv
<1> QED
  BY <1>1, <1>2

-----------------------------------------------------------------------------
(* The flows of the buckets B that sent packets, and the slots that the    *)
(* handler counts there.                                                   *)
SeenIn(B) == {f \in Flows : f[1] \in B /\ seen[f] > 0}

SlotsUsed == [b \in Buckets |-> InUse(b)]

(* The flows are finitely many.                                            *)
LEMMA FiniteFlows == IsFiniteSet(Buckets) /\ IsFiniteSet(Flows)
<1>1. IsFiniteSet(Buckets)
  BY ConstantTypes, FS_Interval DEF Buckets
<1>2. IsFiniteSet(Highs)
  BY PipelineAssumption
<1> QED
  BY <1>1, <1>2, FS_Product DEF Flows

(* A bucket has no more slots in use than flows that sent packets.         *)
LEMMA UsedOfBucket ==
  ASSUME TypeOK, SlotsInv, NEW b \in Buckets
  PROVE  /\ InUse(b) \in Nat
         /\ InUse(b) <= Cardinality(SeenIn({b}))
<1> DEFINE S == SeenIn({b})
           x == <<b, hi[b][1]>>
           y == <<b, hi[b][2]>>
<1>0. IsFiniteSet(S) /\ Cardinality(S) \in Nat
  <2>1. S \in SUBSET Flows
    BY DEF SeenIn
  <2> QED
    BY <2>1, FiniteFlows, FS_Subset, FS_CardinalityType
<1>1. /\ SlotsOf(b)
      /\ ctr[b][1] \in Nat /\ ctr[b][2] \in Nat
  BY DEF SlotsInv, TypeOK
<1>2. ctr[b][1] > 0 => x \in S
  BY <1>1 DEF SlotsOf, SeenIn, Flows
<1>3. ctr[b][2] > 0 => y \in S /\ x # y
  <2>1. ctr[b][2] > 0 => hi[b][2] \in Highs /\ seen[y] > 0
    BY <1>1 DEF SlotsOf
  <2>2. ctr[b][2] > 0 => y \in S
    BY <2>1 DEF SeenIn, Flows
  <2>3. ctr[b][2] > 0 => hi[b][1] # hi[b][2]
    BY <1>1 DEF SlotsOf
  <2> QED
    BY <2>2, <2>3
<1> HIDE DEF S, x, y
<1>4. CASE ctr[b][1] > 0 /\ ctr[b][2] > 0
  <2>1. {x} \in SUBSET S /\ y \in S \ {x}
    BY <1>2, <1>3, <1>4
  <2>2. Cardinality(S) - 1 = Cardinality(S \ {x}) /\ IsFiniteSet(S \ {x})
    BY <1>0, <2>1, FS_RemoveElement
  <2>3. Cardinality(S \ {x}) - 1 = Cardinality((S \ {x}) \ {y})
        /\ IsFiniteSet((S \ {x}) \ {y})
    BY <2>1, <2>2, FS_RemoveElement
  <2>4. Cardinality((S \ {x}) \ {y}) \in Nat
    BY <2>3, FS_CardinalityType
  <2>5. InUse(b) = 2
    BY <1>4 DEF InUse
  <2> QED
    BY <1>0, <2>2, <2>3, <2>4, <2>5 DEF S
<1>5. CASE ~(ctr[b][1] > 0 /\ ctr[b][2] > 0)
  <2>1. InUse(b) \in {0, 1}
    BY <1>5 DEF InUse
  <2>2. InUse(b) = 1 => S # {}
    BY <1>2, <1>3, <1>5 DEF InUse
  <2>3. S # {} => Cardinality(S) # 0
    BY <1>0, FS_EmptySet
  <2> QED
    BY <1>0, <2>1, <2>2, <2>3 DEF S
<1> QED
  BY <1>4, <1>5

(* Nor have several buckets.                                               *)
LEMMA UsedOfBuckets ==
  ASSUME TypeOK, SlotsInv
  PROVE  SumFunctionOnSet(SlotsUsed, Buckets) <= Cardinality(SeenIn(Buckets))
<1> DEFINE F == {B \in SUBSET Buckets :
                   SumFunctionOnSet(SlotsUsed, B) <= Cardinality(SeenIn(B))}
<1>0. \A B : IsFiniteSet(SeenIn(B)) /\ Cardinality(SeenIn(B)) \in Nat
  <2> TAKE B
  <2>1. SeenIn(B) \in SUBSET Flows
    BY DEF SeenIn
  <2> QED
    BY <2>1, FiniteFlows, FS_Subset, FS_CardinalityType
<1>1. \A b \in Buckets : SlotsUsed[b] \in Int
  <2>1. \A b \in Buckets : InUse(b) \in Nat
    BY UsedOfBucket
  <2> QED
    BY <2>1 DEF SlotsUsed
<1>2. ASSUME NEW B \in SUBSET Buckets, \A b \in B : B \ {b} \in F
      PROVE  B \in F
  <2>1. IsFiniteSet(B)
    BY FiniteFlows, FS_Subset
  <2>2. CASE B = {}
    <3>1. SumFunctionOnSet(SlotsUsed, {}) = 0
      BY SumEmpty
    <3> QED
      BY <1>0, <2>2, <3>1
  <2>3. CASE B # {}
    <3>1. PICK b \in B : TRUE
      BY <2>3
    <3>2. /\ SumFunctionOnSet(SlotsUsed, B)
               = SlotsUsed[b] + SumFunctionOnSet(SlotsUsed, B \ {b})
          /\ SumFunctionOnSet(SlotsUsed, B \ {b}) \in Int
      BY <1>1, <2>1, SumStep
    <3>3. SumFunctionOnSet(SlotsUsed, B \ {b}) <= Cardinality(SeenIn(B \ {b}))
      BY <1>2
    <3>4. SlotsUsed[b] <= Cardinality(SeenIn({b})) /\ SlotsUsed[b] \in Nat
      BY UsedOfBucket DEF SlotsUsed
    <3>5. Cardinality(SeenIn(B)) =
            Cardinality(SeenIn(B \ {b})) + Cardinality(SeenIn({b}))
      <4>1. SeenIn(B) = SeenIn(B \ {b}) \cup SeenIn({b})
        BY DEF SeenIn
      <4>2. SeenIn(B \ {b}) \cap SeenIn({b}) = {}
        BY DEF SeenIn
      <4>3. Cardinality({}) = 0
        BY FS_EmptySet
      <4>4. Cardinality(SeenIn(B \ {b}) \cup SeenIn({b})) =
              Cardinality(SeenIn(B \ {b})) + Cardinality(SeenIn({b}))
                - Cardinality(SeenIn(B \ {b}) \cap SeenIn({b}))
        BY <1>0, FS_Union
      <4> DEFINE p == Cardinality(SeenIn(B \ {b}))
                 q == Cardinality(SeenIn({b}))
      <4>5. p \in Nat /\ q \in Nat /\ Cardinality(SeenIn(B)) = p + q - 0
        BY <1>0, <4>1, <4>2, <4>3, <4>4
      <4> HIDE DEF p, q
      <4>6. Cardinality(SeenIn(B)) = p + q
        BY <4>5
      <4> QED
        BY <4>6 DEF p, q
    <3> DEFINE u == SumFunctionOnSet(SlotsUsed, B \ {b})
               p == Cardinality(SeenIn(B \ {b}))
               q == Cardinality(SeenIn({b}))
               e == SlotsUsed[b]
    <3>6. /\ u \in Int /\ p \in Nat /\ q \in Nat /\ e \in Nat
          /\ u <= p /\ e <= q
          /\ SumFunctionOnSet(SlotsUsed, B) = e + u
          /\ Cardinality(SeenIn(B)) = p + q
      BY <1>0, <3>2, <3>3, <3>4, <3>5
    <3> HIDE DEF u, p, q, e
    <3>7. SumFunctionOnSet(SlotsUsed, B) <= Cardinality(SeenIn(B))
      BY <3>6
    <3> QED
      BY <3>7
  <2> QED
    BY <2>2, <2>3
<1>3. SUBSET Buckets \subseteq F
  <2> HIDE DEF F
  <2> QED
    BY <1>2, FiniteFlows, SubsetInduction
<1> QED
  BY <1>3

(* The walk over the table: so far, no more slots than are in use.         *)
WalkInv ==
  /\ pc = "flows" => /\ idx <= NumBuckets
                     /\ sum <= SumFunctionOnSet(SlotsUsed, 0 .. idx - 1)
  /\ pc = "exit" => printed.flows <= SumFunctionOnSet(SlotsUsed, Buckets)

(* A slot in use stays in use.                                             *)
LEMMA SlotsStayUsed ==
  ASSUME TypeOK, [Next]_vars
  PROVE  \A b \in Buckets : /\ SlotsUsed[b] \in Int /\ SlotsUsed'[b] \in Int
                            /\ SlotsUsed[b] <= SlotsUsed'[b]
<1> SUFFICES ASSUME NEW b \in Buckets
             PROVE  /\ InUse(b) \in Int /\ InUse(b)' \in Int
                    /\ InUse(b) <= InUse(b)'
  BY DEF SlotsUsed
<1>0. ctr[b][1] \in Nat /\ ctr[b][2] \in Nat
  BY DEF TypeOK
<1>1. \A j \in 1 .. 2 : ctr[b][j] > 0 => ctr'[b][j] > 0
  <2>1. CASE ~ \E t \in Threads : Process(t)
    BY <2>1, TableUnchanged
  <2>2. CASE \E t \in Threads : Process(t)
    <3>1. PICK c \in Buckets, h \in Highs, k \in 0 .. 2 : Counts(c, h, k)
      BY <2>2, ProcessTable
    <3>2. CASE b # c
      BY <3>1, <3>2 DEF Counts
    <3>3. CASE b = c
      <4>1. \A j \in 1 .. 2 :
              ctr'[b][j] = IF j = k THEN ctr[b][j] + 1 ELSE ctr[b][j]
        BY <3>1, <3>3 DEF Counts
      <4>2. \A j \in 1 .. 2 : ctr[b][j] \in Nat
        BY DEF TypeOK
      <4> QED
        BY <4>1, <4>2
    <3> QED
      BY <3>2, <3>3
  <2> QED
    BY <2>1, <2>2
<1>2. /\ ctr[b][1] > 0 => ctr'[b][1] > 0
      /\ ctr[b][2] > 0 => ctr'[b][2] > 0
  BY <1>1
<1> QED
  BY <1>2 DEF InUse

(* The walk counts each bucket once, as it is then or as it will be.       *)
LEMMA StepWalk == TypeOK /\ WalkInv /\ [Next]_vars => WalkInv'
<1> SUFFICES ASSUME TypeOK, WalkInv, [Next]_vars PROVE WalkInv'
  OBVIOUS
<1>0. /\ NumBuckets \in Nat /\ idx \in Nat /\ sum \in Nat
      /\ printed.flows \in Nat
  BY ConstantTypes DEF TypeOK
<1>1. \A b \in Buckets : /\ SlotsUsed[b] \in Int /\ SlotsUsed'[b] \in Int
                         /\ SlotsUsed[b] <= SlotsUsed'[b]
  BY SlotsStayUsed
<1>2. ASSUME NEW n \in Nat, n <= NumBuckets
      PROVE  /\ SumFunctionOnSet(SlotsUsed, 0 .. n - 1) \in Int
             /\ SumFunctionOnSet(SlotsUsed', 0 .. n - 1) \in Int
             /\ SumFunctionOnSet(SlotsUsed, 0 .. n - 1)
                  <= SumFunctionOnSet(SlotsUsed', 0 .. n - 1)
  <2>1. IsFiniteSet(0 .. n - 1) /\ 0 .. n - 1 \subseteq Buckets
    <3>1. IsFiniteSet(0 .. n - 1)
      BY FS_Interval
    <3>2. 0 .. n - 1 \subseteq Buckets
      BY <1>0, <1>2 DEF Buckets
    <3> QED
      BY <3>1, <3>2
  <2>2. \A b \in 0 .. n - 1 : /\ SlotsUsed[b] \in Int /\ SlotsUsed'[b] \in Int
                              /\ SlotsUsed[b] <= SlotsUsed'[b]
    BY <1>1, <2>1
  <2> QED
    BY <2>1, <2>2, SumInt, SumLeq
<1>3. Buckets = 0 .. NumBuckets - 1
  BY DEF Buckets
<1>4. CASE UNCHANGED <<pc, idx, sum, printed>>
  <2>1. ASSUME pc = "flows"
        PROVE  idx <= NumBuckets /\ sum <= SumFunctionOnSet(SlotsUsed', 0 .. idx - 1)
    <3>1. idx <= NumBuckets /\ sum <= SumFunctionOnSet(SlotsUsed, 0 .. idx - 1)
      BY <2>1 DEF WalkInv
    <3>2. /\ SumFunctionOnSet(SlotsUsed, 0 .. idx - 1) \in Int
          /\ SumFunctionOnSet(SlotsUsed', 0 .. idx - 1) \in Int
          /\ SumFunctionOnSet(SlotsUsed, 0 .. idx - 1)
                  <= SumFunctionOnSet(SlotsUsed', 0 .. idx - 1)
      BY <1>0, <1>2, <3>1
    <3> QED
      BY <1>0, <3>1, <3>2
  <2>2. ASSUME pc = "exit"
        PROVE  printed.flows <= SumFunctionOnSet(SlotsUsed', Buckets)
    <3>1. printed.flows <= SumFunctionOnSet(SlotsUsed, Buckets)
      BY <2>2 DEF WalkInv
    <3>2. /\ SumFunctionOnSet(SlotsUsed, Buckets) \in Int
          /\ SumFunctionOnSet(SlotsUsed', Buckets) \in Int
          /\ SumFunctionOnSet(SlotsUsed, Buckets)
                  <= SumFunctionOnSet(SlotsUsed', Buckets)
      BY <1>0, <1>2, <1>3
    <3> QED
      BY <1>0, <3>1, <3>2
  <2> QED
    BY <1>4, <2>1, <2>2 DEF WalkInv
<1>5. CASE TimerStart \/ TimerRead \/ TimerEnd \/ Sigint \/ CountRead
  <2>1. pc' \notin {"flows", "exit"}
    BY <1>5 DEF TimerStart, TimerRead, TimerEnd, Sigint, CountRead
  <2> QED
    BY <2>1 DEF WalkInv
<1>6. CASE CountEnd
  <2>1. pc' = "flows" /\ idx' = 0 /\ sum' = 0
    BY <1>6 DEF CountEnd
  <2>2. 0 .. idx' - 1 = {}
    BY <2>1
  <2>3. SumFunctionOnSet(SlotsUsed', 0 .. idx' - 1) = 0
    BY <2>2, SumEmpty
  <2> QED
    BY <1>0, <2>1, <2>3 DEF WalkInv
<1>7. CASE FlowsRead
  <2>1. /\ pc = "flows" /\ pc' = "flows" /\ idx < NumBuckets
        /\ sum' = sum + InUse(idx) /\ idx' = idx + 1
        /\ UNCHANGED ctr
    BY <1>7 DEF FlowsRead, workers, tableVars
  <2>2. SlotsUsed' = SlotsUsed
    BY <2>1 DEF SlotsUsed, InUse
  <2>3. sum <= SumFunctionOnSet(SlotsUsed, 0 .. idx - 1)
    BY <2>1 DEF WalkInv
  <2>4. /\ SumFunctionOnSet(SlotsUsed, 0 .. idx)
             = SumFunctionOnSet(SlotsUsed, 0 .. idx - 1) + SlotsUsed[idx]
        /\ SumFunctionOnSet(SlotsUsed, 0 .. idx - 1) \in Int
    <3>1. \A b \in 0 .. idx : SlotsUsed[b] \in Int
      BY <1>0, <1>1, <2>1 DEF Buckets
    <3> QED
      BY <1>0, <3>1, SumUpTo
  <2>5. SlotsUsed[idx] = InUse(idx) /\ SlotsUsed[idx] \in Int
    BY <1>0, <1>1, <2>1 DEF SlotsUsed, Buckets
  <2>6. idx' - 1 = idx /\ idx' <= NumBuckets
    BY <1>0, <2>1
  <2>7. sum' <= SumFunctionOnSet(SlotsUsed', 0 .. idx' - 1)
    BY <1>0, <2>1, <2>2, <2>3, <2>4, <2>5, <2>6
  <2> QED
    BY <2>1, <2>6, <2>7 DEF WalkInv
<1>8. CASE Exit
  <2>1. /\ pc = "flows" /\ pc' = "exit" /\ idx = NumBuckets
        /\ printed' = [printed EXCEPT !.flows = sum]
        /\ UNCHANGED ctr
    BY <1>8 DEF Exit, workers, tableVars
  <2>2. SlotsUsed' = SlotsUsed /\ printed'.flows = sum
    BY <2>1 DEF SlotsUsed, InUse, TypeOK
  <2>3. sum <= SumFunctionOnSet(SlotsUsed, Buckets)
    BY <1>3, <2>1 DEF WalkInv
  <2> QED
    BY <2>1, <2>2, <2>3 DEF WalkInv
<1>9. CASE \/ \E f \in Flows : Arrive(f)
           \/ \E t \in Threads : Rx(t) \/ Tx(t)
           \/ UNCHANGED vars
  BY <1>4, <1>9 DEF Arrive, Rx, RxBurst, Enqueue, Tx, Dequeue, Process, vars,
    masterVars
<1> QED
  BY <1>5, <1>6, <1>7, <1>8, <1>9 DEF Next, Timer, Handler

(* The number of flows of the final report counts no flow that sent no     *)
(* packet, and none twice, for any interleaving of the walk of the handler *)
(* with the tx threads, and also if there are flows named by the free mark.*)
THEOREM FlowsAreReported == Spec => []ReportedFlows
<1> DEFINE FlowsInv == Inv /\ SlotsInv /\ WalkInv
<1>1. Init => FlowsInv
  <2> SUFFICES ASSUME Init PROVE FlowsInv
    OBVIOUS
  <2>1. Inv
    BY InitInv
  <2>2. SlotsInv
    BY DEF Init, SlotsInv, SlotsOf
  <2>3. WalkInv
    BY DEF Init, WalkInv
  <2> QED
    BY <2>1, <2>2, <2>3
<1>2. FlowsInv /\ [Next]_vars => FlowsInv'
  BY StepInv, StepSlots, StepWalk DEF Inv
<1>3. FlowsInv => ReportedFlows
  <2> SUFFICES ASSUME FlowsInv, pc = "exit"
               PROVE  printed.flows <= Cardinality({f \in Flows : seen[f] > 0})
    BY DEF ReportedFlows
  <2>1. printed.flows <= SumFunctionOnSet(SlotsUsed, Buckets)
    BY DEF WalkInv
  <2>2. SumFunctionOnSet(SlotsUsed, Buckets) <= Cardinality(SeenIn(Buckets))
    BY UsedOfBuckets DEF Inv
  <2>3. SeenIn(Buckets) = {f \in Flows : seen[f] > 0}
    BY DEF SeenIn, Flows
  <2>4. Cardinality(SeenIn(Buckets)) \in Nat
    <3>1. SeenIn(Buckets) \in SUBSET Flows
      BY DEF SeenIn
    <3> QED
      BY <3>1, FiniteFlows, FS_Subset, FS_CardinalityType
  <2>5. SumFunctionOnSet(SlotsUsed, Buckets) \in Int
    <3>0. \A b \in Buckets : InUse(b) \in Nat
      BY UsedOfBucket DEF Inv
    <3>1. \A b \in Buckets : SlotsUsed[b] \in Int
      BY <3>0 DEF SlotsUsed
    <3> QED
      BY <3>1, FiniteFlows, SumInt
  <2>6. printed.flows \in Nat
    BY DEF Inv, TypeOK
  <2> QED
    BY <2>1, <2>2, <2>3, <2>4, <2>5, <2>6
<1> QED
  BY <1>1, <1>2, <1>3, PTL DEF Spec

-----------------------------------------------------------------------------
(* What a tx thread has dequeued and no longer holds was processed.  So no *)
(* flow has more packets than arrived, which bounds its counter.           *)
DoneBy == [t \in Threads |-> gCtr[t] - Len(txbufs[t])]

AllDone ==
  /\ \A t \in Threads : DoneBy[t] \in Nat
  /\ SumFunctionOnSet(seen, Flows) = SumFunctionOnSet(DoneBy, Threads)

ArrivalsBounded == received + missed <= MaxPkts

(* A step at one thread changes the sum by what it processes there.        *)
LEMMA DoneStep ==
  ASSUME TypeOK, AllDone, NEW t \in Threads, NEW d \in Nat,
         \A u \in Threads \ {t} : UNCHANGED <<gCtr[u], txbufs[u]>>,
         DoneBy'[t] = DoneBy[t] + d,
         SumFunctionOnSet(seen', Flows) = SumFunctionOnSet(seen, Flows) + d
  PROVE  AllDone'
<1>1. \A u \in Threads : DoneBy[u] \in Nat
  BY DEF AllDone
<1>2. \A u \in Threads \ {t} : DoneBy'[u] = DoneBy[u]
  BY DEF DoneBy
<1>3. \A u \in Threads : DoneBy'[u] \in Nat
  BY <1>1, <1>2
<1>4. SumFunctionOnSet(DoneBy', Threads)
        = SumFunctionOnSet(DoneBy, Threads) + (DoneBy'[t] - DoneBy[t])
  <2>1. \A u \in Threads : DoneBy[u] \in Int /\ DoneBy'[u] \in Int
    BY <1>1, <1>3
  <2> QED
    BY <1>2, <2>1, FiniteThreads, SumUpdate
<1>5. DoneBy'[t] - DoneBy[t] = d
  BY <1>1
<1> QED
  BY <1>3, <1>4, <1>5 DEF AllDone

(* The sum of what is seen grows by one with each packet processed.        *)
LEMMA StepDone == Inv /\ AllDone /\ [Next]_vars => AllDone'
<1> SUFFICES ASSUME Inv, AllDone, [Next]_vars PROVE AllDone'
  OBVIOUS
<1> USE DEF Inv
<1>0. /\ txbufs \in [Threads -> Seq(Flows)] /\ gCtr \in [Threads -> Nat]
      /\ ring \in [Threads -> Seq(Flows)]
      /\ seen \in [Flows -> Nat]
  BY DEF TypeOK
<1>s. CASE UNCHANGED <<gCtr, txbufs, seen>>
  BY <1>s DEF AllDone, DoneBy
<1>a. SumFunctionOnSet(seen, Flows) \in Nat
  BY <1>0, FiniteFlows, SumNat
<1>1. ASSUME NEW t \in Threads, Dequeue(t) PROVE AllDone'
  <2> DEFINE m == AtMost(Len(ring[t]), BurstSize)
  <2>1. /\ txbufs' = [txbufs EXCEPT ![t] = FirstOf(ring[t], m)]
        /\ gCtr' = [gCtr EXCEPT ![t] = @ + m]
        /\ txbufs[t] = <<>>
        /\ UNCHANGED seen
    BY <1>1 DEF Dequeue, CountBurst, tableVars
  <2>2. m \in 0 .. Len(ring[t]) /\ m \in Nat
    BY Numbers, ConstantTypes DEF AtMost
  <2> HIDE DEF m
  <2>3. /\ Len(txbufs'[t]) = m /\ Len(txbufs[t]) = 0
        /\ gCtr'[t] = gCtr[t] + m
    BY <1>0, <2>1, <2>2, Cut, EmptySeq
  <2>4. DoneBy'[t] = DoneBy[t] + 0
    <3>1. /\ DoneBy'[t] = gCtr'[t] - Len(txbufs'[t])
          /\ DoneBy[t] = gCtr[t] - Len(txbufs[t])
      BY DEF DoneBy
    <3> DEFINE g == gCtr[t]
    <3>2. g \in Nat /\ DoneBy'[t] = (g + m) - m /\ DoneBy[t] = g - 0
      BY <1>0, <2>3, <3>1
    <3> HIDE DEF g
    <3> QED
      BY <2>2, <3>2
  <2>5. SumFunctionOnSet(seen', Flows) = SumFunctionOnSet(seen, Flows) + 0
    BY <1>a, <2>1
  <2> QED
    BY <1>0, <2>1, <2>4, <2>5, DoneStep
<1>2. ASSUME NEW t \in Threads, Process(t) PROVE AllDone'
  <2>1. /\ txbufs[t] # <<>>
        /\ txbufs' = [txbufs EXCEPT ![t] = Tail(@)]
        /\ UNCHANGED gCtr
        /\ seen' = [seen EXCEPT ![Head(txbufs[t])] = @ + 1]
    BY <1>2 DEF Process
  <2>2. /\ Head(txbufs[t]) \in Flows
        /\ Len(Tail(txbufs[t])) = Len(txbufs[t]) - 1
        /\ Len(txbufs[t]) \in Nat
    BY <1>0, <2>1, HeadTailProperties, LenProperties
  <2>3. DoneBy'[t] = DoneBy[t] + 1
    <3> DEFINE g == gCtr[t]  y == Len(txbufs[t])
    <3>1. /\ DoneBy'[t] = g - (y - 1) /\ DoneBy[t] = g - y
          /\ g \in Nat /\ y \in Nat
      BY <1>0, <2>1, <2>2 DEF DoneBy
    <3> HIDE DEF g, y
    <3> QED
      BY <3>1
  <2>4. SumFunctionOnSet(seen', Flows) = SumFunctionOnSet(seen, Flows) + 1
    <3>1. PICK f \in Flows : seen' = [seen EXCEPT ![f] = @ + 1]
      BY <2>1, <2>2
    <3>2. \A g \in Flows : seen'[g] = IF g = f THEN seen[g] + 1 ELSE seen[g]
      BY <1>0, <3>1
    <3>3. \A g \in Flows : seen[g] \in Int /\ seen'[g] \in Int
      BY <1>0, <3>2
    <3>4. \A g \in Flows \ {f} : seen'[g] = seen[g]
      BY <3>2
    <3>5. SumFunctionOnSet(seen', Flows)
            = SumFunctionOnSet(seen, Flows) + (seen'[f] - seen[f])
      <4>1. IsFiniteSet(Flows)
        BY FiniteFlows
      <4> QED
        BY <3>3, <3>4, <4>1, SumUpdate, Zenon
    <3>6. seen'[f] - seen[f] = 1
      BY <3>1, <3>2, <3>3
    <3> QED
      BY <3>5, <3>6
  <2> QED
    BY <1>0, <2>1, <2>3, <2>4, DoneStep
<1>3. CASE \/ \E f \in Flows : Arrive(f)
           \/ \E t \in Threads : Rx(t)
           \/ Timer \/ Sigint \/ Handler
           \/ UNCHANGED vars
  BY <1>s, <1>3 DEF Arrive, Rx, RxBurst, Enqueue, Timer, Sigint, Handler,
    TimerStart, TimerRead, TimerEnd, CountRead, CountEnd, FlowsRead, Exit,
    workers, vars, tableVars
<1> QED
  BY <1>1, <1>2, <1>3 DEF Next, Tx

(* No more arrives than the bound of the model.                            *)
LEMMA StepBounded == TypeOK /\ ArrivalsBounded /\ [Next]_vars => ArrivalsBounded'
<1> SUFFICES ASSUME TypeOK, ArrivalsBounded, [Next]_vars PROVE ArrivalsBounded'
  OBVIOUS
<1>1. CASE UNCHANGED <<received, missed>>
  BY <1>1 DEF ArrivalsBounded
<1>2. ASSUME NEW f \in Flows, Arrive(f) PROVE ArrivalsBounded'
  <2>1. /\ received + missed < MaxPkts
        /\ \/ received' = received + 1 /\ missed' = missed
           \/ missed' = missed + 1 /\ received' = received
    BY <1>2 DEF Arrive
  <2>2. received \in Nat /\ missed \in Nat /\ MaxPkts \in Nat
    BY PipelineAssumption DEF TypeOK
  <2> QED
    BY <2>1, <2>2 DEF ArrivalsBounded
<1>3. CASE \/ \E t \in Threads : Rx(t) \/ Tx(t)
           \/ Timer \/ Sigint \/ Handler
           \/ UNCHANGED vars
  BY <1>1, <1>3 DEF Rx, RxBurst, Enqueue, Tx, Dequeue, Process, Timer, Sigint,
    Handler, TimerStart, TimerRead, TimerEnd, CountRead, CountEnd, FlowsRead,
    Exit, workers, vars, nicVars
<1> QED
  BY <1>2, <1>3 DEF Next

(* A flow of which a packet is still held has sent more than was counted.  *)
LEMMA SeenBelowBound ==
  ASSUME Inv, AllArrived, AllDone, ArrivalsBounded,
         NEW t \in Threads, txbufs[t] # <<>>, NEW f \in Flows
  PROVE  seen[f] \in Nat /\ seen[f] + 1 <= MaxPkts
<1> USE DEF Inv
<1>1. seen[f] \in Nat /\ seen[f] <= SumFunctionOnSet(seen, Flows)
  <2>1. \A g \in Flows : seen[g] \in Nat
    BY DEF TypeOK
  <2> QED
    BY <2>1, FiniteFlows, SumNat
<1> DEFINE e == [DoneBy EXCEPT ![t] = gCtr[t]]
<1>2. \A u \in Threads : /\ DoneBy[u] \in Nat /\ gCtr[u] \in Nat
                         /\ DoneBy[u] <= gCtr[u]
  <2> TAKE u \in Threads
  <2> DEFINE g == gCtr[u]  y == Len(txbufs[u])
  <2>1. DoneBy[u] = g - y /\ g \in Nat /\ y \in Nat /\ g = gCtr[u]
    BY Numbers DEF DoneBy, TypeOK
  <2>2. DoneBy[u] \in Nat
    BY DEF AllDone
  <2> HIDE DEF g, y
  <2> QED
    BY <2>1, <2>2
<1>3. DoneBy[t] + 1 <= gCtr[t]
  <2> DEFINE g == gCtr[t]  y == Len(txbufs[t])
  <2>1. DoneBy[t] = g - y /\ g \in Nat /\ y \in Nat /\ g = gCtr[t]
    BY Numbers DEF DoneBy, TypeOK
  <2>2. y # 0
    BY Numbers, EmptySeq
  <2> HIDE DEF g, y
  <2> QED
    BY <2>1, <2>2
<1>4. /\ \A u \in Threads \ {t} : e[u] = DoneBy[u]
      /\ e[t] = gCtr[t]
      /\ \A u \in Threads : e[u] \in Int /\ e[u] <= gCtr[u]
  <2>1. \A u \in Threads : e[u] = IF u = t THEN gCtr[u] ELSE DoneBy[u]
    BY DEF DoneBy
  <2> HIDE DEF e
  <2> QED
    BY <1>2, <2>1
<1> HIDE DEF e
<1>5. SumFunctionOnSet(e, Threads)
        = SumFunctionOnSet(DoneBy, Threads) + (gCtr[t] - DoneBy[t])
  <2>1. \A u \in Threads : DoneBy[u] \in Int /\ e[u] \in Int
    BY <1>2, <1>4
  <2> QED
    BY <1>4, <2>1, FiniteThreads, SumUpdate
<1>6. SumFunctionOnSet(e, Threads) <= Dequeued
  <2>1. \A u \in Threads : e[u] \in Int /\ gCtr[u] \in Int /\ e[u] <= gCtr[u]
    BY <1>2, <1>4
  <2> QED
    BY <2>1, FiniteThreads, SumLeq DEF Dequeued
<1>7. Dequeued <= received /\ Dequeued \in Nat
  BY DequeuedBound
<1>8. SumFunctionOnSet(DoneBy, Threads) \in Nat
  BY <1>2, FiniteThreads, SumNat
<1> DEFINE s == SumFunctionOnSet(DoneBy, Threads)  q == Dequeued
           g == gCtr[t]  d == DoneBy[t]
<1>9. /\ s \in Nat /\ g \in Nat /\ d \in Nat /\ q \in Nat
      /\ d + 1 <= g /\ s + (g - d) <= q /\ q <= received /\ seen[f] <= s
  BY <1>1, <1>2, <1>3, <1>5, <1>6, <1>7, <1>8 DEF AllDone
<1> HIDE DEF s, q, g, d
<1>10. /\ received \in Nat /\ missed \in Nat /\ received + missed <= MaxPkts
       /\ MaxPkts \in Nat
  BY PipelineAssumption DEF TypeOK, ArrivalsBounded
<1> QED
  BY <1>1, <1>9, <1>10

-----------------------------------------------------------------------------
(* Where no flow is named by the free mark, a free slot has counted        *)
(* nothing and a named one no more than the packets of its flow.           *)
SlotExact(b, k) ==
  IF hi[b][k] = 0 THEN ctr[b][k] = 0
                  ELSE ctr[b][k] <= seen[<<b, hi[b][k]>>]

SlotsExact == \A b \in Buckets, k \in 1 .. 2 : SlotExact(b, k)

(* Processing a packet keeps it.                                           *)
LEMMA StepExact ==
  ASSUME 0 \notin Highs, TypeOK, SlotsInv, SlotsExact, [Next]_vars
  PROVE  SlotsExact'
<1>1. CASE ~ \E t \in Threads : Process(t)
  BY <1>1, TableUnchanged DEF SlotsExact, SlotExact
<1>2. CASE \E t \in Threads : Process(t)
  <2>1. PICK b \in Buckets, h \in Highs, k \in 0 .. 2 : Counts(b, h, k)
    BY <1>2, ProcessTable
  <2>2. \A g \in Flows :
          /\ seen[g] \in Nat
          /\ seen'[g] = IF g = <<b, h>> THEN seen[g] + 1 ELSE seen[g]
    <3>1. seen \in [Flows -> Nat] /\ <<b, h>> \in Flows
      BY DEF TypeOK, Flows
    <3> QED
      BY <2>1, <3>1 DEF Counts
  <2>3. ASSUME NEW c \in Buckets, NEW j \in 1 .. 2,
               hi'[c][j] = hi[c][j], ctr'[c][j] = ctr[c][j]
        PROVE  SlotExact(c, j)'
    <3>1. SlotExact(c, j) /\ ctr[c][j] \in Nat /\ hi[c][j] \in Highs \cup {0}
      BY DEF SlotsExact, TypeOK
    <3>2. CASE hi[c][j] = 0
      BY <2>3, <3>1, <3>2 DEF SlotExact
    <3>3. CASE hi[c][j] # 0
      <4> DEFINE g == <<c, hi[c][j]>>
      <4>1. g \in Flows
        BY <3>1, <3>3 DEF Flows
      <4>2. seen[g] \in Nat /\ seen'[g] \in {seen[g], seen[g] + 1}
        BY <2>2, <4>1
      <4>3. ctr[c][j] <= seen[g]
        BY <3>1, <3>3 DEF SlotExact
      <4>4. ctr[c][j] <= seen'[g]
        <5> HIDE DEF g
        <5> QED
          BY <3>1, <4>2, <4>3
      <4> QED
        BY <2>3, <3>3, <4>4 DEF SlotExact
    <3> QED
      BY <3>2, <3>3
  <2>4. ASSUME NEW c \in Buckets, NEW j \in 1 .. 2, c = b, j = k
        PROVE  SlotExact(c, j)'
    <3>1. /\ hi'[b][k] = h /\ ctr'[b][k] = ctr[b][k] + 1
          /\ hi[b][k] \in {0, h}
      BY <2>1, <2>4 DEF Counts, SlotFor
    <3>2. SlotExact(b, k) /\ ctr[b][k] \in Nat
      BY <2>4 DEF SlotsExact, TypeOK
    <3>3. <<b, h>> \in Flows
      BY DEF Flows
    <3>4. ctr[b][k] <= seen[<<b, h>>]
      BY <2>2, <3>1, <3>2, <3>3 DEF SlotExact
    <3>5. ctr[b][k] + 1 <= seen'[<<b, h>>]
      BY <2>2, <3>2, <3>3, <3>4
    <3> QED
      BY <2>4, <3>1, <3>5 DEF SlotExact
  <2>5. ASSUME NEW c \in Buckets, NEW j \in 1 .. 2, ~(c = b /\ j = k)
        PROVE  hi'[c][j] = hi[c][j] /\ ctr'[c][j] = ctr[c][j]
    BY <2>1, <2>5 DEF Counts
  <2> QED
    BY <2>3, <2>4, <2>5 DEF SlotsExact
<1> QED
  BY <1>1, <1>2

(* What the table counts for a flow.                                       *)
CountOf(b, h) ==
  IF h \in Names(b) THEN ctr[b][IF hi[b][1] = h THEN 1 ELSE 2] ELSE 0

(* A packet that finds a slot is counted for its flow and for no other.    *)
LEMMA CountsOne ==
  ASSUME 0 \notin Highs, TypeOK, SlotsInv, SlotsExact,
         NEW b \in Buckets, NEW h \in Highs, NEW k \in 1 .. 2, Counts(b, h, k)
  PROVE  /\ h \in Names(b) \/ Cardinality(Names(b)) < 2
         /\ Names(b)' = Names(b) \cup {h}
         /\ CountOf(b, h)' = CountOf(b, h) + 1
         /\ CountOf(b, h) \in {0, ctr[b][k]}
         /\ \A g \in Highs \ {h} : CountOf(b, g)' = CountOf(b, g)
<1>1. /\ hi[b][1] \in Highs \cup {0} /\ hi[b][2] \in Highs \cup {0}
      /\ ctr[b][1] \in Nat /\ ctr[b][2] \in Nat
      /\ h # 0
  BY DEF TypeOK
<1>2. /\ hi[b][1] = 0 => hi[b][2] = 0 /\ ctr[b][2] = 0
      /\ hi[b][1] # 0 => hi[b][2] # hi[b][1]
  BY DEF SlotsInv, SlotsOf
<1>3. /\ hi[b][1] = 0 => ctr[b][1] = 0
      /\ hi[b][2] = 0 => ctr[b][2] = 0
  <2>1. SlotExact(b, 1) /\ SlotExact(b, 2)
    BY DEF SlotsExact
  <2> QED
    BY <2>1 DEF SlotExact
<1>4. /\ hi'[b][1] = IF k = 1 THEN h ELSE hi[b][1]
      /\ hi'[b][2] = IF k = 2 THEN h ELSE hi[b][2]
      /\ ctr'[b][1] = IF k = 1 THEN ctr[b][1] + 1 ELSE ctr[b][1]
      /\ ctr'[b][2] = IF k = 2 THEN ctr[b][2] + 1 ELSE ctr[b][2]
      /\ k = 1 => hi[b][1] \in {0, h}
      /\ k = 2 => hi[b][1] \notin {0, h} /\ hi[b][2] \in {0, h}
  BY DEF Counts, SlotFor
<1>5. h \in Names(b) \/ Cardinality(Names(b)) < 2
  <2>1. CASE h \notin Names(b)
    <3>1. Names(b) = {} \/ Names(b) = {hi[b][1]}
      BY <1>1, <1>2, <1>4, <2>1 DEF Names
    <3>2. Cardinality({}) = 0 /\ Cardinality({hi[b][1]}) = 1
      BY FS_EmptySet, FS_Singleton
    <3> QED
      BY <3>1, <3>2
  <2> QED
    BY <2>1
<1>6. Names(b)' = Names(b) \cup {h}
  BY <1>1, <1>2, <1>4 DEF Names
<1>7. CountOf(b, h)' = CountOf(b, h) + 1 /\ CountOf(b, h) \in {0, ctr[b][k]}
  <2>1. CASE k = 1
    BY <1>1, <1>2, <1>3, <1>4, <2>1 DEF CountOf, Names
  <2>2. CASE k = 2
    BY <1>1, <1>2, <1>3, <1>4, <2>2 DEF CountOf, Names
  <2> QED
    BY <2>1, <2>2
<1>8. \A g \in Highs \ {h} : CountOf(b, g)' = CountOf(b, g)
  BY <1>1, <1>2, <1>4 DEF CountOf, Names
<1> QED
  BY <1>5, <1>6, <1>7, <1>8

(* A packet that finds none is of a third flow.                            *)
LEMMA CountsNone ==
  ASSUME TypeOK, SlotsInv, NEW b \in Buckets, NEW h \in Highs, Counts(b, h, 0)
  PROVE  /\ h \notin Names(b) /\ ~(Cardinality(Names(b)) < 2)
         /\ Names(b)' = Names(b)
         /\ \A g \in Highs : CountOf(b, g)' = CountOf(b, g)
<1>1. /\ hi[b][1] # 0 => hi[b][2] # hi[b][1]
      /\ hi[b][1] \notin {0, h} /\ hi[b][2] \notin {0, h}
      /\ hi'[b][1] = hi[b][1] /\ hi'[b][2] = hi[b][2]
      /\ ctr'[b][1] = ctr[b][1] /\ ctr'[b][2] = ctr[b][2]
  <2>1. hi[b][1] # 0 => hi[b][2] # hi[b][1]
    BY DEF SlotsInv, SlotsOf
  <2>2. /\ 0 = SlotFor(hi[b], h)
        /\ \A j \in 1 .. 2 : j # 0 => hi'[b][j] = hi[b][j] /\ ctr'[b][j] = ctr[b][j]
    BY DEF Counts
  <2>3. hi[b][1] \notin {0, h} /\ hi[b][2] \notin {0, h}
    BY <2>2 DEF SlotFor
  <2> QED
    BY <2>1, <2>2, <2>3
<1>2. Names(b) = {hi[b][1]} \cup {hi[b][2]} /\ hi[b][2] \notin {hi[b][1]}
  BY <1>1 DEF Names
<1>3. Cardinality(Names(b)) = 2
  <2>1. IsFiniteSet({hi[b][1]}) /\ Cardinality({hi[b][1]}) = 1
    BY FS_Singleton
  <2>2. Cardinality({hi[b][1]} \cup {hi[b][2]}) = 1 + 1
    BY <1>2, <2>1, FS_AddElement
  <2> QED
    BY <1>2, <2>2
<1> QED
  BY <1>1, <1>2, <1>3 DEF Names, CountOf

(* The instance has a copy of Cardinality of its own.                      *)
LEMMA SameCardinality == \A S : Table!Cardinality(S) = Cardinality(S)
  BY Zenon DEF Cardinality, Table!Cardinality

(* Seen through Names and CountOf, a packet is a step of the ideal table.  *)
LEMMA StepTable ==
  ASSUME 0 \notin Highs, Inv, AllArrived, AllDone, ArrivalsBounded,
         SlotsInv, SlotsExact, [Next]_vars
  PROVE  [Table!Next]_Table!vars
<1> USE DEF Inv
<1> DEFINE offered == [b \in Buckets |-> [h \in Highs |-> seen[<<b, h>>]]]
           tracked == [b \in Buckets |-> Names(b)]
           count == [b \in Buckets |-> [h \in Highs |-> CountOf(b, h)]]
           rest == [b \in Buckets |-> 0]
<1>1. CASE ~ \E t \in Threads : Process(t)
  BY <1>1, TableUnchanged DEF Table!vars, Names
<1>2. CASE \E t \in Threads : Process(t)
  <2>1. PICK t \in Threads : Process(t)
    BY <1>2
  <2>2. PICK b \in Buckets, h \in Highs, k \in 0 .. 2 : Counts(b, h, k)
    BY <2>1, ProcessTable
  <2>3. <<b, h>> \in Flows
    BY DEF Flows
  <2>4. seen[<<b, h>>] \in Nat /\ seen[<<b, h>>] + 1 <= MaxPkts
    BY <2>1, <2>3, SeenBelowBound DEF Process
  <2>5. offered' = [offered EXCEPT ![b][h] = @ + 1]
    <3>1. \A c \in Buckets, g \in Highs :
            seen'[<<c, g>>] = IF c = b /\ g = h THEN seen[<<c, g>>] + 1
                                                ELSE seen[<<c, g>>]
      <4>1. \A c \in Buckets, g \in Highs : <<c, g>> \in Flows
        BY DEF Flows
      <4>2. seen \in [Flows -> Nat] /\ seen' = [seen EXCEPT ![<<b, h>>] = @ + 1]
        BY <2>2 DEF Counts, TypeOK
      <4> QED
        BY <4>1, <4>2
    <3>2. \A c \in Buckets :
            offered'[c] = IF c = b THEN [offered[b] EXCEPT ![h] = @ + 1]
                                   ELSE offered[c]
      BY <3>1, Zenon
    <3>3. offered' = [c \in Buckets |-> offered'[c]]
      OBVIOUS
    <3>4. offered \in [Buckets -> [Highs -> Nat]]
      <4>1. \A c \in Buckets, g \in Highs : seen[<<c, g>>] \in Nat
        BY DEF TypeOK, Flows
      <4> QED
        BY <4>1
    <3> DEFINE new == offered'
    <3> HIDE DEF offered, new
    <3>5. new = [offered EXCEPT ![b][h] = @ + 1]
      <4>1. /\ new = [c \in Buckets |-> new[c]]
            /\ \A c \in Buckets :
                 new[c] = IF c = b THEN [offered[b] EXCEPT ![h] = @ + 1]
                                   ELSE offered[c]
        BY <3>2, <3>3 DEF new
      <4> QED
        BY <3>4, <4>1
    <3> QED
      BY <3>5 DEF new
  <2>6. \A c \in Buckets \ {b} :
          /\ Names(c)' = Names(c)
          /\ \A g \in Highs : CountOf(c, g)' = CountOf(c, g)
    BY <2>2 DEF Counts, Names, CountOf
  <2>7. CASE k # 0
    <3>1. /\ h \in Names(b) \/ Cardinality(Names(b)) < 2
          /\ Names(b)' = Names(b) \cup {h}
          /\ CountOf(b, h)' = CountOf(b, h) + 1
          /\ CountOf(b, h) \in {0, ctr[b][k]}
          /\ \A g \in Highs \ {h} : CountOf(b, g)' = CountOf(b, g)
      BY <2>2, <2>7, CountsOne
    <3>2. CountOf(b, h) \in Nat /\ CountOf(b, h) <= seen[<<b, h>>]
      <4>1. SlotExact(b, k) /\ ctr[b][k] \in Nat
        BY <2>7 DEF SlotsExact, TypeOK
      <4>2. hi[b][k] \in {0, h}
        BY <2>2, <2>7 DEF Counts, SlotFor
      <4>3. ctr[b][k] <= seen[<<b, h>>]
        BY <2>4, <4>1, <4>2 DEF SlotExact
      <4> QED
        BY <2>4, <3>1, <4>1, <4>3
    <3>3. (CountOf(b, h) + 1) % (MaxPkts + 1) = CountOf(b, h) + 1
      <4> DEFINE n == CountOf(b, h) + 1
      <4>1. n \in 0 .. MaxPkts /\ MaxPkts \in Nat
        BY <2>4, <3>2, PipelineAssumption
      <4> HIDE DEF n
      <4>2. n % (MaxPkts + 1) = n
        BY <4>1
      <4> QED
        BY <4>2 DEF n
    <3>4. tracked' = [tracked EXCEPT ![b] = @ \cup {h}]
      BY <2>6, <3>1
    <3>5. count' = [count EXCEPT ![b][h] = (@ + 1) % (MaxPkts + 1)]
      <4>1. \A c \in Buckets, g \in Highs :
              CountOf(c, g)' = IF c = b /\ g = h
                                 THEN (CountOf(c, g) + 1) % (MaxPkts + 1)
                                 ELSE CountOf(c, g)
        BY <2>6, <3>1, <3>3
      <4> QED
        BY <4>1
    <3>6. Table!Count(b, h)
      <4>1. h \in tracked[b] \/ Table!Room(b)
        BY <3>1, SameCardinality DEF Table!Room
      <4>2. count' = [count EXCEPT ![b][h] = Table!Plus1(@)]
        BY <3>5 DEF Table!Plus1
      <4>3. rest' = rest
        OBVIOUS
      <4> QED
        BY <3>4, <4>1, <4>2, <4>3, Zenon DEF Table!Count, CountOf
    <3> QED
      BY <2>5, <3>6 DEF Table!Next
  <2>8. CASE k = 0
    <3>1. /\ h \notin Names(b) /\ ~(Cardinality(Names(b)) < 2)
          /\ Names(b)' = Names(b)
          /\ \A g \in Highs : CountOf(b, g)' = CountOf(b, g)
      BY <2>2, <2>8, CountsNone
    <3>2. tracked' = tracked /\ count' = count
      BY <2>6, <3>1
    <3>3. Table!Overflow(b, h)
      <4>1. h \notin tracked[b] /\ ~Table!Room(b)
        BY <3>1, SameCardinality DEF Table!Room
      <4>2. rest' = rest
        OBVIOUS
      <4> QED
        BY <3>2, <4>1, <4>2, Zenon DEF Table!Overflow, CountOf
    <3> QED
      BY <2>5, <3>3 DEF Table!Next
  <2> QED
    BY <2>7, <2>8
<1> QED
  BY <1>1, <1>2

(* The table that the tx threads share without a lock implements the ideal *)
(* table of two flows per bucket: each flow it tracks is counted exactly   *)
(* from its first packet on and never forgotten.                           *)
THEOREM TableImplementsFlowCount ==
  0 \notin Highs => (Spec => ImplementsFlowCount)
<1> SUFFICES ASSUME 0 \notin Highs PROVE Spec => ImplementsFlowCount
  OBVIOUS
<1> DEFINE TableInv == /\ Inv /\ AllArrived /\ AllDone /\ ArrivalsBounded
                       /\ SlotsInv /\ SlotsExact
<1>1. Init => TableInv /\ Table!Init
  <2> SUFFICES ASSUME Init PROVE TableInv /\ Table!Init
    OBVIOUS
  <2>1. Inv /\ AllArrived
    BY InitTotals DEF TotalsInv
  <2>2. AllDone
    <3>1. Len(<<>>) = 0
      BY EmptySeq
    <3>2. /\ \A t \in Threads : DoneBy[t] = 0
          /\ \A f \in Flows : seen[f] = 0
      BY <3>1 DEF Init, DoneBy
    <3>3. /\ SumFunctionOnSet(DoneBy, Threads) = 0
          /\ SumFunctionOnSet(seen, Flows) = 0
      BY <3>2, FiniteThreads, FiniteFlows, SumZero
    <3> QED
      BY <3>2, <3>3 DEF AllDone
  <2>3. ArrivalsBounded
    BY PipelineAssumption DEF Init, ArrivalsBounded
  <2>4. SlotsInv /\ SlotsExact
    BY DEF Init, SlotsInv, SlotsOf, SlotsExact, SlotExact
  <2>5. Table!Init
    <3>1. \A b \in Buckets, h \in Highs : <<b, h>> \in Flows
      BY DEF Flows
    <3>2. \A b \in Buckets : Names(b) = {}
      BY DEF Init, Names
    <3> QED
      BY <3>1, <3>2 DEF Init, Table!Init
  <2> QED
    BY <2>1, <2>2, <2>3, <2>4, <2>5
<1>2. TableInv /\ [Next]_vars => TableInv'
  BY StepInv, StepArrived, StepDone, StepBounded, StepSlots, StepExact DEF Inv
<1>3. TableInv /\ [Next]_vars => [Table!Next]_Table!vars
  BY StepTable
<1> QED
  BY <1>1, <1>2, <1>3, PTL DEF Spec, ImplementsFlowCount, Table!Spec
=============================================================================
