----------------------- MODULE RunToCompletion_proofs -----------------------
(***************************************************************************)
(* Proofs about RunToCompletion, for any number of queues, buffers and     *)
(* flows and any burst size.                                               *)
(***************************************************************************)
EXTENDS RunToCompletion, Lemmas

-----------------------------------------------------------------------------
(* Counting in sequences.                                                  *)
Places(s, T) == {i \in DOMAIN s : s[i] \in T}

(* The places are finitely many.                                           *)
LEMMA PlacesFinite ==
  ASSUME NEW S, NEW s \in Seq(S), NEW T
  PROVE  /\ DOMAIN s = 1 .. Len(s) /\ Len(s) \in Nat
         /\ IsFiniteSet(Places(s, T)) /\ Times(s, T) = Cardinality(Places(s, T))
         /\ Times(s, T) \in Nat
<1>1. DOMAIN s = 1 .. Len(s) /\ Len(s) \in Nat
  BY LenProperties
<1>2. IsFiniteSet(1 .. Len(s))
  BY <1>1, FS_Interval
<1>3. IsFiniteSet(Places(s, T))
  BY <1>1, <1>2, FS_Subset DEF Places
<1>4. Times(s, T) = Cardinality(Places(s, T))
  BY DEF Times, Places
<1> QED
  BY <1>1, <1>3, <1>4, FS_CardinalityType

(* Nothing is in the empty sequence.                                       *)
LEMMA TimesEmpty == \A T : Times(<<>>, T) = 0
<1>1. \A T : {i \in DOMAIN <<>> : <<>>[i] \in T} = {}
  OBVIOUS
<1> QED
  BY <1>1, FS_EmptySet DEF Times

(* A sequence has what its parts have.                                     *)
LEMMA TimesConcat ==
  ASSUME NEW S, NEW s \in Seq(S), NEW u \in Seq(S), NEW T
  PROVE  Times(s \o u, T) = Times(s, T) + Times(u, T)
<1> DEFINE A == Places(s, T)
           B == Places(u, T)
           C == Places(s \o u, T)
           D == {i \in C : i > Len(s)}
<1>1. /\ s \o u \in Seq(S) /\ Len(s \o u) = Len(s) + Len(u)
      /\ \A i \in 1 .. Len(s) + Len(u) : (s \o u)[i] =
           IF i <= Len(s) THEN s[i] ELSE u[i - Len(s)]
  BY ConcatProperties
<1>2. /\ DOMAIN s = 1 .. Len(s) /\ Len(s) \in Nat
      /\ DOMAIN u = 1 .. Len(u) /\ Len(u) \in Nat
      /\ IsFiniteSet(A) /\ Times(s, T) = Cardinality(A)
      /\ IsFiniteSet(B) /\ Times(u, T) = Cardinality(B)
      /\ Times(s, T) \in Nat /\ Times(u, T) \in Nat
  BY PlacesFinite
<1>3. DOMAIN (s \o u) = 1 .. Len(s) + Len(u) /\ Times(s \o u, T) = Cardinality(C)
  BY <1>1, PlacesFinite
<1>4. C = A \cup D /\ A \cap D = {}
  BY <1>1, <1>2, <1>3 DEF Places
<1>5. ExistsBijection(B, D)
  <2> DEFINE f == [i \in B |-> i + Len(s)]
  <2>1. \A i \in B : f[i] \in D
    BY <1>1, <1>2, <1>3 DEF Places
  <2>2. \A i, j \in B : f[i] = f[j] => i = j
    BY <1>2 DEF Places
  <2>3. \A k \in D : k - Len(s) \in B /\ f[k - Len(s)] = k
    BY <1>1, <1>2, <1>3 DEF Places
  <2>4. f \in Bijection(B, D)
    <3>1. f \in [B -> D]
      BY <2>1
    <3> HIDE DEF f, B, D
    <3>2. \A k \in D : \E i \in B : f[i] = k
      BY <2>3
    <3> QED
      BY <2>2, <3>1, <3>2 DEF Bijection, Injection, Surjection, IsInjective
  <2> QED
    BY <2>4, Zenon DEF ExistsBijection
<1>6. IsFiniteSet(D) /\ Cardinality(D) = Cardinality(B)
  BY <1>2, <1>5, FS_Bijection
<1>7. Cardinality(A \cup D) = Cardinality(A) + Cardinality(D) - Cardinality({})
  BY <1>2, <1>4, <1>6, FS_Union
<1> HIDE DEF A, B, C, D
<1> QED
  BY <1>2, <1>3, <1>4, <1>6, <1>7, FS_EmptySet

OneIf(p) == IF p THEN 1 ELSE 0

(* One element more, at the end or at the front.                           *)
LEMMA TimesOne ==
  ASSUME NEW S, NEW x \in S, NEW T
  PROVE  <<x>> \in Seq(S) /\ Times(<<x>>, T) = OneIf(x \in T)
<1>1. <<x>> \in Seq(S) /\ DOMAIN <<x>> = {1} /\ <<x>>[1] = x
  OBVIOUS
<1>2. {i \in DOMAIN <<x>> : <<x>>[i] \in T} = IF x \in T THEN {1} ELSE {}
  BY <1>1
<1> QED
  BY <1>1, <1>2, FS_EmptySet, FS_Singleton DEF Times, OneIf

(* At the end.                                                             *)
LEMMA TimesAppend ==
  ASSUME NEW S, NEW s \in Seq(S), NEW x \in S, NEW T
  PROVE  Times(Append(s, x), T) = Times(s, T) + OneIf(x \in T)
<1>1. Append(s, x) = s \o <<x>>
  BY AppendIsConcat
<1>2. <<x>> \in Seq(S) /\ Times(<<x>>, T) = OneIf(x \in T)
  BY TimesOne
<1>3. Times(s \o <<x>>, T) = Times(s, T) + Times(<<x>>, T)
  BY <1>2, TimesConcat
<1> QED
  BY <1>1, <1>2, <1>3

(* At the front.                                                           *)
LEMMA TimesTail ==
  ASSUME NEW S, NEW s \in Seq(S), s # <<>>, NEW T
  PROVE  Times(s, T) = OneIf(Head(s) \in T) + Times(Tail(s), T)
<1>1. /\ Tail(s) \in Seq(S) /\ Head(s) \in S /\ Head(s) = s[1]
      /\ Len(s) \in Nat /\ Len(s) # 0
  BY HeadTailProperties, LenProperties, EmptySeq
<1>2. s = <<Head(s)>> \o Tail(s)
  <2>1. 1 \in 1 .. Len(s) /\ Len(s) \in 1 .. Len(s)
    BY <1>1
  <2>2. SubSeq(s, 1, Len(s)) = <<s[1]>> \o SubSeq(s, 1 + 1, Len(s))
    BY <2>1, SubSeqRecursiveFirst
  <2>3. SubSeq(s, 1, Len(s)) = s
    BY SubSeqFull
  <2>4. Tail(SubSeq(s, 1, Len(s))) = SubSeq(s, 1 + 1, Len(s))
    BY <2>1, HeadTailOfSubSeq
  <2> QED
    BY <1>1, <2>2, <2>3, <2>4
<1>3. <<Head(s)>> \in Seq(S) /\ Times(<<Head(s)>>, T) = OneIf(Head(s) \in T)
  BY <1>1, TimesOne
<1>4. Times(<<Head(s)>> \o Tail(s), T) = Times(<<Head(s)>>, T) + Times(Tail(s), T)
  BY <1>1, <1>3, TimesConcat
<1> QED
  BY <1>2, <1>3, <1>4

(* Only the elements matter.                                               *)
LEMMA TimesSame ==
  ASSUME NEW s, NEW T, NEW U, \A i \in DOMAIN s : s[i] \in T <=> s[i] \in U
  PROVE  Times(s, T) = Times(s, U)
<1>1. {i \in DOMAIN s : s[i] \in T} = {i \in DOMAIN s : s[i] \in U}
  OBVIOUS
<1> QED
  BY <1>1 DEF Times

(* What a sequence has, it has at least once.                              *)
LEMMA TimesSome ==
  ASSUME NEW S, NEW s \in Seq(S), NEW i \in 1 .. Len(s)
  PROVE  Times(s, {s[i]}) >= 1
<1>1. IsFiniteSet(Places(s, {s[i]})) /\ i \in Places(s, {s[i]})
      /\ Times(s, {s[i]}) = Cardinality(Places(s, {s[i]}))
  BY PlacesFinite DEF Places
<1>2. Cardinality(Places(s, {s[i]})) # 0 /\ Cardinality(Places(s, {s[i]})) \in Nat
  BY <1>1, FS_EmptySet, FS_CardinalityType
<1> QED
  BY <1>1, <1>2

-----------------------------------------------------------------------------
(* Sequences.                                                              *)

(* A burst after its first k buffers.                                      *)
From(s, k) == SubSeq(s, k + 1, Len(s))

(* Its first buffer, and what follows it.                                  *)
LEMMA FromKth ==
  ASSUME NEW S, NEW s \in Seq(S), NEW k \in Nat, k < Len(s)
  PROVE  /\ From(s, k) \in Seq(S)
         /\ From(s, k) # <<>>
         /\ s[k + 1] \in S
         /\ Head(From(s, k)) = s[k + 1]
         /\ Tail(From(s, k)) = From(s, k + 1)
         /\ k + 1 = Len(s) => Tail(From(s, k)) = <<>>
         /\ k = 0 => From(s, k) = s
<1>0. Len(s) \in Nat /\ k + 1 \in 1 .. Len(s) /\ Len(s) \in 1 .. Len(s)
  BY LenProperties
<1>1. /\ SubSeq(s, k + 1, Len(s)) \in Seq(S)
      /\ Len(SubSeq(s, k + 1, Len(s))) = Len(s) - k
  BY <1>0, SubSeqProperties
<1>2. SubSeq(s, k + 1, Len(s)) # <<>>
  BY <1>0, <1>1, EmptySeq
<1>3. /\ Head(SubSeq(s, k + 1, Len(s))) = s[k + 1]
      /\ Tail(SubSeq(s, k + 1, Len(s))) = SubSeq(s, k + 1 + 1, Len(s))
  BY <1>0, HeadTailOfSubSeq
<1>4. s[k + 1] \in S
  BY <1>0, ElementOfSeq
<1>5. k + 1 = Len(s) => SubSeq(s, k + 1 + 1, Len(s)) = <<>>
  BY <1>0, SubSeqEmpty
<1>6. k = 0 => SubSeq(s, k + 1, Len(s)) = s
  BY SubSeqFull
<1> QED
  BY <1>1, <1>2, <1>3, <1>4, <1>5, <1>6, Zenon DEF From

(* The first n elements of a sequence, and the others.                     *)
Taken(s, n) == SubSeq(s, 1, n)
Left(s, n) == SubSeq(s, n + 1, Len(s))

(* A sequence is both, one after the other.                                *)
LEMMA CutAt ==
  ASSUME NEW S, NEW s \in Seq(S), NEW n \in 1 .. Len(s)
  PROVE  /\ Taken(s, n) \in Seq(S) /\ Len(Taken(s, n)) = n
         /\ \A i \in 1 .. n : Taken(s, n)[i] = s[i]
         /\ Left(s, n) \in Seq(S) /\ Len(Left(s, n)) = Len(s) - n
         /\ \A i \in 1 .. Len(s) - n : Left(s, n)[i] = s[n + i]
         /\ s = Taken(s, n) \o Left(s, n)
<1> DEFINE a == Taken(s, n)
           c == Left(s, n)
<1> HIDE DEF a, c
<1>0. Len(s) \in Nat /\ n \in Nat /\ 1 \in 1 .. Len(s)
  BY LenProperties
<1>1. \A i \in 1 .. Len(s) : s[i] \in S
  BY ElementOfSeq
<1>2. /\ SubSeq(s, 1, n) \in Seq(S)
      /\ Len(SubSeq(s, 1, n)) = IF 1 <= n THEN n - 1 + 1 ELSE 0
      /\ \A i \in 1 .. n - 1 + 1 : SubSeq(s, 1, n)[i] = s[1 + i - 1]
  <2>1. \A i \in 1 .. n : s[i] \in S
    BY <1>0, <1>1
  <2> QED
    BY <1>0, <2>1, SubSeqProperties
<1>3. /\ SubSeq(s, n + 1, Len(s)) \in Seq(S)
      /\ Len(SubSeq(s, n + 1, Len(s)))
           = IF n + 1 <= Len(s) THEN Len(s) - (n + 1) + 1 ELSE 0
      /\ \A i \in 1 .. Len(s) - (n + 1) + 1 :
           SubSeq(s, n + 1, Len(s))[i] = s[(n + 1) + i - 1]
  <2>1. \A i \in n + 1 .. Len(s) : s[i] \in S
    BY <1>0, <1>1
  <2>2. n + 1 \in Int /\ Len(s) \in Int
    BY <1>0
  <2> QED
    BY <2>1, <2>2, SubSeqProperties
<1>4. s = a \o c
  <2>1. SubSeq(s, 1, Len(s)) = SubSeq(s, 1, n) \o SubSeq(s, n + 1, Len(s))
    BY <1>0, ConcatAdjacentSubSeq
  <2> QED
    BY <2>1, SubSeqFull DEF a, c, Taken, Left
<1>5. a \in Seq(S) /\ Len(a) = n /\ \A i \in 1 .. n : a[i] = s[i]
  <2>1. /\ a \in Seq(S) /\ Len(a) = IF 1 <= n THEN n - 1 + 1 ELSE 0
        /\ \A i \in 1 .. n - 1 + 1 : a[i] = s[1 + i - 1]
    BY <1>2, Zenon DEF a, Taken
  <2>2. 1 <= n /\ n - 1 + 1 = n /\ \A i \in 1 .. n : 1 + i - 1 = i
    BY <1>0
  <2> QED
    BY <2>1, <2>2
<1>6. /\ c \in Seq(S) /\ Len(c) = Len(s) - n
      /\ \A i \in 1 .. Len(s) - n : c[i] = s[n + i]
  <2> DEFINE l == Len(s)
  <2>1. /\ c \in Seq(S) /\ Len(c) = IF n + 1 <= l THEN l - (n + 1) + 1 ELSE 0
        /\ \A i \in 1 .. l - (n + 1) + 1 : c[i] = s[(n + 1) + i - 1]
    BY <1>3, Zenon DEF c, l, Left
  <2>2. l \in Nat /\ n <= l
    BY <1>0
  <2> HIDE DEF l
  <2>3. l - (n + 1) + 1 = l - n /\ \A i \in 1 .. l - n : (n + 1) + i - 1 = n + i
    BY <1>0, <2>2
  <2>4. Len(c) = l - n
    BY <1>0, <2>1, <2>2
  <2>5. \A i \in 1 .. l - n : c[i] = s[n + i]
    BY <2>1, <2>3
  <2> QED
    BY <2>1, <2>4, <2>5 DEF l
<1> QED
  BY <1>4, <1>5, <1>6 DEF a, c

-----------------------------------------------------------------------------
(* Types, with what the other proofs need: a queue only ever handles       *)
(* buffers of its own pool, and packets of the flows that RSS sends to it. *)
Base ==
  /\ setup \in Setups
  /\ pool \in [Bufs -> Nat]
  /\ armed \in [Queues -> Seq(Bufs)] /\ filled \in [Queues -> Seq(Bufs)]
  /\ flow \in [Bufs -> Flows \cup {NoFlow}]
  /\ received \in [Flows -> 0 .. MaxPkts]
  /\ pc \in [Queues -> {"poll", "packets", "free"}]
  /\ bufs \in [Queues -> Seq(Bufs)]
  /\ buf \in [Queues -> Nat]
  /\ re \in [Queues -> Nat] /\ table \in [Flows -> Nat]

(* The buffers of queue t.                                                 *)
OwnBufs(t) ==
  /\ armed[t] \in Seq(BufsOf[t])
  /\ filled[t] \in Seq(BufsOf[t])
  /\ bufs[t] \in Seq(BufsOf[t])

(* The loop of thread t.                                                   *)
LoopOK(t) ==
  /\ Len(bufs[t]) <= BurstSize
  /\ buf[t] = 0 \/ buf[t] < Len(bufs[t])
  /\ pc[t] # "poll" => buf[t] < Len(bufs[t])
  /\ pc[t] = "free" => FreesAfter

(* The flows of the packets that queue t has.                              *)
OwnFlows(t) ==
  /\ \A i \in 1 .. Len(filled[t]) : flow[filled[t][i]] \in FlowsOf[t]
  /\ pc[t] = "packets" =>
       \A i \in buf[t] + 1 .. Len(bufs[t]) : flow[bufs[t][i]] \in FlowsOf[t]

MasterOK ==
  /\ mpc \in {"wait", "table", "queues", "exit"}
  /\ mpc = "table" => rest \subseteq Flows
  /\ mpc = "queues" => rest \subseteq Queues
  /\ sum \in Nat /\ printed \in Nat

Inv == /\ Base
       /\ \A t \in Queues : OwnBufs(t)
       /\ \A t \in Queues : LoopOK(t)
       /\ \A t \in Queues : OwnFlows(t)
       /\ MasterOK

(* It holds at the start.                                                  *)
LEMMA InitInv == Init => Inv
<1> SUFFICES ASSUME Init PROVE Inv
  OBVIOUS
<1>1. Base
  BY RtcAssumption DEF Init, Base
<1>2. \A t \in Queues : OwnBufs(t) /\ LoopOK(t) /\ OwnFlows(t)
  BY RtcAssumption DEF Init, OwnBufs, LoopOK, OwnFlows
<1>3. MasterOK
  BY DEF Init, MasterOK
<1> QED
  BY <1>1, <1>2, <1>3 DEF Inv

(* What the constants are.                                                 *)
LEMMA OfQueue ==
  ASSUME setup \in Setups, NEW t \in Queues
  PROVE  /\ BufsOf[t] \subseteq Bufs
         /\ FlowsOf[t] \subseteq Flows
         /\ \A u \in Queues \ {t} : /\ BufsOf[t] \cap BufsOf[u] = {}
                                    /\ FlowsOf[t] \cap FlowsOf[u] = {}
BY RtcAssumption DEF Bufs, FlowsOf, Setup

(* The buffers of a queue are buffers.                                     *)
LEMMA OwnSeq ==
  ASSUME NEW t \in Queues, NEW s \in Seq(BufsOf[t])
  PROVE  s \in Seq(Bufs)
<1>1. BufsOf[t] \subseteq Bufs
  BY DEF Bufs
<1> QED
  BY <1>1, SeqDef

(* A step that leaves the threads alone.                                   *)
LEMMA ThreadsSame ==
  ASSUME UNCHANGED <<setup, threadVars>>, NEW t
  PROVE  /\ LoopOK(t)' <=> LoopOK(t)
         /\ Unfreed(t)' = Unfreed(t) /\ Unprocessed(t)' = Unprocessed(t)
BY DEF threadVars, LoopOK, FreesAfter, FreesInLoop, Unfreed, Unprocessed, FromBuf

(* A descriptor is given a buffer.                                         *)
LEMMA ArmInv ==
  ASSUME Inv, NEW t \in Queues, Arm(t)
  PROVE  /\ Inv'
         /\ \E b \in BufsOf[t] :
              /\ pool[b] > 0
              /\ pool' = [pool EXCEPT ![b] = @ - 1]
              /\ armed' = [armed EXCEPT ![t] = Append(@, b)]
<1>1. PICK b \in BufsOf[t] : /\ pool[b] > 0
                             /\ pool' = [pool EXCEPT ![b] = @ - 1]
                             /\ armed' = [armed EXCEPT ![t] = Append(@, b)]
  BY DEF Arm
<1>2. UNCHANGED <<setup, filled, flow, received, threadVars, counters, masterVars>>
  BY DEF Arm
<1>3. b \in Bufs /\ BufsOf[t] \subseteq Bufs
  BY OfQueue DEF Inv, Base
<1>4. Append(armed[t], b) \in Seq(BufsOf[t])
  BY AppendProperties DEF Inv, OwnBufs
<1>5. Base'
  <2>1. Append(armed[t], b) \in Seq(Bufs)
    BY <1>4, OwnSeq
  <2> QED
    BY <1>1, <1>2, <1>3, <2>1 DEF Inv, Base, threadVars, counters
<1>6. \A u \in Queues : OwnBufs(u)'
  BY <1>1, <1>2, <1>4 DEF Inv, Base, OwnBufs, threadVars
<1>7. \A u \in Queues : LoopOK(u)' /\ OwnFlows(u)'
  BY <1>2 DEF Inv, LoopOK, OwnFlows, threadVars, FreesAfter, FlowsOf
<1>8. MasterOK'
  BY <1>2 DEF Inv, MasterOK, masterVars
<1> QED
  BY <1>1, <1>5, <1>6, <1>7, <1>8 DEF Inv

(* A packet is written to a buffer.                                        *)
LEMMA ArriveInv ==
  ASSUME Inv, NEW t \in Queues, NEW f \in FlowsOf[t], Arrive(t, f)
  PROVE  /\ Inv'
         /\ Head(armed[t]) \in BufsOf[t]
<1> DEFINE b == Head(armed[t])
<1>1. /\ armed[t] # <<>>
      /\ received[f] < MaxPkts
      /\ received' = [received EXCEPT ![f] = @ + 1]
      /\ flow' = [flow EXCEPT ![b] = f]
      /\ filled' = [filled EXCEPT ![t] = Append(@, b)]
      /\ armed' = [armed EXCEPT ![t] = Tail(@)]
      /\ UNCHANGED <<setup, pool, threadVars, counters, masterVars>>
  BY DEF Arrive
<1>2. b \in BufsOf[t] /\ Tail(armed[t]) \in Seq(BufsOf[t])
  BY <1>1, HeadTailProperties DEF Inv, OwnBufs
<1>3. b \in Bufs /\ f \in Flows
  BY <1>2, OfQueue DEF Inv, Base
<1> HIDE DEF b
<1>4. /\ Append(filled[t], b) \in Seq(BufsOf[t])
      /\ Len(filled[t]) \in Nat
      /\ Len(Append(filled[t], b)) = Len(filled[t]) + 1
      /\ \A i \in 1 .. Len(filled[t]) : Append(filled[t], b)[i] = filled[t][i]
      /\ Append(filled[t], b)[Len(filled[t]) + 1] = b
  <2>1. filled[t] \in Seq(BufsOf[t])
    BY DEF Inv, OwnBufs
  <2>2. \A s \in Seq(BufsOf[t]) :
          /\ Append(s, b) \in Seq(BufsOf[t])
          /\ Len(s) \in Nat
          /\ Len(Append(s, b)) = Len(s) + 1
          /\ \A i \in 1 .. Len(s) : Append(s, b)[i] = s[i]
          /\ Append(s, b)[Len(s) + 1] = b
    BY <1>2, AppendProperties, LenProperties
  <2> QED
    BY <2>1, <2>2, Zenon
<1>5. Base'
  <2>1. Append(filled[t], b) \in Seq(Bufs) /\ Tail(armed[t]) \in Seq(Bufs)
    BY <1>2, <1>4, OwnSeq
  <2>2. received' \in [Flows -> 0 .. MaxPkts]
    BY <1>1, <1>3, RtcAssumption DEF Inv, Base
  <2>3. flow' \in [Bufs -> Flows \cup {NoFlow}]
    BY <1>1, <1>3 DEF Inv, Base
  <2>4. armed' \in [Queues -> Seq(Bufs)] /\ filled' \in [Queues -> Seq(Bufs)]
    BY <1>1, <2>1 DEF Inv, Base
  <2> QED
    BY <1>1, <2>2, <2>3, <2>4 DEF Inv, Base, threadVars, counters
<1>6. \A u \in Queues : OwnBufs(u)'
  BY <1>1, <1>2, <1>4 DEF Inv, Base, OwnBufs, threadVars
<1>7. \A u \in Queues : LoopOK(u)'
  BY <1>1, ThreadsSame DEF Inv
<1>8. \A u \in Queues : OwnFlows(u)'
  <2> SUFFICES ASSUME NEW u \in Queues PROVE OwnFlows(u)'
    OBVIOUS
  <2>1. \A c \in BufsOf[u] : flow[c] \in FlowsOf[u] => flow'[c] \in FlowsOf[u]
    <3>1. CASE u = t
      BY <1>1, <1>3, <3>1 DEF Inv, Base
    <3>2. CASE u # t
      <4>1. BufsOf[t] \cap BufsOf[u] = {}
        BY <3>2, OfQueue DEF Inv, Base
      <4>2. \A c \in BufsOf[u] : c # b
        BY <1>2, <4>1
      <4>3. \A c \in BufsOf[u] : flow'[c] = flow[c]
        <5>1. BufsOf[u] \subseteq Bufs
          BY DEF Bufs
        <5> QED
          BY <1>1, <4>2, <5>1 DEF Inv, Base
      <4> QED
        BY <4>3
    <3> QED
      BY <3>1, <3>2
  <2>2. FlowsOf' = FlowsOf /\ bufs' = bufs /\ buf' = buf /\ pc' = pc
    BY <1>1 DEF FlowsOf, threadVars
  <2>3. ASSUME pc[u] = "packets", NEW i \in buf[u] + 1 .. Len(bufs[u])
        PROVE  flow'[bufs[u][i]] \in FlowsOf[u]
    <3>1. bufs[u][i] \in BufsOf[u]
      <4>1. Len(bufs[u]) \in Nat /\ buf[u] \in Nat /\ bufs[u] \in Seq(BufsOf[u])
        BY LenProperties DEF Inv, Base, OwnBufs
      <4>2. i \in 1 .. Len(bufs[u])
        BY <4>1
      <4> QED
        BY <4>1, <4>2, ElementOfSeq
    <3> QED
      BY <2>1, <2>3, <3>1 DEF Inv, OwnFlows
  <2>4. ASSUME NEW i \in 1 .. Len(filled'[u])
        PROVE  flow'[filled'[u][i]] \in FlowsOf[u]
    <3>1. \A j \in 1 .. Len(filled[u]) : filled[u][j] \in BufsOf[u]
      BY ElementOfSeq DEF Inv, OwnBufs
    <3>2. \A j \in 1 .. Len(filled[u]) : flow'[filled[u][j]] \in FlowsOf[u]
      BY <2>1, <3>1 DEF Inv, OwnFlows
    <3>3. CASE u # t
      BY <1>1, <2>4, <3>2, <3>3 DEF Inv, Base
    <3>4. CASE u = t
      <4>1. filled'[u] = Append(filled[u], b)
        BY <1>1, <3>4 DEF Inv, Base
      <4>2. flow'[b] = f
        BY <1>1, <1>3 DEF Inv, Base
      <4>3. CASE i = Len(filled[u]) + 1
        BY <1>4, <3>4, <4>1, <4>2, <4>3
      <4>4. CASE i # Len(filled[u]) + 1
        <5>1. i \in 1 .. Len(filled[u])
          BY <1>4, <2>4, <3>4, <4>1, <4>4
        <5> QED
          BY <1>4, <3>2, <3>4, <4>1, <5>1
      <4> QED
        BY <4>3, <4>4
    <3> QED
      BY <3>3, <3>4
  <2> QED
    BY <2>2, <2>3, <2>4 DEF OwnFlows
<1>9. MasterOK'
  BY <1>1 DEF Inv, MasterOK, masterVars
<1> QED
  BY <1>2, <1>5, <1>6, <1>7, <1>8, <1>9 DEF Inv, b

(* A step leaves the thread of queue t alone.                              *)
SameThread(t) == pc'[t] = pc[t] /\ bufs'[t] = bufs[t] /\ buf'[t] = buf[t]

(* It then leaves alone what the thread holds.                             *)
LEMMA OtherThread ==
  ASSUME setup' = setup, NEW t, SameThread(t)
  PROVE  /\ LoopOK(t)' <=> LoopOK(t)
         /\ Unfreed(t)' = Unfreed(t) /\ Unprocessed(t)' = Unprocessed(t)
BY DEF SameThread, LoopOK, FreesAfter, FreesInLoop, Unfreed, Unprocessed, FromBuf

(* A burst is taken.                                                       *)
LEMMA RxBurstInv ==
  ASSUME Inv, NEW t \in Queues, RxBurst(t)
  PROVE  /\ Inv'
         /\ setup' = setup /\ \A u \in Queues \ {t} : SameThread(u)
         /\ Unprocessed(t) = <<>> /\ Unfreed(t) = <<>>
         /\ \E n \in 1 .. Len(filled[t]) :
              /\ Unprocessed(t)' = SubSeq(filled[t], 1, n)
              /\ Unfreed(t)' = SubSeq(filled[t], 1, n)
              /\ filled' = [filled EXCEPT ![t] = SubSeq(@, n + 1, Len(@))]
              /\ re' = [re EXCEPT ![t] = @ + n]
<1>1. PICK n \in 1 .. BurstSize :
        /\ n <= Len(filled[t])
        /\ bufs' = [bufs EXCEPT ![t] = SubSeq(filled[t], 1, n)]
        /\ filled' = [filled EXCEPT ![t] = SubSeq(@, n + 1, Len(@))]
        /\ re' = [re EXCEPT ![t] = @ + n]
  BY DEF RxBurst, Take
<1>2. /\ pc[t] = "poll"
      /\ buf' = [buf EXCEPT ![t] = 0]
      /\ pc' = [pc EXCEPT ![t] = "packets"]
      /\ UNCHANGED <<setup, pool, armed, flow, received, table, masterVars>>
  BY DEF RxBurst, Start
<1> DEFINE s == filled[t]
           a == Taken(s, n)
           c == Left(s, n)
<1>3. s \in Seq(BufsOf[t]) /\ Len(s) \in Nat /\ n \in Nat /\ n \in 1 .. Len(s)
  <2>1. s \in Seq(BufsOf[t])
    BY DEF Inv, OwnBufs
  <2> QED
    BY <1>1, <2>1, LenProperties, RtcAssumption
<1>4. /\ a \in Seq(BufsOf[t]) /\ c \in Seq(BufsOf[t]) /\ Len(a) = n
      /\ \A i \in 1 .. n : a[i] = s[i]
      /\ Len(c) = Len(s) - n
      /\ \A i \in 1 .. Len(s) - n : c[i] = s[n + i]
  <2> HIDE DEF s
  <2> QED
    BY <1>3, CutAt DEF a, c
<1> HIDE DEF a, c
<1>5. /\ bufs'[t] = a /\ filled'[t] = c /\ buf'[t] = 0 /\ pc'[t] = "packets"
      /\ \A u \in Queues \ {t} : SameThread(u) /\ filled'[u] = filled[u]
  BY <1>1, <1>2 DEF Inv, Base, SameThread, a, c, Taken, Left
<1>6. Base'
  <2>1. a \in Seq(Bufs) /\ c \in Seq(Bufs)
    BY <1>4, OwnSeq
  <2>2. bufs' \in [Queues -> Seq(Bufs)] /\ filled' \in [Queues -> Seq(Bufs)]
    BY <1>1, <2>1 DEF Inv, Base, a, c, Taken, Left
  <2>3. re' \in [Queues -> Nat] /\ buf' \in [Queues -> Nat]
        /\ pc' \in [Queues -> {"poll", "packets", "free"}]
    BY <1>1, <1>2, <1>3 DEF Inv, Base
  <2> QED
    BY <1>2, <2>2, <2>3 DEF Inv, Base
<1>7. ASSUME NEW u \in Queues PROVE OwnBufs(u)' /\ LoopOK(u)' /\ OwnFlows(u)'
  <2>1. CASE u # t
    <3>1. OwnBufs(u)'
      BY <1>2, <1>5, <2>1 DEF Inv, OwnBufs, SameThread
    <3>2. LoopOK(u)'
      BY <1>2, <1>5, <2>1, OtherThread DEF Inv
    <3>3. OwnFlows(u)'
      BY <1>2, <1>5, <2>1 DEF Inv, OwnFlows, SameThread, FlowsOf
    <3> QED
      BY <3>1, <3>2, <3>3
  <2>2. CASE u = t
    <3>1. OwnBufs(u)'
      BY <1>2, <1>4, <1>5, <2>2 DEF Inv, OwnBufs
    <3>2. LoopOK(u)'
      BY <1>1, <1>2, <1>3, <1>4, <1>5, <2>2 DEF LoopOK
    <3>3. OwnFlows(u)'
      <4>0. \A i \in 1 .. Len(s) : flow[s[i]] \in FlowsOf[t]
        BY DEF Inv, OwnFlows
      <4> HIDE DEF s
      <4>1. \A i \in 1 .. n : flow[a[i]] \in FlowsOf[t]
        BY <1>3, <1>4, <4>0
      <4>2. \A i \in 1 .. Len(s) - n : flow[c[i]] \in FlowsOf[t]
        BY <1>3, <1>4, <4>0
      <4>3. FlowsOf' = FlowsOf /\ flow' = flow
        BY <1>2 DEF FlowsOf
      <4>4. \A i \in 1 .. Len(filled'[u]) : flow'[filled'[u][i]] \in FlowsOf'[u]
        BY <1>4, <1>5, <2>2, <4>2, <4>3
      <4>5. \A i \in buf'[u] + 1 .. Len(bufs'[u]) : flow'[bufs'[u][i]] \in FlowsOf'[u]
        BY <1>4, <1>5, <2>2, <4>1, <4>3
      <4> QED
        BY <4>4, <4>5 DEF OwnFlows
    <3> QED
      BY <3>1, <3>2, <3>3
  <2> QED
    BY <2>1, <2>2
<1>8. MasterOK'
  BY <1>2 DEF Inv, MasterOK, masterVars
<1>9. Inv'
  BY <1>6, <1>7, <1>8 DEF Inv
<1>10. Unprocessed(t)' = a /\ Unfreed(t)' = a
  <2>1. SubSeq(a, 1, Len(a)) = a
    BY <1>4, SubSeqFull
  <2>2. FromBuf(t)' = a
    BY <1>5, <2>1 DEF FromBuf
  <2> QED
    BY <1>5, <2>2 DEF Unprocessed, Unfreed
<1>11. Unprocessed(t) = <<>> /\ Unfreed(t) = <<>>
  BY <1>2 DEF Unprocessed, Unfreed
<1> QED
  BY <1>1, <1>2, <1>3, <1>5, <1>9, <1>10, <1>11 DEF a, Taken

(* What a thread holds is a sequence of buffers of its pool, and what it   *)
(* has still to process it has still to free.                              *)
LEMMA HeldBufs ==
  ASSUME Inv, NEW t \in Queues
  PROVE  /\ Unprocessed(t) \in Seq(BufsOf[t]) /\ Unfreed(t) \in Seq(BufsOf[t])
         /\ \A i \in 1 .. Len(Unprocessed(t)) :
              \E j \in 1 .. Len(Unfreed(t)) : Unprocessed(t)[i] = Unfreed(t)[j]
<1>1. /\ bufs[t] \in Seq(BufsOf[t]) /\ Len(bufs[t]) \in Nat /\ buf[t] \in Nat
      /\ pc[t] \in {"poll", "packets", "free"}
      /\ pc[t] # "poll" => buf[t] < Len(bufs[t])
  BY LenProperties DEF Inv, Base, OwnBufs, LoopOK
<1>2. <<>> \in Seq(BufsOf[t]) /\ Len(<<>>) = 0
  OBVIOUS
<1>3. pc[t] # "poll" =>
        /\ FromBuf(t) \in Seq(BufsOf[t])
        /\ Len(FromBuf(t)) = Len(bufs[t]) - buf[t]
        /\ \A i \in 1 .. Len(bufs[t]) - buf[t] : FromBuf(t)[i] = bufs[t][buf[t] + i]
  <2> SUFFICES ASSUME NEW S, NEW s \in Seq(S), NEW k \in Nat, k < Len(s)
               PROVE  /\ SubSeq(s, k + 1, Len(s)) \in Seq(S)
                      /\ Len(SubSeq(s, k + 1, Len(s))) = Len(s) - k
                      /\ \A i \in 1 .. Len(s) - k :
                           SubSeq(s, k + 1, Len(s))[i] = s[k + i]
    BY <1>1 DEF FromBuf
  <2>1. Len(s) \in Nat
    BY LenProperties
  <2>2. CASE k = 0
    <3>1. SubSeq(s, k + 1, Len(s)) = s
      BY <2>2, SubSeqFull
    <3> QED
      BY <2>1, <2>2, <3>1
  <2>3. CASE k # 0
    <3>1. k \in 1 .. Len(s) /\ SubSeq(s, k + 1, Len(s)) = Left(s, k)
      BY <2>1, <2>3 DEF Left
    <3> QED
      BY <3>1, CutAt
  <2> QED
    BY <2>2, <2>3
<1>4. CASE pc[t] = "packets" /\ ~FreesInLoop
  <2>1. Unprocessed(t) = FromBuf(t) /\ Unfreed(t) = bufs[t]
    BY <1>4 DEF Unprocessed, Unfreed
  <2>2. ASSUME NEW i \in 1 .. Len(FromBuf(t))
        PROVE  \E j \in 1 .. Len(bufs[t]) : FromBuf(t)[i] = bufs[t][j]
    <3>1. buf[t] + i \in 1 .. Len(bufs[t]) /\ FromBuf(t)[i] = bufs[t][buf[t] + i]
      BY <1>1, <1>3, <1>4
    <3> QED
      BY <3>1
  <2> QED
    BY <1>1, <1>3, <1>4, <2>1, <2>2
<1>5. CASE pc[t] = "packets" /\ FreesInLoop
  BY <1>3, <1>5 DEF Unprocessed, Unfreed
<1>6. CASE pc[t] = "free"
  BY <1>2, <1>3, <1>6 DEF Unprocessed, Unfreed
<1>7. CASE pc[t] = "poll"
  BY <1>2, <1>7 DEF Unprocessed, Unfreed
<1> QED
  BY <1>1, <1>4, <1>5, <1>6, <1>7

(* The end of an iteration.                                                *)
LEMMA AdvanceInv ==
  ASSUME Inv, NEW t \in Queues, pc[t] # "poll",
         NEW next \in {"poll", "free"}, next = "free" => FreesAfter,
         Advance(t, next), UNCHANGED <<setup, nicVars, bufs, masterVars>>,
         pool' \in [Bufs -> Nat], re' \in [Queues -> Nat],
         table' \in [Flows -> Nat]
  PROVE  /\ Inv'
         /\ \A u \in Queues \ {t} : SameThread(u)
         /\ FromBuf(t) \in Seq(BufsOf[t]) /\ FromBuf(t) # <<>>
         /\ Head(FromBuf(t)) = Current(t) /\ Current(t) \in BufsOf[t]
         /\ IsLast(t) => /\ Tail(FromBuf(t)) = <<>>
                         /\ pc'[t] = next
                         /\ FromBuf(t)' = bufs[t]
         /\ ~IsLast(t) => /\ Tail(FromBuf(t)) = FromBuf(t)'
                          /\ pc'[t] = pc[t]
<1>1. /\ bufs[t] \in Seq(BufsOf[t]) /\ Len(bufs[t]) \in Nat /\ buf[t] \in Nat
      /\ pc[t] \in {"packets", "free"} /\ buf[t] < Len(bufs[t])
      /\ Len(bufs[t]) <= BurstSize
  BY LenProperties DEF Inv, Base, OwnBufs, LoopOK
<1>2. /\ FromBuf(t) \in Seq(BufsOf[t]) /\ FromBuf(t) # <<>>
      /\ Head(FromBuf(t)) = Current(t) /\ Current(t) \in BufsOf[t]
      /\ Tail(FromBuf(t)) = From(bufs[t], buf[t] + 1)
      /\ buf[t] + 1 = Len(bufs[t]) => Tail(FromBuf(t)) = <<>>
  <2>1. FromBuf(t) = From(bufs[t], buf[t])
    BY DEF FromBuf, From
  <2> QED
    BY <1>1, <2>1, FromKth DEF Current
<1>3. ASSUME \A u \in Queues \ {t} : SameThread(u),
             LoopOK(t)', OwnFlows(t)', buf' \in [Queues -> Nat],
             pc' \in [Queues -> {"poll", "packets", "free"}]
      PROVE  Inv'
  <2>1. Base'
    BY <1>3 DEF Inv, Base, nicVars
  <2>2. \A u \in Queues : OwnBufs(u)'
    BY DEF Inv, OwnBufs, nicVars
  <2>3. \A u \in Queues : LoopOK(u)'
    BY <1>3, OtherThread DEF Inv
  <2>4. \A u \in Queues : OwnFlows(u)'
    <3>1. ASSUME NEW u \in Queues \ {t} PROVE OwnFlows(u)'
      BY <1>3 DEF Inv, OwnFlows, SameThread, nicVars, FlowsOf
    <3> QED
      BY <1>3, <3>1
  <2>5. MasterOK'
    BY DEF Inv, MasterOK, masterVars
  <2> QED
    BY <2>1, <2>2, <2>3, <2>4, <2>5 DEF Inv
<1>4. CASE IsLast(t)
  <2>1. /\ buf' = [buf EXCEPT ![t] = 0] /\ pc' = [pc EXCEPT ![t] = next]
        /\ buf[t] + 1 = Len(bufs[t])
    BY <1>4 DEF Advance, IsLast
  <2>2. buf'[t] = 0 /\ pc'[t] = next /\ bufs' = bufs
    BY <2>1 DEF Inv, Base
  <2>3. FromBuf(t)' = bufs[t]
    <3>1. SubSeq(bufs[t], 1, Len(bufs[t])) = bufs[t]
      BY <1>1, SubSeqFull
    <3> QED
      BY <2>2, <3>1 DEF FromBuf
  <2>4. \A u \in Queues \ {t} : SameThread(u)
    BY <2>1 DEF Inv, Base, SameThread
  <2>5. LoopOK(t)'
    BY <1>1, <2>2 DEF LoopOK, FreesAfter
  <2>6. OwnFlows(t)'
    BY <2>2 DEF OwnFlows, Inv, nicVars, FlowsOf
  <2>7. /\ buf' \in [Queues -> Nat]
        /\ pc' \in [Queues -> {"poll", "packets", "free"}]
    BY <2>1 DEF Inv, Base
  <2> QED
    BY <1>2, <1>3, <1>4, <2>1, <2>2, <2>3, <2>4, <2>5, <2>6, <2>7
<1>5. CASE ~IsLast(t)
  <2>1. /\ buf' = [buf EXCEPT ![t] = @ + 1] /\ pc' = pc
        /\ buf[t] + 1 # Len(bufs[t])
    BY <1>5 DEF Advance, IsLast
  <2>2. buf'[t] = buf[t] + 1 /\ pc'[t] = pc[t] /\ bufs' = bufs
    BY <2>1 DEF Inv, Base
  <2>3. FromBuf(t)' = Tail(FromBuf(t))
    BY <1>2, <2>2, Zenon DEF FromBuf, From
  <2>4. \A u \in Queues \ {t} : SameThread(u)
    BY <2>1 DEF Inv, Base, SameThread
  <2>5. LoopOK(t)'
    BY <1>1, <2>1, <2>2 DEF Inv, LoopOK, FreesAfter
  <2>6. OwnFlows(t)'
    <3>1. \A i \in buf'[t] + 1 .. Len(bufs[t]) : i \in buf[t] + 1 .. Len(bufs[t])
      BY <1>1, <2>2
    <3> QED
      BY <2>2, <3>1 DEF OwnFlows, Inv, nicVars, FlowsOf
  <2>7. /\ buf' \in [Queues -> Nat]
        /\ pc' \in [Queues -> {"poll", "packets", "free"}]
    BY <2>1 DEF Inv, Base
  <2> QED
    BY <1>2, <1>3, <1>5, <2>1, <2>2, <2>3, <2>4, <2>5, <2>6, <2>7
<1> QED
  BY <1>4, <1>5

(* A packet is processed.                                                  *)
LEMMA PacketInv ==
  ASSUME Inv, NEW t \in Queues, Packet(t)
  PROVE  /\ Inv'
         /\ setup' = setup /\ \A u \in Queues \ {t} : SameThread(u)
         /\ Unprocessed(t) # <<>>
         /\ Head(Unprocessed(t)) = Current(t) /\ Current(t) \in BufsOf[t]
         /\ Unprocessed(t)' = Tail(Unprocessed(t))
         /\ flow[Current(t)] \in FlowsOf[t]
         /\ FreesInLoop /\ ~FreesAfter =>
              Unfreed(t) = Unprocessed(t) /\ Unfreed(t)' = Unprocessed(t)'
         /\ ~FreesInLoop /\ FreesAfter => Unfreed(t)' = Unfreed(t)
<1>1. /\ pc[t] = "packets" /\ FreeHere(t)
      /\ table' = [table EXCEPT ![flow[Current(t)]] = @ + 1]
      /\ Advance(t, AfterPackets)
      /\ UNCHANGED <<setup, nicVars, bufs, re, masterVars>>
  BY DEF Packet
<1>2. /\ bufs[t] \in Seq(BufsOf[t]) /\ Len(bufs[t]) \in Nat /\ buf[t] \in Nat
      /\ buf[t] < Len(bufs[t])
  BY <1>1, LenProperties DEF Inv, Base, OwnBufs, LoopOK
<1>3. Current(t) \in Bufs /\ flow[Current(t)] \in FlowsOf[t]
  <2>1. buf[t] + 1 \in buf[t] + 1 .. Len(bufs[t]) /\ buf[t] + 1 \in 1 .. Len(bufs[t])
    BY <1>2
  <2>2. flow[Current(t)] \in FlowsOf[t]
    BY <1>1, <2>1 DEF Inv, OwnFlows, Current
  <2>3. Current(t) \in BufsOf[t]
    BY <1>2, <2>1, ElementOfSeq DEF Current
  <2> QED
    BY <2>2, <2>3, OfQueue DEF Inv, Base
<1>4. pool' \in [Bufs -> Nat]
  <2>1. CASE FreesInLoop
    <3>1. Freed(Current(t))
      BY <1>1, <2>1, Zenon DEF FreeHere
    <3>2. PICK c \in Bufs : c = Current(t)
      BY <1>3
    <3> QED
      BY <3>1, <3>2 DEF Inv, Base, Freed
  <2>2. CASE ~FreesInLoop
    BY <1>1, <2>2 DEF Inv, Base, FreeHere
  <2> QED
    BY <2>1, <2>2
<1>5. table' \in [Flows -> Nat]
  <2>1. PICK g \in Flows : g = flow[Current(t)]
    BY <1>3, OfQueue DEF Inv, Base
  <2>2. table' = [table EXCEPT ![g] = @ + 1]
    BY <1>1, <2>1
  <2> QED
    BY <2>2 DEF Inv, Base
<1>6. re' \in [Queues -> Nat]
  BY <1>1 DEF Inv, Base
<1>7. AfterPackets \in {"poll", "free"} /\ (AfterPackets = "free" => FreesAfter)
  BY DEF AfterPackets
<1>8. /\ Inv'
      /\ \A u \in Queues \ {t} : SameThread(u)
      /\ FromBuf(t) \in Seq(BufsOf[t]) /\ FromBuf(t) # <<>>
      /\ Head(FromBuf(t)) = Current(t) /\ Current(t) \in BufsOf[t]
      /\ IsLast(t) => /\ Tail(FromBuf(t)) = <<>>
                      /\ pc'[t] = AfterPackets
                      /\ FromBuf(t)' = bufs[t]
      /\ ~IsLast(t) => /\ Tail(FromBuf(t)) = FromBuf(t)'
                       /\ pc'[t] = pc[t]
  BY <1>1, <1>4, <1>5, <1>6, <1>7, AdvanceInv
<1>9. Unprocessed(t) = FromBuf(t) /\ FreesInLoop' = FreesInLoop
  BY <1>1 DEF Unprocessed, FreesInLoop
<1>10. Unprocessed(t)' = Tail(FromBuf(t))
  BY <1>1, <1>7, <1>8 DEF Unprocessed
<1>11. ASSUME FreesInLoop, ~FreesAfter
       PROVE  Unfreed(t) = Unprocessed(t) /\ Unfreed(t)' = Unprocessed(t)'
  <2>1. AfterPackets = "poll"
    BY <1>11 DEF AfterPackets
  <2> QED
    BY <1>1, <1>8, <1>9, <1>11, <2>1 DEF Unfreed, Unprocessed
<1>12. ASSUME ~FreesInLoop, FreesAfter PROVE Unfreed(t)' = Unfreed(t)
  <2>1. AfterPackets = "free"
    BY <1>12 DEF AfterPackets
  <2> QED
    BY <1>1, <1>8, <1>9, <1>12, <2>1 DEF Unfreed
<1> QED
  BY <1>1, <1>3, <1>8, <1>9, <1>10, <1>11, <1>12

(* A buffer is freed after the loop.                                       *)
LEMMA FreeInv ==
  ASSUME Inv, NEW t \in Queues, Free(t)
  PROVE  /\ Inv'
         /\ setup' = setup /\ \A u \in Queues \ {t} : SameThread(u)
         /\ Unfreed(t) # <<>>
         /\ Head(Unfreed(t)) = Current(t) /\ Current(t) \in BufsOf[t]
         /\ Unfreed(t)' = Tail(Unfreed(t))
         /\ Unprocessed(t)' = Unprocessed(t)
<1>1. /\ pc[t] = "free" /\ Freed(Current(t)) /\ Advance(t, "poll")
      /\ UNCHANGED <<setup, nicVars, bufs, counters, masterVars>>
  BY DEF Free
<1>2. /\ bufs[t] \in Seq(BufsOf[t]) /\ Len(bufs[t]) \in Nat /\ buf[t] \in Nat
      /\ buf[t] < Len(bufs[t])
  BY <1>1, LenProperties DEF Inv, Base, OwnBufs, LoopOK
<1>3. Current(t) \in Bufs
  <2>1. buf[t] + 1 \in 1 .. Len(bufs[t])
    BY <1>2
  <2>2. Current(t) \in BufsOf[t]
    BY <1>2, <2>1, ElementOfSeq DEF Current
  <2> QED
    BY <2>2, OfQueue DEF Inv, Base
<1>4. pool' \in [Bufs -> Nat]
  BY <1>1, <1>3 DEF Inv, Base, Freed
<1>5. table' \in [Flows -> Nat] /\ re' \in [Queues -> Nat]
  BY <1>1 DEF Inv, Base, counters
<1>8. /\ Inv'
      /\ \A u \in Queues \ {t} : SameThread(u)
      /\ FromBuf(t) \in Seq(BufsOf[t]) /\ FromBuf(t) # <<>>
      /\ Head(FromBuf(t)) = Current(t) /\ Current(t) \in BufsOf[t]
      /\ IsLast(t) => /\ Tail(FromBuf(t)) = <<>>
                      /\ pc'[t] = "poll"
                      /\ FromBuf(t)' = bufs[t]
      /\ ~IsLast(t) => /\ Tail(FromBuf(t)) = FromBuf(t)'
                       /\ pc'[t] = pc[t]
  BY <1>1, <1>4, <1>5, AdvanceInv
<1>9. Unfreed(t) = FromBuf(t) /\ Unprocessed(t) = <<>>
  BY <1>1 DEF Unprocessed, Unfreed
<1>10. Unfreed(t)' = Tail(FromBuf(t)) /\ Unprocessed(t)' = <<>>
  BY <1>1, <1>8 DEF Unprocessed, Unfreed
<1> QED
  BY <1>1, <1>8, <1>9, <1>10

MasterStep == Sigint \/ SumEntry \/ SumEnds \/ PrintQueue \/ Exit

(* The master leaves the threads alone.                                    *)
LEMMA MasterInv ==
  ASSUME Inv, MasterStep
  PROVE  Inv' /\ UNCHANGED <<setup, workers>>
<1>1. UNCHANGED <<setup, workers>>
  BY DEF MasterStep, Sigint, SumEntry, SumEnds, PrintQueue, Exit
<1>2. Base'
  BY <1>1 DEF Inv, Base, workers, nicVars, threadVars, counters
<1>3. \A t \in Queues : OwnBufs(t)' /\ LoopOK(t)' /\ OwnFlows(t)'
  BY <1>1 DEF Inv, OwnBufs, LoopOK, OwnFlows, workers, nicVars, threadVars,
              FlowsOf, FreesAfter
<1>4. MasterOK'
  BY DEF Inv, MasterOK, Base, MasterStep, Sigint, SumEntry, SumEnds, PrintQueue, Exit
<1> QED
  BY <1>1, <1>2, <1>3, <1>4 DEF Inv

(* A step is one of these.                                                 *)
LEMMA StepCases ==
  ASSUME Next
  PROVE  \/ \E t \in Queues : Arm(t)
         \/ \E t \in Queues : \E f \in FlowsOf[t] : Arrive(t, f)
         \/ \E t \in Queues : RxBurst(t)
         \/ \E t \in Queues : Packet(t)
         \/ \E t \in Queues : Free(t)
         \/ MasterStep
BY Zenon DEF Next, Thread, Handler, MasterStep

(* The invariant is kept by every step.                                    *)
LEMMA NextInv == Inv /\ [Next]_vars => Inv'
<1> SUFFICES ASSUME Inv, [Next]_vars PROVE Inv'
  OBVIOUS
<1>1. CASE UNCHANGED vars
  <2>1. Base' /\ MasterOK'
    BY <1>1 DEF Inv, Base, MasterOK, vars, nicVars, threadVars, counters, masterVars
  <2>2. \A t \in Queues : OwnBufs(t)' /\ LoopOK(t)' /\ OwnFlows(t)'
    BY <1>1 DEF Inv, OwnBufs, LoopOK, OwnFlows, vars, nicVars, threadVars,
                FlowsOf, FreesAfter
  <2> QED
    BY <2>1, <2>2 DEF Inv
<1>2. CASE Next
  BY <1>2, StepCases, ArmInv, ArriveInv, RxBurstInv, PacketInv, FreeInv, MasterInv
<1> QED
  BY <1>1, <1>2

(* Inv holds.                                                              *)
LEMMA AlwaysInv == Spec => []Inv
<1> QED
  BY InitInv, NextInv, PTL DEF Spec

(* TypeOK, with the loop index within the burst: no thread of              *)
(* run_to_completion/main.c reads bufs[buf] past what rte_eth_rx_burst     *)
(* returned.                                                               *)
THEOREM TypesCorrect == Spec => []TypeOK
<1>1. Inv => TypeOK
  BY DEF Inv, Base, LoopOK, MasterOK, TypeOK
<1> QED
  BY <1>1, AlwaysInv, PTL

-----------------------------------------------------------------------------
(* Each buffer is in one place, in the builds that free it at one place.   *)
FreedOnce == \A s \in Setups : s.freesInLoop # s.freesAfter

PlacesOf(t, b) == pool[b] + Times(armed[t], {b}) + Times(filled[t], {b})
                    + Times(Unfreed(t), {b})

(* The numbers that this adds up.                                          *)
LEMMA PlacesNat ==
  ASSUME Inv, NEW t \in Queues, NEW b \in BufsOf[t]
  PROVE  /\ pool[b] \in Nat /\ Times(armed[t], {b}) \in Nat
         /\ Times(filled[t], {b}) \in Nat /\ Times(Unfreed(t), {b}) \in Nat
<1>1. b \in Bufs
  BY OfQueue DEF Inv, Base
<1>2. /\ armed[t] \in Seq(BufsOf[t]) /\ filled[t] \in Seq(BufsOf[t])
      /\ Unfreed(t) \in Seq(BufsOf[t])
  BY HeldBufs DEF Inv, OwnBufs
<1> QED
  BY <1>1, <1>2, PlacesFinite DEF Inv, Base

(* A step that does not concern a buffer.                                  *)
LEMMA OtherPlaces ==
  ASSUME NEW t, NEW b, pool'[b] = pool[b], armed'[t] = armed[t],
         filled'[t] = filled[t], Unfreed(t)' = Unfreed(t)
  PROVE  PlacesOf(t, b)' = PlacesOf(t, b)
BY DEF PlacesOf

(* A buffer of another pool.                                               *)
LEMMA OtherPool ==
  ASSUME Inv, NEW t \in Queues, NEW u \in Queues \ {t}, NEW b \in BufsOf[u],
         NEW c \in BufsOf[t]
  PROVE  b # c /\ b \in Bufs /\ c \in Bufs
BY OfQueue DEF Inv, Base

(* Arm moves a buffer from the pool to the queue.                          *)
LEMMA ArmPlaces ==
  ASSUME Inv, NEW t \in Queues, Arm(t), NEW u \in Queues, NEW b \in BufsOf[u]
  PROVE  PlacesOf(u, b)' = PlacesOf(u, b)
<1>1. PICK c \in BufsOf[t] : /\ pool[c] > 0
                             /\ pool' = [pool EXCEPT ![c] = @ - 1]
                             /\ armed' = [armed EXCEPT ![t] = Append(@, c)]
  BY ArmInv
<1>2. UNCHANGED <<setup, filled, threadVars>>
  BY DEF Arm
<1>3. Unfreed(u)' = Unfreed(u)
  BY <1>2, ThreadsSame
<1>4. c \in Bufs
  BY OfQueue DEF Inv, Base
<1>5. CASE u # t
  <2>1. b # c /\ b \in Bufs
    BY <1>5, OtherPool
  <2> QED
    BY <1>1, <1>2, <1>3, <1>5, <2>1, OtherPlaces DEF Inv, Base
<1>6. CASE u = t
  <2> DEFINE A == Times(armed[t], {b})
             B == Times(filled[t], {b})
             C == Times(Unfreed(t), {b})
  <2>0. pool[b] \in Nat /\ A \in Nat /\ B \in Nat /\ C \in Nat /\ b \in Bufs
    BY <1>6, PlacesNat, OfQueue DEF Inv, Base
  <2>1. Times(Append(armed[t], c), {b}) = A + OneIf(c \in {b})
    BY TimesAppend DEF Inv, OwnBufs
  <2>2. armed'[t] = Append(armed[t], c)
    BY <1>1 DEF Inv, Base
  <2>3. PlacesOf(t, b)' = pool'[b] + (A + OneIf(c \in {b})) + B + C
    BY <1>2, <1>3, <1>6, <2>1, <2>2 DEF PlacesOf
  <2>4. PlacesOf(t, b) = pool[b] + A + B + C
    BY DEF PlacesOf
  <2>5. pool'[b] = pool[b] - OneIf(c \in {b})
    BY <1>1, <1>4, <2>0 DEF Inv, Base, OneIf
  <2>6. OneIf(c \in {b}) \in Nat
    BY DEF OneIf
  <2> HIDE DEF A, B, C
  <2> QED
    BY <1>6, <2>0, <2>3, <2>4, <2>5, <2>6
<1> QED
  BY <1>5, <1>6

(* Arrive moves one from armed to filled.                                  *)
LEMMA ArrivePlaces ==
  ASSUME Inv, NEW t \in Queues, NEW f \in FlowsOf[t], Arrive(t, f),
         NEW u \in Queues, NEW b \in BufsOf[u]
  PROVE  PlacesOf(u, b)' = PlacesOf(u, b)
<1> DEFINE c == Head(armed[t])
<1>1. /\ armed[t] # <<>>
      /\ filled' = [filled EXCEPT ![t] = Append(@, c)]
      /\ armed' = [armed EXCEPT ![t] = Tail(@)]
      /\ UNCHANGED <<setup, pool, threadVars>>
  BY DEF Arrive
<1>2. c \in BufsOf[t]
  BY ArriveInv
<1>3. Unfreed(u)' = Unfreed(u)
  BY <1>1, ThreadsSame
<1> HIDE DEF c
<1>5. CASE u # t
  <2>1. armed'[u] = armed[u] /\ filled'[u] = filled[u] /\ pool' = pool
    BY <1>1, <1>5 DEF Inv, Base
  <2> QED
    BY <1>3, <2>1, OtherPlaces
<1>6. CASE u = t
  <2> DEFINE A == Times(armed[t], {b})
             T == Times(Tail(armed[t]), {b})
             B == Times(filled[t], {b})
             C == Times(Unfreed(t), {b})
             o == OneIf(c \in {b})
  <2>0. /\ pool[b] \in Nat /\ A \in Nat /\ B \in Nat /\ C \in Nat
        /\ armed[t] \in Seq(BufsOf[t]) /\ filled[t] \in Seq(BufsOf[t])
    BY <1>6, PlacesNat DEF Inv, OwnBufs
  <2>1. Times(Append(filled[t], c), {b}) = B + o
    BY <1>2, <2>0, TimesAppend
  <2>2. A = o + T /\ T \in Nat
    <3>1. A = o + T
      BY <1>1, <2>0, TimesTail DEF c
    <3>2. Tail(armed[t]) \in Seq(BufsOf[t])
      BY <1>1, <2>0, HeadTailProperties
    <3> QED
      BY <3>1, <3>2, PlacesFinite
  <2>3. armed'[t] = Tail(armed[t]) /\ filled'[t] = Append(filled[t], c)
    BY <1>1 DEF Inv, Base
  <2>4. PlacesOf(t, b)' = pool[b] + T + (B + o) + C
    BY <1>1, <1>3, <1>6, <2>1, <2>3 DEF PlacesOf
  <2>5. PlacesOf(t, b) = pool[b] + A + B + C
    BY DEF PlacesOf
  <2>6. o \in Nat
    BY DEF OneIf
  <2> HIDE DEF A, B, C, T, o
  <2> QED
    BY <1>6, <2>0, <2>2, <2>4, <2>5, <2>6
<1> QED
  BY <1>5, <1>6

(* RxBurst moves some from filled to the thread.                           *)
LEMMA RxBurstPlaces ==
  ASSUME Inv, NEW t \in Queues, RxBurst(t), NEW u \in Queues, NEW b \in BufsOf[u]
  PROVE  PlacesOf(u, b)' = PlacesOf(u, b)
<1>1. /\ setup' = setup /\ \A v \in Queues \ {t} : SameThread(v)
      /\ Unfreed(t) = <<>>
  BY RxBurstInv
<1>2. PICK n \in 1 .. Len(filled[t]) :
        /\ Unfreed(t)' = Taken(filled[t], n)
        /\ filled' = [filled EXCEPT ![t] = Left(@, n)]
  BY RxBurstInv DEF Taken, Left
<1>3. UNCHANGED <<pool, armed>>
  BY DEF RxBurst
<1>5. CASE u # t
  <2>1. filled'[u] = filled[u]
    BY <1>2, <1>5 DEF Inv, Base
  <2>2. Unfreed(u)' = Unfreed(u)
    BY <1>1, <1>5, OtherThread
  <2> QED
    BY <1>3, <2>1, <2>2, OtherPlaces
<1>6. CASE u = t
  <2> DEFINE A == Times(armed[t], {b})
             B == Times(filled[t], {b})
             P == Times(Taken(filled[t], n), {b})
             Q == Times(Left(filled[t], n), {b})
  <2>0. /\ pool[b] \in Nat /\ A \in Nat /\ B \in Nat
        /\ filled[t] \in Seq(BufsOf[t])
    BY <1>6, PlacesNat DEF Inv, OwnBufs
  <2>1. /\ Taken(filled[t], n) \in Seq(BufsOf[t])
        /\ Left(filled[t], n) \in Seq(BufsOf[t])
        /\ filled[t] = Taken(filled[t], n) \o Left(filled[t], n)
    BY <2>0, CutAt
  <2>2. B = P + Q
    <3>1. Times(Taken(filled[t], n) \o Left(filled[t], n), {b}) = P + Q
      BY <2>1, TimesConcat
    <3> QED
      BY <2>1, <3>1, Zenon
  <2>3. P \in Nat /\ Q \in Nat
    BY <2>1, PlacesFinite
  <2>4. filled'[t] = Left(filled[t], n)
    BY <1>2 DEF Inv, Base
  <2>5. PlacesOf(t, b)' = pool[b] + A + Q + P
    BY <1>2, <1>3, <2>4 DEF PlacesOf
  <2>6. PlacesOf(t, b) = pool[b] + A + B + 0
    BY <1>1, TimesEmpty DEF PlacesOf
  <2> HIDE DEF A, B, P, Q
  <2> QED
    BY <1>6, <2>0, <2>2, <2>3, <2>5, <2>6
<1> QED
  BY <1>5, <1>6

(* Freeing moves the first that is held back to the pool.                  *)
LEMMA FreedPlaces ==
  ASSUME Inv, setup' = setup, NEW t \in Queues, NEW c \in BufsOf[t],
         \A v \in Queues \ {t} : SameThread(v),
         Unfreed(t) # <<>>, c = Head(Unfreed(t)), Unfreed(t)' = Tail(Unfreed(t)),
         Freed(c), UNCHANGED <<armed, filled>>,
         NEW u \in Queues, NEW b \in BufsOf[u]
  PROVE  PlacesOf(u, b)' = PlacesOf(u, b)
<1>1. c \in Bufs /\ pool' = [pool EXCEPT ![c] = @ + 1]
  BY OfQueue DEF Inv, Base, Freed
<1>5. CASE u # t
  <2>1. b # c /\ b \in Bufs
    BY <1>5, OtherPool
  <2>2. Unfreed(u)' = Unfreed(u)
    BY <1>5, OtherThread
  <2>3. pool'[b] = pool[b]
    BY <1>1, <2>1 DEF Inv, Base
  <2> QED
    BY <2>2, <2>3, OtherPlaces
<1>6. CASE u = t
  <2> DEFINE A == Times(armed[t], {b})
             B == Times(filled[t], {b})
             C == Times(Unfreed(t), {b})
             T == Times(Tail(Unfreed(t)), {b})
             o == OneIf(c \in {b})
  <2>0. /\ pool[b] \in Nat /\ A \in Nat /\ B \in Nat /\ C \in Nat
        /\ b \in Bufs /\ Unfreed(t) \in Seq(BufsOf[t])
    BY <1>6, PlacesNat, HeldBufs, OfQueue DEF Inv, Base
  <2>1. C = o + T /\ T \in Nat
    <3>1. C = o + T
      BY <2>0, TimesTail
    <3>2. Tail(Unfreed(t)) \in Seq(BufsOf[t])
      BY <2>0, HeadTailProperties
    <3> QED
      BY <3>1, <3>2, PlacesFinite
  <2>2. pool'[b] = pool[b] + o
    <3>1. CASE c = b
      <4>1. o = 1
        BY <3>1 DEF OneIf
      <4> QED
        BY <1>1, <3>1, <4>1 DEF Inv, Base
    <3>2. CASE c # b
      <4>1. o = 0
        BY <3>2 DEF OneIf
      <4> QED
        BY <1>1, <2>0, <3>2, <4>1 DEF Inv, Base
    <3> QED
      BY <3>1, <3>2
  <2>3. PlacesOf(t, b)' = (pool[b] + o) + A + B + T
    BY <2>2 DEF PlacesOf
  <2>4. PlacesOf(t, b) = pool[b] + A + B + C
    BY DEF PlacesOf
  <2>5. o \in Nat
    BY DEF OneIf
  <2> HIDE DEF A, B, C, T, o
  <2> QED
    BY <1>6, <2>0, <2>1, <2>3, <2>4, <2>5
<1> QED
  BY <1>5, <1>6

(* No step changes in how many places a buffer is.                         *)
LEMMA NextPlaces ==
  ASSUME FreedOnce, Inv, [Next]_vars, NEW u \in Queues, NEW b \in BufsOf[u]
  PROVE  PlacesOf(u, b)' = PlacesOf(u, b)
<1>0. \/ FreesInLoop /\ ~FreesAfter
      \/ ~FreesInLoop /\ FreesAfter
  BY RtcAssumption DEF FreedOnce, Inv, Base, Setup, FreesInLoop, FreesAfter
<1>1. CASE UNCHANGED vars
  <2>1. UNCHANGED <<pool, armed, filled>> /\ Unfreed(u)' = Unfreed(u)
    BY <1>1, ThreadsSame DEF vars, nicVars
  <2> QED
    BY <2>1, OtherPlaces
<1>2. ASSUME NEW t \in Queues, Packet(t) PROVE PlacesOf(u, b)' = PlacesOf(u, b)
  <2>1. /\ setup' = setup /\ \A v \in Queues \ {t} : SameThread(v)
        /\ Unprocessed(t) # <<>>
        /\ Head(Unprocessed(t)) = Current(t) /\ Current(t) \in BufsOf[t]
        /\ Unprocessed(t)' = Tail(Unprocessed(t))
        /\ FreesInLoop /\ ~FreesAfter =>
             Unfreed(t) = Unprocessed(t) /\ Unfreed(t)' = Unprocessed(t)'
        /\ ~FreesInLoop /\ FreesAfter => Unfreed(t)' = Unfreed(t)
    BY <1>2, PacketInv
  <2>2. UNCHANGED <<armed, filled>> /\ FreeHere(t)
    BY <1>2 DEF Packet, nicVars
  <2>3. CASE FreesInLoop /\ ~FreesAfter
    <3>1. Freed(Current(t))
      BY <2>2, <2>3, Zenon DEF FreeHere
    <3>2. PICK c \in BufsOf[t] : c = Current(t)
      BY <2>1
    <3>3. /\ Unfreed(t) # <<>> /\ c = Head(Unfreed(t))
          /\ Unfreed(t)' = Tail(Unfreed(t)) /\ Freed(c)
      BY <2>1, <2>3, <3>1, <3>2, Zenon
    <3> QED
      BY <2>1, <2>2, <3>3, FreedPlaces
  <2>4. CASE ~FreesInLoop /\ FreesAfter
    <3>1. pool' = pool
      BY <2>2, <2>4, Zenon DEF FreeHere
    <3>2. Unfreed(u)' = Unfreed(u)
      BY <2>1, <2>4, OtherThread
    <3> QED
      BY <2>2, <3>1, <3>2, OtherPlaces
  <2> QED
    BY <1>0, <2>3, <2>4
<1>3. ASSUME NEW t \in Queues, Free(t) PROVE PlacesOf(u, b)' = PlacesOf(u, b)
  <2>1. /\ setup' = setup /\ \A v \in Queues \ {t} : SameThread(v)
        /\ Unfreed(t) # <<>>
        /\ Head(Unfreed(t)) = Current(t) /\ Current(t) \in BufsOf[t]
        /\ Unfreed(t)' = Tail(Unfreed(t))
    BY <1>3, FreeInv
  <2>2. UNCHANGED <<armed, filled>> /\ Freed(Current(t))
    BY <1>3 DEF Free, nicVars
  <2>3. PICK c \in BufsOf[t] : c = Current(t)
    BY <2>1
  <2>4. Unfreed(t) # <<>> /\ c = Head(Unfreed(t)) /\ Freed(c)
    BY <2>1, <2>2, <2>3, Zenon
  <2> QED
    BY <2>1, <2>2, <2>4, FreedPlaces
<1>4. CASE MasterStep
  <2>1. UNCHANGED <<setup, workers>>
    BY <1>4, MasterInv
  <2>2. UNCHANGED <<pool, armed, filled>> /\ Unfreed(u)' = Unfreed(u)
    BY <2>1, ThreadsSame DEF workers, nicVars
  <2> QED
    BY <2>2, OtherPlaces
<1>5. ASSUME NEW t \in Queues, Arm(t) PROVE PlacesOf(u, b)' = PlacesOf(u, b)
  BY <1>5, ArmPlaces
<1>6. ASSUME NEW t \in Queues, NEW f \in FlowsOf[t], Arrive(t, f)
      PROVE  PlacesOf(u, b)' = PlacesOf(u, b)
  BY <1>6, ArrivePlaces
<1>7. ASSUME NEW t \in Queues, RxBurst(t) PROVE PlacesOf(u, b)' = PlacesOf(u, b)
  BY <1>7, RxBurstPlaces
<1>8. CASE Next
  BY <1>2, <1>3, <1>4, <1>5, <1>6, <1>7, <1>8, StepCases, Zenon
<1> QED
  BY <1>1, <1>8

(* At the start every buffer is in its pool.                               *)
LEMMA InitPlaces == Init => NoAlias
<1> SUFFICES ASSUME Init, NEW t \in Queues, NEW b \in BufsOf[t]
             PROVE  PlacesOf(t, b) = 1
  BY DEF NoAlias, PlacesOf
<1>1. b \in Bufs
  BY DEF Bufs
<1>2. /\ pool[b] = 1 /\ armed[t] = <<>> /\ filled[t] = <<>>
      /\ Unfreed(t) = <<>>
  BY <1>1 DEF Init, Unfreed
<1>3. Times(<<>>, {b}) = 0
  BY TimesEmpty
<1> QED
  BY <1>2, <1>3 DEF PlacesOf

(* NoAlias, for every build that frees a buffer at one place (hash_list,   *)
(* linked_list, and double_hash without FLOW_LEVEL): as many frees as      *)
(* buffers taken, and none is filled while a thread of                     *)
(* run_to_completion/main.c still reads it.                                *)
THEOREM BuffersDoNotAlias == FreedOnce => (Spec => []NoAlias)
<1> SUFFICES ASSUME FreedOnce PROVE Spec => []NoAlias
  OBVIOUS
<1>1. Inv /\ NoAlias /\ [Next]_vars => NoAlias'
  <2> SUFFICES ASSUME Inv, NoAlias, [Next]_vars PROVE NoAlias'
    OBVIOUS
  <2>1. ASSUME NEW u \in Queues, NEW b \in BufsOf[u] PROVE PlacesOf(u, b)' = 1
    <3>1. PlacesOf(u, b)' = PlacesOf(u, b)
      BY NextPlaces
    <3> QED
      BY <3>1 DEF NoAlias, PlacesOf
  <2> QED
    BY <2>1 DEF NoAlias, PlacesOf
<1> QED
  BY <1>1, InitPlaces, AlwaysInv, PTL DEF Spec

-----------------------------------------------------------------------------
(* Each packet is counted once, for its own flow.                          *)
CountedFor(t, f) ==
  received[f] = table[f] + Times(filled[t], BufsOfFlow(f))
                  + Times(Unprocessed(t), BufsOfFlow(f))

(* The numbers that this adds up.                                          *)
LEMMA CountsNat ==
  ASSUME Inv, NEW t \in Queues, NEW f \in FlowsOf[t], NEW T
  PROVE  /\ f \in Flows /\ received[f] \in Nat /\ table[f] \in Nat
         /\ Times(filled[t], T) \in Nat /\ Times(Unprocessed(t), T) \in Nat
         /\ filled[t] \in Seq(BufsOf[t]) /\ Unprocessed(t) \in Seq(BufsOf[t])
<1>1. f \in Flows
  BY OfQueue DEF Inv, Base
<1>2. filled[t] \in Seq(BufsOf[t]) /\ Unprocessed(t) \in Seq(BufsOf[t])
  BY HeldBufs DEF Inv, OwnBufs
<1>3. received[f] \in Nat /\ table[f] \in Nat
  BY <1>1, RtcAssumption DEF Inv, Base
<1> QED
  BY <1>1, <1>2, <1>3, PlacesFinite

(* The flow of another queue.                                              *)
LEMMA OtherFlow ==
  ASSUME Inv, NEW t \in Queues, NEW u \in Queues \ {t}, NEW f \in FlowsOf[u],
         NEW g \in FlowsOf[t]
  PROVE  f # g /\ f \in Flows /\ g \in Flows
BY OfQueue DEF Inv, Base

(* A step that does not concern a queue and a flow.                        *)
LEMMA OtherCounts ==
  ASSUME NEW t, NEW f, CountedFor(t, f), flow' = flow,
         received'[f] = received[f], table'[f] = table[f],
         filled'[t] = filled[t], Unprocessed(t)' = Unprocessed(t)
  PROVE  CountedFor(t, f)'
BY DEF CountedFor, BufsOfFlow

(* The buffer that is written next is not one that holds a packet.         *)
LEMMA NextIsFresh ==
  ASSUME Inv, NoAlias, NEW t \in Queues, armed[t] # <<>>,
         NEW c, c = Head(armed[t]), NEW u \in Queues
  PROVE  /\ c \in BufsOf[t]
         /\ \A i \in DOMAIN filled[u] : filled[u][i] # c
         /\ \A i \in DOMAIN Unprocessed(u) : Unprocessed(u)[i] # c
<1>1. /\ armed[t] \in Seq(BufsOf[t])
      /\ filled[u] \in Seq(BufsOf[u]) /\ DOMAIN filled[u] = 1 .. Len(filled[u])
      /\ Unprocessed(u) \in Seq(BufsOf[u])
      /\ DOMAIN Unprocessed(u) = 1 .. Len(Unprocessed(u))
      /\ Unfreed(u) \in Seq(BufsOf[u]) /\ Unfreed(t) \in Seq(BufsOf[t])
      /\ filled[t] \in Seq(BufsOf[t])
  BY HeldBufs, LenProperties DEF Inv, OwnBufs
<1>2. c \in BufsOf[t] /\ Tail(armed[t]) \in Seq(BufsOf[t])
  BY <1>1, HeadTailProperties
<1>3. CASE u # t
  <2>1. /\ \A i \in 1 .. Len(filled[u]) : filled[u][i] \in BufsOf[u]
        /\ \A i \in 1 .. Len(Unprocessed(u)) : Unprocessed(u)[i] \in BufsOf[u]
    BY <1>1, ElementOfSeq
  <2>2. c \notin BufsOf[u]
    BY <1>2, <1>3, OfQueue DEF Inv, Base
  <2> QED
    BY <1>1, <1>2, <2>1, <2>2
<1>4. CASE u = t
  <2> DEFINE A == Times(armed[t], {c})
             B == Times(filled[t], {c})
             C == Times(Unfreed(t), {c})
             T == Times(Tail(armed[t]), {c})
  <2>1. pool[c] + A + B + C = 1
    BY <1>2 DEF NoAlias
  <2>2. pool[c] \in Nat /\ A \in Nat /\ B \in Nat /\ C \in Nat
    BY <1>2, PlacesNat
  <2>3. A = 1 + T /\ T \in Nat
    <3>1. A = OneIf(Head(armed[t]) \in {c}) + T
      BY <1>1, TimesTail
    <3>2. OneIf(Head(armed[t]) \in {c}) = 1
      BY DEF OneIf
    <3> QED
      BY <1>2, <3>1, <3>2, PlacesFinite
  <2>4. B = 0 /\ C = 0
    <3> HIDE DEF A, B, C, T
    <3> QED
      BY <2>1, <2>2, <2>3
  <2>5. \A s \in Seq(BufsOf[t]) : Times(s, {c}) = 0 =>
          \A i \in 1 .. Len(s) : s[i] # c
    <3> SUFFICES ASSUME NEW s \in Seq(BufsOf[t]), NEW i \in 1 .. Len(s), s[i] = c
                 PROVE  Times(s, {c}) # 0
      OBVIOUS
    <3>1. Times(s, {s[i]}) >= 1
      BY TimesSome
    <3> QED
      BY <3>1
  <2>6. /\ \A i \in 1 .. Len(filled[t]) : filled[t][i] # c
        /\ \A i \in 1 .. Len(Unfreed(t)) : Unfreed(t)[i] # c
    BY <1>1, <2>4, <2>5
  <2>7. \A i \in 1 .. Len(Unprocessed(t)) : Unprocessed(t)[i] # c
    BY <2>6, HeldBufs
  <2> QED
    BY <1>1, <1>2, <1>4, <2>6, <2>7
<1> QED
  BY <1>3, <1>4

(* A packet is received: its buffer joins those of its flow.               *)
LEMMA ArriveCounts ==
  ASSUME Inv, NoAlias, NEW t \in Queues, NEW g \in FlowsOf[t], Arrive(t, g),
         NEW u \in Queues, NEW f \in FlowsOf[u], CountedFor(u, f)
  PROVE  CountedFor(u, f)'
<1>1. PICK c : c = Head(armed[t])
  OBVIOUS
<1>2. /\ armed[t] # <<>>
      /\ received' = [received EXCEPT ![g] = @ + 1]
      /\ flow' = [flow EXCEPT ![c] = g]
      /\ filled' = [filled EXCEPT ![t] = Append(@, c)]
      /\ UNCHANGED <<setup, threadVars, counters>>
  BY <1>1 DEF Arrive
<1>3. /\ c \in BufsOf[t]
      /\ \A i \in DOMAIN filled[u] : filled[u][i] # c
      /\ \A i \in DOMAIN Unprocessed(u) : Unprocessed(u)[i] # c
  BY <1>1, <1>2, NextIsFresh
<1>4. c \in Bufs /\ g \in Flows /\ f \in Flows
  BY <1>3, OfQueue DEF Inv, Base
<1> DEFINE F == BufsOfFlow(f)
           G == BufsOfFlow(f)'
           A == Times(filled[u], F)
           B == Times(Unprocessed(u), F)
<1>5. /\ \A b : b # c => (b \in F <=> b \in G)
      /\ c \in G <=> f = g
  BY <1>2, <1>4 DEF Inv, Base, BufsOfFlow
<1>6. Times(filled[u], G) = A /\ Times(Unprocessed(u), G) = B
  <2>1. \A i \in DOMAIN filled[u] : filled[u][i] \in G <=> filled[u][i] \in F
    BY <1>3, <1>5
  <2>2. \A i \in DOMAIN Unprocessed(u) :
          Unprocessed(u)[i] \in G <=> Unprocessed(u)[i] \in F
    BY <1>3, <1>5
  <2> HIDE DEF F, G
  <2> QED
    BY <2>1, <2>2, TimesSame
<1>7. Unprocessed(u)' = Unprocessed(u) /\ table' = table
  BY <1>2, ThreadsSame DEF counters
<1>8. /\ received[f] \in Nat /\ table[f] \in Nat /\ A \in Nat /\ B \in Nat
      /\ filled[u] \in Seq(BufsOf[u])
  BY CountsNat
<1>9. received[f] = table[f] + A + B
  BY DEF CountedFor
<1>10. CASE u # t
  <2>1. filled'[u] = filled[u]
    BY <1>2, <1>10 DEF Inv, Base
  <2>2. received'[f] = received[f]
    <3>1. f # g
      BY <1>10, OtherFlow
    <3> QED
      BY <1>2, <1>4, <3>1 DEF Inv, Base
  <2> QED
    BY <1>6, <1>7, <1>9, <2>1, <2>2 DEF CountedFor
<1>11. CASE u = t
  <2>1. filled'[u] = Append(filled[u], c)
    BY <1>2, <1>11 DEF Inv, Base
  <2>2. Times(filled[u], G) + OneIf(c \in G) = Times(Append(filled[u], c), G)
    <3> HIDE DEF G
    <3> QED
      BY <1>3, <1>8, <1>11, TimesAppend
  <2>3. received'[f] = received[f] + OneIf(c \in G)
    <3>1. CASE f = g
      <4>1. OneIf(c \in G) = 1
        BY <1>5, <3>1 DEF OneIf
      <4> QED
        BY <1>2, <1>4, <3>1, <4>1 DEF Inv, Base
    <3>2. CASE f # g
      <4>1. OneIf(c \in G) = 0
        BY <1>5, <3>2 DEF OneIf
      <4>2. received'[f] = received[f]
        BY <1>2, <1>4, <3>2 DEF Inv, Base
      <4> QED
        BY <1>8, <4>1, <4>2
    <3> QED
      BY <3>1, <3>2
  <2>4. OneIf(c \in G) \in Nat
    BY DEF OneIf
  <2>5. Times(filled'[u], G) = A + OneIf(c \in G)
    BY <1>6, <2>1, <2>2
  <2>6. received'[f] = table[f] + (A + OneIf(c \in G)) + B
    <3> HIDE DEF A, B, G
    <3> QED
      BY <1>8, <1>9, <2>3, <2>4
  <2> QED
    BY <1>6, <1>7, <2>5, <2>6 DEF CountedFor
<1> QED
  BY <1>10, <1>11

(* A burst is taken: its packets are now to be processed.                  *)
LEMMA RxBurstCounts ==
  ASSUME Inv, NEW t \in Queues, RxBurst(t),
         NEW u \in Queues, NEW f \in FlowsOf[u], CountedFor(u, f)
  PROVE  CountedFor(u, f)'
<1>1. /\ setup' = setup /\ \A v \in Queues \ {t} : SameThread(v)
      /\ Unprocessed(t) = <<>>
  BY RxBurstInv
<1>2. PICK n \in 1 .. Len(filled[t]) :
        /\ Unprocessed(t)' = Taken(filled[t], n)
        /\ filled' = [filled EXCEPT ![t] = Left(@, n)]
  BY RxBurstInv DEF Taken, Left
<1>3. UNCHANGED <<flow, received, table>>
  BY DEF RxBurst
<1>5. CASE u # t
  <2>1. filled'[u] = filled[u]
    BY <1>2, <1>5 DEF Inv, Base
  <2>2. Unprocessed(u)' = Unprocessed(u)
    BY <1>1, <1>5, OtherThread
  <2> QED
    BY <1>3, <2>1, <2>2, OtherCounts
<1>6. CASE u = t
  <2> DEFINE F == BufsOfFlow(f)
             B == Times(filled[t], F)
             P == Times(Taken(filled[t], n), F)
             Q == Times(Left(filled[t], n), F)
  <2>0. /\ received[f] \in Nat /\ table[f] \in Nat /\ B \in Nat
        /\ filled[t] \in Seq(BufsOf[t])
    BY <1>6, CountsNat
  <2>1. /\ Taken(filled[t], n) \in Seq(BufsOf[t])
        /\ Left(filled[t], n) \in Seq(BufsOf[t])
        /\ filled[t] = Taken(filled[t], n) \o Left(filled[t], n)
    BY <2>0, CutAt
  <2>2. B = P + Q
    <3> HIDE DEF F
    <3>1. Times(Taken(filled[t], n) \o Left(filled[t], n), F) = P + Q
      BY <2>1, TimesConcat
    <3> QED
      BY <2>1, <3>1, Zenon
  <2>3. P \in Nat /\ Q \in Nat
    BY <2>1, PlacesFinite
  <2>4. filled'[t] = Left(filled[t], n) /\ BufsOfFlow(f)' = F
    BY <1>2, <1>3 DEF Inv, Base, BufsOfFlow
  <2>5. received[f] = table[f] + B + 0
    BY <1>1, <1>6, TimesEmpty DEF CountedFor
  <2>6. received[f] = table[f] + Q + P
    <3> HIDE DEF B, P, Q
    <3> QED
      BY <2>0, <2>2, <2>3, <2>5
  <2> QED
    BY <1>2, <1>3, <1>6, <2>4, <2>6 DEF CountedFor
<1> QED
  BY <1>5, <1>6

(* A packet is processed: it is counted.                                   *)
LEMMA PacketCounts ==
  ASSUME Inv, NEW t \in Queues, Packet(t),
         NEW u \in Queues, NEW f \in FlowsOf[u], CountedFor(u, f)
  PROVE  CountedFor(u, f)'
<1>1. /\ setup' = setup /\ \A v \in Queues \ {t} : SameThread(v)
      /\ Unprocessed(t) # <<>>
      /\ Head(Unprocessed(t)) = Current(t) /\ Current(t) \in BufsOf[t]
      /\ Unprocessed(t)' = Tail(Unprocessed(t))
      /\ flow[Current(t)] \in FlowsOf[t]
  BY PacketInv
<1>2. PICK g \in FlowsOf[t] : g = flow[Current(t)]
  BY <1>1
<1>3. /\ table' = [table EXCEPT ![g] = @ + 1]
      /\ UNCHANGED <<flow, received, filled>>
  BY <1>2 DEF Packet, nicVars
<1>4. f \in Flows /\ g \in Flows /\ Current(t) \in Bufs
  BY <1>1, OfQueue DEF Inv, Base
<1>5. CASE u # t
  <2>1. f # g
    BY <1>5, OtherFlow
  <2>2. table'[f] = table[f]
    BY <1>3, <1>4, <2>1 DEF Inv, Base
  <2>3. Unprocessed(u)' = Unprocessed(u)
    BY <1>1, <1>5, OtherThread
  <2> QED
    BY <1>3, <2>2, <2>3, OtherCounts
<1>6. CASE u = t
  <2> DEFINE F == BufsOfFlow(f)
             A == Times(filled[t], F)
             B == Times(Unprocessed(t), F)
             T == Times(Tail(Unprocessed(t)), F)
             o == OneIf(Current(t) \in F)
  <2>0. /\ received[f] \in Nat /\ table[f] \in Nat /\ A \in Nat /\ B \in Nat
        /\ Unprocessed(t) \in Seq(BufsOf[t])
    BY <1>6, CountsNat
  <2>1. B = o + T /\ T \in Nat
    <3>1. B = o + T
      <4> HIDE DEF F
      <4> QED
        BY <1>1, <2>0, TimesTail
    <3>2. Tail(Unprocessed(t)) \in Seq(BufsOf[t])
      BY <1>1, <2>0, HeadTailProperties
    <3> QED
      BY <3>1, <3>2, PlacesFinite
  <2>2. Current(t) \in F <=> f = g
    BY <1>2, <1>4 DEF BufsOfFlow
  <2>3. o \in Nat
    BY DEF OneIf
  <2>4. table'[f] = table[f] + o
    <3>1. CASE f = g
      <4>1. o = 1
        BY <2>2, <3>1 DEF OneIf
      <4> QED
        BY <1>3, <1>4, <3>1, <4>1 DEF Inv, Base
    <3>2. CASE f # g
      <4>1. o = 0
        BY <2>2, <3>2 DEF OneIf
      <4>2. table'[f] = table[f]
        BY <1>3, <1>4, <3>2 DEF Inv, Base
      <4> QED
        BY <2>0, <4>1, <4>2
    <3> QED
      BY <3>1, <3>2
  <2>5. BufsOfFlow(f)' = F
    BY <1>3 DEF BufsOfFlow
  <2>6. received[f] = table[f] + A + B
    BY <1>6 DEF CountedFor
  <2>7. received[f] = (table[f] + o) + A + T
    <3> HIDE DEF A, B, T, o
    <3> QED
      BY <2>0, <2>1, <2>3, <2>6
  <2> QED
    BY <1>1, <1>3, <1>6, <2>4, <2>5, <2>7 DEF CountedFor
<1> QED
  BY <1>5, <1>6

(* CountedOnce, for every build that frees a buffer at one place: the      *)
(* table of run_to_completion/main.c counts every packet received once and *)
(* for its own flow, whatever the NIC writes to the other buffers of the   *)
(* pool meanwhile.                                                         *)
THEOREM PacketsCountedOnce == FreedOnce => (Spec => []CountedOnce)
<1> SUFFICES ASSUME FreedOnce PROVE Spec => []CountedOnce
  OBVIOUS
<1>1. Init => CountedOnce
  <2> SUFFICES ASSUME Init, NEW t \in Queues, NEW f \in FlowsOf[t]
               PROVE  CountedFor(t, f)
    BY DEF CountedOnce, CountedFor
  <2>1. f \in Flows
    BY OfQueue DEF Init
  <2>2. /\ received[f] = 0 /\ table[f] = 0 /\ filled[t] = <<>>
        /\ Unprocessed(t) = <<>>
    BY <2>1 DEF Init, Unprocessed
  <2>3. Times(<<>>, BufsOfFlow(f)) = 0
    BY TimesEmpty
  <2> QED
    BY <2>2, <2>3 DEF CountedFor
<1>2. Inv /\ NoAlias /\ CountedOnce /\ [Next]_vars => CountedOnce'
  <2> SUFFICES ASSUME Inv, NoAlias, CountedOnce, [Next]_vars,
                      NEW u \in Queues, NEW f \in FlowsOf'[u]
               PROVE  CountedFor(u, f)'
    BY DEF CountedOnce, CountedFor
  <2>0. setup' = setup
    <3>1. CASE UNCHANGED vars
      BY <3>1 DEF vars
    <3>2. CASE Next
      BY <3>2 DEF Next, Thread, Handler, Arm, Arrive, RxBurst, Packet, Free,
                  Sigint, SumEntry, SumEnds, PrintQueue, Exit
    <3> QED
      BY <3>1, <3>2
  <2>1. f \in FlowsOf[u] /\ CountedFor(u, f)
    BY <2>0 DEF CountedOnce, CountedFor, FlowsOf
  <2>2. ASSUME UNCHANGED <<flow, received, table, filled, threadVars>>
        PROVE  CountedFor(u, f)'
    <3>1. Unprocessed(u)' = Unprocessed(u)
      BY <2>0, <2>2, ThreadsSame
    <3> QED
      BY <2>1, <2>2, <3>1, OtherCounts
  <2>3. CASE UNCHANGED vars
    BY <2>2, <2>3 DEF vars, nicVars, counters
  <2>4. CASE MasterStep
    BY <2>2, <2>4, MasterInv DEF workers, nicVars, counters
  <2>5. ASSUME NEW t \in Queues, Arm(t) PROVE CountedFor(u, f)'
    BY <2>2, <2>5 DEF Arm, counters
  <2>6. ASSUME NEW t \in Queues, Free(t) PROVE CountedFor(u, f)'
    <3>1. /\ \A v \in Queues \ {t} : SameThread(v)
          /\ Unprocessed(t)' = Unprocessed(t)
      BY <2>6, FreeInv
    <3>2. UNCHANGED <<flow, received, table, filled>>
      BY <2>6 DEF Free, nicVars, counters
    <3>3. Unprocessed(u)' = Unprocessed(u)
      BY <2>0, <3>1, OtherThread
    <3> QED
      BY <2>1, <3>2, <3>3, OtherCounts
  <2>7. ASSUME NEW t \in Queues, NEW g \in FlowsOf[t], Arrive(t, g)
        PROVE  CountedFor(u, f)'
    BY <2>1, <2>7, ArriveCounts
  <2>8. ASSUME NEW t \in Queues, RxBurst(t) PROVE CountedFor(u, f)'
    BY <2>1, <2>8, RxBurstCounts
  <2>9. ASSUME NEW t \in Queues, Packet(t) PROVE CountedFor(u, f)'
    BY <2>1, <2>9, PacketCounts
  <2>10. CASE Next
    BY <2>4, <2>5, <2>6, <2>7, <2>8, <2>9, <2>10, StepCases, Zenon
  <2> QED
    BY <2>3, <2>10
<1> QED
  BY <1>1, <1>2, AlwaysInv, BuffersDoNotAlias, PTL DEF Spec

-----------------------------------------------------------------------------
(* The final report.                                                       *)
OnQueues(e) == SumFunctionOnSet(e, Queues)
OnFlows(e) == SumFunctionOnSet(e, Flows)

Waiting == [t \in Queues |-> Len(filled[t])]
Pending == [t \in Queues |-> Len(Unprocessed(t))]

(* What the threads have taken they have counted or will count, and what   *)
(* was received they have taken or will take.                              *)
Totals ==
  /\ OnQueues(re) = OnFlows(table) + OnQueues(Pending)
  /\ OnFlows(received) = OnQueues(re) + OnQueues(Waiting)

(* The sums are of natural numbers.                                        *)
Numbers ==
  /\ IsFiniteSet(Queues) /\ IsFiniteSet(Flows)
  /\ \A t \in Queues : re[t] \in Nat /\ Waiting[t] \in Nat /\ Pending[t] \in Nat
  /\ \A f \in Flows : table[f] \in Nat /\ received[f] \in Nat
  /\ OnQueues(re) \in Nat /\ OnQueues(Waiting) \in Nat /\ OnQueues(Pending) \in Nat
  /\ OnFlows(table) \in Nat /\ OnFlows(received) \in Nat

(* They are, by the invariant.                                             *)
LEMMA TotalsNat == Inv => Numbers
<1> SUFFICES ASSUME Inv PROVE Numbers
  OBVIOUS
<1>1. IsFiniteSet(Queues) /\ IsFiniteSet(Flows)
  <2>1. 0 \in Int /\ N - 1 \in Int
    BY RtcAssumption
  <2>2. IsFiniteSet(0 .. N - 1)
    BY <2>1, FS_Interval
  <2> QED
    BY <2>2, RtcAssumption DEF Queues
<1>2. \A t \in Queues : re[t] \in Nat /\ Waiting[t] \in Nat /\ Pending[t] \in Nat
  <2> SUFFICES ASSUME NEW t \in Queues
               PROVE  re[t] \in Nat /\ Waiting[t] \in Nat /\ Pending[t] \in Nat
    OBVIOUS
  <2>1. filled[t] \in Seq(BufsOf[t]) /\ Unprocessed(t) \in Seq(BufsOf[t])
    BY HeldBufs DEF Inv, OwnBufs
  <2>2. Len(filled[t]) \in Nat /\ Len(Unprocessed(t)) \in Nat
    BY <2>1, LenProperties
  <2> QED
    BY <2>2 DEF Inv, Base, Waiting, Pending
<1>3. \A f \in Flows : table[f] \in Nat /\ received[f] \in Nat
  BY RtcAssumption DEF Inv, Base
<1>4. /\ OnQueues(re) \in Nat /\ OnQueues(Waiting) \in Nat
      /\ OnQueues(Pending) \in Nat
  BY <1>1, <1>2, SumNat DEF OnQueues
<1>5. OnFlows(table) \in Nat /\ OnFlows(received) \in Nat
  BY <1>1, <1>3, SumNat DEF OnFlows
<1> QED
  BY <1>1, <1>2, <1>3, <1>4, <1>5 DEF Numbers

(* One summand changes.                                                    *)
LEMMA QueueChanges ==
  ASSUME IsFiniteSet(Queues), NEW t \in Queues, NEW e, NEW d,
         \A u \in Queues : e[u] \in Nat /\ d[u] \in Nat,
         \A u \in Queues \ {t} : d[u] = e[u]
  PROVE  OnQueues(d) = OnQueues(e) + (d[t] - e[t])
<1>1. \A u \in Queues : e[u] \in Int /\ d[u] \in Int
  OBVIOUS
<1> QED
  BY <1>1, SumUpdate DEF OnQueues

(* One summand changes.                                                    *)
LEMMA FlowChanges ==
  ASSUME IsFiniteSet(Flows), NEW f \in Flows, NEW e, NEW d,
         \A g \in Flows : e[g] \in Nat /\ d[g] \in Nat,
         \A g \in Flows \ {f} : d[g] = e[g]
  PROVE  OnFlows(d) = OnFlows(e) + (d[f] - e[f])
<1>1. \A g \in Flows : e[g] \in Int /\ d[g] \in Int
  OBVIOUS
<1> QED
  BY <1>1, SumUpdate DEF OnFlows

(* A step that concerns none of the numbers.                               *)
LEMMA SameTotals ==
  ASSUME Totals, UNCHANGED <<re, table, received, filled>>,
         \A t \in Queues : Unprocessed(t)' = Unprocessed(t)
  PROVE  Totals'
<1>1. Pending' = Pending /\ Waiting' = Waiting
  BY DEF Pending, Waiting
<1> QED
  BY <1>1 DEF Totals

(* Another thread.                                                         *)
LEMMA OtherNumbers ==
  ASSUME NEW t \in Queues, setup' = setup,
         \A u \in Queues \ {t} : SameThread(u)
  PROVE  \A u \in Queues \ {t} : Pending'[u] = Pending[u]
BY OtherThread DEF Pending

(* A packet is received.                                                   *)
LEMMA ArriveTotals ==
  ASSUME Inv, Numbers, Numbers', Totals, NEW t \in Queues, NEW f \in FlowsOf[t], Arrive(t, f)
  PROVE  Totals'
<1>1. PICK c : c = Head(armed[t])
  OBVIOUS
<1>2. /\ received' = [received EXCEPT ![f] = @ + 1]
      /\ filled' = [filled EXCEPT ![t] = Append(@, c)]
      /\ UNCHANGED <<setup, threadVars, re, table>>
  BY <1>1 DEF Arrive, counters
<1>3. f \in Flows /\ c \in BufsOf[t]
  BY <1>1, ArriveInv, OfQueue DEF Inv, Base
<1>4. Len(Append(filled[t], c)) = Len(filled[t]) + 1
  BY <1>3, AppendProperties DEF Inv, OwnBufs
<1>5. /\ Waiting'[t] = Waiting[t] + 1
      /\ \A u \in Queues \ {t} : Waiting'[u] = Waiting[u]
  BY <1>2, <1>4 DEF Inv, Base, Waiting
<1>6. /\ received'[f] = received[f] + 1
      /\ \A g \in Flows \ {f} : received'[g] = received[g]
  BY <1>2, <1>3 DEF Inv, Base
<1>7. Pending' = Pending
  BY <1>2, ThreadsSame DEF Pending
<1>8. /\ \A u \in Queues : Waiting[u] \in Nat /\ Waiting'[u] \in Nat
      /\ \A g \in Flows : received[g] \in Nat /\ received'[g] \in Nat
      /\ IsFiniteSet(Queues) /\ IsFiniteSet(Flows)
      /\ OnQueues(re) \in Nat /\ OnQueues(Waiting) \in Nat
      /\ OnFlows(received) \in Nat
  BY DEF Numbers
<1>9. OnQueues(Waiting') = OnQueues(Waiting) + 1
  <2>1. OnQueues(Waiting') = OnQueues(Waiting) + (Waiting'[t] - Waiting[t])
    BY <1>5, <1>8, QueueChanges
  <2> QED
    BY <1>5, <1>8, <2>1
<1>10. OnFlows(received') = OnFlows(received) + 1
  <2>1. OnFlows(received') = OnFlows(received) + (received'[f] - received[f])
    BY <1>3, <1>6, <1>8, FlowChanges
  <2> QED
    BY <1>3, <1>6, <1>8, <2>1
<1>11. OnFlows(received') = OnQueues(re) + OnQueues(Waiting')
  BY <1>8, <1>9, <1>10 DEF Totals
<1> QED
  BY <1>2, <1>7, <1>11 DEF Totals, OnQueues, OnFlows

(* A burst is taken.                                                       *)
LEMMA RxBurstTotals ==
  ASSUME Inv, Numbers, Numbers', Totals, NEW t \in Queues, RxBurst(t)
  PROVE  Totals'
<1>1. /\ setup' = setup /\ \A u \in Queues \ {t} : SameThread(u)
      /\ Unprocessed(t) = <<>>
  BY RxBurstInv
<1>2. PICK n \in 1 .. Len(filled[t]) :
        /\ Unprocessed(t)' = Taken(filled[t], n)
        /\ filled' = [filled EXCEPT ![t] = Left(@, n)]
        /\ re' = [re EXCEPT ![t] = @ + n]
  BY RxBurstInv DEF Taken, Left
<1>3. UNCHANGED <<received, table>>
  BY DEF RxBurst
<1>4. filled[t] \in Seq(BufsOf[t]) /\ Len(filled[t]) \in Nat /\ Len(<<>>) = 0
  BY LenProperties DEF Inv, OwnBufs
<1>5. /\ Len(Taken(filled[t], n)) = n
      /\ Len(Left(filled[t], n)) = Len(filled[t]) - n
  <2>1. filled[t] \in Seq(BufsOf[t])
    BY <1>4
  <2> QED
    BY <2>1, CutAt
<1>6. /\ Waiting'[t] = Waiting[t] - n
      /\ \A u \in Queues \ {t} : Waiting'[u] = Waiting[u]
  BY <1>2, <1>5 DEF Inv, Base, Waiting
<1>7. Pending'[t] = n /\ Pending[t] = 0
  BY <1>1, <1>2, <1>4, <1>5 DEF Pending
<1>8. \A u \in Queues \ {t} : Pending'[u] = Pending[u]
  BY <1>1, OtherNumbers
<1>9. re'[t] = re[t] + n /\ \A u \in Queues \ {t} : re'[u] = re[u]
  BY <1>2 DEF Inv, Base
<1>10. /\ \A u \in Queues : Waiting[u] \in Nat /\ Waiting'[u] \in Nat
       /\ \A u \in Queues : Pending[u] \in Nat /\ Pending'[u] \in Nat
       /\ \A u \in Queues : re[u] \in Nat /\ re'[u] \in Nat
       /\ IsFiniteSet(Queues)
       /\ OnQueues(re) \in Nat /\ OnQueues(Waiting) \in Nat
       /\ OnQueues(Pending) \in Nat
       /\ OnFlows(table) \in Nat /\ OnFlows(received) \in Nat
  BY DEF Numbers
<1>11. OnQueues(Waiting') = OnQueues(Waiting) + (Waiting'[t] - Waiting[t])
  BY <1>6, <1>10, QueueChanges
<1>12. OnQueues(Pending') = OnQueues(Pending) + (Pending'[t] - Pending[t])
  BY <1>8, <1>10, QueueChanges
<1>13. OnQueues(re') = OnQueues(re) + (re'[t] - re[t])
  BY <1>9, <1>10, QueueChanges
<1>14. n \in Nat
  BY <1>4
<1>15. /\ OnQueues(Waiting') = OnQueues(Waiting) - n
       /\ OnQueues(Pending') = OnQueues(Pending) + n
       /\ OnQueues(re') = OnQueues(re) + n
  <2>1. Waiting'[t] - Waiting[t] = 0 - n
    BY <1>6, <1>10, <1>14
  <2>2. Pending'[t] - Pending[t] = n
    BY <1>7, <1>14
  <2>3. re'[t] - re[t] = n
    BY <1>9, <1>10, <1>14
  <2>4. OnQueues(Waiting') = OnQueues(Waiting) - n
    BY <1>10, <1>11, <1>14, <2>1
  <2> QED
    BY <1>12, <1>13, <2>2, <2>3, <2>4
<1>16. /\ OnQueues(re') = OnFlows(table) + OnQueues(Pending')
       /\ OnFlows(received) = OnQueues(re') + OnQueues(Waiting')
  BY <1>10, <1>14, <1>15 DEF Totals
<1> QED
  BY <1>3, <1>16 DEF Totals, OnQueues, OnFlows

(* A packet is processed.                                                  *)
LEMMA PacketTotals ==
  ASSUME Inv, Numbers, Numbers', Totals, NEW t \in Queues, Packet(t)
  PROVE  Totals'
<1>1. /\ setup' = setup /\ \A u \in Queues \ {t} : SameThread(u)
      /\ Unprocessed(t) # <<>>
      /\ Unprocessed(t)' = Tail(Unprocessed(t))
      /\ flow[Current(t)] \in FlowsOf[t]
  BY PacketInv
<1>2. PICK g \in Flows : g = flow[Current(t)]
  BY <1>1, OfQueue DEF Inv, Base
<1>3. /\ table' = [table EXCEPT ![g] = @ + 1]
      /\ UNCHANGED <<received, filled, re>>
  BY <1>2 DEF Packet, nicVars
<1>4. Len(Tail(Unprocessed(t))) = Len(Unprocessed(t)) - 1
  BY <1>1, HeldBufs, HeadTailProperties
<1>5. Pending'[t] = Pending[t] - 1
  BY <1>1, <1>4 DEF Pending
<1>6. \A u \in Queues \ {t} : Pending'[u] = Pending[u]
  BY <1>1, OtherNumbers
<1>7. /\ table'[g] = table[g] + 1
      /\ \A f \in Flows \ {g} : table'[f] = table[f]
  BY <1>3 DEF Inv, Base
<1>8. Waiting' = Waiting
  BY <1>3 DEF Waiting
<1>10. /\ \A u \in Queues : Pending[u] \in Nat /\ Pending'[u] \in Nat
       /\ \A f \in Flows : table[f] \in Nat /\ table'[f] \in Nat
       /\ IsFiniteSet(Queues) /\ IsFiniteSet(Flows)
       /\ OnQueues(re) \in Nat /\ OnQueues(Pending) \in Nat
       /\ OnFlows(table) \in Nat
  BY DEF Numbers
<1>11. OnQueues(Pending') = OnQueues(Pending) + (Pending'[t] - Pending[t])
  BY <1>6, <1>10, QueueChanges
<1>12. OnFlows(table') = OnFlows(table) + (table'[g] - table[g])
  BY <1>7, <1>10, FlowChanges
<1>13. /\ OnQueues(Pending') = OnQueues(Pending) - 1
       /\ OnFlows(table') = OnFlows(table) + 1
  BY <1>5, <1>7, <1>10, <1>11, <1>12
<1>14. OnQueues(re) = OnFlows(table') + OnQueues(Pending')
  BY <1>10, <1>13 DEF Totals
<1> QED
  BY <1>3, <1>8, <1>14 DEF Totals, OnQueues, OnFlows

WorkerStep == \/ \E t \in Queues : Arm(t)
              \/ \E t \in Queues : \E f \in FlowsOf[t] : Arrive(t, f)
              \/ \E t \in Queues : RxBurst(t)
              \/ \E t \in Queues : Packet(t)
              \/ \E t \in Queues : Free(t)

(* What a thread or the NIC does: the counters grow.                       *)
LEMMA WorkerGrows ==
  ASSUME Inv, WorkerStep
  PROVE  /\ Running /\ UNCHANGED masterVars
         /\ \A t \in Queues : re[t] <= re'[t]
         /\ \A f \in Flows : table[f] <= table'[f]
<1>1. Running /\ UNCHANGED masterVars
  BY DEF WorkerStep, Arm, Arrive, RxBurst, Packet, Free
<1>0. /\ \A t \in Queues : re[t] \in Nat /\ re[t] <= re[t]
      /\ \A f \in Flows : table[f] \in Nat /\ table[f] <= table[f]
  BY DEF Inv, Base
<1>2. ASSUME UNCHANGED <<re, table>>
      PROVE  /\ \A t \in Queues : re[t] <= re'[t]
             /\ \A f \in Flows : table[f] <= table'[f]
  BY <1>0, <1>2
<1>3. ASSUME NEW t \in Queues, RxBurst(t)
      PROVE  /\ \A u \in Queues : re[u] <= re'[u]
             /\ \A f \in Flows : table[f] <= table'[f]
  <2>1. PICK n \in 1 .. BurstSize : re' = [re EXCEPT ![t] = @ + n]
    BY <1>3 DEF RxBurst, Take
  <2>2. table' = table
    BY <1>3 DEF RxBurst
  <2>3. n \in Nat
    BY RtcAssumption
  <2>4. \A u \in Queues : re[u] <= re'[u]
    BY <1>0, <2>1, <2>3 DEF Inv, Base
  <2> QED
    BY <1>0, <2>2, <2>4
<1>4. ASSUME NEW t \in Queues, Packet(t)
      PROVE  /\ \A u \in Queues : re[u] <= re'[u]
             /\ \A f \in Flows : table[f] <= table'[f]
  <2>1. PICK g : g = flow[Current(t)]
    OBVIOUS
  <2>2. table' = [table EXCEPT ![g] = @ + 1] /\ re' = re
    BY <1>4, <2>1 DEF Packet
  <2>3. \A f \in Flows : table[f] <= table'[f]
    BY <1>0, <2>2 DEF Inv, Base
  <2> QED
    BY <1>0, <2>2, <2>3
<1>5. ASSUME NEW t \in Queues, Arm(t) PROVE UNCHANGED <<re, table>>
  BY <1>5 DEF Arm, counters
<1>6. ASSUME NEW t \in Queues, NEW f, Arrive(t, f) PROVE UNCHANGED <<re, table>>
  BY <1>6 DEF Arrive, counters
<1>7. ASSUME NEW t \in Queues, Free(t) PROVE UNCHANGED <<re, table>>
  BY <1>7 DEF Free, counters
<1>8. /\ \A u \in Queues : re[u] <= re'[u]
      /\ \A f \in Flows : table[f] <= table'[f]
  BY <1>2, <1>3, <1>4, <1>5, <1>6, <1>7, Zenon DEF WorkerStep
<1> QED
  BY <1>1, <1>8

(* The totals are kept.                                                    *)
LEMMA NextTotals ==
  ASSUME Inv, Inv', Totals, [Next]_vars
  PROVE  Totals'
<1>1. Numbers
  BY TotalsNat
<1>2. Numbers'
  <2>1. Inv' => Numbers'
    BY TotalsNat, PTL
  <2> QED
    BY <2>1
<1>3. CASE UNCHANGED vars
  BY <1>3, SameTotals, ThreadsSame DEF vars, nicVars, counters
<1>4. CASE MasterStep
  BY <1>4, MasterInv, SameTotals, ThreadsSame DEF workers, nicVars, counters
<1>5. ASSUME NEW t \in Queues, Arm(t) PROVE Totals'
  BY <1>5, SameTotals, ThreadsSame DEF Arm, counters
<1>6. ASSUME NEW t \in Queues, Free(t) PROVE Totals'
  <2>1. /\ setup' = setup /\ \A v \in Queues \ {t} : SameThread(v)
        /\ Unprocessed(t)' = Unprocessed(t)
    BY <1>6, FreeInv
  <2>2. UNCHANGED <<re, table, received, filled>>
    BY <1>6 DEF Free, nicVars, counters
  <2>3. \A u \in Queues : Unprocessed(u)' = Unprocessed(u)
    BY <2>1, OtherThread
  <2> QED
    BY <2>2, <2>3, SameTotals
<1>7. ASSUME NEW t \in Queues, NEW f \in FlowsOf[t], Arrive(t, f) PROVE Totals'
  BY <1>1, <1>2, <1>7, ArriveTotals
<1>8. ASSUME NEW t \in Queues, RxBurst(t) PROVE Totals'
  BY <1>1, <1>2, <1>8, RxBurstTotals
<1>9. ASSUME NEW t \in Queues, Packet(t) PROVE Totals'
  BY <1>1, <1>2, <1>9, PacketTotals
<1>10. CASE Next
  BY <1>4, <1>5, <1>6, <1>7, <1>8, <1>9, <1>10, StepCases, Zenon
<1> QED
  BY <1>3, <1>10

(* What the master has added up is no more than what is there now.         *)
Report ==
  /\ mpc = "wait" => sum = 0 /\ printed = 0
  /\ mpc = "table" => /\ printed = 0
                      /\ sum <= SumFunctionOnSet(table, Flows \ rest)
  /\ mpc = "queues" => /\ sum <= printed + SumFunctionOnSet(re, rest)
                       /\ printed <= SumFunctionOnSet(re, Queues \ rest)
  /\ ReportConsistent

(* The sums over parts.                                                    *)
LEMMA PartSums ==
  ASSUME Inv
  PROVE  /\ \A S \in SUBSET Flows : /\ IsFiniteSet(S)
                                    /\ SumFunctionOnSet(table, S) \in Nat
         /\ \A S \in SUBSET Queues : /\ IsFiniteSet(S)
                                     /\ SumFunctionOnSet(re, S) \in Nat
<1>1. Numbers
  BY TotalsNat
<1>2. ASSUME NEW S \in SUBSET Flows
      PROVE  IsFiniteSet(S) /\ SumFunctionOnSet(table, S) \in Nat
  <2>1. IsFiniteSet(S)
    BY <1>1, FS_Subset DEF Numbers
  <2>2. \A f \in S : table[f] \in Nat
    BY <1>1 DEF Numbers
  <2> QED
    BY <2>1, <2>2, SumNat
<1>3. ASSUME NEW S \in SUBSET Queues
      PROVE  IsFiniteSet(S) /\ SumFunctionOnSet(re, S) \in Nat
  <2>1. IsFiniteSet(S)
    BY <1>1, FS_Subset DEF Numbers
  <2>2. \A t \in S : re[t] \in Nat
    BY <1>1 DEF Numbers
  <2> QED
    BY <2>1, <2>2, SumNat
<1> QED
  BY <1>2, <1>3

(* The threads only add to what was summed before.                         *)
LEMMA WorkerReport ==
  ASSUME Inv, Inv', Report, WorkerStep
  PROVE  Report'
<1>1. /\ Running /\ UNCHANGED masterVars
      /\ \A t \in Queues : re[t] <= re'[t]
      /\ \A f \in Flows : table[f] <= table'[f]
  BY WorkerGrows
<1>2. /\ \A t \in Queues : re[t] \in Nat /\ re'[t] \in Nat
      /\ \A f \in Flows : table[f] \in Nat /\ table'[f] \in Nat
  BY DEF Inv, Base
<1>3. ASSUME NEW S \in SUBSET Flows
      PROVE  /\ SumFunctionOnSet(table, S) \in Nat
             /\ SumFunctionOnSet(table', S) \in Nat
             /\ SumFunctionOnSet(table, S) <= SumFunctionOnSet(table', S)
  <2>1. IsFiniteSet(S)
    BY PartSums
  <2>2. \A f \in S : /\ table[f] \in Int /\ table'[f] \in Int
                     /\ table[f] <= table'[f]
    BY <1>1, <1>2
  <2>3. \A f \in S : table[f] \in Nat /\ table'[f] \in Nat
    BY <1>2
  <2>4. SumFunctionOnSet(table, S) <= SumFunctionOnSet(table', S)
    BY <2>1, <2>2, SumLeq
  <2> QED
    BY <2>1, <2>3, <2>4, SumNat
<1>4. ASSUME NEW S \in SUBSET Queues
      PROVE  /\ SumFunctionOnSet(re, S) \in Nat
             /\ SumFunctionOnSet(re', S) \in Nat
             /\ SumFunctionOnSet(re, S) <= SumFunctionOnSet(re', S)
  <2>1. IsFiniteSet(S)
    BY PartSums
  <2>2. \A t \in S : /\ re[t] \in Int /\ re'[t] \in Int /\ re[t] <= re'[t]
    BY <1>1, <1>2
  <2>3. \A t \in S : re[t] \in Nat /\ re'[t] \in Nat
    BY <1>2
  <2>4. SumFunctionOnSet(re, S) <= SumFunctionOnSet(re', S)
    BY <2>1, <2>2, SumLeq
  <2> QED
    BY <2>1, <2>3, <2>4, SumNat
<1>5. mpc' = mpc /\ rest' = rest /\ sum' = sum /\ printed' = printed /\ mpc # "exit"
  BY <1>1 DEF masterVars, Running
<1>6. sum \in Nat /\ printed \in Nat
  BY DEF Inv, MasterOK
<1>7. ASSUME mpc = "table" PROVE sum <= SumFunctionOnSet(table', Flows \ rest)
  <2>1. sum <= SumFunctionOnSet(table, Flows \ rest)
    BY <1>7 DEF Report
  <2>2. /\ SumFunctionOnSet(table, Flows \ rest) \in Nat
        /\ SumFunctionOnSet(table', Flows \ rest) \in Nat
        /\ SumFunctionOnSet(table, Flows \ rest)
             <= SumFunctionOnSet(table', Flows \ rest)
    BY <1>3
  <2> QED
    BY <1>6, <2>1, <2>2
<1>8. ASSUME mpc = "queues"
      PROVE  /\ sum <= printed + SumFunctionOnSet(re', rest)
             /\ printed <= SumFunctionOnSet(re', Queues \ rest)
  <2>0. rest \in SUBSET Queues /\ Queues \ rest \in SUBSET Queues
    BY <1>8 DEF Inv, MasterOK
  <2>1. /\ sum <= printed + SumFunctionOnSet(re, rest)
        /\ printed <= SumFunctionOnSet(re, Queues \ rest)
    BY <1>8 DEF Report
  <2>2. /\ SumFunctionOnSet(re, rest) \in Nat
        /\ SumFunctionOnSet(re', rest) \in Nat
        /\ SumFunctionOnSet(re, rest) <= SumFunctionOnSet(re', rest)
    BY <1>4, <2>0
  <2>3. /\ SumFunctionOnSet(re, Queues \ rest) \in Nat
        /\ SumFunctionOnSet(re', Queues \ rest) \in Nat
        /\ SumFunctionOnSet(re, Queues \ rest)
             <= SumFunctionOnSet(re', Queues \ rest)
    BY <1>4, <2>0
  <2> QED
    BY <1>6, <2>1, <2>2, <2>3
<1> QED
  BY <1>5, <1>7, <1>8 DEF Report, ReportConsistent

(* What the master adds.                                                   *)
LEMMA MasterReport ==
  ASSUME Inv, Totals, Report, MasterStep
  PROVE  Report'
<1>0. /\ table' = table /\ re' = re /\ received' = received
      /\ sum \in Nat /\ printed \in Nat
  BY MasterInv DEF workers, counters, nicVars, Inv, MasterOK
<1>1. CASE Sigint
  <2>1. mpc = "wait" /\ mpc' = "table" /\ rest' = Flows /\ sum' = sum /\ printed' = printed
    BY <1>1 DEF Sigint
  <2>2. Flows \ Flows = {} /\ sum = 0 /\ printed = 0
    BY <2>1 DEF Report
  <2>3. SumFunctionOnSet(table', Flows \ rest') = 0
    BY <2>1, <2>2, SumEmpty
  <2> QED
    BY <2>1, <2>2, <2>3 DEF Report, ReportConsistent
<1>2. CASE SumEntry
  <2>1. PICK f \in rest : sum' = sum + table[f] /\ rest' = rest \ {f}
    BY <1>2 DEF SumEntry
  <2>2. mpc = "table" /\ mpc' = mpc /\ printed' = printed
    BY <1>2 DEF SumEntry
  <2> DEFINE S == Flows \ rest
             U == Flows \ rest'
  <2>3. f \in U /\ U \in SUBSET Flows /\ U \ {f} = S /\ S \in SUBSET Flows
    BY <2>1, <2>2 DEF Inv, MasterOK
  <2>4. \A g \in U : table[g] \in Nat
    BY DEF Inv, Base
  <2>5. IsFiniteSet(U) /\ SumFunctionOnSet(table, S) \in Nat
    BY <2>3, PartSums
  <2> HIDE DEF S, U
  <2>6. SumFunctionOnSet(table, U) = table[f] + SumFunctionOnSet(table, S)
    <3>1. \A g \in U : table[g] \in Int
      BY <2>4
    <3>2. SumFunctionOnSet(table, U) = table[f] + SumFunctionOnSet(table, U \ {f})
      BY <2>3, <2>5, <3>1, SumStep
    <3> QED
      BY <2>3, <3>2
  <2>7. sum <= SumFunctionOnSet(table, S) /\ printed = 0
    BY <2>2 DEF Report, S
  <2>8. sum' <= SumFunctionOnSet(table, U)
    BY <1>0, <2>1, <2>3, <2>4, <2>5, <2>6, <2>7
  <2> QED
    BY <1>0, <2>2, <2>7, <2>8 DEF Report, ReportConsistent, U
<1>3. CASE SumEnds
  <2>1. /\ mpc = "table" /\ rest = {} /\ mpc' = "queues" /\ rest' = Queues
        /\ sum' = sum /\ printed' = printed
    BY <1>3 DEF SumEnds
  <2>2. Flows \ {} = Flows /\ Queues \ Queues = {}
    OBVIOUS
  <2>3. sum <= OnFlows(table) /\ printed = 0
    BY <2>1, <2>2 DEF Report, OnFlows
  <2>4. OnFlows(table) <= OnQueues(re) /\ OnFlows(table) \in Nat /\ OnQueues(re) \in Nat
    <3>1. /\ OnFlows(table) \in Nat /\ OnQueues(Pending) \in Nat
          /\ OnQueues(re) = OnFlows(table) + OnQueues(Pending)
      BY TotalsNat DEF Numbers, Totals
    <3> QED
      BY <3>1
  <2>5. sum <= printed + OnQueues(re)
    BY <1>0, <2>3, <2>4
  <2>6. SumFunctionOnSet(re', Queues \ rest') = 0
    BY <2>1, <2>2, SumEmpty
  <2> QED
    BY <1>0, <2>1, <2>3, <2>5, <2>6 DEF Report, ReportConsistent, OnQueues
<1>4. CASE PrintQueue
  <2>1. PICK t \in rest : printed' = printed + re[t] /\ rest' = rest \ {t}
    BY <1>4 DEF PrintQueue
  <2>2. mpc = "queues" /\ mpc' = mpc /\ sum' = sum /\ rest \subseteq Queues
    BY <1>4 DEF PrintQueue, Inv, MasterOK
  <2> DEFINE S == Queues \ rest
             U == Queues \ rest'
  <2>3. t \in U /\ U \in SUBSET Queues /\ U \ {t} = S /\ S \in SUBSET Queues
    BY <2>1, <2>2
  <2>4. \A u \in Queues : re[u] \in Nat /\ re[u] \in Int
    BY DEF Inv, Base
  <2>5. /\ IsFiniteSet(U) /\ SumFunctionOnSet(re, S) \in Nat
        /\ IsFiniteSet(rest) /\ SumFunctionOnSet(re, rest \ {t}) \in Nat
    BY <2>2, <2>3, PartSums
  <2> HIDE DEF S, U
  <2>6. SumFunctionOnSet(re, U) = re[t] + SumFunctionOnSet(re, S)
    <3>1. \A g \in U : re[g] \in Int
      BY <2>3, <2>4
    <3>2. SumFunctionOnSet(re, U) = re[t] + SumFunctionOnSet(re, U \ {t})
      BY <2>3, <2>5, <3>1, SumStep
    <3> QED
      BY <2>3, <3>2
  <2>7. SumFunctionOnSet(re, rest) = re[t] + SumFunctionOnSet(re, rest \ {t})
    <3>1. \A g \in rest : re[g] \in Int
      BY <2>2, <2>4
    <3> QED
      BY <2>5, <3>1, SumStep
  <2>8. /\ sum <= printed + SumFunctionOnSet(re, rest)
        /\ printed <= SumFunctionOnSet(re, S)
    BY <2>2 DEF Report, S
  <2>9. re[t] \in Nat
    BY <2>1, <2>2, <2>4
  <2>10. /\ sum <= printed' + SumFunctionOnSet(re, rest')
         /\ printed' <= SumFunctionOnSet(re, U)
    BY <1>0, <2>1, <2>5, <2>6, <2>7, <2>8, <2>9
  <2> QED
    BY <1>0, <2>2, <2>10 DEF Report, ReportConsistent, U
<1>5. CASE Exit
  <2>1. /\ mpc = "queues" /\ rest = {} /\ mpc' = "exit"
        /\ sum' = sum /\ printed' = printed
    BY <1>5 DEF Exit
  <2>2. Queues \ {} = Queues /\ SumFunctionOnSet(re, {}) = 0
    BY SumEmpty
  <2>3. sum <= printed + 0 /\ printed <= OnQueues(re)
    BY <2>1, <2>2 DEF Report, OnQueues
  <2>4. /\ OnQueues(re) \in Nat /\ OnQueues(Waiting) \in Nat
        /\ OnFlows(received) = OnQueues(re) + OnQueues(Waiting)
    BY TotalsNat DEF Numbers, Totals
  <2>5. sum <= printed /\ printed <= OnFlows(received)
    BY <1>0, <2>3, <2>4
  <2> QED
    BY <1>0, <2>1, <2>5 DEF Report, ReportConsistent, OnFlows
<1> QED
  BY <1>1, <1>2, <1>3, <1>4, <1>5 DEF MasterStep

(* At the start nothing is counted.                                        *)
LEMMA InitTotals == Init => Totals /\ Report
<1> SUFFICES ASSUME Init PROVE Totals /\ Report
  OBVIOUS
<1>1. Numbers
  BY InitInv, TotalsNat
<1>2. \A t \in Queues : re[t] = 0 /\ Waiting[t] = 0 /\ Pending[t] = 0
  <2>1. Len(<<>>) = 0
    OBVIOUS
  <2>2. \A t \in Queues : filled[t] = <<>> /\ Unprocessed(t) = <<>> /\ re[t] = 0
    BY DEF Init, Unprocessed
  <2> QED
    BY <2>1, <2>2 DEF Waiting, Pending
<1>3. \A f \in Flows : table[f] = 0 /\ received[f] = 0
  BY DEF Init
<1>4. /\ OnQueues(re) = 0 /\ OnQueues(Waiting) = 0 /\ OnQueues(Pending) = 0
      /\ OnFlows(table) = 0 /\ OnFlows(received) = 0
  BY <1>1, <1>2, <1>3, SumZero DEF Numbers, OnQueues, OnFlows
<1>5. Totals
  BY <1>4 DEF Totals
<1>6. Report
  BY DEF Init, Report, ReportConsistent
<1> QED
  BY <1>5, <1>6

(* ReportConsistent, for every build, also where a buffer is freed twice:  *)
(* handler may run while the threads count, and yet the table that it adds *)
(* up first has no more packets than the re that it prints next, nor these *)
(* more than the NIC received.                                             *)
THEOREM ReportAddsUp == Spec => []ReportConsistent
<1>1. Inv /\ Inv' /\ Totals /\ Report /\ [Next]_vars => Totals' /\ Report'
  <2> SUFFICES ASSUME Inv, Inv', Totals, Report, [Next]_vars
               PROVE  Totals' /\ Report'
    OBVIOUS
  <2>1. Totals'
    BY NextTotals
  <2>2. CASE UNCHANGED vars
    BY <2>1, <2>2 DEF Report, ReportConsistent, vars, masterVars, counters, nicVars
  <2>3. CASE Next
    <3>1. WorkerStep \/ MasterStep
      BY <2>3, StepCases, Zenon DEF WorkerStep
    <3> QED
      BY <2>1, <3>1, WorkerReport, MasterReport
  <2> QED
    BY <2>2, <2>3
<1>2. Report => ReportConsistent
  BY DEF Report
<1> QED
  BY <1>1, <1>2, InitTotals, AlwaysInv, PTL DEF Spec
=============================================================================
