--------------------------- MODULE Tables_proofs ---------------------------
(***************************************************************************)
(* Proofs about Tables.  The lists of LinkedList and, slots and list taken *)
(* together, those of HashList are chains; the first part is about what a  *)
(* packet does to a chain.                                                 *)
(***************************************************************************)
EXTENDS Tables, Lemmas, SequenceTheorems

Entry == List!Entries(Highs)

(* What Highs and CtrMod make of an entry.                                 *)
LEMMA EntryType ==
  /\ CtrMod \in Nat \ {0} /\ Highs \subseteq Nat /\ Free = 0
  /\ Entry = [rss_high : Highs \cup {0}, ctr : 0 .. CtrMod - 1]
BY DoubleHashAssumption DEF Entry, List!Entries, List!Free, Free

(* The entry where the walk for h stops.                                   *)
At(c, h) == List!First(List!Stops(c, h))

Stopped(c, h, i) ==
  /\ i \in DOMAIN c /\ c[i].rss_high \in {0, h}
  /\ \A j \in DOMAIN c : j < i => c[j].rss_high \notin {0, h}

(* It is the first that is free or named h.                                *)
LEMMA FirstStop ==
  ASSUME NEW S, NEW c \in Seq(S), NEW h, List!Stops(c, h) # {}
  PROVE  Stopped(c, h, At(c, h))
<1> DEFINE T == List!Stops(c, h)
<1>1. /\ Len(c) \in Nat /\ DOMAIN c = 1 .. Len(c)
  BY LenProperties
<1>2. T = {i \in DOMAIN c : c[i].rss_high \in {0, h}}
  BY DEF List!Stops, List!Free
<1>3. T \in SUBSET Nat
  BY <1>1, <1>2
<1>4. \E x \in T : \A y \in T : x <= y
  BY <1>3, LeastNumber
<1>5. At(c, h) \in T /\ \A y \in T : At(c, h) <= y
  BY <1>4, Zenon DEF At, List!First
<1> HIDE DEF T
<1>6. ASSUME NEW j \in DOMAIN c, j < At(c, h) PROVE j \notin T
  <2>1. j \in Nat
    BY <1>1
  <2>2. At(c, h) \in Nat
    BY <1>3, <1>5, Zenon
  <2> QED
    BY <1>5, <1>6, <2>1, <2>2
<1> QED
  BY <1>2, <1>5, <1>6 DEF Stopped

(* What becomes of a chain: the entry where the walk stops, and the rest.  *)
LEMMA VisitEntry ==
  ASSUME NEW c \in Seq(Entry), NEW h \in Highs, List!Stops(c, h) # {}
  PROVE  /\ List!Visit(c, h) \in Seq(Entry)
         /\ DOMAIN List!Visit(c, h) = DOMAIN c
         /\ List!Visit(c, h)[At(c, h)].rss_high = h
         /\ List!Visit(c, h)[At(c, h)].ctr = (c[At(c, h)].ctr + 1) % CtrMod
         /\ \A j \in DOMAIN c : j # At(c, h) => List!Visit(c, h)[j] = c[j]
<1> DEFINE i == At(c, h)
           n == [rss_high |-> h, ctr |-> (c[i].ctr + 1) % CtrMod]
<1>1. Stopped(c, h, i)
  BY FirstStop
<1>2. List!Visit(c, h) = [c EXCEPT ![i] = n]
  BY DEF List!Visit, At
<1> HIDE DEF i
<1>3. i \in DOMAIN c
  BY <1>1 DEF Stopped
<1>4. c[i] \in Entry
  BY <1>3, ElementOfSeq, LenProperties
<1>5. c[i].ctr + 1 \in Int
  BY <1>4, EntryType
<1>6. (c[i].ctr + 1) % CtrMod \in 0 .. CtrMod - 1
  BY <1>5, EntryType, ModRange
<1>7. n \in Entry
  BY <1>6, EntryType
<1>8. [c EXCEPT ![i] = n] \in Seq(Entry)
  BY <1>3, <1>7, ExceptSeq, LenProperties
<1> QED
  BY <1>2, <1>3, <1>8 DEF i

(* A chain that grows.                                                     *)
LEMMA GrowEntry ==
  ASSUME NEW c \in Seq(Entry), NEW h \in Highs
  PROVE  /\ List!Grow(c, h) \in Seq(Entry)
         /\ Len(c) \in Nat /\ DOMAIN c = 1 .. Len(c)
         /\ DOMAIN List!Grow(c, h) = 1 .. Len(c) + 1
         /\ List!Grow(c, h)[Len(c) + 1].rss_high = h
         /\ List!Grow(c, h)[Len(c) + 1].ctr = 1 % CtrMod
         /\ \A j \in DOMAIN c : List!Grow(c, h)[j] = c[j]
<1> DEFINE n == [rss_high |-> h, ctr |-> 1 % CtrMod]
<1>1. 1 % CtrMod \in 0 .. CtrMod - 1
  BY EntryType, ModRange
<1>2. n \in Entry
  BY <1>1, EntryType
<1>3. List!Grow(c, h) = Append(c, n)
  BY DEF List!Grow
<1>4. n.rss_high = h /\ n.ctr = 1 % CtrMod
  OBVIOUS
<1> HIDE DEF n
<1>5. Len(c) \in Nat /\ DOMAIN c = 1 .. Len(c)
  BY LenProperties
<1> QED
  BY <1>2, <1>3, <1>4, <1>5, AppendProperties

-----------------------------------------------------------------------------
(* A chain that counts the packets s of the flows of a bucket: an entry    *)
(* that is named has all the packets of the flow, and every flow that sent *)
(* packets has an entry.                                                   *)
Counts(c, s) ==
  \A i \in DOMAIN c :
    IF c[i].rss_high = 0 THEN c[i].ctr = 0
    ELSE s[c[i].rss_high] > 0 /\ c[i].ctr = s[c[i].rss_high] % CtrMod

HasAll(c, s) ==
  \A h \in Highs : s[h] > 0 => \E i \in DOMAIN c : c[i].rss_high = h

ChainOK(c, s) ==
  c \in Seq(Entry) /\ List!WellFormed(c) /\ Counts(c, s) /\ HasAll(c, s)

(* One packet more.                                                        *)
More(s, h) == [s EXCEPT ![h] = @ + 1]

LEMMA MoreIs ==
  ASSUME NEW s \in [Highs -> Nat], NEW h \in Highs
  PROVE  /\ More(s, h) \in [Highs -> Nat]
         /\ More(s, h)[h] = s[h] + 1 /\ s[h] \in Nat
         /\ \A k \in Highs : k # h => More(s, h)[k] = s[k]
BY DEF More

(* The counter of a flow with its next packet.                             *)
LEMMA NextCount ==
  ASSUME NEW n \in Nat
  PROVE  ((n % CtrMod) + 1) % CtrMod = (n + 1) % CtrMod
<1>1. CtrMod \in Nat \ {0} /\ n \in Int /\ 1 \in Int
  BY EntryType
<1> QED
  BY <1>1, ModPlus

(* A chain stays well-formed when its walk stops at an entry, ...          *)
LEMMA VisitOK ==
  ASSUME NEW c, NEW s \in [Highs -> Nat], ChainOK(c, s),
         NEW h \in Highs, h # 0, 0 \in Highs => s[0] = 0, List!Stops(c, h) # {}
  PROVE  ChainOK(List!Visit(c, h), More(s, h))
<1> DEFINE i == At(c, h)
           v == List!Visit(c, h)
           t == More(s, h)
<1>0. c \in Seq(Entry) /\ List!WellFormed(c) /\ Counts(c, s) /\ HasAll(c, s)
  BY DEF ChainOK
<1>1. /\ i \in DOMAIN c /\ c[i].rss_high \in {0, h}
      /\ \A j \in DOMAIN c : j < i => c[j].rss_high \notin {0, h}
  BY <1>0, FirstStop DEF Stopped
<1>2. /\ v \in Seq(Entry) /\ DOMAIN v = DOMAIN c /\ v[i].rss_high = h
      /\ v[i].ctr = (c[i].ctr + 1) % CtrMod
      /\ \A j \in DOMAIN c : j # i => v[j] = c[j]
  BY <1>0, VisitEntry
<1>3. /\ t[h] = s[h] + 1 /\ s[h] \in Nat
      /\ \A k \in Highs : k # h => t[k] = s[k]
  BY MoreIs
<1> HIDE DEF i, v, t
<1>4. Len(c) \in Nat /\ DOMAIN c = 1 .. Len(c)
  BY <1>0, LenProperties
<1>5. \A j \in DOMAIN c : c[j] \in Entry
  BY <1>0, <1>4, ElementOfSeq
<1>6. \A j, k \in DOMAIN c : j < k /\ c[k].rss_high # 0 =>
        c[j].rss_high # 0 /\ c[j].rss_high # c[k].rss_high
  BY <1>0 DEF List!WellFormed, List!Free
<1>7. \A j \in DOMAIN c : j # i => c[j].rss_high # h
  <2> SUFFICES ASSUME NEW j \in DOMAIN c, j # i, c[j].rss_high = h PROVE FALSE
    OBVIOUS
  <2>1. i < j
    BY <1>1, <1>4
  <2> QED
    BY <1>1, <1>6, <2>1
<1>8. List!WellFormed(v)
  <2> SUFFICES ASSUME NEW j \in DOMAIN c, NEW k \in DOMAIN c, j < k,
                      v[k].rss_high # 0
               PROVE  v[j].rss_high # 0 /\ v[j].rss_high # v[k].rss_high
    BY <1>2 DEF List!WellFormed, List!Free
  <2>1. CASE k = i
    BY <1>1, <1>2, <1>4, <2>1
  <2>2. CASE k # i /\ j = i
    BY <1>2, <1>7, <2>2
  <2>3. CASE k # i /\ j # i
    BY <1>2, <1>6, <2>3
  <2> QED
    BY <2>1, <2>2, <2>3
<1>9. c[i].ctr = s[h] % CtrMod
  <2>1. CASE c[i].rss_high = h
    BY <1>0, <1>1, <2>1 DEF Counts
  <2>2. CASE c[i].rss_high = 0
    <3>1. \A j \in DOMAIN c : c[j].rss_high # h
      BY <1>7, <2>2
    <3>2. s[h] = 0
      BY <1>0, <1>3, <3>1 DEF HasAll
    <3>3. c[i].ctr = 0
      BY <1>0, <1>1, <2>2 DEF Counts
    <3> QED
      BY <3>2, <3>3, EntryType
  <2> QED
    BY <1>1, <2>1, <2>2
<1>10. Counts(v, t)
  <2> SUFFICES ASSUME NEW j \in DOMAIN c
               PROVE  IF v[j].rss_high = 0 THEN v[j].ctr = 0
                      ELSE /\ t[v[j].rss_high] > 0
                           /\ v[j].ctr = t[v[j].rss_high] % CtrMod
    BY <1>2 DEF Counts
  <2>1. CASE j = i
    <3>1. v[j].ctr = ((s[h] % CtrMod) + 1) % CtrMod
      BY <1>2, <1>9, <2>1
    <3>2. v[j].ctr = t[h] % CtrMod
      BY <1>3, <3>1, NextCount
    <3> QED
      BY <1>2, <1>3, <2>1, <3>2
  <2>2. CASE j # i
    <3>1. v[j] = c[j] /\ c[j].rss_high # h
      BY <1>2, <1>7, <2>2
    <3>2. c[j].rss_high # 0 => t[c[j].rss_high] = s[c[j].rss_high]
      BY <1>3, <1>5, <3>1, EntryType
    <3> QED
      BY <1>0, <3>1, <3>2 DEF Counts
  <2> QED
    BY <2>1, <2>2
<1>11. HasAll(v, t)
  <2> SUFFICES ASSUME NEW k \in Highs, t[k] > 0
               PROVE  \E j \in DOMAIN c : v[j].rss_high = k
    BY <1>2 DEF HasAll
  <2>1. CASE k = h
    BY <1>1, <1>2, <2>1
  <2>2. CASE k # h
    <3>1. s[k] > 0
      BY <1>3, <2>2
    <3>2. PICK j \in DOMAIN c : c[j].rss_high = k
      BY <1>0, <3>1 DEF HasAll
    <3>3. k # 0
      BY <3>1
    <3>4. j # i
      BY <1>1, <2>2, <3>2, <3>3
    <3> QED
      BY <1>2, <3>2, <3>4
  <2> QED
    BY <2>1, <2>2
<1> QED
  BY <1>2, <1>8, <1>10, <1>11 DEF ChainOK, v, t

(* ... and when it falls off the chain.                                    *)
LEMMA GrowOK ==
  ASSUME NEW c, NEW s \in [Highs -> Nat], ChainOK(c, s),
         NEW h \in Highs, h # 0, List!Stops(c, h) = {}
  PROVE  ChainOK(List!Grow(c, h), More(s, h))
<1> DEFINE i == Len(c) + 1
           v == List!Grow(c, h)
           t == More(s, h)
<1>0. c \in Seq(Entry) /\ List!WellFormed(c) /\ Counts(c, s) /\ HasAll(c, s)
  BY DEF ChainOK
<1>1. \A j \in DOMAIN c : c[j].rss_high # 0 /\ c[j].rss_high # h
  BY DEF List!Stops, List!Free
<1>2. /\ v \in Seq(Entry) /\ DOMAIN v = 1 .. i /\ v[i].rss_high = h
      /\ v[i].ctr = 1 % CtrMod
      /\ \A j \in DOMAIN c : v[j] = c[j]
      /\ Len(c) \in Nat /\ DOMAIN c = 1 .. Len(c)
  BY <1>0, GrowEntry
<1>3. /\ t[h] = s[h] + 1 /\ s[h] \in Nat
      /\ \A k \in Highs : k # h => t[k] = s[k]
  BY MoreIs
<1>4. /\ i \in DOMAIN v /\ \A j \in DOMAIN v : j = i \/ j \in DOMAIN c
      /\ \A j \in DOMAIN c : j < i /\ j \in DOMAIN v
      /\ \A k \in DOMAIN v : ~(i < k)
  BY <1>2
<1> HIDE DEF i, v, t
<1>5. \A j \in DOMAIN c : c[j] \in Entry
  BY <1>0, <1>2, ElementOfSeq
<1>6. \A j, k \in DOMAIN c : j < k /\ c[k].rss_high # 0 =>
        c[j].rss_high # 0 /\ c[j].rss_high # c[k].rss_high
  BY <1>0 DEF List!WellFormed, List!Free
<1>7. List!WellFormed(v)
  <2> SUFFICES ASSUME NEW j \in DOMAIN v, NEW k \in DOMAIN v, j < k,
                      v[k].rss_high # 0
               PROVE  v[j].rss_high # 0 /\ v[j].rss_high # v[k].rss_high
    BY DEF List!WellFormed, List!Free
  <2>1. j \in DOMAIN c
    BY <1>4
  <2>2. CASE k = i
    BY <1>1, <1>2, <2>1, <2>2
  <2>3. CASE k # i
    BY <1>2, <1>4, <1>6, <2>1, <2>3
  <2> QED
    BY <2>2, <2>3
<1>8. s[h] = 0
  BY <1>0, <1>1, <1>3 DEF HasAll
<1>9. Counts(v, t)
  <2> SUFFICES ASSUME NEW j \in DOMAIN v
               PROVE  IF v[j].rss_high = 0 THEN v[j].ctr = 0
                      ELSE /\ t[v[j].rss_high] > 0
                           /\ v[j].ctr = t[v[j].rss_high] % CtrMod
    BY DEF Counts
  <2>1. CASE j = i
    BY <1>2, <1>3, <1>8, <2>1
  <2>2. CASE j # i
    <3>1. j \in DOMAIN c /\ v[j] = c[j] /\ c[j].rss_high # h
      BY <1>1, <1>2, <1>4, <2>2
    <3>2. c[j].rss_high # 0 => t[c[j].rss_high] = s[c[j].rss_high]
      BY <1>3, <1>5, <3>1, EntryType
    <3> QED
      BY <1>0, <3>1, <3>2 DEF Counts
  <2> QED
    BY <2>1, <2>2
<1>10. HasAll(v, t)
  <2> SUFFICES ASSUME NEW k \in Highs, t[k] > 0
               PROVE  \E j \in DOMAIN v : v[j].rss_high = k
    BY DEF HasAll
  <2>1. CASE k = h
    BY <1>2, <1>4, <2>1
  <2>2. CASE k # h
    <3>1. s[k] > 0
      BY <1>3, <2>2
    <3>2. PICK j \in DOMAIN c : c[j].rss_high = k
      BY <1>0, <3>1 DEF HasAll
    <3> QED
      BY <1>2, <1>4, <3>2
  <2> QED
    BY <2>1, <2>2
<1> QED
  BY <1>2, <1>7, <1>9, <1>10 DEF ChainOK, v, t

(* What a packet of flow h does to a chain.                                *)
Walk(c, h) == IF List!Stops(c, h) # {} THEN List!Visit(c, h) ELSE List!Grow(c, h)

LEMMA WalkType ==
  ASSUME NEW c \in Seq(Entry), NEW h \in Highs
  PROVE  Walk(c, h) \in Seq(Entry)
BY VisitEntry, GrowEntry DEF Walk

(* A packet of h keeps the chain of a clean bucket.                        *)
LEMMA WalkOK ==
  ASSUME NEW c, NEW s \in [Highs -> Nat], ChainOK(c, s),
         NEW h \in Highs, h # 0, 0 \in Highs => s[0] = 0
  PROVE  ChainOK(Walk(c, h), More(s, h))
BY VisitOK, GrowOK DEF Walk

(* What a chain says of the flows of its bucket.                           *)
LEMMA ChainSays ==
  ASSUME NEW c, NEW s \in [Highs -> Nat], ChainOK(c, s), 0 \in Highs => s[0] = 0
  PROVE  /\ List!Named(c) = {h \in Highs : s[h] > 0}
         /\ \A h \in Highs : s[h] > 0 => List!CountOf(c, h) = s[h] % CtrMod
<1>0. c \in Seq(Entry) /\ List!WellFormed(c) /\ Counts(c, s) /\ HasAll(c, s)
  BY DEF ChainOK
<1>1. \A j \in DOMAIN c : c[j] \in Entry
  BY <1>0, LenProperties, ElementOfSeq
<1>2. List!Named(c) = {c[i].rss_high : i \in DOMAIN c} \ {0}
  BY DEF List!Named, List!Free
<1>3. ASSUME NEW h \in List!Named(c) PROVE h \in Highs /\ s[h] > 0
  <2>1. PICK i \in DOMAIN c : h = c[i].rss_high /\ h # 0
    BY <1>2
  <2>2. h \in Highs
    BY <1>1, <2>1, EntryType
  <2> QED
    BY <1>0, <2>1, <2>2 DEF Counts
<1>4. ASSUME NEW h \in Highs, s[h] > 0
      PROVE  h \in List!Named(c) /\ List!CountOf(c, h) = s[h] % CtrMod
  <2>1. \E i \in DOMAIN c : c[i].rss_high = h
    BY <1>0, <1>4 DEF HasAll
  <2>2. PICK i \in DOMAIN c :
          /\ c[i].rss_high = h
          /\ List!CountOf(c, h) = c[i].ctr
    BY <2>1, Zenon DEF List!CountOf
  <2>3. h # 0
    BY <1>4
  <2> QED
    BY <1>0, <1>2, <2>2, <2>3 DEF Counts
<1> QED
  BY <1>3, <1>4

(* A chain of free entries.                                                *)
LEMMA FreeOK ==
  ASSUME NEW n \in Nat
  PROVE  /\ List!FreeChain(n) \in Seq(Entry)
         /\ ChainOK(List!FreeChain(n), [h \in Highs |-> 0])
<1> DEFINE c == List!FreeChain(n)
<1>1. c = [i \in 1 .. n |-> [rss_high |-> 0, ctr |-> 0]]
  BY DEF List!FreeChain, List!FreeEntry, List!Free
<1>2. [rss_high |-> 0, ctr |-> 0] \in Entry
  BY EntryType
<1>3. c \in Seq(Entry)
  BY <1>1, <1>2, SeqDef
<1>4. \A i \in DOMAIN c : c[i].rss_high = 0 /\ c[i].ctr = 0
  BY <1>1
<1> HIDE DEF c
<1>5. List!WellFormed(c)
  BY <1>4 DEF List!WellFormed, List!Free
<1>6. Counts(c, [h \in Highs |-> 0]) /\ HasAll(c, [h \in Highs |-> 0])
  BY <1>4 DEF Counts, HasAll
<1> QED
  BY <1>3, <1>5, <1>6 DEF ChainOK, c

-----------------------------------------------------------------------------
(* The slots of HashList with the list behind them are one chain.          *)

(* The elements of two chains in one.                                      *)
LEMMA Joined ==
  ASSUME NEW S, NEW c \in Seq(S), NEW d \in Seq(S)
  PROVE  /\ c \o d \in Seq(S) /\ Len(c) \in Nat /\ Len(d) \in Nat
         /\ DOMAIN c = 1 .. Len(c) /\ DOMAIN d = 1 .. Len(d)
         /\ Len(c \o d) = Len(c) + Len(d)
         /\ DOMAIN (c \o d) = 1 .. Len(c) + Len(d)
         /\ \A i \in 1 .. Len(c) : (c \o d)[i] = c[i]
         /\ \A i \in 1 .. Len(d) : (c \o d)[Len(c) + i] = d[i]
<1>1. /\ c \o d \in Seq(S) /\ Len(c) \in Nat /\ Len(d) \in Nat
      /\ DOMAIN c = 1 .. Len(c) /\ DOMAIN d = 1 .. Len(d)
      /\ Len(c \o d) = Len(c) + Len(d)
  BY ConcatProperties, LenProperties
<1>2. DOMAIN (c \o d) = 1 .. Len(c \o d)
  BY <1>1, LenProperties
<1> QED
  BY <1>1, <1>2, ConcatProperties

(* Sequences with the same elements are equal.                             *)
LEMMA SameSeq ==
  ASSUME NEW S, NEW c \in Seq(S), NEW d \in Seq(S), DOMAIN c = DOMAIN d,
         \A i \in DOMAIN c : c[i] = d[i]
  PROVE  c = d
<1>1. Len(c) = Len(d) /\ DOMAIN c = 1 .. Len(c)
  BY LenProperties
<1> QED
  BY <1>1, SeqEqual

(* An entry that takes a packet of h.                                      *)
Bumped(x, h) == [rss_high |-> h, ctr |-> (x.ctr + 1) % CtrMod]

LEMMA VisitIs ==
  ASSUME NEW c \in Seq(Entry), NEW h \in Highs, List!Stops(c, h) # {}
  PROVE  /\ List!Visit(c, h) = [c EXCEPT ![At(c, h)] = Bumped(c[At(c, h)], h)]
         /\ At(c, h) \in DOMAIN c
         /\ List!Visit(c, h)[At(c, h)] = Bumped(c[At(c, h)], h)
<1>1. List!Visit(c, h) = [c EXCEPT ![At(c, h)] = Bumped(c[At(c, h)], h)]
  BY DEF List!Visit, At, Bumped
<1>2. At(c, h) \in DOMAIN c
  BY FirstStop DEF Stopped
<1> QED
  BY <1>1, <1>2

(* There is only one entry where a walk stops.                             *)
LEMMA StoppedOnce ==
  ASSUME NEW S, NEW c \in Seq(S), NEW h, NEW i, Stopped(c, h, i)
  PROVE  List!Stops(c, h) # {} /\ At(c, h) = i
<1>1. i \in List!Stops(c, h)
  BY DEF Stopped, List!Stops, List!Free
<1>2. Stopped(c, h, At(c, h))
  BY <1>1, FirstStop
<1>3. DOMAIN c = 1 .. Len(c) /\ Len(c) \in Nat
  BY LenProperties
<1>4. i \in Int /\ At(c, h) \in Int
  BY <1>2, <1>3 DEF Stopped
<1>5. ~(i < At(c, h)) /\ ~(At(c, h) < i)
  BY <1>2 DEF Stopped
<1> QED
  BY <1>1, <1>4, <1>5

(* The walk stops in the first part, ...                                   *)
LEMMA WalkFirst ==
  ASSUME NEW c \in Seq(Entry), NEW d \in Seq(Entry), NEW h \in Highs,
         List!Stops(c, h) # {}
  PROVE  Walk(c \o d, h) = List!Visit(c, h) \o d
<1> DEFINE e == c \o d
           i == At(c, h)
           v == List!Visit(c, h)
           x == Bumped(c[i], h)
<1>1. /\ e \in Seq(Entry) /\ Len(c) \in Nat /\ Len(d) \in Nat
      /\ DOMAIN c = 1 .. Len(c) /\ DOMAIN e = 1 .. Len(c) + Len(d)
      /\ \A k \in 1 .. Len(c) : e[k] = c[k]
      /\ \A k \in 1 .. Len(d) : e[Len(c) + k] = d[k]
  BY Joined
<1>2. /\ i \in DOMAIN c /\ c[i].rss_high \in {0, h}
      /\ \A j \in DOMAIN c : j < i => c[j].rss_high \notin {0, h}
  BY FirstStop DEF Stopped
<1>3. /\ v \in Seq(Entry) /\ DOMAIN v = DOMAIN c
      /\ v[i] = x /\ \A j \in DOMAIN c : j # i => v[j] = c[j]
  BY VisitEntry, VisitIs
<1> HIDE DEF e, i, v, x
<1>4. Stopped(e, h, i)
  <2>1. i \in DOMAIN e /\ e[i].rss_high \in {0, h}
    BY <1>1, <1>2
  <2>2. ASSUME NEW j \in DOMAIN e, j < i PROVE e[j].rss_high \notin {0, h}
    <3>1. j \in 1 .. Len(c)
      BY <1>1, <1>2, <2>2
    <3> QED
      BY <1>1, <1>2, <2>2, <3>1
  <2> QED
    BY <2>1, <2>2 DEF Stopped
<1>5. List!Stops(e, h) # {} /\ At(e, h) = i
  BY <1>1, <1>4, StoppedOnce
<1>6. /\ List!Visit(e, h) \in Seq(Entry) /\ DOMAIN List!Visit(e, h) = DOMAIN e
      /\ List!Visit(e, h)[i] = Bumped(e[i], h)
      /\ \A j \in DOMAIN e : j # i => List!Visit(e, h)[j] = e[j]
  BY <1>1, <1>5, VisitEntry, VisitIs
<1>7. e[i] = c[i] /\ Bumped(e[i], h) = x
  BY <1>1, <1>2 DEF x
<1>8. /\ v \o d \in Seq(Entry) /\ Len(v) = Len(c)
      /\ DOMAIN (v \o d) = 1 .. Len(c) + Len(d)
      /\ \A k \in 1 .. Len(c) : (v \o d)[k] = v[k]
      /\ \A k \in 1 .. Len(d) : (v \o d)[Len(c) + k] = d[k]
  <2>1. Len(v) = Len(c)
    BY <1>1, <1>3, LenProperties
  <2>2. /\ v \o d \in Seq(Entry)
        /\ DOMAIN (v \o d) = 1 .. Len(v) + Len(d)
        /\ \A k \in 1 .. Len(v) : (v \o d)[k] = v[k]
        /\ \A k \in 1 .. Len(d) : (v \o d)[Len(v) + k] = d[k]
    <3>1. v \in Seq(Entry)
      BY <1>3
    <3> QED
      BY <3>1, Joined
  <2> QED
    BY <2>1, <2>2, Zenon
<1>9. ASSUME NEW k \in DOMAIN e PROVE List!Visit(e, h)[k] = (v \o d)[k]
  <2>1. CASE k \in 1 .. Len(c)
    <3>1. CASE k = i
      BY <1>3, <1>6, <1>7, <1>8, <2>1, <3>1
    <3>2. CASE k # i
      BY <1>1, <1>3, <1>6, <1>8, <2>1, <3>2
    <3> QED
      BY <3>1, <3>2
  <2>2. CASE k \notin 1 .. Len(c)
    <3>1. PICK m \in 1 .. Len(d) : k = Len(c) + m
      <4>1. k - Len(c) \in 1 .. Len(d) /\ k = Len(c) + (k - Len(c))
        BY <1>1, <2>2
      <4> QED
        BY <4>1
    <3>2. k # i
      BY <1>1, <1>2, <2>2
    <3> QED
      BY <1>1, <1>6, <1>8, <3>1, <3>2
  <2> QED
    BY <2>1, <2>2
<1>10. List!Visit(e, h) = v \o d
  <2>1. DOMAIN List!Visit(e, h) = DOMAIN (v \o d)
    BY <1>1, <1>6, <1>8
  <2>2. \A k \in DOMAIN List!Visit(e, h) : List!Visit(e, h)[k] = (v \o d)[k]
    BY <1>6, <1>9
  <2> QED
    BY <1>6, <1>8, <2>1, <2>2, SameSeq, Zenon
<1> QED
  BY <1>5, <1>10 DEF Walk, e, v

(* ... in the second one, or falls off it.                                 *)
LEMMA WalkSecond ==
  ASSUME NEW c \in Seq(Entry), NEW d \in Seq(Entry), NEW h \in Highs,
         List!Stops(c, h) = {}
  PROVE  Walk(c \o d, h) = c \o Walk(d, h)
<1> DEFINE e == c \o d
<1>1. /\ e \in Seq(Entry) /\ Len(c) \in Nat /\ Len(d) \in Nat
      /\ DOMAIN c = 1 .. Len(c) /\ DOMAIN d = 1 .. Len(d)
      /\ DOMAIN e = 1 .. Len(c) + Len(d)
      /\ \A k \in 1 .. Len(c) : e[k] = c[k]
      /\ \A k \in 1 .. Len(d) : e[Len(c) + k] = d[k]
  BY Joined
<1>2. \A j \in DOMAIN c : c[j].rss_high \notin {0, h}
  BY DEF List!Stops, List!Free
<1>3. ASSUME NEW k \in DOMAIN e, k \notin 1 .. Len(c)
      PROVE  \E m \in 1 .. Len(d) : k = Len(c) + m
  <2>1. k - Len(c) \in 1 .. Len(d) /\ k = Len(c) + (k - Len(c))
    BY <1>1, <1>3
  <2> QED
    BY <2>1
<1>4. CASE List!Stops(d, h) # {}
  <2> DEFINE i == At(d, h)
             v == List!Visit(d, h)
             x == Bumped(d[i], h)
             n == Len(c) + i
  <2>2. /\ i \in DOMAIN d /\ d[i].rss_high \in {0, h}
        /\ \A j \in DOMAIN d : j < i => d[j].rss_high \notin {0, h}
    BY <1>4, FirstStop DEF Stopped
  <2>3. /\ v \in Seq(Entry) /\ DOMAIN v = DOMAIN d
        /\ v[i] = x /\ \A j \in DOMAIN d : j # i => v[j] = d[j]
    BY <1>4, VisitEntry, VisitIs
  <2>4. n \in DOMAIN e /\ n \in Int /\ e[n] = d[i] /\ n \notin 1 .. Len(c) /\ i \in Int
    BY <1>1, <2>2
  <2>n. n = Len(c) + i
    OBVIOUS
  <2> HIDE DEF e, i, v, x, n
  <2>5. Stopped(e, h, n)
    <3>1. n \in DOMAIN e /\ e[n].rss_high \in {0, h}
      BY <2>2, <2>4
    <3>2. ASSUME NEW j \in DOMAIN e, j < n PROVE e[j].rss_high \notin {0, h}
      <4>1. CASE j \in 1 .. Len(c)
        BY <1>1, <1>2, <4>1
      <4>2. CASE j \notin 1 .. Len(c)
        <5>1. PICK m \in 1 .. Len(d) : j = Len(c) + m
          BY <1>3, <4>2 DEF e
        <5>2. m < i
          BY <1>1, <2>4, <2>n, <3>2, <5>1
        <5> QED
          BY <1>1, <2>2, <5>1, <5>2
      <4> QED
        BY <4>1, <4>2
    <3> QED
      BY <3>1, <3>2 DEF Stopped
  <2>6. List!Stops(e, h) # {} /\ At(e, h) = n
    BY <1>1, <2>5, StoppedOnce DEF e
  <2>7. /\ List!Visit(e, h) \in Seq(Entry) /\ DOMAIN List!Visit(e, h) = DOMAIN e
        /\ List!Visit(e, h)[n] = Bumped(e[n], h)
        /\ \A j \in DOMAIN e : j # n => List!Visit(e, h)[j] = e[j]
    <3>1. e \in Seq(Entry)
      BY <1>1 DEF e
    <3> QED
      BY <2>6, <3>1, VisitEntry, VisitIs
  <2>8. /\ c \o v \in Seq(Entry) /\ Len(v) = Len(d)
        /\ DOMAIN (c \o v) = 1 .. Len(c) + Len(d)
        /\ \A k \in 1 .. Len(c) : (c \o v)[k] = c[k]
        /\ \A k \in 1 .. Len(d) : (c \o v)[Len(c) + k] = v[k]
    <3>1. Len(v) = Len(d)
      BY <1>1, <2>3, LenProperties
    <3>2. /\ c \o v \in Seq(Entry)
          /\ DOMAIN (c \o v) = 1 .. Len(c) + Len(v)
          /\ \A k \in 1 .. Len(c) : (c \o v)[k] = c[k]
          /\ \A k \in 1 .. Len(v) : (c \o v)[Len(c) + k] = v[k]
      <4>1. v \in Seq(Entry)
        BY <2>3
      <4> QED
        BY <4>1, Joined
    <3> QED
      BY <3>1, <3>2, Zenon
  <2>9. ASSUME NEW k \in DOMAIN e PROVE List!Visit(e, h)[k] = (c \o v)[k]
    <3>1. CASE k \in 1 .. Len(c)
      BY <1>1, <2>4, <2>7, <2>8, <3>1 DEF e
    <3>2. CASE k \notin 1 .. Len(c)
      <4>1. PICK m \in 1 .. Len(d) : k = Len(c) + m
        BY <1>3, <3>2 DEF e
      <4>2. CASE m = i
        BY <2>3, <2>4, <2>7, <2>8, <2>n, <4>1, <4>2 DEF x
      <4>3. CASE m # i
        <5>1. k # n
          BY <1>1, <2>4, <2>n, <4>1, <4>3
        <5> QED
          BY <1>1, <2>3, <2>7, <2>8, <4>1, <4>3, <5>1 DEF e
      <4> QED
        BY <4>2, <4>3
    <3> QED
      BY <3>1, <3>2
  <2>10. List!Visit(e, h) = c \o v
    <3>1. DOMAIN List!Visit(e, h) = DOMAIN (c \o v)
      BY <1>1, <2>7, <2>8 DEF e
    <3>2. \A k \in DOMAIN List!Visit(e, h) : List!Visit(e, h)[k] = (c \o v)[k]
      BY <2>7, <2>9
    <3> QED
      BY <2>7, <2>8, <3>1, <3>2, SameSeq, Zenon
  <2> QED
    BY <1>4, <2>6, <2>10 DEF Walk, e, v
<1>5. CASE List!Stops(d, h) = {}
  <2> DEFINE x == [rss_high |-> h, ctr |-> 1 % CtrMod]
  <2>1. \A j \in DOMAIN d : d[j].rss_high \notin {0, h}
    BY <1>5 DEF List!Stops, List!Free
  <2>2. List!Stops(e, h) = {}
    <3> SUFFICES ASSUME NEW k \in DOMAIN e PROVE e[k].rss_high \notin {0, h}
      BY DEF List!Stops, List!Free
    <3>1. CASE k \in 1 .. Len(c)
      BY <1>1, <1>2, <3>1
    <3>2. CASE k \notin 1 .. Len(c)
      BY <1>1, <1>3, <2>1, <3>2
    <3> QED
      BY <3>1, <3>2
  <2>3. 1 % CtrMod \in 0 .. CtrMod - 1
    BY EntryType, ModRange
  <2>4. x \in Entry
    BY <2>3, EntryType
  <2>5. List!Grow(e, h) = Append(e, x) /\ List!Grow(d, h) = Append(d, x)
    BY DEF List!Grow
  <2> HIDE DEF x
  <2>6. <<x>> \in Seq(Entry) /\ Append(e, x) = e \o <<x>> /\ Append(d, x) = d \o <<x>>
    <3>1. <<x>> \in Seq(Entry)
      BY <2>4
    <3> QED
      BY <1>1, <2>4, <3>1, AppendIsConcat
  <2>7. e \o <<x>> = c \o (d \o <<x>>)
    BY <2>6, ConcatAssociative
  <2> QED
    BY <1>5, <2>2, <2>5, <2>6, <2>7 DEF Walk
<1> QED
  BY <1>4, <1>5

-----------------------------------------------------------------------------
(* The instance Hash has copies of the operators of Chain.                 *)
LEMMA SameOps ==
  /\ \A c, h : /\ Hash!Stops(c, h) = List!Stops(c, h)
               /\ Hash!Visit(c, h) = List!Visit(c, h)
               /\ Hash!Grow(c, h) = List!Grow(c, h)
               /\ Hash!CountOf(c, h) = List!CountOf(c, h)
  /\ \A c : /\ Hash!WellFormed(c) <=> List!WellFormed(c)
            /\ Hash!Named(c) = List!Named(c)
  /\ \A n : Hash!FreeChain(n) = List!FreeChain(n)
  /\ Hash!Entries(Highs) = Entry
<1>1. ASSUME NEW c, NEW h
      PROVE  /\ Hash!Stops(c, h) = List!Stops(c, h)
             /\ Hash!Visit(c, h) = List!Visit(c, h)
             /\ Hash!Grow(c, h) = List!Grow(c, h)
             /\ Hash!CountOf(c, h) = List!CountOf(c, h)
  BY Zenon DEF Hash!Stops, List!Stops, Hash!Free, List!Free, Hash!Visit, List!Visit,
               Hash!First, List!First, Hash!Grow, List!Grow, Hash!CountOf, List!CountOf
<1>2. ASSUME NEW c
      PROVE  /\ Hash!WellFormed(c) <=> List!WellFormed(c)
             /\ Hash!Named(c) = List!Named(c)
  BY Zenon DEF Hash!WellFormed, List!WellFormed, Hash!Named, List!Named, Hash!Free,
               List!Free
<1>3. ASSUME NEW n PROVE Hash!FreeChain(n) = List!FreeChain(n)
  BY Zenon DEF Hash!FreeChain, List!FreeChain, Hash!FreeEntry, List!FreeEntry,
               Hash!Free, List!Free
<1>4. Hash!Entries(Highs) = Entry
  BY Zenon DEF Hash!Entries, List!Entries, Hash!Free, List!Free, Entry
<1> QED
  BY <1>1, <1>2, <1>3, <1>4, Zenon

(* The types of the lists, and the chains of the clean buckets.            *)
Types ==
  /\ seen \in [Buckets -> [Highs -> Nat]]
  /\ lflows \in [Buckets -> Seq(Entry)] /\ lexited \in BOOLEAN
  /\ hslots \in [Buckets -> [1 .. 2 -> Entry]]
  /\ hflows \in [Buckets -> Seq(Entry)] /\ hexited \in BOOLEAN

CleanOK(b) ==
  /\ 0 \in Highs => seen[b][0] = 0
  /\ ChainOK(lflows[b], seen[b])
  /\ ChainOK(hslots[b] \o hflows[b], seen[b])

Chains == Types /\ \A b \in Clean : CleanOK(b)

(* What a packet of flow (b, h) does to the lists.                         *)
InSlots(b, h) ==
  /\ List!Stops(hslots[b], h) # {}
  /\ hslots' = [hslots EXCEPT ![b] = List!Visit(@, h)]
  /\ hflows' = hflows

BehindSlots(b, h) ==
  /\ List!Stops(hslots[b], h) = {}
  /\ hslots' = hslots
  /\ hflows' = [hflows EXCEPT ![b] = Walk(@, h)]

PacketOf(b, h) ==
  /\ b \in Buckets /\ h \in Highs /\ <<b, h>> \in Flows
  /\ Packet(b, h)
  /\ seen' = [seen EXCEPT ![b] = More(@, h)]
  /\ lflows' = [lflows EXCEPT ![b] = Walk(@, h)]
  /\ InSlots(b, h) \/ BehindSlots(b, h)
  /\ lexited' = lexited /\ hexited' = hexited

Kept == /\ UNCHANGED <<vars, lflows, hslots, hflows>>
        /\ lexited' \in BOOLEAN /\ hexited' \in BOOLEAN

(* A step is that of a packet, or the tables stay as they are.             *)
LEMMA StepIs ==
  ASSUME Types, [TablesNext]_tablesVars
  PROVE  Kept \/ \E b, h : PacketOf(b, h)
<1>1. CASE UNCHANGED tablesVars
  BY <1>1 DEF tablesVars, vars, listVars, hashVars, Kept, Types
<1>2. CASE TablesNext
  <2>1. PICK f \in Flows : Deliver(f[1], f[2])
    BY <1>2 DEF TablesNext
  <2>2. PICK b \in Buckets, h \in Highs : f = <<b, h>>
    BY <2>1, TablesAssumption
  <2>3. Deliver(b, h) /\ <<b, h>> \in Flows
    BY <2>1, <2>2
  <2>4. CASE List!AllocationFails(b, h) /\ UNCHANGED <<vars, hashVars>>
    BY <2>4 DEF List!AllocationFails, Kept, vars, hashVars, Types
  <2>5. CASE Hash!AllocationFails(b, h) /\ UNCHANGED <<vars, listVars>>
    BY <2>5 DEF Hash!AllocationFails, Kept, vars, listVars, Types
  <2>6. CASE Packet(b, h) /\ List!Packet(b, h) /\ Hash!Packet(b, h)
    <3>1. seen' = [seen EXCEPT ![b] = More(@, h)]
      BY <2>6 DEF Packet, More
    <3>2. lflows' = [lflows EXCEPT ![b] = Walk(@, h)] /\ lexited' = lexited
      BY <2>6 DEF List!Packet, List!Found, List!Allocate, Walk
    <3>3. /\ Hash!InSlot(b, h) \/ Hash!InList(b, h) \/ Hash!Allocate(b, h)
          /\ hexited' = hexited
      BY <2>6 DEF Hash!Packet
    <3>4. CASE Hash!InSlot(b, h)
      <4>1. InSlots(b, h)
        BY <3>4, SameOps DEF Hash!InSlot, InSlots
      <4> QED
        BY <2>3, <2>6, <3>1, <3>2, <3>3, <4>1 DEF PacketOf
    <3>5. CASE Hash!InList(b, h) \/ Hash!Allocate(b, h)
      <4>1. BehindSlots(b, h)
        BY <3>5, SameOps DEF Hash!InList, Hash!Allocate, Hash!NeedsEntry, BehindSlots,
                             Walk
      <4> QED
        BY <2>3, <2>6, <3>1, <3>2, <3>3, <4>1 DEF PacketOf
    <3> QED
      BY <3>3, <3>4, <3>5
  <2> QED
    BY <2>3, <2>4, <2>5, <2>6 DEF Deliver
<1> QED
  BY <1>1, <1>2

(* Slots are a chain of two entries.                                       *)
LEMMA SlotsSeq ==
  /\ [1 .. 2 -> Entry] \subseteq Seq(Entry)
  /\ \A c \in Seq(Entry) : DOMAIN c = 1 .. 2 => c \in [1 .. 2 -> Entry]
<1>1. ASSUME NEW c \in [1 .. 2 -> Entry] PROVE c \in Seq(Entry)
  BY SeqDef
<1>2. ASSUME NEW c \in Seq(Entry), DOMAIN c = 1 .. 2 PROVE c \in [1 .. 2 -> Entry]
  <2>1. Len(c) = 2 /\ Len(c) \in Nat
    BY <1>2, LenProperties
  <2>2. c \in [1 .. Len(c) -> Entry]
    BY LenProperties
  <2> QED
    BY <2>1, <2>2
<1> QED
  BY <1>1, <1>2

(* At the start.                                                           *)
LEMMA InitChains == TablesInit => Chains
<1> SUFFICES ASSUME TablesInit PROVE Chains
  OBVIOUS
<1> DEFINE zero == [h \in Highs |-> 0]
<1>1. /\ seen = [b \in Buckets |-> zero]
      /\ lflows = [b \in Buckets |-> List!FreeChain(ListEntries)]
      /\ hslots = [b \in Buckets |-> List!FreeChain(2)]
      /\ hflows = [b \in Buckets |-> List!FreeChain(HashEntries)]
      /\ lexited = FALSE /\ hexited = FALSE
  BY SameOps DEF TablesInit, Init, List!Init, Hash!Init
<1>2. /\ List!FreeChain(ListEntries) \in Seq(Entry)
      /\ List!FreeChain(HashEntries) \in Seq(Entry)
      /\ List!FreeChain(2) \in Seq(Entry)
      /\ ChainOK(List!FreeChain(ListEntries), zero)
      /\ ChainOK(List!FreeChain(2) \o List!FreeChain(HashEntries), zero)
  <2>1. ListEntries \in Nat /\ HashEntries \in Nat /\ 2 + HashEntries \in Nat
    BY TablesAssumption
  <2>2. List!FreeChain(2) \o List!FreeChain(HashEntries) = List!FreeChain(2 + HashEntries)
    <3> DEFINE x == [rss_high |-> 0, ctr |-> 0]
               c == List!FreeChain(2)
               d == List!FreeChain(HashEntries)
               e == List!FreeChain(2 + HashEntries)
    <3>1. /\ c = [i \in 1 .. 2 |-> x] /\ d = [i \in 1 .. HashEntries |-> x]
          /\ e = [i \in 1 .. 2 + HashEntries |-> x]
      BY DEF List!FreeChain, List!FreeEntry, List!Free
    <3>2. c \in Seq(Entry) /\ d \in Seq(Entry) /\ e \in Seq(Entry)
      BY <2>1, FreeOK
    <3> HIDE DEF c, d, e
    <3>3. Len(c) = 2 /\ Len(d) = HashEntries /\ Len(e) = 2 + HashEntries
      BY <2>1, <3>1, <3>2, LenProperties
    <3>4. /\ c \o d \in Seq(Entry) /\ Len(c \o d) = Len(c) + Len(d)
          /\ \A i \in 1 .. Len(c) + Len(d) : (c \o d)[i] =
                IF i <= Len(c) THEN c[i] ELSE d[i - Len(c)]
      BY <3>2, ConcatProperties
    <3>5. ASSUME NEW i \in 1 .. 2 + HashEntries PROVE (c \o d)[i] = e[i]
      <4>1. CASE i <= 2
        BY <2>1, <3>1, <3>3, <3>4, <4>1
      <4>2. CASE ~(i <= 2)
        <5>1. i - 2 \in 1 .. HashEntries
          BY <2>1, <4>2
        <5> QED
          BY <2>1, <3>1, <3>3, <3>4, <4>2, <5>1
      <4> QED
        BY <4>1, <4>2
    <3>6. Len(c \o d) = Len(e) /\ \A i \in 1 .. Len(c \o d) : (c \o d)[i] = e[i]
      BY <3>3, <3>4, <3>5
    <3>7. c \o d = e
      BY <3>2, <3>4, <3>6, SeqEqual, Zenon
    <3> QED
      BY <3>7 DEF c, d, e
  <2> QED
    BY <2>1, <2>2, FreeOK
<1>3. List!FreeChain(2) \in [1 .. 2 -> Entry]
  BY <1>2, SlotsSeq DEF List!FreeChain
<1>4. Types
  BY <1>1, <1>2, <1>3 DEF Types
<1>5. ASSUME NEW b \in Clean PROVE CleanOK(b)
  BY <1>1, <1>2 DEF CleanOK, Clean
<1> QED
  BY <1>4, <1>5 DEF Chains

(* The lists of the bucket of a packet after it.                           *)
LEMMA PacketLists ==
  ASSUME Types, NEW b, NEW h, PacketOf(b, h)
  PROVE  /\ Types'
         /\ b \in Buckets /\ h \in Highs /\ <<b, h>> \in Flows
         /\ seen'[b] = More(seen[b], h)
         /\ lflows'[b] = Walk(lflows[b], h)
         /\ hslots'[b] \o hflows'[b] = Walk(hslots[b] \o hflows[b], h)
         /\ \A a \in Buckets : a # b =>
              /\ seen'[a] = seen[a] /\ lflows'[a] = lflows[a]
              /\ hslots'[a] = hslots[a] /\ hflows'[a] = hflows[a]
<1>0. /\ b \in Buckets /\ h \in Highs /\ <<b, h>> \in Flows
      /\ seen' = [seen EXCEPT ![b] = More(@, h)]
      /\ lflows' = [lflows EXCEPT ![b] = Walk(@, h)]
      /\ lexited' = lexited /\ hexited' = hexited
      /\ InSlots(b, h) \/ BehindSlots(b, h)
  BY Zenon DEF PacketOf
<1>1. /\ seen[b] \in [Highs -> Nat] /\ lflows[b] \in Seq(Entry)
      /\ hslots[b] \in Seq(Entry) /\ hflows[b] \in Seq(Entry)
      /\ hslots[b] \in [1 .. 2 -> Entry]
  BY <1>0, SlotsSeq DEF Types
<1>2. /\ More(seen[b], h) \in [Highs -> Nat]
      /\ Walk(lflows[b], h) \in Seq(Entry) /\ Walk(hflows[b], h) \in Seq(Entry)
  BY <1>0, <1>1, MoreIs, WalkType
<1>3. /\ seen' \in [Buckets -> [Highs -> Nat]] /\ lflows' \in [Buckets -> Seq(Entry)]
      /\ lexited' \in BOOLEAN /\ hexited' \in BOOLEAN
      /\ seen'[b] = More(seen[b], h) /\ lflows'[b] = Walk(lflows[b], h)
      /\ \A a \in Buckets : a # b => seen'[a] = seen[a] /\ lflows'[a] = lflows[a]
  BY <1>0, <1>2 DEF Types
<1>4. CASE InSlots(b, h)
  <2>1. /\ List!Visit(hslots[b], h) \in Seq(Entry)
        /\ DOMAIN List!Visit(hslots[b], h) = DOMAIN hslots[b]
    BY <1>0, <1>1, <1>4, VisitEntry DEF InSlots
  <2>2. List!Visit(hslots[b], h) \in [1 .. 2 -> Entry]
    BY <1>1, <2>1, SlotsSeq
  <2>3. /\ hslots' \in [Buckets -> [1 .. 2 -> Entry]] /\ hflows' = hflows
        /\ hslots'[b] = List!Visit(hslots[b], h)
        /\ \A a \in Buckets : a # b => hslots'[a] = hslots[a]
    BY <1>0, <1>4, <2>2 DEF InSlots, Types
  <2>4. Walk(hslots[b] \o hflows[b], h) = hslots'[b] \o hflows'[b]
    <3>1. List!Stops(hslots[b], h) # {}
      BY <1>4 DEF InSlots
    <3>2. Walk(hslots[b] \o hflows[b], h) = List!Visit(hslots[b], h) \o hflows[b]
      BY <1>0, <1>1, <3>1, WalkFirst
    <3> QED
      BY <2>3, <3>2
  <2> QED
    BY <1>0, <1>3, <2>3, <2>4 DEF Types
<1>5. CASE BehindSlots(b, h)
  <2>1. /\ hslots' = hslots /\ hflows' \in [Buckets -> Seq(Entry)]
        /\ hflows'[b] = Walk(hflows[b], h)
        /\ \A a \in Buckets : a # b => hflows'[a] = hflows[a]
    BY <1>0, <1>2, <1>5 DEF BehindSlots, Types
  <2>2. Walk(hslots[b] \o hflows[b], h) = hslots'[b] \o hflows'[b]
    <3>1. List!Stops(hslots[b], h) = {}
      BY <1>5 DEF BehindSlots
    <3>2. Walk(hslots[b] \o hflows[b], h) = hslots[b] \o Walk(hflows[b], h)
      BY <1>0, <1>1, <3>1, WalkSecond
    <3> QED
      BY <2>1, <3>2
  <2> QED
    BY <1>0, <1>3, <2>1, <2>2 DEF Types
<1> QED
  BY <1>0, <1>4, <1>5

(* No step breaks the chains.                                              *)
LEMMA NextChains == Chains /\ [TablesNext]_tablesVars => Chains'
<1> SUFFICES ASSUME Chains, [TablesNext]_tablesVars PROVE Chains'
  OBVIOUS
<1>1. Types
  BY DEF Chains
<1>2. CASE Kept
  BY <1>1, <1>2 DEF Kept, Chains, Types, CleanOK, vars
<1>3. ASSUME NEW b, NEW h, PacketOf(b, h) PROVE Chains'
  <2>1. /\ Types'
        /\ b \in Buckets /\ h \in Highs /\ <<b, h>> \in Flows
        /\ seen'[b] = More(seen[b], h)
        /\ lflows'[b] = Walk(lflows[b], h)
        /\ hslots'[b] \o hflows'[b] = Walk(hslots[b] \o hflows[b], h)
        /\ \A a \in Buckets : a # b =>
             /\ seen'[a] = seen[a] /\ lflows'[a] = lflows[a]
             /\ hslots'[a] = hslots[a] /\ hflows'[a] = hflows[a]
    BY <1>1, <1>3, PacketLists
  <2>2. ASSUME NEW a \in Clean PROVE CleanOK(a)'
    <3>1. CleanOK(a) /\ a \in Buckets /\ <<a, 0>> \notin Flows
      BY DEF Chains, Clean, Free
    <3>2. CASE a # b
      BY <2>1, <3>1, <3>2 DEF CleanOK
    <3>3. CASE a = b
      <4>1. h # 0 /\ seen[b] \in [Highs -> Nat]
        BY <1>1, <2>1, <3>1, <3>3 DEF Types
      <4>2. /\ 0 \in Highs => seen[b][0] = 0 /\ More(seen[b], h)[0] = 0
            /\ ChainOK(lflows[b], seen[b]) /\ ChainOK(hslots[b] \o hflows[b], seen[b])
        BY <2>1, <3>1, <3>3, <4>1, MoreIs DEF CleanOK
      <4>3. ChainOK(Walk(lflows[b], h), More(seen[b], h))
        BY <2>1, <4>1, <4>2, WalkOK
      <4>4. ChainOK(Walk(hslots[b] \o hflows[b], h), More(seen[b], h))
        BY <2>1, <4>1, <4>2, WalkOK
      <4> QED
        BY <2>1, <3>3, <4>2, <4>3, <4>4 DEF CleanOK
    <3> QED
      BY <3>2, <3>3
  <2> QED
    BY <2>1, <2>2 DEF Chains, Clean
<1> QED
  BY <1>1, <1>2, <1>3, StepIs

LEMMA AlwaysChains == TablesSpec => []Chains
BY InitChains, NextChains, PTL DEF TablesSpec

-----------------------------------------------------------------------------
(* The slots of double_hash.  A packet of h takes counter k and leaves the *)
(* names x and y.                                                          *)
Took(b, k, x, y) ==
  /\ hi_f1'[b] = x /\ hi_f2'[b] = y
  /\ ctr'[b][k] = Inc(ctr[b][k])
  /\ \A j \in Slots \ {k} : ctr'[b][j] = ctr[b][j]

TookFirst(b, h) == hi_f1[b] \in {0, h} /\ Took(b, 0, h, hi_f2[b])
TookSecond(b, h) == /\ hi_f1[b] \notin {0, h} /\ hi_f2[b] \in {0, h}
                    /\ Took(b, 1, hi_f1[b], h)
TookRest(b, h) == /\ hi_f1[b] \notin {0, h} /\ hi_f2[b] \notin {0, h}
                  /\ Took(b, 2, hi_f1[b], hi_f2[b])

LEMMA IncIs ==
  ASSUME NEW n \in 0 .. CtrMod - 1
  PROVE  Inc(n) \in 0 .. CtrMod - 1 /\ Inc(n) = (n + 1) % CtrMod
<1>1. n + 1 \in Int /\ CtrMod \in Nat \ {0}
  BY DoubleHashAssumption
<1> QED
  BY <1>1, ModRange DEF Inc

(* What the tests of double_hash come to.                                  *)
LEMMA SlotsStep ==
  ASSUME TypeOK, NEW b \in Buckets, NEW h \in Highs, Packet(b, h)
  PROVE  /\ TypeOK'
         /\ seen'[b] = More(seen[b], h)
         /\ \A a \in Buckets : a # b =>
              /\ hi_f1'[a] = hi_f1[a] /\ hi_f2'[a] = hi_f2[a]
              /\ ctr'[a] = ctr[a] /\ seen'[a] = seen[a]
         /\ TookFirst(b, h) \/ TookSecond(b, h) \/ TookRest(b, h)
<1>1. /\ seen' = [seen EXCEPT ![b] = More(@, h)]
  BY DEF Packet, More
<1>2. More(seen[b], h) \in [Highs -> Nat]
  BY MoreIs DEF TypeOK
<1>3. /\ seen' \in [Buckets -> [Highs -> Nat]] /\ seen'[b] = More(seen[b], h)
      /\ \A a \in Buckets : a # b => seen'[a] = seen[a]
  BY <1>1, <1>2 DEF TypeOK
<1>4. ASSUME NEW k \in Slots, Bump(b, k)
      PROVE  /\ ctr' \in [Buckets -> [Slots -> 0 .. CtrMod - 1]]
             /\ ctr'[b][k] = Inc(ctr[b][k])
             /\ \A j \in Slots \ {k} : ctr'[b][j] = ctr[b][j]
             /\ \A a \in Buckets : a # b => ctr'[a] = ctr[a]
  <2>1. ctr \in [Buckets -> [Slots -> 0 .. CtrMod - 1]] /\ ctr[b][k] \in 0 .. CtrMod - 1
    BY DEF TypeOK
  <2>2. Inc(ctr[b][k]) \in 0 .. CtrMod - 1
    BY <2>1, IncIs
  <2>3. ctr' = [ctr EXCEPT ![b] = [ctr[b] EXCEPT ![k] = Inc(ctr[b][k])]]
    BY <1>4 DEF Bump
  <2> QED
    BY <2>1, <2>2, <2>3
<1>5. 0 \in Slots /\ 1 \in Slots /\ 2 \in Slots /\ Free = 0
  BY DEF Slots, Free
<1>6. CASE ClaimFirst(b, h) \/ HitFirst(b, h)
  <2>1. /\ Bump(b, 0) /\ hi_f2' = hi_f2 /\ hi_f1[b] \in {0, h}
        /\ hi_f1' = [hi_f1 EXCEPT ![b] = h] \/ (hi_f1' = hi_f1 /\ hi_f1[b] = h)
    BY <1>5, <1>6 DEF ClaimFirst, HitFirst
  <2>2. /\ hi_f1' \in [Buckets -> Highs \cup {Free}] /\ hi_f1'[b] = h
        /\ \A a \in Buckets : a # b => hi_f1'[a] = hi_f1[a]
    BY <2>1 DEF TypeOK
  <2>3. TookFirst(b, h)
    BY <1>4, <1>5, <2>1, <2>2 DEF TookFirst, Took
  <2>4. TypeOK'
    BY <1>3, <1>4, <1>5, <2>1, <2>2 DEF TypeOK
  <2> QED
    BY <1>3, <1>4, <1>5, <2>1, <2>2, <2>3, <2>4
<1>7. CASE ClaimSecond(b, h) \/ HitSecond(b, h)
  <2>1. /\ Bump(b, 1) /\ hi_f1' = hi_f1 /\ hi_f1[b] \notin {0, h}
        /\ hi_f2[b] \in {0, h}
        /\ hi_f2' = [hi_f2 EXCEPT ![b] = h] \/ (hi_f2' = hi_f2 /\ hi_f2[b] = h)
    BY <1>5, <1>7 DEF ClaimSecond, HitSecond
  <2>2. /\ hi_f2' \in [Buckets -> Highs \cup {Free}] /\ hi_f2'[b] = h
        /\ \A a \in Buckets : a # b => hi_f2'[a] = hi_f2[a]
    BY <2>1 DEF TypeOK
  <2>3. TookSecond(b, h)
    BY <1>4, <1>5, <2>1, <2>2 DEF TookSecond, Took
  <2>4. TypeOK'
    BY <1>3, <1>4, <1>5, <2>1, <2>2 DEF TypeOK
  <2> QED
    BY <1>3, <1>4, <1>5, <2>1, <2>2, <2>3, <2>4
<1>8. CASE Miscount(b, h)
  <2>1. /\ Bump(b, 2) /\ hi_f1' = hi_f1 /\ hi_f2' = hi_f2
        /\ hi_f1[b] \notin {0, h} /\ hi_f2[b] \notin {0, h}
    BY <1>5, <1>8 DEF Miscount
  <2>2. TookRest(b, h)
    BY <1>4, <1>5, <2>1 DEF TookRest, Took
  <2>3. TypeOK'
    BY <1>3, <1>4, <1>5, <2>1 DEF TypeOK
  <2> QED
    BY <1>3, <1>4, <1>5, <2>1, <2>2, <2>3
<1> QED
  BY <1>6, <1>7, <1>8 DEF Packet

(* The slots of a bucket: in order, and missing no flow while one is free. *)
InOrder(b) ==
  /\ hi_f2[b] # 0 => hi_f1[b] # 0 /\ hi_f1[b] # hi_f2[b]
  /\ \A h \in Highs : seen[b][h] > 0 =>
       h = hi_f1[b] \/ h = hi_f2[b] \/ (hi_f1[b] # 0 /\ hi_f2[b] # 0)

(* The counters of a clean bucket.                                         *)
Exactly(b) ==
  /\ IF hi_f1[b] = 0 THEN ctr[b][0] = 0
     ELSE seen[b][hi_f1[b]] > 0 /\ ctr[b][0] = seen[b][hi_f1[b]] % CtrMod
  /\ IF hi_f2[b] = 0 THEN ctr[b][1] = 0
     ELSE seen[b][hi_f2[b]] > 0 /\ ctr[b][1] = seen[b][hi_f2[b]] % CtrMod

SlotsInv ==
  /\ TypeOK
  /\ \A b \in Buckets : InOrder(b)
  /\ \A b \in Clean : Exactly(b) /\ (0 \in Highs => seen[b][0] = 0)

(* The bucket of a packet.                                                 *)
LEMMA SlotsOrder ==
  ASSUME TypeOK, NEW b \in Buckets, NEW h \in Highs, InOrder(b),
         seen'[b] = More(seen[b], h),
         TookFirst(b, h) \/ TookSecond(b, h) \/ TookRest(b, h)
  PROVE  InOrder(b)'
<1>1. /\ seen[b] \in [Highs -> Nat] /\ seen'[b][h] = seen[b][h] + 1
      /\ \A k \in Highs : k # h => seen'[b][k] = seen[b][k]
      /\ hi_f1[b] \in Highs \cup {0} /\ hi_f2[b] \in Highs \cup {0}
  BY MoreIs DEF TypeOK, Free
<1>2. CASE TookFirst(b, h)
  BY <1>1, <1>2 DEF TookFirst, Took, InOrder
<1>3. CASE TookSecond(b, h)
  BY <1>1, <1>3 DEF TookSecond, Took, InOrder
<1>4. CASE TookRest(b, h)
  BY <1>1, <1>4 DEF TookRest, Took, InOrder
<1> QED
  BY <1>2, <1>3, <1>4

LEMMA SlotsExactly ==
  ASSUME TypeOK, NEW b \in Buckets, NEW h \in Highs, h # 0, InOrder(b), Exactly(b),
         seen'[b] = More(seen[b], h),
         TookFirst(b, h) \/ TookSecond(b, h) \/ TookRest(b, h)
  PROVE  Exactly(b)'
<1>1. /\ seen[b] \in [Highs -> Nat] /\ seen'[b][h] = seen[b][h] + 1
      /\ \A k \in Highs : k # h => seen'[b][k] = seen[b][k]
      /\ hi_f1[b] \in Highs \cup {0} /\ hi_f2[b] \in Highs \cup {0}
      /\ ctr[b][0] \in 0 .. CtrMod - 1 /\ ctr[b][1] \in 0 .. CtrMod - 1
      /\ seen[b][h] \in Nat
  BY MoreIs DEF TypeOK, Free, Slots
<1>2. 0 % CtrMod = 0
  BY DoubleHashAssumption
<1>3. ((seen[b][h] % CtrMod) + 1) % CtrMod = (seen[b][h] + 1) % CtrMod
  BY <1>1, NextCount
<1>4. 0 \in Slots /\ 1 \in Slots /\ 2 \in Slots
  BY DEF Slots
<1>5. CASE TookFirst(b, h)
  <2>1. /\ hi_f1[b] \in {0, h} /\ hi_f1'[b] = h /\ hi_f2'[b] = hi_f2[b]
        /\ ctr'[b][0] = (ctr[b][0] + 1) % CtrMod /\ ctr'[b][1] = ctr[b][1]
    BY <1>1, <1>4, <1>5, IncIs DEF TookFirst, Took
  <2>2. hi_f2[b] # h
    BY <2>1 DEF InOrder
  <2>3. ctr[b][0] = seen[b][h] % CtrMod
    <3>1. CASE hi_f1[b] = h
      BY <3>1 DEF Exactly
    <3>2. CASE hi_f1[b] # h
      <4>1. hi_f1[b] = 0 /\ seen[b][h] = 0
        BY <1>1, <2>1, <2>2, <3>2 DEF InOrder
      <4> QED
        BY <1>2, <4>1 DEF Exactly
    <3> QED
      BY <3>1, <3>2
  <2>4. ctr'[b][0] = seen'[b][h] % CtrMod /\ seen'[b][h] > 0
    BY <1>1, <1>3, <2>1, <2>3
  <2>5. IF hi_f2'[b] = 0 THEN ctr'[b][1] = 0
        ELSE seen'[b][hi_f2'[b]] > 0 /\ ctr'[b][1] = seen'[b][hi_f2'[b]] % CtrMod
    BY <1>1, <2>1, <2>2 DEF Exactly
  <2> QED
    BY <2>1, <2>4, <2>5 DEF Exactly
<1>6. CASE TookSecond(b, h)
  <2>1. /\ hi_f1[b] \notin {0, h} /\ hi_f2[b] \in {0, h}
        /\ hi_f2'[b] = h /\ hi_f1'[b] = hi_f1[b]
        /\ ctr'[b][1] = (ctr[b][1] + 1) % CtrMod /\ ctr'[b][0] = ctr[b][0]
    BY <1>1, <1>4, <1>6, IncIs DEF TookSecond, Took
  <2>3. ctr[b][1] = seen[b][h] % CtrMod
    <3>1. CASE hi_f2[b] = h
      BY <3>1 DEF Exactly
    <3>2. CASE hi_f2[b] # h
      <4>1. hi_f2[b] = 0 /\ seen[b][h] = 0
        BY <1>1, <2>1, <3>2 DEF InOrder
      <4> QED
        BY <1>2, <4>1 DEF Exactly
    <3> QED
      BY <3>1, <3>2
  <2>4. ctr'[b][1] = seen'[b][h] % CtrMod /\ seen'[b][h] > 0
    BY <1>1, <1>3, <2>1, <2>3
  <2>5. seen'[b][hi_f1'[b]] > 0 /\ ctr'[b][0] = seen'[b][hi_f1'[b]] % CtrMod
    BY <1>1, <2>1 DEF Exactly
  <2> QED
    BY <2>1, <2>4, <2>5 DEF Exactly
<1>7. CASE TookRest(b, h)
  <2>1. /\ hi_f1[b] \notin {0, h} /\ hi_f2[b] \notin {0, h}
        /\ hi_f2'[b] = hi_f2[b] /\ hi_f1'[b] = hi_f1[b]
        /\ ctr'[b][1] = ctr[b][1] /\ ctr'[b][0] = ctr[b][0]
    BY <1>4, <1>7 DEF TookRest, Took
  <2> QED
    BY <1>1, <2>1 DEF Exactly
<1> QED
  BY <1>5, <1>6, <1>7

LEMMA InitSlots == TablesInit => SlotsInv
<1> SUFFICES ASSUME TablesInit PROVE SlotsInv
  OBVIOUS
<1>1. Init
  BY DEF TablesInit
<1>2. TypeOK
  BY <1>1, DoubleHashAssumption DEF Init, TypeOK, Slots, Free
<1>3. ASSUME NEW b \in Buckets
      PROVE  InOrder(b) /\ Exactly(b) /\ (0 \in Highs => seen[b][0] = 0)
  BY <1>1 DEF Init, InOrder, Exactly, Slots, Free
<1> QED
  BY <1>2, <1>3 DEF SlotsInv, Clean

(* No step breaks the invariant of the slots.                              *)
LEMMA NextSlots == Types /\ SlotsInv /\ [TablesNext]_tablesVars => SlotsInv'
<1> SUFFICES ASSUME Types, SlotsInv, [TablesNext]_tablesVars PROVE SlotsInv'
  OBVIOUS
<1>1. CASE Kept
  BY <1>1 DEF Kept, SlotsInv, TypeOK, InOrder, Exactly, vars
<1>2. ASSUME NEW b, NEW h, PacketOf(b, h) PROVE SlotsInv'
  <2>0. b \in Buckets /\ h \in Highs /\ <<b, h>> \in Flows /\ Packet(b, h) /\ TypeOK
    BY <1>2 DEF PacketOf, SlotsInv
  <2>1. /\ TypeOK' /\ seen'[b] = More(seen[b], h)
        /\ \A a \in Buckets : a # b =>
             /\ hi_f1'[a] = hi_f1[a] /\ hi_f2'[a] = hi_f2[a]
             /\ ctr'[a] = ctr[a] /\ seen'[a] = seen[a]
        /\ TookFirst(b, h) \/ TookSecond(b, h) \/ TookRest(b, h)
    BY <2>0, SlotsStep
  <2>2. ASSUME NEW a \in Buckets PROVE InOrder(a)'
    <3>1. InOrder(a)
      BY DEF SlotsInv
    <3>2. CASE a # b
      BY <2>1, <3>1, <3>2 DEF InOrder
    <3>3. CASE a = b
      BY <2>0, <2>1, <3>1, <3>3, SlotsOrder
    <3> QED
      BY <3>2, <3>3
  <2>3. ASSUME NEW a \in Clean PROVE Exactly(a)' /\ (0 \in Highs => seen'[a][0] = 0)
    <3>1. /\ InOrder(a) /\ Exactly(a) /\ a \in Buckets /\ <<a, 0>> \notin Flows
          /\ 0 \in Highs => seen[a][0] = 0
      BY DEF SlotsInv, Clean, Free
    <3>2. CASE a # b
      BY <2>1, <3>1, <3>2 DEF Exactly
    <3>3. CASE a = b
      <4>1. h # 0 /\ seen[b] \in [Highs -> Nat]
        BY <2>0, <3>1, <3>3 DEF TypeOK
      <4>2. 0 \in Highs => seen'[b][0] = 0
        BY <2>0, <2>1, <3>1, <3>3, <4>1, MoreIs
      <4>3. Exactly(b)'
        BY <2>0, <2>1, <3>1, <3>3, <4>1, SlotsExactly
      <4> QED
        BY <3>3, <4>2, <4>3
    <3> QED
      BY <3>2, <3>3
  <2> QED
    BY <2>1, <2>2, <2>3 DEF SlotsInv, Clean
<1> QED
  BY <1>1, <1>2, StepIs

LEMMA AlwaysSlots == TablesSpec => []SlotsInv
<1>1. Chains /\ SlotsInv /\ [TablesNext]_tablesVars => SlotsInv'
  BY NextSlots DEF Chains
<1> QED
  BY <1>1, InitSlots, AlwaysChains, PTL DEF TablesSpec

(* TablesTypeOK: the counters keep their width, and what the three tables  *)
(* hold are entries.                                                       *)
THEOREM TypesCorrect == TablesSpec => []TablesTypeOK
<1>1. Chains /\ SlotsInv => TablesTypeOK
  BY SameOps DEF Chains, Types, SlotsInv, TablesTypeOK, List!TypeOK, Hash!TypeOK, Entry
<1> QED
  BY <1>1, AlwaysChains, AlwaysSlots, PTL

(* TrackedOrFull: whatever the order in which flows come to a bucket of    *)
(* double_hash, no flow takes both slots, and none that has come is        *)
(* without a slot while one is free.                                       *)
THEOREM FlowsTracked == TablesSpec => []TrackedOrFull
<1>1. SlotsInv => TrackedOrFull
  BY DEF SlotsInv, InOrder, TrackedOrFull, Free
<1> QED
  BY <1>1, AlwaysSlots, PTL

(* TablesExact: in every clean bucket each of the three tables counts      *)
(* exactly the packets of the flows that it tracks, modulo the width, and  *)
(* the chains have one entry per flow.                                     *)
THEOREM FlowsExact == TablesSpec => []TablesExact
<1>1. ASSUME Chains, SlotsInv, NEW b \in Clean
      PROVE  ExactIn(b) /\ List!ExactIn(b) /\ Hash!ExactIn(b)
  <2>1. /\ CleanOK(b) /\ Exactly(b) /\ b \in Buckets
        /\ seen[b] \in [Highs -> Nat]
    BY <1>1 DEF Chains, SlotsInv, Types, Clean
  <2>2. ExactIn(b)
    BY <2>1 DEF Exactly, ExactIn, Free
  <2>3. /\ List!WellFormed(lflows[b])
        /\ List!Named(lflows[b]) = {h \in Highs : seen[b][h] > 0}
        /\ \A h \in Highs : seen[b][h] > 0 =>
             List!CountOf(lflows[b], h) = seen[b][h] % CtrMod
    BY <2>1, ChainSays DEF CleanOK, ChainOK
  <2>4. List!ExactIn(b)
    BY <2>3 DEF List!ExactIn
  <2> DEFINE c == hslots[b] \o hflows[b]
  <2>5. /\ List!WellFormed(c)
        /\ List!Named(c) = {h \in Highs : seen[b][h] > 0}
        /\ \A h \in Highs : seen[b][h] > 0 =>
             List!CountOf(c, h) = seen[b][h] % CtrMod
    BY <2>1, ChainSays DEF CleanOK, ChainOK
  <2>6. Hash!All(b) = c
    BY DEF Hash!All
  <2> HIDE DEF c
  <2>7. Hash!ExactIn(b)
    BY <2>5, <2>6, SameOps DEF Hash!ExactIn
  <2> QED
    BY <2>2, <2>4, <2>7
<1>2. Chains /\ SlotsInv => TablesExact
  BY <1>1 DEF TablesExact
<1> QED
  BY <1>2, AlwaysChains, AlwaysSlots, PTL

-----------------------------------------------------------------------------
(* A packet adds one to the packets of its bucket.                         *)
LEMMA TotalMore ==
  ASSUME NEW s \in [Highs -> Nat], NEW h \in Highs
  PROVE  /\ SumFunction(s) = SumFunctionOnSet(s, Highs) /\ SumFunction(s) \in Nat
         /\ SumFunction(More(s, h)) = SumFunction(s) + 1
<1>0. IsFiniteSet(Highs)
  BY TablesAssumption
<1>1. /\ More(s, h) \in [Highs -> Nat] /\ More(s, h)[h] = s[h] + 1 /\ s[h] \in Nat
      /\ \A k \in Highs : k # h => More(s, h)[k] = s[k]
  BY MoreIs
<1>2. /\ SumFunction(s) = SumFunctionOnSet(s, Highs)
      /\ SumFunction(More(s, h)) = SumFunctionOnSet(More(s, h), Highs)
  <2>1. DOMAIN s = Highs /\ DOMAIN More(s, h) = Highs
    BY <1>1
  <2> QED
    BY <2>1, Zenon DEF SumFunction
<1>3. \A k \in Highs : s[k] \in Nat /\ s[k] \in Int /\ More(s, h)[k] \in Int
  BY <1>1
<1>4. SumFunctionOnSet(s, Highs) \in Nat
  BY <1>0, <1>3, SumNat
<1>5. SumFunctionOnSet(More(s, h), Highs)
        = SumFunctionOnSet(s, Highs) + (More(s, h)[h] - s[h])
  <2>1. \A k \in Highs \ {h} : More(s, h)[k] = s[k]
    BY <1>1
  <2> QED
    BY <1>0, <1>3, <2>1, SumUpdate
<1>6. More(s, h)[h] - s[h] = 1
  BY <1>1
<1> QED
  BY <1>2, <1>4, <1>5, <1>6

Third(a, b, c) == (a + b + c) % CtrMod

(* One of three counters takes a packet.                                   *)
LEMMA ThirdInc ==
  ASSUME NEW a \in 0 .. CtrMod - 1, NEW b \in 0 .. CtrMod - 1, NEW c \in 0 .. CtrMod - 1
  PROVE  /\ Third(Inc(a), b, c) = (a + b + c + 1) % CtrMod
         /\ Third(a, Inc(b), c) = (a + b + c + 1) % CtrMod
         /\ Third(a, b, Inc(c)) = (a + b + c + 1) % CtrMod
<1>0. CtrMod \in Nat \ {0}
  BY DoubleHashAssumption
<1>1. ASSUME NEW x \in Int, NEW y \in Int
      PROVE  (((x + 1) % CtrMod) + y) % CtrMod = (x + y + 1) % CtrMod
  <2>1. x + 1 \in Int /\ (x + 1) + y = x + y + 1
    OBVIOUS
  <2> QED
    BY <1>0, <2>1, ModPlus
<1>2. Inc(a) \in Int /\ Inc(b) \in Int /\ Inc(c) \in Int
  BY <1>0, IncIs
<1>3. a \in Int /\ b \in Int /\ c \in Int
  BY <1>0
<1>4. (Inc(a) + (b + c)) % CtrMod = (a + (b + c) + 1) % CtrMod
  BY <1>1, <1>3 DEF Inc
<1>5. (Inc(b) + (a + c)) % CtrMod = (b + (a + c) + 1) % CtrMod
  BY <1>1, <1>3 DEF Inc
<1>6. (Inc(c) + (a + b)) % CtrMod = (c + (a + b) + 1) % CtrMod
  BY <1>1, <1>3 DEF Inc
<1>7. /\ Inc(a) + (b + c) = Inc(a) + b + c /\ a + (b + c) + 1 = a + b + c + 1
      /\ Inc(b) + (a + c) = a + Inc(b) + c /\ b + (a + c) + 1 = a + b + c + 1
      /\ Inc(c) + (a + b) = a + b + Inc(c) /\ c + (a + b) + 1 = a + b + c + 1
  BY <1>2, <1>3
<1> QED
  BY <1>4, <1>5, <1>6, <1>7 DEF Third

(* BucketTotal: nothing is lost or counted twice by double_hash, in any    *)
(* bucket, also where a flow has the name of a free slot and moves.        *)
THEOREM NothingLost == TablesSpec => []BucketTotal
<1> DEFINE Adds(b) == Third(ctr[b][0], ctr[b][1], ctr[b][2]) = Total(b) % CtrMod
           AddUp == \A b \in Buckets : Adds(b)
<1>1. TablesInit => AddUp
  <2> SUFFICES ASSUME TablesInit, NEW b \in Buckets PROVE Adds(b)
    OBVIOUS
  <2>1. /\ ctr[b][0] = 0 /\ ctr[b][1] = 0 /\ ctr[b][2] = 0
        /\ seen[b] = [h \in Highs |-> 0]
    BY DEF TablesInit, Init, Slots
  <2>2. Total(b) = 0
    <3>1. DOMAIN seen[b] = Highs /\ \A h \in Highs : seen[b][h] = 0
      BY <2>1
    <3>2. SumFunctionOnSet(seen[b], Highs) = 0
      BY <3>1, SumZero, TablesAssumption
    <3> QED
      BY <3>1, <3>2, Zenon DEF Total, SumFunction
  <2> QED
    BY <2>1, <2>2 DEF Third
<1>2. Types /\ SlotsInv /\ AddUp /\ [TablesNext]_tablesVars => AddUp'
  <2> SUFFICES ASSUME Types, SlotsInv, AddUp, [TablesNext]_tablesVars,
                      NEW a \in Buckets
               PROVE  Adds(a)'
    OBVIOUS
  <2>0. Third(ctr[a][0], ctr[a][1], ctr[a][2]) = SumFunction(seen[a]) % CtrMod
    BY DEF Total
  <2> SUFFICES Third(ctr'[a][0], ctr'[a][1], ctr'[a][2]) = SumFunction(seen'[a]) % CtrMod
    BY DEF Total, Third, SumFunction, SumFunctionOnSet, FoldFunctionOnSet, MapThenFoldSet
  <2>1. CASE Kept
    BY <2>0, <2>1 DEF Kept, vars
  <2>2. ASSUME NEW b, NEW h, PacketOf(b, h)
        PROVE  Third(ctr'[a][0], ctr'[a][1], ctr'[a][2]) = SumFunction(seen'[a]) % CtrMod
    <3>0. b \in Buckets /\ h \in Highs /\ Packet(b, h) /\ TypeOK
      BY <2>2 DEF PacketOf, SlotsInv
    <3>1. /\ seen'[b] = More(seen[b], h)
          /\ \A c \in Buckets : c # b => ctr'[c] = ctr[c] /\ seen'[c] = seen[c]
          /\ TookFirst(b, h) \/ TookSecond(b, h) \/ TookRest(b, h)
      BY <3>0, SlotsStep
    <3>2. CASE a # b
      BY <2>0, <3>1, <3>2
    <3>3. CASE a = b
      <4> DEFINE x == ctr[b][0]
                 y == ctr[b][1]
                 z == ctr[b][2]
                 n == SumFunction(seen[b])
      <4>1. x \in 0 .. CtrMod - 1 /\ y \in 0 .. CtrMod - 1 /\ z \in 0 .. CtrMod - 1
        BY <3>0 DEF TypeOK, Slots
      <4>2. 0 \in Slots /\ 1 \in Slots /\ 2 \in Slots
        BY DEF Slots
      <4>3. n \in Nat /\ SumFunction(seen'[b]) = n + 1
        BY <3>0, <3>1, TotalMore DEF TypeOK
      <4>4. \/ ctr'[b][0] = Inc(x) /\ ctr'[b][1] = y /\ ctr'[b][2] = z
            \/ ctr'[b][0] = x /\ ctr'[b][1] = Inc(y) /\ ctr'[b][2] = z
            \/ ctr'[b][0] = x /\ ctr'[b][1] = y /\ ctr'[b][2] = Inc(z)
        BY <3>1, <4>2 DEF TookFirst, TookSecond, TookRest, Took
      <4>5. Third(x, y, z) = n % CtrMod
        BY <2>0, <3>3
      <4> HIDE DEF x, y, z, n
      <4>6. Third(ctr'[b][0], ctr'[b][1], ctr'[b][2]) = (x + y + z + 1) % CtrMod
        BY <4>1, <4>4, ThirdInc
      <4>7. (x + y + z + 1) % CtrMod = (n + 1) % CtrMod
        <5>1. x + y + z \in Int /\ n \in Int /\ CtrMod \in Nat \ {0}
          BY <4>1, <4>3, DoubleHashAssumption
        <5>2. ASSUME NEW w \in Int
              PROVE  ((w % CtrMod) + 1) % CtrMod = (w + 1) % CtrMod
          BY <5>1, ModPlus
        <5>3. PICK w \in Int : w = x + y + z
          BY <5>1
        <5>4. ((w % CtrMod) + 1) % CtrMod = (w + 1) % CtrMod
          BY <5>2
        <5>5. ((n % CtrMod) + 1) % CtrMod = (n + 1) % CtrMod
          BY <5>1, <5>2
        <5>6. w % CtrMod = n % CtrMod
          BY <4>5, <5>3 DEF Third
        <5> QED
          BY <5>3, <5>4, <5>5, <5>6
      <4> QED
        BY <3>3, <4>3, <4>6, <4>7
    <3> QED
      BY <3>2, <3>3
  <2> QED
    BY <2>1, <2>2, StepIs
<1>3. AddUp => BucketTotal
  BY DEF BucketTotal, Third
<1>4. Chains => Types
  BY DEF Chains
<1> HIDE DEF AddUp
<1> QED
  BY <1>1, <1>2, <1>3, <1>4, AlwaysChains, AlwaysSlots, PTL DEF TablesSpec

-----------------------------------------------------------------------------
(* The ideal tables.  Seen as one, a table of lists is a function of the   *)
(* packets that came: it tracks the flows that sent packets.               *)
Came == [b \in Clean |-> {h \in Highs : seen[b][h] > 0}]
Counted == [b \in Clean |-> [h \in Highs |-> seen[b][h] % CtrMod]]

ListNames == [b \in Clean |-> List!Named(lflows[b])]
HashNames == [b \in Clean |-> List!Named(Hash!All(b))]
HashChains == [b \in Clean |-> Hash!All(b)]

SeenAsIdeal == /\ ListNames = Came /\ Ideal(lflows) = Counted
               /\ HashNames = Came /\ Ideal(HashChains) = Counted

LEMMA IdealIs == Chains => SeenAsIdeal
<1> SUFFICES ASSUME Chains
             PROVE  /\ ListNames = Came /\ Ideal(lflows) = Counted
                    /\ HashNames = Came /\ Ideal(HashChains) = Counted
  BY DEF SeenAsIdeal
<1>0. 0 % CtrMod = 0
  BY DoubleHashAssumption
<1>1. ASSUME NEW b \in Clean, NEW c, ChainOK(c, seen[b])
      PROVE  /\ List!Named(c) = {h \in Highs : seen[b][h] > 0}
             /\ \A h \in Highs :
                  (IF h \in List!Named(c) THEN List!CountOf(c, h) ELSE 0)
                    = seen[b][h] % CtrMod
  <2>1. seen[b] \in [Highs -> Nat] /\ (0 \in Highs => seen[b][0] = 0)
    BY DEF Chains, Types, CleanOK, Clean
  <2>2. /\ List!Named(c) = {h \in Highs : seen[b][h] > 0}
        /\ \A h \in Highs : seen[b][h] > 0 => List!CountOf(c, h) = seen[b][h] % CtrMod
    BY <1>1, <2>1, ChainSays
  <2>3. \A h \in Highs : ~(seen[b][h] > 0) => seen[b][h] = 0
    BY <2>1
  <2> QED
    BY <1>0, <2>2, <2>3
<1>2. \A b \in Clean : ChainOK(lflows[b], seen[b]) /\ ChainOK(Hash!All(b), seen[b])
  BY DEF Chains, CleanOK, Hash!All
<1>3. ListNames = Came
  BY <1>1, <1>2 DEF ListNames, Came
<1>4. HashNames = Came
  BY <1>1, <1>2 DEF HashNames, Came
<1>5. Ideal(lflows) = Counted
  BY <1>1, <1>2, Zenon DEF Ideal, Counted
<1>6. Ideal(HashChains) = Counted
  <2>1. \A b \in Clean : HashChains[b] = Hash!All(b)
    BY DEF HashChains
  <2>2. \A b \in Clean : ChainOK(HashChains[b], seen[b])
    BY <1>2, <2>1
  <2> QED
    BY <1>1, <2>2, Zenon DEF Ideal, Counted
<1> QED
  BY <1>3, <1>4, <1>5, <1>6

(* Highs \ T has an element: T has fewer.                                  *)
LEMMA RoomLeft ==
  ASSUME NEW T, T \subseteq Highs, NEW h \in Highs, h \notin T
  PROVE  Cardinality(T) < Cardinality(Highs)
<1>1. IsFiniteSet(Highs) /\ IsFiniteSet(T) /\ IsFiniteSet(Highs \ {h})
  BY TablesAssumption, FS_Subset
<1>2. Cardinality(T) <= Cardinality(Highs \ {h})
  <2>1. T \in SUBSET (Highs \ {h})
    OBVIOUS
  <2> QED
    BY <1>1, <2>1, FS_Subset
<1>3. Cardinality(Highs \ {h}) = Cardinality(Highs) - 1
  BY <1>1, FS_RemoveElement
<1>4. Cardinality(T) \in Nat /\ Cardinality(Highs) \in Nat
  BY <1>1, FS_CardinalityType
<1> QED
  BY <1>2, <1>3, <1>4

(* A packet of a clean bucket is offered to the ideal table, ...           *)
LEMMA IdealOffer ==
  ASSUME Types, NEW b \in Clean, NEW h \in Highs, seen'[b] = More(seen[b], h),
         \A a \in Buckets : a # b => seen'[a] = seen[a]
  PROVE  Offered' = [Offered EXCEPT ![b][h] = @ + 1]
<1>1. /\ Offered = [a \in Clean |-> seen[a]] /\ Offered' = [a \in Clean |-> seen'[a]]
      /\ \A a \in Clean : a # b => seen'[a] = seen[a]
  BY DEF Offered, Clean
<1>2. seen'[b] = [seen[b] EXCEPT ![h] = @ + 1]
  BY DEF More
<1> QED
  BY <1>1, <1>2

(* ... is counted by it, ...                                               *)
LEMMA IdealCount ==
  ASSUME Types, NEW b \in Clean, NEW h \in Highs, seen'[b] = More(seen[b], h),
         \A a \in Buckets : a # b => seen'[a] = seen[a]
  PROVE  /\ Came' = [Came EXCEPT ![b] = @ \cup {h}]
         /\ Counted' = [Counted EXCEPT ![b][h] = (@ + 1) % CtrMod]
         /\ h \in Came[b] \/ Cardinality(Came[b]) < Cardinality(Highs)
<1>1. seen[b] \in [Highs -> Nat] /\ b \in Buckets
  BY DEF Types, Clean
<1>2. /\ seen'[b][h] = seen[b][h] + 1 /\ seen[b][h] \in Nat
      /\ \A k \in Highs : k # h => seen'[b][k] = seen[b][k]
      /\ \A a \in Clean : a # b => seen'[a] = seen[a]
  BY <1>1, MoreIs DEF Clean
<1>3. Came' = [a \in Clean |-> {k \in Highs : seen'[a][k] > 0}]
  BY DEF Came, Clean
<1>4. Counted' = [a \in Clean |-> [k \in Highs |-> seen'[a][k] % CtrMod]]
  BY DEF Counted, Clean
<1>5. Came[b] = {k \in Highs : seen[b][k] > 0}
  BY DEF Came
<1>6. {k \in Highs : seen'[b][k] > 0} = Came[b] \cup {h}
  <2>1. seen'[b][h] > 0
    BY <1>2
  <2>2. ASSUME NEW k \in Highs
        PROVE  k \in {i \in Highs : seen'[b][i] > 0} <=> k \in Came[b] \cup {h}
    BY <1>2, <1>5, <2>1
  <2> QED
    BY <1>5, <2>2
<1>7. Came' = [Came EXCEPT ![b] = @ \cup {h}]
  <2>1. \A a \in Clean : a # b => {k \in Highs : seen'[a][k] > 0} = Came[a]
    BY <1>2 DEF Came
  <2> DEFINE C == Came'
  <2>2. C = [a \in Clean |-> C[a]] /\ \A a \in Clean : C[a] = {k \in Highs : seen'[a][k] > 0}
    BY <1>3
  <2>3. Came = [a \in Clean |-> Came[a]]
    BY DEF Came
  <2> HIDE DEF C
  <2>4. C = [Came EXCEPT ![b] = @ \cup {h}]
    BY <1>6, <2>1, <2>2, <2>3
  <2> QED
    BY <2>4 DEF C
<1>8. Counted' = [Counted EXCEPT ![b][h] = (@ + 1) % CtrMod]
  <2>1. ((seen[b][h] % CtrMod) + 1) % CtrMod = (seen[b][h] + 1) % CtrMod
    BY <1>2, NextCount
  <2>2. \A a \in Clean, k \in Highs :
          seen'[a][k] % CtrMod = IF a = b /\ k = h
                                   THEN ((seen[a][k] % CtrMod) + 1) % CtrMod
                                   ELSE seen[a][k] % CtrMod
    BY <1>2, <2>1
  <2> QED
    BY <1>4, <2>2 DEF Counted
<1>9. h \in Came[b] \/ Cardinality(Came[b]) < Cardinality(Highs)
  BY <1>5, RoomLeft
<1> QED
  BY <1>7, <1>8, <1>9

(* ... and a packet of another bucket is not.                              *)
LEMMA IdealKept ==
  ASSUME \A a \in Clean : seen'[a] = seen[a]
  PROVE  Offered' = Offered /\ Came' = Came /\ Counted' = Counted
BY DEF Offered, Came, Counted, Clean

LEMMA SameCardinality ==
  \A S : /\ ListAsTable!Cardinality(S) = Cardinality(S)
         /\ HashAsTable!Cardinality(S) = Cardinality(S)
         /\ Two!Cardinality(S) = Cardinality(S)
BY Zenon DEF Cardinality, ListAsTable!Cardinality, HashAsTable!Cardinality,
             Two!Cardinality

(* A step of the packets is one of the ideal table, whatever the lists are *)
(* that make it up.                                                        *)
LEMMA ListsStep ==
  ASSUME Chains, Chains', [TablesNext]_tablesVars
  PROVE  [ListAsTable!Next]_ListAsTable!vars /\ [HashAsTable!Next]_HashAsTable!vars
<1> DEFINE zero == [b \in Clean |-> 0]
<1>0. Types
  BY DEF Chains
<1>1. /\ ListNames = Came /\ Ideal(lflows) = Counted
      /\ HashNames = Came /\ Ideal(HashChains) = Counted
  BY IdealIs DEF SeenAsIdeal
<1>2. /\ ListNames' = Came' /\ Ideal(lflows)' = Counted'
      /\ HashNames' = Came' /\ Ideal(HashChains)' = Counted'
  <2>1. Chains' => SeenAsIdeal'
    BY IdealIs, PTL
  <2> QED
    BY <2>1 DEF SeenAsIdeal
<1>3. CASE \A a \in Clean : seen'[a] = seen[a]
  <2>1. Offered' = Offered /\ Came' = Came /\ Counted' = Counted
    BY <1>3, IdealKept
  <2>2. ListNames' = ListNames /\ Ideal(lflows)' = Ideal(lflows)
    BY <1>1, <1>2, <2>1
  <2>3. HashNames' = HashNames /\ Ideal(HashChains)' = Ideal(HashChains)
    BY <1>1, <1>2, <2>1
  <2>4. UNCHANGED ListAsTable!vars
    BY <2>1, <2>2 DEF ListAsTable!vars, ListNames, Clean
  <2>5. UNCHANGED HashAsTable!vars
    BY <2>1, <2>3 DEF HashAsTable!vars, HashNames, HashChains, Clean
  <2> QED
    BY <2>4, <2>5
<1>4. ASSUME NEW b \in Clean, NEW h \in Highs, seen'[b] = More(seen[b], h),
             \A a \in Buckets : a # b => seen'[a] = seen[a]
      PROVE  ListAsTable!Next /\ HashAsTable!Next
  <2>1. Offered' = [Offered EXCEPT ![b][h] = @ + 1]
    BY <1>0, <1>4, IdealOffer
  <2>2. /\ Came' = [Came EXCEPT ![b] = @ \cup {h}]
        /\ Counted' = [Counted EXCEPT ![b][h] = (@ + 1) % CtrMod]
        /\ h \in Came[b] \/ Cardinality(Came[b]) < Cardinality(Highs)
    BY <1>0, <1>4, IdealCount
  <2>3. ListAsTable!Count(b, h)
    <3>1. h \in ListNames[b] \/ ListAsTable!Room(b)
      BY <1>1, <2>2, SameCardinality DEF ListAsTable!Room, ListNames
    <3>2. ListNames' = [ListNames EXCEPT ![b] = @ \cup {h}]
      BY <1>1, <1>2, <2>2
    <3>3. Ideal(lflows)' = [Ideal(lflows) EXCEPT ![b][h] = ListAsTable!Plus1(@)]
      BY <1>1, <1>2, <2>2 DEF ListAsTable!Plus1
    <3> QED
      BY <3>1, <3>2, <3>3, Zenon DEF ListAsTable!Count, ListNames, Clean
  <2>4. HashAsTable!Count(b, h)
    <3>1. h \in HashNames[b] \/ HashAsTable!Room(b)
      BY <1>1, <2>2, SameCardinality DEF HashAsTable!Room, HashNames
    <3>2. HashNames' = [HashNames EXCEPT ![b] = @ \cup {h}]
      BY <1>1, <1>2, <2>2
    <3>3. Ideal(HashChains)' = [Ideal(HashChains) EXCEPT ![b][h] = HashAsTable!Plus1(@)]
      BY <1>1, <1>2, <2>2 DEF HashAsTable!Plus1
    <3> QED
      BY <3>1, <3>2, <3>3, Zenon DEF HashAsTable!Count, HashNames, HashChains, Clean
  <2> QED
    BY <2>1, <2>3, <2>4 DEF ListAsTable!Next, HashAsTable!Next
<1>5. CASE Kept
  BY <1>3, <1>5 DEF Kept, vars
<1>6. ASSUME NEW b, NEW h, PacketOf(b, h)
      PROVE  [ListAsTable!Next]_ListAsTable!vars /\ [HashAsTable!Next]_HashAsTable!vars
  <2>1. /\ b \in Buckets /\ h \in Highs /\ seen'[b] = More(seen[b], h)
        /\ \A a \in Buckets : a # b => seen'[a] = seen[a]
    BY <1>0, <1>6, PacketLists
  <2>2. CASE b \in Clean
    BY <1>4, <2>1, <2>2
  <2>3. CASE b \notin Clean
    BY <1>3, <2>1, <2>3 DEF Clean
  <2> QED
    BY <2>2, <2>3
<1> QED
  BY <1>0, <1>5, <1>6, StepIs

(* The ideal table of the lists at the start.                              *)
LEMMA ListsInit == TablesInit => ListAsTable!Init /\ HashAsTable!Init
<1> SUFFICES ASSUME TablesInit PROVE ListAsTable!Init /\ HashAsTable!Init
  OBVIOUS
<1>1. /\ ListNames = Came /\ Ideal(lflows) = Counted
      /\ HashNames = Came /\ Ideal(HashChains) = Counted
  BY InitChains, IdealIs DEF SeenAsIdeal
<1>2. \A b \in Clean : seen[b] = [h \in Highs |-> 0]
  BY DEF TablesInit, Init, Clean
<1>3. 0 % CtrMod = 0
  BY DoubleHashAssumption
<1>4. /\ Came = [b \in Clean |-> {}]
      /\ Counted = [b \in Clean |-> [h \in Highs |-> 0]]
      /\ Offered = [b \in Clean |-> [h \in Highs |-> 0]]
  <2>1. Came = [b \in Clean |-> {}]
    BY <1>2 DEF Came
  <2>2. Counted = [b \in Clean |-> [h \in Highs |-> 0]]
    BY <1>2, <1>3 DEF Counted
  <2>3. Offered = [b \in Clean |-> [h \in Highs |-> 0]]
    BY <1>2 DEF Offered
  <2> QED
    BY <2>1, <2>2, <2>3
<1>5. ListAsTable!Init
  BY <1>1, <1>4 DEF ListAsTable!Init, ListNames
<1>6. HashAsTable!Init
  BY <1>1, <1>4 DEF HashAsTable!Init, HashNames, HashChains
<1> QED
  BY <1>5, <1>6

(* linked_list implements the ideal table that tracks every flow.          *)
THEOREM ListsCountFlows == TablesSpec => ListsImplementFlowCount
<1>1. TablesInit => ListAsTable!Init
  BY ListsInit
<1>2. Chains /\ Chains' /\ [TablesNext]_tablesVars => [ListAsTable!Next]_ListAsTable!vars
  BY ListsStep
<1> QED
  BY <1>1, <1>2, AlwaysChains, PTL DEF TablesSpec, ListsImplementFlowCount, ListAsTable!Spec

(* So does hash_list, with slots and list together: a flow never has an    *)
(* entry in both.                                                          *)
THEOREM HashListsCountFlows == TablesSpec => HashListsImplementFlowCount
<1>1. TablesInit => HashAsTable!Init
  BY ListsInit
<1>2. Chains /\ Chains' /\ [TablesNext]_tablesVars => [HashAsTable!Next]_HashAsTable!vars
  BY ListsStep
<1> QED
  BY <1>1, <1>2, AlwaysChains, PTL
     DEF TablesSpec, HashListsImplementFlowCount, HashAsTable!Spec

-----------------------------------------------------------------------------
(* What the slots of a bucket say of flow h.                               *)
SlotOf(b, h) ==
  IF h \in Tracked(b) THEN ctr[b][IF hi_f1[b] = h THEN 0 ELSE 1] ELSE 0

SlotNames == [b \in Clean |-> Tracked(b)]
SlotCounts == [b \in Clean |-> [h \in Highs |-> SlotOf(b, h)]]
SlotRest == [b \in Clean |-> ctr[b][2]]

(* The bucket of a packet that goes to one of the slots.                   *)
LEMMA SlotTakes ==
  ASSUME TypeOK, NEW b \in Buckets, NEW h \in Highs, h # 0, InOrder(b), Exactly(b),
         TookFirst(b, h) \/ TookSecond(b, h)
  PROVE  /\ Tracked(b)' = Tracked(b) \cup {h}
         /\ h \in Tracked(b) \/ Cardinality(Tracked(b)) < 2
         /\ SlotOf(b, h)' = Inc(SlotOf(b, h))
         /\ \A k \in Highs : k # h => SlotOf(b, k)' = SlotOf(b, k)
         /\ ctr'[b][2] = ctr[b][2]
<1>1. 0 \in Slots /\ 1 \in Slots /\ 2 \in Slots
  BY DEF Slots
<1>2. Tracked(b) = {hi_f1[b], hi_f2[b]} \ {0} /\ Tracked(b)' = {hi_f1'[b], hi_f2'[b]} \ {0}
  BY DEF Tracked, Free
<1>3. Cardinality({}) = 0 /\ \A x : Cardinality({x}) = 1
  BY FS_EmptySet, FS_Singleton
<1>4. CASE TookFirst(b, h)
  <2>1. /\ hi_f1[b] \in {0, h} /\ hi_f1'[b] = h /\ hi_f2'[b] = hi_f2[b]
        /\ ctr'[b][0] = Inc(ctr[b][0]) /\ ctr'[b][1] = ctr[b][1] /\ ctr'[b][2] = ctr[b][2]
    BY <1>1, <1>4 DEF TookFirst, Took
  <2>2. hi_f1[b] = 0 => hi_f2[b] = 0 /\ ctr[b][0] = 0
    BY DEF InOrder, Exactly
  <2>3. Tracked(b)' = Tracked(b) \cup {h}
    BY <1>2, <2>1
  <2>4. h \in Tracked(b) \/ Cardinality(Tracked(b)) < 2
    <3>1. CASE hi_f1[b] = h
      BY <1>2, <3>1
    <3>2. CASE hi_f1[b] # h
      <4>1. Tracked(b) = {}
        BY <1>2, <2>1, <2>2, <3>2
      <4> QED
        BY <1>3, <4>1
    <3> QED
      BY <3>1, <3>2
  <2>5. SlotOf(b, h) = ctr[b][0]
    <3>1. CASE hi_f1[b] = h
      BY <1>2, <3>1 DEF SlotOf
    <3>2. CASE hi_f1[b] # h
      BY <1>2, <2>1, <2>2, <3>2 DEF SlotOf
    <3> QED
      BY <3>1, <3>2
  <2>6. SlotOf(b, h)' = ctr'[b][0]
    BY <2>1, <2>3 DEF SlotOf
  <2>7. ASSUME NEW k \in Highs, k # h PROVE SlotOf(b, k)' = SlotOf(b, k)
    <3>1. k \in Tracked(b)' <=> k \in Tracked(b)
      BY <2>3, <2>7
    <3>2. k \in Tracked(b) => hi_f1[b] # k /\ hi_f1'[b] # k
      BY <1>2, <2>1, <2>7
    <3> QED
      BY <2>1, <3>1, <3>2 DEF SlotOf
  <2> QED
    BY <2>1, <2>3, <2>4, <2>5, <2>6, <2>7
<1>5. CASE TookSecond(b, h)
  <2>1. /\ hi_f1[b] \notin {0, h} /\ hi_f2[b] \in {0, h}
        /\ hi_f1'[b] = hi_f1[b] /\ hi_f2'[b] = h
        /\ ctr'[b][1] = Inc(ctr[b][1]) /\ ctr'[b][0] = ctr[b][0] /\ ctr'[b][2] = ctr[b][2]
    BY <1>1, <1>5 DEF TookSecond, Took
  <2>2. hi_f2[b] = 0 => ctr[b][1] = 0
    BY DEF Exactly
  <2>3. Tracked(b)' = Tracked(b) \cup {h}
    BY <1>2, <2>1
  <2>4. h \in Tracked(b) \/ Cardinality(Tracked(b)) < 2
    <3>1. CASE hi_f2[b] = h
      BY <1>2, <3>1
    <3>2. CASE hi_f2[b] # h
      <4>1. Tracked(b) = {hi_f1[b]}
        BY <1>2, <2>1, <3>2
      <4>2. Cardinality({hi_f1[b]}) = 1
        BY <1>3
      <4> QED
        BY <4>1, <4>2
    <3> QED
      BY <3>1, <3>2
  <2>5. SlotOf(b, h) = ctr[b][1]
    <3>1. CASE hi_f2[b] = h
      BY <1>2, <2>1, <3>1 DEF SlotOf
    <3>2. CASE hi_f2[b] # h
      BY <1>2, <2>1, <2>2, <3>2 DEF SlotOf
    <3> QED
      BY <3>1, <3>2
  <2>6. SlotOf(b, h)' = ctr'[b][1]
    BY <2>1, <2>3 DEF SlotOf
  <2>7. ASSUME NEW k \in Highs, k # h PROVE SlotOf(b, k)' = SlotOf(b, k)
    <3>1. k \in Tracked(b)' <=> k \in Tracked(b)
      BY <2>3, <2>7
    <3>2. k \in Tracked(b) => hi_f1[b] = k /\ hi_f1'[b] = k
      BY <1>2, <2>1, <2>7
    <3> QED
      BY <2>1, <3>1, <3>2 DEF SlotOf
  <2> QED
    BY <2>1, <2>3, <2>4, <2>5, <2>6, <2>7
<1> QED
  BY <1>4, <1>5

(* That of a packet that finds no slot.                                    *)
LEMMA RestTakes ==
  ASSUME TypeOK, NEW b \in Buckets, NEW h \in Highs, InOrder(b), TookRest(b, h)
  PROVE  /\ Tracked(b)' = Tracked(b)
         /\ h \notin Tracked(b) /\ ~(Cardinality(Tracked(b)) < 2)
         /\ \A k \in Highs : SlotOf(b, k)' = SlotOf(b, k)
         /\ ctr'[b][2] = Inc(ctr[b][2])
<1>1. 0 \in Slots /\ 1 \in Slots /\ 2 \in Slots
  BY DEF Slots
<1>2. Tracked(b) = {hi_f1[b], hi_f2[b]} \ {0} /\ Tracked(b)' = {hi_f1'[b], hi_f2'[b]} \ {0}
  BY DEF Tracked, Free
<1>3. /\ hi_f1[b] \notin {0, h} /\ hi_f2[b] \notin {0, h}
      /\ hi_f1'[b] = hi_f1[b] /\ hi_f2'[b] = hi_f2[b]
      /\ ctr'[b][2] = Inc(ctr[b][2]) /\ ctr'[b][0] = ctr[b][0] /\ ctr'[b][1] = ctr[b][1]
  BY <1>1 DEF TookRest, Took
<1>4. hi_f1[b] # hi_f2[b] /\ Tracked(b) = {hi_f1[b], hi_f2[b]}
  BY <1>2, <1>3 DEF InOrder
<1>5. Cardinality({hi_f1[b], hi_f2[b]}) = 2
  <2> DEFINE x == hi_f1[b]
             y == hi_f2[b]
  <2>1. x # y
    BY <1>4
  <2> HIDE DEF x, y
  <2>2. IsFiniteSet({x}) /\ Cardinality({x}) = 1 /\ {x, y} = {x} \cup {y} /\ y \notin {x}
    BY <2>1, FS_Singleton
  <2>3. Cardinality({x} \cup {y}) = 2
    BY <2>2, FS_AddElement
  <2> QED
    BY <2>2, <2>3 DEF x, y
<1>6. Tracked(b)' = Tracked(b)
  BY <1>2, <1>3
<1>7. \A k \in Highs : SlotOf(b, k)' = SlotOf(b, k)
  BY <1>3, <1>6 DEF SlotOf
<1> QED
  BY <1>2, <1>3, <1>4, <1>5, <1>6, <1>7

(* A packet of a clean bucket is a step of the ideal table of two flows.   *)
LEMMA TwoStep ==
  ASSUME Types, SlotsInv, [TablesNext]_tablesVars
  PROVE  [Two!Next]_Two!vars
<1> DEFINE Same(a) == /\ Tracked(a)' = Tracked(a) /\ ctr'[a][2] = ctr[a][2]
                      /\ \A k \in Highs : SlotOf(a, k)' = SlotOf(a, k)
<1>0. TypeOK
  BY DEF SlotsInv
<1>1. CASE \A a \in Clean : seen'[a] = seen[a] /\ Same(a)
  <2>1. Offered' = Offered
    BY <1>1, IdealKept
  <2>2. SlotNames' = SlotNames
    BY <1>1 DEF SlotNames, Clean
  <2>3. SlotCounts' = SlotCounts
    BY <1>1 DEF SlotCounts, Clean
  <2>4. SlotRest' = SlotRest
    BY <1>1 DEF SlotRest, Clean
  <2>5. UNCHANGED Two!vars
    BY <2>1, <2>2, <2>3, <2>4, Zenon DEF Two!vars, SlotNames, SlotCounts, SlotOf, SlotRest
  <2> QED
    BY <2>5
<1>2. CASE Kept
  <2>1. ASSUME NEW a \in Clean PROVE seen'[a] = seen[a] /\ Same(a)
    BY <1>2 DEF Kept, vars, Tracked, SlotOf
  <2> QED
    BY <1>1, <2>1
<1>3. ASSUME NEW b, NEW h, PacketOf(b, h) PROVE [Two!Next]_Two!vars
  <2>0. b \in Buckets /\ h \in Highs /\ <<b, h>> \in Flows /\ Packet(b, h)
    BY <1>3 DEF PacketOf
  <2>1. /\ TypeOK' /\ seen'[b] = More(seen[b], h)
        /\ \A a \in Buckets : a # b =>
             /\ hi_f1'[a] = hi_f1[a] /\ hi_f2'[a] = hi_f2[a]
             /\ ctr'[a] = ctr[a] /\ seen'[a] = seen[a]
        /\ TookFirst(b, h) \/ TookSecond(b, h) \/ TookRest(b, h)
    BY <1>0, <2>0, SlotsStep
  <2>2. ASSUME NEW a \in Clean, a # b PROVE seen'[a] = seen[a] /\ Same(a)
    <3>1. a \in Buckets
      BY DEF Clean
    <3> QED
      BY <2>1, <2>2, <3>1 DEF Tracked, SlotOf
  <2>3. CASE b \notin Clean
    BY <1>1, <2>2, <2>3
  <2>4. CASE b \in Clean
    <3>0. h # 0 /\ InOrder(b) /\ Exactly(b)
      BY <2>0, <2>4 DEF Clean, Free, SlotsInv
    <3>1. Offered' = [Offered EXCEPT ![b][h] = @ + 1]
      BY <2>0, <2>1, <2>4, IdealOffer
    <3>n. /\ SlotNames' = [a \in Clean |-> Tracked(a)']
          /\ SlotCounts' = [a \in Clean |-> [k \in Highs |-> SlotOf(a, k)']]
          /\ SlotRest' = [a \in Clean |-> ctr'[a][2]]
      BY DEF SlotNames, SlotCounts, SlotRest, Clean
    <3>2. CASE TookFirst(b, h) \/ TookSecond(b, h)
      <4>1. /\ Tracked(b)' = Tracked(b) \cup {h}
            /\ h \in Tracked(b) \/ Cardinality(Tracked(b)) < 2
            /\ SlotOf(b, h)' = Inc(SlotOf(b, h))
            /\ \A k \in Highs : k # h => SlotOf(b, k)' = SlotOf(b, k)
            /\ ctr'[b][2] = ctr[b][2]
        BY <1>0, <2>0, <3>0, <3>2, SlotTakes
      <4>2. SlotNames' = [SlotNames EXCEPT ![b] = @ \cup {h}]
        BY <2>2, <3>n, <4>1 DEF SlotNames
      <4>3. SlotCounts' = [SlotCounts EXCEPT ![b][h] = Two!Plus1(@)]
        <5>1. \A a \in Clean, k \in Highs :
                SlotOf(a, k)' = IF a = b /\ k = h THEN (SlotOf(a, k) + 1) % CtrMod
                                                  ELSE SlotOf(a, k)
          BY <2>2, <4>1 DEF Inc
        <5>2. SlotCounts' = [SlotCounts EXCEPT ![b][h] = (@ + 1) % CtrMod]
          BY <3>n, <5>1 DEF SlotCounts
        <5> QED
          BY <5>2 DEF Two!Plus1
      <4>4. SlotRest' = SlotRest
        BY <2>2, <3>n, <4>1 DEF SlotRest
      <4>5. h \in SlotNames[b] \/ Two!Room(b)
        BY <2>4, <4>1, SameCardinality DEF Two!Room, SlotNames
      <4>6. Two!Count(b, h)
        BY <4>2, <4>3, <4>4, <4>5, Zenon
           DEF Two!Count, SlotNames, SlotCounts, SlotOf, SlotRest
      <4> QED
        BY <2>0, <2>4, <3>1, <4>6 DEF Two!Next
    <3>3. CASE TookRest(b, h)
      <4>1. /\ Tracked(b)' = Tracked(b)
            /\ h \notin Tracked(b) /\ ~(Cardinality(Tracked(b)) < 2)
            /\ \A k \in Highs : SlotOf(b, k)' = SlotOf(b, k)
            /\ ctr'[b][2] = Inc(ctr[b][2])
        BY <1>0, <2>0, <3>0, <3>3, RestTakes
      <4>2. SlotNames' = SlotNames
        BY <2>2, <3>n, <4>1 DEF SlotNames
      <4>3. SlotCounts' = SlotCounts
        BY <2>2, <3>n, <4>1 DEF SlotCounts
      <4>4. SlotRest' = [SlotRest EXCEPT ![b] = Two!Plus1(@)]
        BY <2>2, <3>n, <4>1 DEF SlotRest, Two!Plus1, Inc
      <4>5. h \notin SlotNames[b] /\ ~Two!Room(b)
        BY <2>4, <4>1, SameCardinality DEF Two!Room, SlotNames
      <4>6. Two!Overflow(b, h)
        BY <4>2, <4>3, <4>4, <4>5, Zenon
           DEF Two!Overflow, SlotNames, SlotCounts, SlotOf, SlotRest
      <4> QED
        BY <2>0, <2>4, <3>1, <4>6 DEF Two!Next
    <3> QED
      BY <2>1, <3>2, <3>3
  <2> QED
    BY <2>3, <2>4
<1> QED
  BY <1>2, <1>3, StepIs

(* double_hash implements the ideal table of two flows and a rest: a flow  *)
(* keeps its slot, and a flow that found none is never given one later.    *)
THEOREM SlotsCountFlows == TablesSpec => SlotsImplementFlowCount
<1>1. TablesInit => Two!Init
  <2> SUFFICES ASSUME TablesInit PROVE Two!Init
    OBVIOUS
  <2>1. \A b \in Clean : /\ seen[b] = [h \in Highs |-> 0]
                         /\ Tracked(b) = {} /\ ctr[b][2] = 0
    <3> TAKE b \in Clean
    <3>1. /\ seen[b] = [h \in Highs |-> 0] /\ ctr[b] = [k \in 0 .. 2 |-> 0]
          /\ hi_f1[b] = 0 /\ hi_f2[b] = 0
      BY DEF TablesInit, Init, Clean, Slots, Free
    <3>2. Tracked(b) = {}
      BY <3>1 DEF Tracked, Free
    <3> QED
      BY <3>1, <3>2
  <2> QED
    BY <2>1 DEF Two!Init, Offered
<1>2. Chains /\ SlotsInv /\ [TablesNext]_tablesVars => [Two!Next]_Two!vars
  BY TwoStep DEF Chains
<1> QED
  BY <1>1, <1>2, AlwaysChains, AlwaysSlots, PTL
     DEF TablesSpec, SlotsImplementFlowCount, Two!Spec

-----------------------------------------------------------------------------
(* The reports.  The instances have copies of the operators on sets and    *)
(* sums.                                                                   *)
LEMMA SameSizes ==
  /\ \A S : List!Cardinality(S) = Cardinality(S)
  /\ \A S : Hash!Cardinality(S) = Cardinality(S)
BY Zenon DEF List!Cardinality, Hash!Cardinality, Cardinality, List!IsFiniteSet, Hash!IsFiniteSet, IsFiniteSet

LEMMA SameSums ==
  /\ \A f, S : List!SumFunctionOnSet(f, S) = SumFunctionOnSet(f, S)
  /\ \A f, S : Hash!SumFunctionOnSet(f, S) = SumFunctionOnSet(f, S)
  /\ \A f : List!SumFunction(f) = SumFunctionOnSet(f, DOMAIN f)
  /\ \A f : Hash!SumFunction(f) = SumFunctionOnSet(f, DOMAIN f)
<1>1. \A f, S : List!SumFunctionOnSet(f, S) = SumFunctionOnSet(f, S)
  BY Zenon DEF List!SumFunctionOnSet, List!FoldFunctionOnSet, List!MapThenFoldSet, SumFunctionOnSet, FoldFunctionOnSet, MapThenFoldSet
<1>2. \A f, S : Hash!SumFunctionOnSet(f, S) = SumFunctionOnSet(f, S)
  BY Zenon DEF Hash!SumFunctionOnSet, Hash!FoldFunctionOnSet, Hash!MapThenFoldSet, SumFunctionOnSet, FoldFunctionOnSet, MapThenFoldSet
<1> QED
  BY <1>1, <1>2, Zenon DEF List!SumFunction, Hash!SumFunction

(* A chain, or a part of one, whose counters have not wrapped.             *)
Part(c, s) ==
  /\ c \in Seq(Entry) /\ Counts(c, s)
  /\ \A i, j \in DOMAIN c :
       c[i].rss_high # 0 /\ c[i].rss_high = c[j].rss_high => i = j

Used(c) == {i \in DOMAIN c : c[i].rss_high # 0}

(* The entries with a nonzero counter are those of the flows it names, and *)
(* their counters add up to the packets of these flows.                    *)
LEMMA PartSays ==
  ASSUME NEW c, NEW s \in [Highs -> Nat], Part(c, s), \A h \in Highs : s[h] < CtrMod
  PROVE  /\ \A i \in DOMAIN c : c[i].ctr > 0 <=> c[i].rss_high # 0
         /\ IsFiniteSet(List!Named(c))
         /\ List!NonZero(c) = Cardinality(List!Named(c))
         /\ List!SumOfCtr(c) = SumFunctionOnSet(s, List!Named(c))
<1> DEFINE D == Used(c)
           name == [i \in DOMAIN c |-> c[i].rss_high]
           f == [i \in DOMAIN c |-> c[i].ctr]
<1>1. /\ DOMAIN c = 1 .. Len(c) /\ Len(c) \in Nat
      /\ \A i \in DOMAIN c : c[i] \in Entry
  BY LenProperties, ElementOfSeq DEF Part
<1>2. \A i \in DOMAIN c : c[i].rss_high \in Highs \cup {0} /\ c[i].ctr \in Nat
  BY <1>1, EntryType
<1>3. IsFiniteSet(DOMAIN c) /\ IsFiniteSet(D)
  <2>1. IsFiniteSet(1 .. Len(c))
    BY <1>1, FS_Interval
  <2>2. IsFiniteSet(DOMAIN c) /\ D \subseteq DOMAIN c
    BY <1>1, <2>1 DEF Used
  <2> QED
    BY <2>2, FS_Subset
<1>4. ASSUME NEW i \in DOMAIN c
      PROVE  /\ i \in D => f[i] = s[name[i]] /\ f[i] > 0
             /\ i \notin D => f[i] = 0
             /\ c[i].ctr > 0 <=> c[i].rss_high # 0
  <2>1. CASE c[i].rss_high = 0
    BY <2>1 DEF Part, Counts, Used
  <2>2. CASE c[i].rss_high # 0
    <3>1. /\ s[c[i].rss_high] > 0 /\ c[i].ctr = s[c[i].rss_high] % CtrMod
          /\ s[c[i].rss_high] \in Nat /\ s[c[i].rss_high] < CtrMod
      BY <1>2, <2>2 DEF Part, Counts
    <3>2. s[c[i].rss_high] % CtrMod = s[c[i].rss_high]
      BY <3>1, EntryType, ModSmall
    <3> QED
      BY <2>2, <3>1, <3>2 DEF Used
  <2> QED
    BY <2>1, <2>2
<1>5. \A i, j \in D : name[i] = name[j] => i = j
  BY DEF Part, Used
<1>6. List!Named(c) = Image(name, D)
  BY DEF List!Named, List!Free, Image, Used
<1>7. {i \in DOMAIN c : c[i].ctr > 0} = D
  BY <1>4 DEF Used
<1>8. List!NonZero(c) = Cardinality(D)
  BY <1>7, SameSizes, Zenon DEF List!NonZero
<1>9. IsFiniteSet(Image(name, D)) /\ Cardinality(Image(name, D)) = Cardinality(D)
  BY <1>3, <1>5, ImageSize
<1>10. List!SumOfCtr(c) = SumFunctionOnSet(f, DOMAIN c)
  <2>1. List!SumFunction(f) = SumFunctionOnSet(f, DOMAIN f) /\ DOMAIN f = DOMAIN c
    BY SameSums
  <2> QED
    BY <2>1, Zenon DEF List!SumOfCtr
<1>11. SumFunctionOnSet(f, DOMAIN c) = SumFunctionOnSet(f, D)
  <2>1. /\ \A i \in DOMAIN c : f[i] \in Int
        /\ \A i \in DOMAIN c \ D : f[i] = 0
        /\ D \in SUBSET DOMAIN c
    BY <1>2, <1>4 DEF Used
  <2> QED
    BY <1>3, <2>1, SumSupport, Zenon
<1>12. SumFunctionOnSet(f, D) = SumFunctionOnSet(s, Image(name, D))
  <2>1. \A i \in D : f[i] \in Int /\ f[i] = s[name[i]]
    BY <1>2, <1>4 DEF Used
  <2> HIDE DEF f, name, D
  <2> QED
    BY <1>3, <1>5, <2>1, SumImage
<1> QED
  BY <1>4, <1>6, <1>8, <1>9, <1>10, <1>11, <1>12, Zenon

(* What the handlers of linked_list make of the chain of a clean bucket.   *)
LEMMA ChainReports ==
  ASSUME NEW c, NEW s \in [Highs -> Nat], ChainOK(c, s), 0 \in Highs => s[0] = 0,
         \A h \in Highs : s[h] < CtrMod
  PROVE  /\ List!NonZero(c) = Cardinality({h \in Highs : s[h] > 0})
         /\ List!LeadingNonZero(c) = List!NonZero(c)
         /\ List!SumOfCtr(c) = SumFunctionOnSet(s, Highs)
<1>1. DOMAIN c = 1 .. Len(c) /\ Len(c) \in Nat
  BY LenProperties DEF ChainOK
<1>2. Part(c, s)
  BY <1>1 DEF ChainOK, Part, List!WellFormed, List!Free
<1>3. /\ \A i \in DOMAIN c : c[i].ctr > 0 <=> c[i].rss_high # 0
      /\ List!NonZero(c) = Cardinality(List!Named(c))
      /\ List!SumOfCtr(c) = SumFunctionOnSet(s, List!Named(c))
  BY <1>2, PartSays
<1>4. List!Named(c) = {h \in Highs : s[h] > 0}
  BY ChainSays
<1>5. {i \in DOMAIN c : \A j \in 1 .. i : c[j].ctr > 0} = {i \in DOMAIN c : c[i].ctr > 0}
  <2>1. ASSUME NEW i \in DOMAIN c, c[i].ctr > 0, NEW j \in 1 .. i PROVE c[j].ctr > 0
    <3>1. j \in DOMAIN c /\ (j < i \/ j = i) /\ c[i].rss_high # 0
      BY <1>1, <1>3, <2>1
    <3>2. CASE j = i
      BY <2>1, <3>2
    <3>3. CASE j < i
      <4>1. c[j].rss_high # 0
        BY <3>1, <3>3 DEF ChainOK, List!WellFormed, List!Free
      <4> QED
        BY <1>3, <3>1, <4>1
    <3> QED
      BY <3>1, <3>2, <3>3
  <2>2. \A i \in DOMAIN c : i \in 1 .. i
    BY <1>1
  <2> QED
    BY <2>1, <2>2
<1>6. List!LeadingNonZero(c) = List!NonZero(c)
  BY <1>5, Zenon DEF List!LeadingNonZero, List!NonZero
<1>7. SumFunctionOnSet(s, Highs) = SumFunctionOnSet(s, List!Named(c))
  <2>1. /\ \A h \in Highs : s[h] \in Int
        /\ \A h \in Highs \ List!Named(c) : s[h] = 0
        /\ List!Named(c) \in SUBSET Highs /\ IsFiniteSet(Highs)
    BY <1>4, TablesAssumption
  <2> QED
    BY <2>1, SumSupport, Zenon
<1> QED
  BY <1>3, <1>4, <1>6, <1>7, Zenon

(* The slots c and the list d of a clean bucket of hash_list: each flow is *)
(* counted once, and the list has the packets of the flows without a slot. *)
LEMMA PartsReport ==
  ASSUME NEW c \in Seq(Entry), NEW d \in Seq(Entry), NEW s \in [Highs -> Nat],
         ChainOK(c \o d, s), 0 \in Highs => s[0] = 0, \A h \in Highs : s[h] < CtrMod
  PROVE  /\ List!NonZero(c) + List!NonZero(d) = Cardinality({h \in Highs : s[h] > 0})
         /\ List!SumOfCtr(d) = SumFunctionOnSet(s, Highs \ List!Named(c))
<1> DEFINE e == c \o d
           N == List!Named(c)
           M == List!Named(d)
<1>1. /\ e \in Seq(Entry) /\ Len(c) \in Nat /\ Len(d) \in Nat
      /\ DOMAIN c = 1 .. Len(c) /\ DOMAIN d = 1 .. Len(d)
      /\ DOMAIN e = 1 .. Len(c) + Len(d)
      /\ \A i \in 1 .. Len(c) : e[i] = c[i]
      /\ \A i \in 1 .. Len(d) : e[Len(c) + i] = d[i]
  BY Joined
<1>2. List!WellFormed(e) /\ Counts(e, s) /\ List!Named(e) = {h \in Highs : s[h] > 0}
  BY ChainSays DEF ChainOK
<1> HIDE DEF e
<1>3. \A i, j \in DOMAIN e :
        e[i].rss_high # 0 /\ e[i].rss_high = e[j].rss_high => i = j
  BY <1>1, <1>2 DEF List!WellFormed, List!Free
<1>4. /\ \A i \in DOMAIN c : i \in DOMAIN e /\ e[i] = c[i]
      /\ \A i \in DOMAIN d : Len(c) + i \in DOMAIN e /\ e[Len(c) + i] = d[i]
      /\ \A i \in DOMAIN c, j \in DOMAIN d : i # Len(c) + j
      /\ \A i, j \in DOMAIN d : Len(c) + i = Len(c) + j => i = j
  BY <1>1
<1>5. Part(c, s)
  BY <1>2, <1>3, <1>4 DEF Part, Counts
<1>6. Part(d, s)
  <2>1. Counts(d, s)
    BY <1>2, <1>4 DEF Counts
  <2>2. ASSUME NEW i \in DOMAIN d, NEW j \in DOMAIN d,
               d[i].rss_high # 0, d[i].rss_high = d[j].rss_high
        PROVE  i = j
    <3>1. Len(c) + i = Len(c) + j
      BY <1>3, <1>4, <2>2
    <3> QED
      BY <1>4, <3>1
  <2> QED
    BY <2>1, <2>2 DEF Part
<1>7. N \cap M = {}
  <2> SUFFICES ASSUME NEW h \in N, h \in M PROVE FALSE
    OBVIOUS
  <2>1. PICK i \in DOMAIN c : h = c[i].rss_high /\ h # 0
    BY DEF List!Named, List!Free
  <2>2. PICK j \in DOMAIN d : h = d[j].rss_high
    BY DEF List!Named, List!Free
  <2>3. PICK k : k = Len(c) + j
    OBVIOUS
  <2>4. /\ i \in DOMAIN e /\ k \in DOMAIN e /\ i # k
        /\ e[i].rss_high # 0 /\ e[i].rss_high = e[k].rss_high
    BY <1>4, <2>1, <2>2, <2>3
  <2> QED
    BY <1>3, <2>4
<1>8. N \cup M = {h \in Highs : s[h] > 0}
  <2>1. ASSUME NEW h PROVE h \in N \cup M <=> h \in List!Named(e)
    <3>1. /\ h \in N <=> h # 0 /\ \E i \in DOMAIN c : h = c[i].rss_high
          /\ h \in M <=> h # 0 /\ \E i \in DOMAIN d : h = d[i].rss_high
          /\ h \in List!Named(e) <=> h # 0 /\ \E i \in DOMAIN e : h = e[i].rss_high
      BY DEF List!Named, List!Free
    <3>2. \A k \in DOMAIN e : k \in DOMAIN c \/ \E i \in DOMAIN d : k = Len(c) + i
      <4> SUFFICES ASSUME NEW k \in DOMAIN e, k \notin DOMAIN c
                   PROVE  \E i \in DOMAIN d : k = Len(c) + i
        OBVIOUS
      <4>1. k - Len(c) \in DOMAIN d /\ k = Len(c) + (k - Len(c))
        BY <1>1
      <4> QED
        BY <4>1
    <3> HIDE DEF N, M
    <3> QED
      BY <1>4, <3>1, <3>2
  <2> QED
    BY <1>2, <2>1
<1>9. /\ IsFiniteSet(N) /\ List!NonZero(c) = Cardinality(N)
      /\ IsFiniteSet(M) /\ List!NonZero(d) = Cardinality(M)
      /\ List!SumOfCtr(d) = SumFunctionOnSet(s, M)
  BY <1>5, <1>6, PartSays
<1>10. Cardinality(N \cup M) = Cardinality(N) + Cardinality(M)
  <2> HIDE DEF N, M
  <2>1. /\ Cardinality(N \cup M) = Cardinality(N) + Cardinality(M) - Cardinality(N \cap M)
        /\ Cardinality(N) \in Nat /\ Cardinality(M) \in Nat
    BY <1>9, FS_Union, FS_CardinalityType
  <2>2. Cardinality(N \cap M) = 0
    BY <1>7, FS_EmptySet
  <2> QED
    BY <2>1, <2>2
<1>11. SumFunctionOnSet(s, Highs \ N) = SumFunctionOnSet(s, M)
  <2> HIDE DEF N, M
  <2>1. /\ \A h \in Highs \ N : s[h] \in Int
        /\ \A h \in (Highs \ N) \ M : s[h] = 0
        /\ M \in SUBSET (Highs \ N)
    BY <1>7, <1>8
  <2>2. IsFiniteSet(Highs \ N)
    BY TablesAssumption, FS_Subset
  <2> QED
    BY <2>1, <2>2, SumSupport, Zenon
<1> QED
  BY <1>8, <1>9, <1>10, <1>11, Zenon

LEMMA SameReports ==
  \A c : /\ Hash!NonZero(c) = List!NonZero(c)
         /\ Hash!SumOfCtr(c) = List!SumOfCtr(c)
<1>1. \A f : List!SumFunction(f) = Hash!SumFunction(f)
  BY SameSums
<1>2. ASSUME NEW c PROVE Hash!NonZero(c) = List!NonZero(c)
  BY SameSizes, Zenon DEF Hash!NonZero, List!NonZero
<1>3. ASSUME NEW c PROVE Hash!SumOfCtr(c) = List!SumOfCtr(c)
  BY <1>1, Zenon DEF Hash!SumOfCtr, List!SumOfCtr
<1> QED
  BY <1>2, <1>3, Zenon

(* ReportsExact: until a flow has sent as many packets as a counter has    *)
(* values, the totals that the handlers of linked_list and hash_list print *)
(* for the clean buckets are those of the traffic, and the excess of the   *)
(* pthread version's number of flows is that of its extra addition.        *)
THEOREM ReportsAreExact == TablesSpec => []ReportsExact
<1>1. ASSUME Chains, \A b \in Clean, h \in Highs : seen[b][h] < CtrMod
      PROVE  /\ List!ReportExactIn(Clean)
             /\ Hash!ReportExactIn(Clean)
             /\ Hash!ReportPthreadExcess(Clean)
  <2>1. ASSUME NEW b \in Clean
        PROVE  /\ List!NonZero(lflows[b]) = Cardinality({h \in Highs : seen[b][h] > 0})
               /\ List!LeadingNonZero(lflows[b]) = List!NonZero(lflows[b])
               /\ List!SumOfCtr(lflows[b]) = SumFunctionOnSet(seen[b], Highs)
               /\ DOMAIN seen[b] = Highs
               /\ List!NonZero(hslots[b]) + List!NonZero(hflows[b])
                    = Cardinality({h \in Highs : seen[b][h] > 0})
               /\ List!SumOfCtr(hflows[b])
                    = SumFunctionOnSet(seen[b], Highs \ List!Named(hslots[b]))
    <3>1. /\ CleanOK(b) /\ b \in Buckets /\ seen[b] \in [Highs -> Nat]
          /\ hslots[b] \in Seq(Entry) /\ hflows[b] \in Seq(Entry)
          /\ \A h \in Highs : seen[b][h] < CtrMod
      BY <1>1, SlotsSeq DEF Chains, Types, Clean
    <3>2. /\ List!NonZero(lflows[b]) = Cardinality({h \in Highs : seen[b][h] > 0})
          /\ List!LeadingNonZero(lflows[b]) = List!NonZero(lflows[b])
          /\ List!SumOfCtr(lflows[b]) = SumFunctionOnSet(seen[b], Highs)
      BY <3>1, ChainReports DEF CleanOK
    <3>3. /\ List!NonZero(hslots[b]) + List!NonZero(hflows[b])
               = Cardinality({h \in Highs : seen[b][h] > 0})
          /\ List!SumOfCtr(hflows[b])
               = SumFunctionOnSet(seen[b], Highs \ List!Named(hslots[b]))
      BY <3>1, PartsReport DEF CleanOK
    <3>4. DOMAIN seen[b] = Highs
      BY <3>1
    <3> QED
      BY <3>2, <3>3, <3>4
  <2>2. [b \in Clean |-> List!SumOfCtr(lflows[b])]
          = [b \in Clean |-> List!SumFunction(seen[b])]
    <3>1. \A b \in Clean : List!SumFunction(seen[b]) = SumFunctionOnSet(seen[b], Highs)
      BY <2>1, SameSums, Zenon
    <3> QED
      BY <2>1, <3>1, Zenon
  <2>3. [b \in Clean |-> List!NonZero(lflows[b])]
          = [b \in Clean |-> List!Cardinality({h \in Highs : seen[b][h] > 0})]
    BY <2>1, SameSizes, Zenon
  <2>4. [b \in Clean |-> List!LeadingNonZero(lflows[b])]
          = [b \in Clean |-> List!NonZero(lflows[b])]
    BY <2>1, Zenon
  <2>5. List!ReportExactIn(Clean)
    BY <2>2, <2>3, <2>4, Zenon DEF List!ReportExactIn, List!PacketsIn, List!FlowsIn, List!FlowsPthreadIn
  <2>6. [b \in Clean |-> Hash!NonZero(hslots[b]) + Hash!NonZero(hflows[b])]
          = [b \in Clean |-> Hash!Cardinality({h \in Highs : seen[b][h] > 0})]
    BY <2>1, SameSizes, SameReports, Zenon
  <2>7. [b \in Clean |-> Hash!SumOfCtr(hflows[b])]
          = [b \in Clean |-> Hash!SumFunctionOnSet(seen[b], Highs \ Hash!Named(hslots[b]))]
    BY <2>1, SameSums, SameReports, SameOps, Zenon
  <2>8. Hash!ReportExactIn(Clean)
    BY <2>6, Zenon DEF Hash!ReportExactIn, Hash!ReportIn, Hash!FlowsSeen
  <2>9. Hash!ReportPthreadExcess(Clean)
    BY <2>7, <2>8, Zenon DEF Hash!ReportPthreadExcess, Hash!ReportPthreadIn, Hash!ReportExactIn
  <2> QED
    BY <2>5, <2>8, <2>9
<1>2. Chains => ReportsExact
  BY <1>1 DEF ReportsExact
<1> QED
  BY <1>2, AlwaysChains, PTL
=============================================================================
