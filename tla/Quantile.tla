------------------------------ MODULE Quantile ------------------------------
(***************************************************************************)
(* The percentiles of the gaps of a flow (QUANTILE builds): insertSort,    *)
(* init and get_qt of run_to_completion/main.c and of lthread/main.c, a    *)
(* P-square estimator.  Five markers have a height q, a position n and a   *)
(* desired position n1; the first five gaps are the first heights, every   *)
(* further gap moves the markers.                                          *)
(*                                                                         *)
(* Heights are in units of 1/Unit and rounded down, where the code has     *)
(* doubles.  A desired position is a float and rounded as one; in units of *)
(* 1/(2*den*Grid) for P = num/den, floats and what is added to them are    *)
(* whole.  A gap is a signed integer, but get_qt takes an unsigned one of  *)
(* UMod values, and insertSort swaps through an int.                       *)
(***************************************************************************)
EXTENDS Integers, FiniteSetsExt

CONSTANTS Percentiles,  \* the values of P, as [num, den]
          Gaps,         \* k -> the values of curr that occur after k gaps
          Unit,         \* a height of 1: the precision of the model
          UMod,         \* 2^64: the values of the parameter x of get_qt
          IntMax,       \* INT_MAX
          Grid,         \* 2^23: floats from 1 to 2 are 1/Grid apart
          Spacings,     \* how far floats from 1 on are apart, in 1/Grid
          MaxObs        \* bound of the model: gaps of the flow

Markers == 0 .. 4

(* No gap is less than INT_MIN: the least that occurs is -1.  Spacings are *)
(* powers of two.                                                          *)
ASSUME QuantileAssumption ==
  /\ Percentiles \subseteq [num : Nat, den : Nat \ {0}]
  /\ Gaps \in [0 .. MaxObs - 1 -> SUBSET Int]
  /\ \A k \in DOMAIN Gaps : \A x \in Gaps[k] : -IntMax - 1 <= x
  /\ Unit \in Nat \ {0} /\ UMod \in Nat \ {0} /\ IntMax \in Nat
  /\ IntMax < UMod
  /\ Spacings \subseteq Nat \ {0} /\ IsFiniteSet(Spacings) /\ {1, Grid} \subseteq Spacings
  /\ \A u, v \in Spacings : u <= v => v % u = 0
  /\ MaxObs \in Nat

VARIABLES P,            \* the percentile
          q,            \* marker -> height
          l,            \* how many of the first five gaps have come
          n,            \* marker -> position
          n1,           \* marker -> desired position
          seen,         \* gaps so far
          least, most   \* the least and the greatest of them (history)

quantileVars == <<P, q, l, n, n1, seen, least, most>>

One == 2 * P.den        \* a position, in units in which P is whole
Place == One * Grid     \* and in those of n1

(* P of the two versions.                                                  *)
PRtc == [num |-> 99, den |-> 100]
PLthread == [num |-> 1, den |-> 2]

-----------------------------------------------------------------------------
(* Conversion to float: the nearest multiple of the spacing, the even one  *)
(* of two.                                                                 *)
Nearest(x, w) ==
  LET down == x \div w
      rest == x % w
  IN  IF 2 * rest < w \/ (2 * rest = w /\ down % 2 = 0) THEN down * w ELSE (down + 1) * w

Float(x) == Nearest(x, One * Max({u \in Spacings : Place * u <= x}))

(* n1 after init, and what an observation adds to it (dn0 to dn4).         *)
Desired ==
  <<1 * One, One + 4 * P.num, One + 8 * P.num,
    3 * One + 4 * P.num, 5 * One>>

Increment ==
  <<0, P.num, 2 * P.num, P.num + P.den, One>>

init ==
  /\ P \in Percentiles
  /\ q = [i \in Markers |-> 0]
  /\ l = 0
  /\ n = [i \in Markers |-> i + 1]
  /\ n1 = [i \in Markers |-> Float(Desired[i + 1] * Grid)]
  /\ seen = 0 /\ least = 0 /\ most = 0

-----------------------------------------------------------------------------
(* Conversion to int and back; what does not fit becomes INT_MIN (x86).    *)
Truncated(x) ==
  LET w == IF x < 0 THEN -((-x) \div Unit) ELSE x \div Unit
  IN  (IF -IntMax - 1 <= w /\ w <= IntMax THEN w ELSE -IntMax - 1) * Unit

(* One round of insertSort: entry i moves down, through tmp, past the      *)
(* greater ones of the sorted entries before it.                           *)
Insert(s, i) ==
  IF s[i] >= s[i - 1] THEN s
  ELSE LET tmp == Truncated(s[i])
           k == Cardinality({j \in 0 .. i - 2 : s[j] <= tmp})
       IN  [j \in Markers |-> IF j < k \/ j > i THEN s[j]
                              ELSE IF j = k THEN tmp ELSE s[j - 1]]

(* Mutation: the last entry is left out.                                   *)
SortShort(s) == Insert(Insert(Insert(s, 1), 2), 3)

insertSort(s) == Insert(Insert(Insert(Insert(s, 1), 2), 3), 4)

-----------------------------------------------------------------------------
(* get_qt on the markers m = [q, n, n1].                                   *)

(* The markers between which x falls.                                      *)
CellOf(m, x) ==
  IF x > m.q[2] THEN IF x < m.q[3] THEN 2 ELSE 3
                ELSE IF x >= m.q[1] THEN 1 ELSE 0

(* The outer markers take in x; those above it and the desired positions   *)
(* move.                                                                   *)
Absorb(m, x) ==
  LET k == CellOf(m, x) IN
  [q |-> [m.q EXCEPT ![4] = IF k = 3 /\ x > @ THEN x ELSE @,
                     ![0] = IF k = 0 /\ x < @ THEN x ELSE @],
   n |-> [i \in Markers |-> IF i > k THEN m.n[i] + 1 ELSE m.n[i]],
   n1 |-> [i \in Markers |-> Float(m.n1[i] + Increment[i + 1] * Grid)]]

(* A marker a position or more from where it should be moves by one        *)
(* towards it, unless that is the position of the next marker.             *)
MayMove(m, i, d) ==
  /\ d * (m.n1[i] - Float(m.n[i] * Place)) >= Place
  /\ d * (m.n[i + d] - m.n[i]) > 1

(* The height on the parabola, relative to the marker's.                   *)
Parabolic(m, i, d) ==
  LET up == m.n[i + 1] - m.n[i]
      down == m.n[i] - m.n[i - 1]
  IN  (d * ((down + d) * (m.q[i + 1] - m.q[i]) * down
            + (up - d) * (m.q[i] - m.q[i - 1]) * up))
        \div ((up + down) * up * down)

(* The height on the line to the next marker, relative to the marker's.    *)
Linear(m, i, d) == (m.q[i + d] - m.q[i]) \div (d * (m.n[i + d] - m.n[i]))

(* Mutation: the parabola is always followed.                              *)
MovedUnchecked(m, i, d) ==
  [m EXCEPT !.q[i] = @ + Parabolic(m, i, d), !.n[i] = @ + d]

Moved(m, i, d) ==
  LET q1 == m.q[i] + Parabolic(m, i, d) IN
  [m EXCEPT !.q[i] = IF q1 > m.q[i - 1] /\ q1 < m.q[i + 1]
                       THEN q1 ELSE @ + Linear(m, i, d),
            !.n[i] = @ + d]

(* Mutation: a marker only moves up.                                       *)
AdjustUp(m, i) == IF MayMove(m, i, 1) THEN Moved(m, i, 1) ELSE m

Adjust(m, i) ==
  IF MayMove(m, i, 1) THEN Moved(m, i, 1)
  ELSE IF MayMove(m, i, -1) THEN Moved(m, i, -1)
  ELSE m

get_qt(m, x) == Adjust(Adjust(Adjust(Absorb(m, x), 1), 2), 3)

-----------------------------------------------------------------------------
Count(x) ==
  /\ seen' = seen + 1
  /\ least' = IF seen = 0 \/ x < least THEN x ELSE least
  /\ most' = IF seen = 0 \/ x > most THEN x ELSE most
  /\ UNCHANGED P

(* One of the first five gaps.                                             *)
Fill(x) ==
  /\ l < 5
  /\ q' = [q EXCEPT ![l] = x * Unit]
  /\ l' = l + 1
  /\ Count(x)
  /\ UNCHANGED <<n, n1>>

(* A further one: l stays 5, so that the heights are sorted every time.    *)
Update(x) ==
  /\ l = 5
  /\ LET m == get_qt([q |-> insertSort(q), n |-> n, n1 |-> n1],
                     (x % UMod) * Unit)
     IN  q' = m.q /\ n' = m.n /\ n1' = m.n1
  /\ Count(x)
  /\ UNCHANGED l

Observe == seen < MaxObs /\ \E x \in Gaps[seen] : Fill(x) \/ Update(x)

QuantileSpec == init /\ [][Observe]_quantileVars
-----------------------------------------------------------------------------
(* The gaps are numbers of packets that an int can hold.  (Two packets of  *)
(* a flow in one burst have the gap -1: see InterPacketGap.)               *)
InRange == 0 <= least /\ most <= IntMax

(* The heights are ordered and the positions distinct, from the first to   *)
(* the number of gaps, whatever the gaps are: get_qt never divides by 0,   *)
(* and insertSort, called again for every gap, has nothing to move, so     *)
(* that its int never cuts off a height.                                   *)
MarkersOrdered ==
  seen > 5 =>
    /\ \A i \in 0 .. 3 : q[i] <= q[i + 1] /\ n[i] < n[i + 1]
    /\ n[0] = 1 /\ n[4] = seen

(* The outer markers are the least and the greatest gap.                   *)
ExtremesExact ==
  InRange /\ seen > 5 => q[0] = least * Unit /\ q[4] = most * Unit

(* Where marker i belongs among the gaps: at P/2, P, (1 + P)/2 of them.    *)
Rank(i) == One + (seen - 1) * Increment[i + 1]

(* What the float n1 may have lost or gained: a position after some 4000   *)
(* gaps, a 64th of the gaps at 2^18, and nothing is said at 2^24.          *)
Drift == (One * seen * seen) \div (2 * Grid)

MaxLag == IF P = PLthread THEN 1 ELSE 3

(* An inner marker stays near the position of the percentile that it       *)
(* stands for, but for the roundings of n1: for P = 0.5 within one         *)
(* observation and for P = 0.99, whose markers crowd at the upper end,     *)
(* within three.                                                           *)
MarkersOnRank ==
  seen >= 5 =>
    \A i \in 1 .. 3 : LET lag == Rank(i) - n[i] * One
                      IN  -One - Drift <= lag /\ lag <= MaxLag * One + Drift
=============================================================================
