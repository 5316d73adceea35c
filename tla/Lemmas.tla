------------------------------- MODULE Lemmas -------------------------------
(***************************************************************************)
(* Facts that the library does not state.                                  *)
(*                                                                         *)
(* Induction and sums over finite sets: the induction theorems of the      *)
(* library take a predicate as a parameter, which the provers cannot       *)
(* instantiate; here the predicate is a set, and induction comes from the  *)
(* well-foundedness of < alone.  With it, the sum of a function over a     *)
(* finite set (SumFunctionOnSet of Functions) obeys the laws of a sum.     *)
(* Then counters that wrap, sequences and the tables of threads.           *)
(***************************************************************************)
EXTENDS ThreadTables, FiniteSetTheorems, SequenceTheorems,
        WellFoundedInduction, Functions, TLAPS

Less == {ss \in Nat \X Nat : ss[1] < ss[2]}
(* There is no infinite descent among the natural numbers.                 *)
LEMMA LessWellFounded == IsWellFoundedOn(Less, Nat)
BY NatLessThanWellFounded DEF OpToRel, Less

(* A set of natural numbers that is not empty has a least element.         *)
LEMMA LeastNumber ==
  ASSUME NEW T \in SUBSET Nat, T # {}
  PROVE  \E x \in T : \A y \in T : x <= y
<1>1. PICK x \in T : \A y \in T : <<y, x>> \notin Less
  BY LessWellFounded, WFMin, Zenon
<1>2. x \in Nat /\ \A y \in T : y \in Nat /\ ~(y < x)
  BY <1>1 DEF Less
<1> QED
  BY <1>1, <1>2

(* Induction: a set with 0 and the successors of its elements is Nat.      *)
LEMMA SetInduction ==
  ASSUME NEW T \in SUBSET Nat, 0 \in T, \A n \in T : n + 1 \in T
  PROVE  T = Nat
<1> SUFFICES ASSUME Nat \ T # {} PROVE FALSE
  OBVIOUS
<1>1. PICK x \in Nat \ T : \A y \in Nat \ T : x <= y
  BY LeastNumber
<1>2. x # 0 /\ x - 1 \in Nat /\ (x - 1) + 1 = x /\ ~(x <= x - 1)
  BY <1>1
<1> QED
  BY <1>1, <1>2

(* Induction over the subsets of a finite set: F has them all if it has a  *)
(* set whenever it has that set without any one of its elements.           *)
LEMMA SubsetInduction ==
  ASSUME NEW S, IsFiniteSet(S), NEW F,
         \A T \in SUBSET S : (\A x \in T : T \ {x} \in F) => T \in F
  PROVE  SUBSET S \subseteq F
<1> DEFINE Bad == {T \in SUBSET S : T \notin F}
           Sizes == {Cardinality(T) : T \in Bad}
<1> SUFFICES ASSUME Bad # {} PROVE FALSE
  OBVIOUS
<1>1. \A T \in SUBSET S : IsFiniteSet(T) /\ Cardinality(T) \in Nat
  BY FS_Subset, FS_CardinalityType
<1>2. Sizes \in SUBSET Nat /\ Sizes # {}
  BY <1>1
<1>3. PICK n \in Sizes : \A m \in Sizes : n <= m
  BY <1>2, LeastNumber
<1>4. PICK T \in Bad : n = Cardinality(T)
  BY <1>3
<1>5. ASSUME NEW x \in T PROVE T \ {x} \in F
  <2>1. Cardinality(T \ {x}) = Cardinality(T) - 1
    BY <1>1, FS_RemoveElement
  <2>2. T \ {x} \in SUBSET S
    BY <1>4
  <2>3. Cardinality(T \ {x}) \notin Sizes
    BY <1>1, <1>2, <1>3, <1>4, <2>1
  <2> QED
    BY <2>2, <2>3
<1> QED
  BY <1>4, <1>5

(* A finite set of integers that is not empty has a greatest element.      *)
LEMMA GreatestNumber ==
  ASSUME NEW S \in SUBSET Int, IsFiniteSet(S), S # {}
  PROVE  \E x \in S : \A y \in S : x >= y
<1> DEFINE F == {T \in SUBSET S : T # {} => \E x \in T : \A y \in T : x >= y}
<1>1. ASSUME NEW T \in SUBSET S, \A x \in T : T \ {x} \in F PROVE T \in F
  <2> SUFFICES ASSUME T # {} PROVE \E x \in T : \A y \in T : x >= y
    OBVIOUS
  <2>1. PICK z \in T : TRUE
    OBVIOUS
  <2>2. CASE T \ {z} = {}
    BY <2>1, <2>2
  <2>3. CASE T \ {z} # {}
    <3>1. PICK x \in T \ {z} : \A y \in T \ {z} : x >= y
      BY <1>1, <2>1, <2>3
    <3>2. x \in Int /\ z \in Int /\ T \subseteq Int
      OBVIOUS
    <3>3. CASE x >= z
      BY <3>1, <3>2, <3>3
    <3>4. CASE z >= x
      BY <2>1, <3>1, <3>2, <3>4
    <3> QED
      BY <3>2, <3>3, <3>4
  <2> QED
    BY <2>2, <2>3
<1> HIDE DEF F
<1>2. SUBSET S \subseteq F
  BY <1>1, SubsetInduction
<1> QED
  BY <1>2 DEF F

(* The element that a fold over T takes first.                             *)
Pick(T) == CHOOSE x \in T : TRUE

(* It is one of the elements.                                              *)
LEMMA PickIn == \A T : T # {} => Pick(T) \in T
BY DEF Pick

(* g maps each subset of S to the sum of f over it: the recursion of       *)
(* MapThenFoldSet.                                                         *)
IsSum(g, f, S) ==
  g = [T \in SUBSET S |->
         IF T = {} THEN 0 ELSE f[Pick(T)] + g[T \ {Pick(T)}]]

(* The sum is defined by choosing such a g.                                *)
LEMMA SumDef ==
  ASSUME NEW f, NEW S
  PROVE  SumFunctionOnSet(f, S) = (CHOOSE g : IsSum(g, f, S))[S]
BY Zenon DEF SumFunctionOnSet, FoldFunctionOnSet, MapThenFoldSet, Pick, IsSum

(* The same for the subsets of at most n elements.                         *)
UpTo(S, n) == {T \in SUBSET S : Cardinality(T) <= n}
IsSumUpTo(g, f, S, n) ==
  g = [T \in UpTo(S, n) |->
         IF T = {} THEN 0 ELSE f[Pick(T)] + g[T \ {Pick(T)}]]

(* There is such a g: the recursion ends, as S is finite.                  *)
LEMMA SumExists ==
  ASSUME NEW f, NEW S, IsFiniteSet(S)
  PROVE  \E g : IsSum(g, f, S)
<1> DEFINE P == {n \in Nat : \E g : IsSumUpTo(g, f, S, n)}
<1>0. \A T \in SUBSET S : IsFiniteSet(T) /\ Cardinality(T) \in Nat
  BY FS_Subset, FS_CardinalityType
<1>1. 0 \in P
  <2> DEFINE g == [T \in UpTo(S, 0) |-> 0]
  <2>1. \A T \in UpTo(S, 0) : T = {}
    BY <1>0, FS_EmptySet DEF UpTo
  <2>2. IsSumUpTo(g, f, S, 0)
    BY <2>1 DEF IsSumUpTo
  <2> QED
    BY <2>2
<1>2. ASSUME NEW n \in P PROVE n + 1 \in P
  <2>1. PICK h : IsSumUpTo(h, f, S, n)
    OBVIOUS
  <2> DEFINE val(T) == IF T = {} THEN 0 ELSE f[Pick(T)] + h[T \ {Pick(T)}]
             g == [T \in UpTo(S, n + 1) |-> val(T)]
  <2>2. \A T \in UpTo(S, n) : h[T] = val(T)
    BY <2>1 DEF IsSumUpTo
  <2>3. UpTo(S, n) \subseteq UpTo(S, n + 1)
    BY <1>0 DEF UpTo
  <2>4. ASSUME NEW T \in UpTo(S, n + 1), T # {}
        PROVE  T \ {Pick(T)} \in UpTo(S, n)
    <3>1. Pick(T) \in T /\ T \in SUBSET S
      BY <2>4, PickIn DEF UpTo
    <3>2. Cardinality(T \ {Pick(T)}) = Cardinality(T) - 1
      BY <1>0, <3>1, FS_RemoveElement
    <3>3. Cardinality(T) \in Nat /\ Cardinality(T) <= n + 1
      BY <1>0 DEF UpTo
    <3> QED
      BY <3>1, <3>2, <3>3 DEF UpTo
  <2>5. \A T \in UpTo(S, n) : g[T] = h[T]
    BY <2>2, <2>3
  <2>6. \A T \in UpTo(S, n + 1) :
          val(T) = IF T = {} THEN 0 ELSE f[Pick(T)] + g[T \ {Pick(T)}]
    BY <2>4, <2>5
  <2>7. IsSumUpTo(g, f, S, n + 1)
    BY <2>6 DEF IsSumUpTo
  <2> QED
    BY <2>7
<1>3. P = Nat
  <2> HIDE DEF P
  <2>1. P \in SUBSET Nat
    BY DEF P
  <2> QED
    BY <1>1, <1>2, <2>1, SetInduction
<1>4. UpTo(S, Cardinality(S)) = SUBSET S
  BY FS_Subset DEF UpTo
<1>5. PICK g : IsSumUpTo(g, f, S, Cardinality(S))
  BY <1>0, <1>3
<1> QED
  BY <1>4, <1>5 DEF IsSum, IsSumUpTo

(* Hence the sum is given by the recursion.                                *)
LEMMA SumIs ==
  ASSUME NEW f, NEW S, IsFiniteSet(S)
  PROVE  \E g : IsSum(g, f, S) /\ SumFunctionOnSet(f, S) = g[S]
BY SumExists, SumDef, Zenon

(* Recursions that sum the same values agree.                              *)
LEMMA SumAgrees ==
  ASSUME NEW S, IsFiniteSet(S), NEW T \in SUBSET S, NEW f, NEW e,
         \A x \in T : f[x] = e[x],
         NEW g, IsSum(g, f, S), NEW h, IsSum(h, e, T)
  PROVE  g[T] = h[T]
<1> DEFINE F == {U \in SUBSET T : g[U] = h[U]}
<1>1. IsFiniteSet(T)
  BY FS_Subset
<1>2. ASSUME NEW U \in SUBSET T, \A x \in U : U \ {x} \in F PROVE U \in F
  <2>1. /\ g[U] = IF U = {} THEN 0 ELSE f[Pick(U)] + g[U \ {Pick(U)}]
        /\ h[U] = IF U = {} THEN 0 ELSE e[Pick(U)] + h[U \ {Pick(U)}]
    BY <1>2 DEF IsSum
  <2>2. U # {} => f[Pick(U)] = e[Pick(U)] /\ g[U \ {Pick(U)}] = h[U \ {Pick(U)}]
    BY <1>2, PickIn
  <2> QED
    BY <2>1, <2>2
<1>3. SUBSET T \subseteq F
  <2> HIDE DEF F
  <2> QED
    BY <1>1, <1>2, SubsetInduction
<1> QED
  BY <1>3

(* A sum of integers is one.                                               *)
LEMMA SumType ==
  ASSUME NEW S, IsFiniteSet(S), NEW f, \A x \in S : f[x] \in Int,
         NEW g, IsSum(g, f, S)
  PROVE  \A T \in SUBSET S : g[T] \in Int
<1> DEFINE F == {T \in SUBSET S : g[T] \in Int}
<1>1. ASSUME NEW T \in SUBSET S, \A x \in T : T \ {x} \in F PROVE T \in F
  <2>1. g[T] = IF T = {} THEN 0 ELSE f[Pick(T)] + g[T \ {Pick(T)}]
    BY DEF IsSum
  <2>2. T # {} => f[Pick(T)] \in Int /\ g[T \ {Pick(T)}] \in Int
    BY <1>1, PickIn
  <2> QED
    BY <2>1, <2>2
<1>2. SUBSET S \subseteq F
  <2> HIDE DEF F
  <2> QED
    BY <1>1, SubsetInduction
<1> QED
  BY <1>2

(* The order of the summation is of no importance.                         *)
LEMMA SumOrder ==
  ASSUME NEW S, IsFiniteSet(S), NEW f, \A x \in S : f[x] \in Int,
         NEW g, IsSum(g, f, S)
  PROVE  \A T \in SUBSET S : \A x \in T : g[T] = f[x] + g[T \ {x}]
<1> DEFINE F == {T \in SUBSET S : \A x \in T : g[T] = f[x] + g[T \ {x}]}
<1>0. \A T \in SUBSET S : g[T] \in Int
  BY SumType
<1>1. ASSUME NEW T \in SUBSET S, \A x \in T : T \ {x} \in F PROVE T \in F
  <2> SUFFICES ASSUME NEW x \in T PROVE g[T] = f[x] + g[T \ {x}]
    OBVIOUS
  <2> DEFINE c == Pick(T)
  <2>1. c \in T /\ g[T] = f[c] + g[T \ {c}]
    BY PickIn DEF IsSum
  <2> HIDE DEF c
  <2>2. CASE x # c
    <3>1. g[T \ {c}] = f[x] + g[(T \ {c}) \ {x}]
      BY <1>1, <2>1, <2>2
    <3>2. g[T \ {x}] = f[c] + g[(T \ {x}) \ {c}]
      BY <1>1, <2>1, <2>2
    <3>3. (T \ {c}) \ {x} = (T \ {x}) \ {c}
      OBVIOUS
    <3> DEFINE r == g[(T \ {c}) \ {x}]
    <3>4. r \in Int /\ f[x] \in Int /\ f[c] \in Int
      BY <1>0, <2>1
    <3>5. g[T] = f[c] + (f[x] + r) /\ g[T \ {x}] = f[c] + r
      BY <2>1, <3>1, <3>2, <3>3
    <3> HIDE DEF r
    <3> QED
      BY <3>4, <3>5
  <2> QED
    BY <2>1, <2>2
<1>2. SUBSET S \subseteq F
  <2> HIDE DEF F
  <2> QED
    BY <1>1, SubsetInduction
<1> QED
  BY <1>2

-----------------------------------------------------------------------------
(* The laws that the proofs use: the sum of nothing.                       *)
LEMMA SumEmpty == \A f : SumFunctionOnSet(f, {}) = 0
<1> TAKE f
<1>1. PICK g : IsSum(g, f, {}) /\ SumFunctionOnSet(f, {}) = g[{}]
  BY SumIs, FS_EmptySet
<1> QED
  BY <1>1 DEF IsSum

(* The sum only depends on the values.                                     *)
LEMMA SumSame ==
  ASSUME NEW S, IsFiniteSet(S), NEW f, NEW e, \A x \in S : f[x] = e[x]
  PROVE  SumFunctionOnSet(f, S) = SumFunctionOnSet(e, S)
<1>1. PICK g : IsSum(g, f, S) /\ SumFunctionOnSet(f, S) = g[S]
  BY SumIs
<1>2. PICK h : IsSum(h, e, S) /\ SumFunctionOnSet(e, S) = h[S]
  BY SumIs
<1>3. S \in SUBSET S
  OBVIOUS
<1> QED
  BY <1>1, <1>2, <1>3, SumAgrees

(* One summand may be taken out.                                           *)
LEMMA SumStep ==
  ASSUME NEW S, IsFiniteSet(S), NEW f, \A y \in S : f[y] \in Int, NEW x \in S
  PROVE  /\ SumFunctionOnSet(f, S) = f[x] + SumFunctionOnSet(f, S \ {x})
         /\ SumFunctionOnSet(f, S \ {x}) \in Int
         /\ SumFunctionOnSet(f, S) \in Int
<1> DEFINE T == S \ {x}
<1>0. IsFiniteSet(T) /\ T \in SUBSET S /\ S \in SUBSET S
  BY FS_RemoveElement
<1>1. PICK g : IsSum(g, f, S) /\ SumFunctionOnSet(f, S) = g[S]
  BY SumIs
<1>2. PICK h : IsSum(h, f, T) /\ SumFunctionOnSet(f, T) = h[T]
  BY <1>0, SumIs
<1>3. g[T] = h[T]
  BY <1>0, <1>1, <1>2, SumAgrees
<1>4. g[S] = f[x] + g[T]
  BY <1>0, <1>1, SumOrder
<1>5. g[T] \in Int /\ g[S] \in Int
  BY <1>0, <1>1, SumType
<1> QED
  BY <1>1, <1>2, <1>3, <1>4, <1>5

(* A sum of integers is one.                                               *)
LEMMA SumInt ==
  ASSUME NEW S, IsFiniteSet(S), NEW f, \A y \in S : f[y] \in Int
  PROVE  SumFunctionOnSet(f, S) \in Int
<1>1. CASE S = {}
  BY <1>1, SumEmpty
<1>2. CASE S # {}
  BY <1>2, SumStep
<1> QED
  BY <1>1, <1>2

(* When one summand changes, the sum changes by as much.                   *)
LEMMA SumUpdate ==
  ASSUME NEW S, IsFiniteSet(S), NEW x \in S,
         NEW f, NEW e, \A y \in S : f[y] \in Int /\ e[y] \in Int,
         \A y \in S \ {x} : e[y] = f[y]
  PROVE  SumFunctionOnSet(e, S) = SumFunctionOnSet(f, S) + (e[x] - f[x])
<1> DEFINE a == SumFunctionOnSet(f, S \ {x})
           b == SumFunctionOnSet(e, S \ {x})
           c == SumFunctionOnSet(f, S)
           d == SumFunctionOnSet(e, S)
<1>1. c = f[x] + a /\ a \in Int
  BY SumStep
<1>2. d = e[x] + b /\ b \in Int
  BY SumStep
<1>3. a = b
  BY FS_RemoveElement, SumSame
<1>4. f[x] \in Int /\ e[x] \in Int
  OBVIOUS
<1> HIDE DEF a, b, c, d
<1>5. d = c + (e[x] - f[x])
  BY <1>1, <1>2, <1>3, <1>4
<1> QED
  BY <1>5 DEF c, d

(* A sum of smaller summands is smaller.                                   *)
LEMMA SumLeq ==
  ASSUME NEW S, IsFiniteSet(S), NEW f, NEW e,
         \A x \in S : f[x] \in Int /\ e[x] \in Int /\ f[x] <= e[x]
  PROVE  SumFunctionOnSet(f, S) <= SumFunctionOnSet(e, S)
<1> DEFINE F == {T \in SUBSET S : SumFunctionOnSet(f, T) <= SumFunctionOnSet(e, T)}
<1>1. ASSUME NEW T \in SUBSET S, \A x \in T : T \ {x} \in F PROVE T \in F
  <2>0. IsFiniteSet(T)
    BY FS_Subset
  <2>1. CASE T = {}
    BY <2>1, SumEmpty
  <2>2. CASE T # {}
    <3>1. PICK x \in T : TRUE
      BY <2>2
    <3> DEFINE a == SumFunctionOnSet(f, T \ {x})
               b == SumFunctionOnSet(e, T \ {x})
    <3>2. SumFunctionOnSet(f, T) = f[x] + a /\ a \in Int
      BY <2>0, SumStep
    <3>3. SumFunctionOnSet(e, T) = e[x] + b /\ b \in Int
      BY <2>0, SumStep
    <3>4. a <= b
      BY <1>1
    <3>5. f[x] \in Int /\ e[x] \in Int /\ f[x] <= e[x]
      OBVIOUS
    <3> HIDE DEF a, b
    <3>6. SumFunctionOnSet(f, T) <= SumFunctionOnSet(e, T)
      BY <3>2, <3>3, <3>4, <3>5
    <3> QED
      BY <3>6
  <2> QED
    BY <2>1, <2>2
<1>2. SUBSET S \subseteq F
  <2> HIDE DEF F
  <2> QED
    BY <1>1, SubsetInduction
<1> QED
  BY <1>2

(* A sum of zeros is 0.                                                    *)
LEMMA SumZero ==
  ASSUME NEW S, IsFiniteSet(S), NEW f, \A x \in S : f[x] = 0
  PROVE  SumFunctionOnSet(f, S) = 0
<1> DEFINE F == {T \in SUBSET S : SumFunctionOnSet(f, T) = 0}
<1>1. ASSUME NEW T \in SUBSET S, \A x \in T : T \ {x} \in F PROVE T \in F
  <2>0. IsFiniteSet(T)
    BY FS_Subset
  <2>1. CASE T = {}
    BY <2>1, SumEmpty
  <2>2. CASE T # {}
    <3>1. PICK x \in T : TRUE
      BY <2>2
    <3>2. SumFunctionOnSet(f, T) = f[x] + SumFunctionOnSet(f, T \ {x})
      BY <2>0, SumStep
    <3>3. SumFunctionOnSet(f, T \ {x}) = 0 /\ f[x] = 0
      BY <1>1, <3>1
    <3> QED
      BY <3>2, <3>3
  <2> QED
    BY <2>1, <2>2
<1>2. SUBSET S \subseteq F
  <2> HIDE DEF F
  <2> QED
    BY <1>1, SubsetInduction
<1> QED
  BY <1>2

(* A sum of natural numbers is one, and none of them is larger.            *)
LEMMA SumNat ==
  ASSUME NEW S, IsFiniteSet(S), NEW f, \A x \in S : f[x] \in Nat
  PROVE  /\ SumFunctionOnSet(f, S) \in Nat
         /\ \A x \in S : f[x] <= SumFunctionOnSet(f, S)
<1> DEFINE zero == [x \in S |-> 0]
<1>1. ASSUME NEW T \in SUBSET S PROVE SumFunctionOnSet(f, T) \in Nat
  <2>1. IsFiniteSet(T)
    BY FS_Subset
  <2>2. SumFunctionOnSet(zero, T) = 0
    BY <2>1, SumZero
  <2>3. SumFunctionOnSet(zero, T) <= SumFunctionOnSet(f, T)
    BY <2>1, SumLeq
  <2>4. SumFunctionOnSet(f, T) \in Int
    BY <2>1, SumInt
  <2> QED
    BY <2>2, <2>3, <2>4
<1>2. ASSUME NEW x \in S PROVE f[x] <= SumFunctionOnSet(f, S)
  <2>1. SumFunctionOnSet(f, S) = f[x] + SumFunctionOnSet(f, S \ {x})
    BY SumStep
  <2>2. SumFunctionOnSet(f, S \ {x}) \in Nat /\ f[x] \in Nat
    BY <1>1
  <2> QED
    BY <2>1, <2>2
<1> QED
  BY <1>1, <1>2

(* The sum of the sums of two functions.                                   *)
LEMMA SumPlus ==
  ASSUME NEW S, IsFiniteSet(S), NEW f, NEW e, NEW d,
         \A x \in S : f[x] \in Int /\ e[x] \in Int /\ d[x] = f[x] + e[x]
  PROVE  SumFunctionOnSet(d, S)
           = SumFunctionOnSet(f, S) + SumFunctionOnSet(e, S)
<1> DEFINE F == {T \in SUBSET S : SumFunctionOnSet(d, T)
                   = SumFunctionOnSet(f, T) + SumFunctionOnSet(e, T)}
<1>1. ASSUME NEW T \in SUBSET S, \A x \in T : T \ {x} \in F PROVE T \in F
  <2>0. IsFiniteSet(T)
    BY FS_Subset
  <2>1. CASE T = {}
    BY <2>1, SumEmpty
  <2>2. CASE T # {}
    <3>1. PICK x \in T : TRUE
      BY <2>2
    <3> DEFINE a == SumFunctionOnSet(f, T \ {x})
               b == SumFunctionOnSet(e, T \ {x})
               c == SumFunctionOnSet(d, T \ {x})
    <3>2. SumFunctionOnSet(f, T) = f[x] + a /\ a \in Int
      BY <2>0, SumStep
    <3>3. SumFunctionOnSet(e, T) = e[x] + b /\ b \in Int
      BY <2>0, SumStep
    <3>4. SumFunctionOnSet(d, T) = d[x] + c
      <4>1. \A y \in T : d[y] \in Int
        OBVIOUS
      <4> QED
        BY <2>0, <4>1, SumStep
    <3>5. c = a + b
      BY <1>1
    <3>6. f[x] \in Int /\ e[x] \in Int /\ d[x] = f[x] + e[x]
      OBVIOUS
    <3> HIDE DEF a, b, c
    <3>7. SumFunctionOnSet(d, T)
            = SumFunctionOnSet(f, T) + SumFunctionOnSet(e, T)
      BY <3>2, <3>3, <3>4, <3>5, <3>6
    <3> QED
      BY <3>7
  <2> QED
    BY <2>1, <2>2
<1>2. SUBSET S \subseteq F
  <2> HIDE DEF F
  <2> QED
    BY <1>1, SubsetInduction
<1> QED
  BY <1>2

(* A sum over an initial segment of the natural numbers, one more.         *)
LEMMA SumUpTo ==
  ASSUME NEW n \in Nat, NEW f, \A i \in 0 .. n : f[i] \in Int
  PROVE  /\ SumFunctionOnSet(f, 0 .. n)
              = SumFunctionOnSet(f, 0 .. n - 1) + f[n]
         /\ SumFunctionOnSet(f, 0 .. n - 1) \in Int
<1>1. IsFiniteSet(0 .. n) /\ n \in 0 .. n /\ (0 .. n) \ {n} = 0 .. n - 1
  <2>1. IsFiniteSet(0 .. n)
    BY FS_Interval
  <2>2. n \in 0 .. n
    OBVIOUS
  <2>3. \A i : i \in (0 .. n) \ {n} <=> i \in 0 .. n - 1
    OBVIOUS
  <2> QED
    BY <2>1, <2>2, <2>3
<1>2. /\ SumFunctionOnSet(f, 0 .. n) = f[n] + SumFunctionOnSet(f, 0 .. n - 1)
      /\ SumFunctionOnSet(f, 0 .. n - 1) \in Int
  BY <1>1, SumStep
<1> QED
  BY <1>1, <1>2

(* What a function makes of the elements of a finite set is finite.        *)
Image(f, D) == {f[i] : i \in D}

LEMMA ImageFinite ==
  ASSUME NEW D, IsFiniteSet(D), NEW f
  PROVE  IsFiniteSet(Image(f, D))
<1> DEFINE g == [i \in D |-> f[i]]
           T == Image(f, D)
<1>1. g \in [D -> T] /\ \A t \in T : \E i \in D : g[i] = t
  BY DEF Image
<1> HIDE DEF g, T
<1>2. g \in Surjection(D, T)
  BY <1>1 DEF Surjection
<1> QED
  BY <1>2, FS_Surjection DEF T

(* It has as many elements if f tells those of D apart.                    *)
LEMMA ImageSize ==
  ASSUME NEW D, IsFiniteSet(D), NEW f, \A i, j \in D : f[i] = f[j] => i = j
  PROVE  IsFiniteSet(Image(f, D)) /\ Cardinality(Image(f, D)) = Cardinality(D)
<1> DEFINE g == [i \in D |-> f[i]]
           T == Image(f, D)
<1>1. g \in [D -> T] /\ \A t \in T : \E i \in D : g[i] = t
  BY DEF Image
<1>2. \A i, j \in D : g[i] = g[j] => i = j
  OBVIOUS
<1>3. DOMAIN g = D
  OBVIOUS
<1> HIDE DEF g, T
<1>4. g \in Injection(D, T) /\ g \in Surjection(D, T)
  BY <1>1, <1>2, <1>3 DEF Injection, Surjection, IsInjective
<1>5. IsFiniteSet(T) /\ Cardinality(T) = Cardinality(D)
  BY <1>4, FS_Surjection
<1> QED
  BY <1>5 DEF T

(* A sum over D is one over its image.                                     *)
LEMMA SumImage ==
  ASSUME NEW D, IsFiniteSet(D), NEW f, NEW name, NEW s,
         \A i \in D : f[i] \in Int /\ f[i] = s[name[i]],
         \A i, j \in D : name[i] = name[j] => i = j
  PROVE  SumFunctionOnSet(f, D) = SumFunctionOnSet(s, Image(name, D))
<1> DEFINE F == {T \in SUBSET D :
                   SumFunctionOnSet(f, T) = SumFunctionOnSet(s, Image(name, T))}
<1>1. ASSUME NEW T \in SUBSET D, \A x \in T : T \ {x} \in F PROVE T \in F
  <2>0. IsFiniteSet(T)
    BY FS_Subset
  <2>1. CASE T = {}
    <3>1. Image(name, {}) = {}
      BY DEF Image
    <3> QED
      BY <2>1, <3>1, SumEmpty
  <2>2. CASE T # {}
    <3>1. PICK x \in T : TRUE
      BY <2>2
    <3>2. SumFunctionOnSet(f, T) = f[x] + SumFunctionOnSet(f, T \ {x})
      BY <2>0, SumStep
    <3>3. IsFiniteSet(Image(name, T))
      BY <2>0, ImageSize
    <3>4. name[x] \in Image(name, T) /\ \A y \in Image(name, T) : s[y] \in Int
      BY DEF Image
    <3>5. SumFunctionOnSet(s, Image(name, T))
            = s[name[x]] + SumFunctionOnSet(s, Image(name, T) \ {name[x]})
      BY <3>3, <3>4, SumStep
    <3>6. Image(name, T) \ {name[x]} = Image(name, T \ {x})
      BY DEF Image
    <3>7. SumFunctionOnSet(f, T \ {x}) = SumFunctionOnSet(s, Image(name, T \ {x}))
      BY <1>1, <3>1
    <3>8. SumFunctionOnSet(f, T) = SumFunctionOnSet(s, Image(name, T))
      BY <3>2, <3>5, <3>6, <3>7
    <3> QED
      BY <3>8
  <2> QED
    BY <2>1, <2>2
<1>2. SUBSET D \subseteq F
  <2> HIDE DEF F
  <2> QED
    BY <1>1, SubsetInduction
<1> QED
  BY <1>2

(* Where a function is 0 it adds nothing.                                  *)
LEMMA SumSupport ==
  ASSUME NEW S, IsFiniteSet(S), NEW R \in SUBSET S, NEW f,
         \A x \in S : f[x] \in Int, \A x \in S \ R : f[x] = 0
  PROVE  SumFunctionOnSet(f, S) = SumFunctionOnSet(f, R)
<1> DEFINE F == {T \in SUBSET S :
                   SumFunctionOnSet(f, T) = SumFunctionOnSet(f, T \cap R)}
<1>1. ASSUME NEW T \in SUBSET S, \A x \in T : T \ {x} \in F PROVE T \in F
  <2>0. IsFiniteSet(T) /\ IsFiniteSet(T \cap R)
    BY FS_Subset
  <2>1. CASE T \subseteq R
    <3>1. T \cap R = T
      BY <2>1
    <3> QED
      BY <3>1
  <2>2. CASE ~(T \subseteq R)
    <3>1. PICK x \in T : x \notin R
      BY <2>2
    <3>2. /\ SumFunctionOnSet(f, T) = f[x] + SumFunctionOnSet(f, T \ {x})
          /\ SumFunctionOnSet(f, T \ {x}) \in Int
      BY <2>0, SumStep
    <3>3. f[x] = 0 /\ (T \ {x}) \cap R = T \cap R
      BY <3>1
    <3>4. SumFunctionOnSet(f, T \ {x}) = SumFunctionOnSet(f, (T \ {x}) \cap R)
      BY <1>1, <3>1
    <3>5. SumFunctionOnSet(f, T) = SumFunctionOnSet(f, T \cap R)
      <4>1. PICK n \in Int : n = SumFunctionOnSet(f, T \ {x})
        BY <3>2
      <4>2. SumFunctionOnSet(f, T) = 0 + n
        BY <3>2, <3>3, <4>1
      <4>3. SumFunctionOnSet(f, T) = n
        BY <4>2
      <4>4. n = SumFunctionOnSet(f, T \cap R)
        BY <3>3, <3>4, <4>1, Zenon
      <4> QED
        BY <4>3, <4>4
    <3> QED
      BY <3>5
  <2> QED
    BY <2>1, <2>2
<1>2. SUBSET S \subseteq F
  <2> HIDE DEF F
  <2> QED
    BY <1>1, SubsetInduction
<1>3. S \cap R = R
  OBVIOUS
<1> QED
  BY <1>2, <1>3

-----------------------------------------------------------------------------
(* Counters that wrap at m.                                                *)
LEMMA ModRange ==
  ASSUME NEW m \in Nat \ {0}, NEW a \in Int
  PROVE  a % m \in 0 .. m - 1
OBVIOUS

(* The quotient and the remainder of a division.                           *)
LEMMA ModDiv ==
  \A a \in Int, m \in Nat \ {0} :
    a = m * (a \div m) + (a % m) /\ a \div m \in Int
OBVIOUS

(* They are unique.                                                        *)
LEMMA ModUnique ==
  ASSUME NEW m \in Nat \ {0}, NEW q \in Int, NEW r \in 0 .. m - 1
  PROVE  (m * q + r) % m = r
OBVIOUS

(* A value that fits is not changed.                                       *)
LEMMA ModSmall ==
  ASSUME NEW m \in Nat \ {0}, NEW a \in 0 .. m - 1
  PROVE  a % m = a
OBVIOUS

(* It makes no difference whether a summand has wrapped before.            *)
LEMMA ModPlus ==
  ASSUME NEW m \in Nat \ {0}, NEW a \in Int, NEW b \in Int
  PROVE  ((a % m) + b) % m = (a + b) % m
<1>1. PICK q \in Int : q = a \div m /\ a = m * q + (a % m)
  BY ModDiv
<1>2. PICK p \in Int : /\ p = (a + b) \div m
                       /\ a + b = m * p + ((a + b) % m)
  BY ModDiv
<1>3. PICK r \in Int : r = a % m
  OBVIOUS
<1>4. PICK s \in 0 .. m - 1 : s = (a + b) % m
  OBVIOUS
<1>5. r + b = m * (p - q) + s
  BY <1>1, <1>2, <1>3, <1>4
<1>6. (m * (p - q) + s) % m = s
  <2> DEFINE d == p - q
  <2>1. d \in Int
    OBVIOUS
  <2> HIDE DEF d
  <2>2. (m * d + s) % m = s
    BY <2>1, ModUnique
  <2> QED
    BY <2>2 DEF d
<1> QED
  BY <1>3, <1>4, <1>5, <1>6

(* Congruent values stay so when the same is added to both.                *)
LEMMA ModSame ==
  ASSUME NEW m \in Nat \ {0}, NEW a \in Int, NEW b \in Int, NEW c \in Int,
         a % m = b % m
  PROVE  (a + c) % m = (b + c) % m
<1>1. ((a % m) + c) % m = (a + c) % m /\ ((b % m) + c) % m = (b + c) % m
  BY ModPlus
<1> QED
  BY <1>1

-----------------------------------------------------------------------------
(* Sequences.                                                              *)

(* The parts of a queue, concatenated, are a queue.                        *)
LEMMA FourParts ==
  ASSUME NEW S, NEW a \in Seq(S), NEW b \in Seq(S), NEW c \in Seq(S),
         NEW d \in Seq(S)
  PROVE  /\ a \o b \in Seq(S)
         /\ a \o b \o c \in Seq(S)
         /\ a \o b \o c \o d \in Seq(S)
<1>1. a \o b \in Seq(S)
  BY ConcatProperties
<1>2. a \o b \o c \in Seq(S)
  BY <1>1, ConcatProperties
<1>3. a \o b \o c \o d \in Seq(S)
  BY <1>2, ConcatProperties
<1> QED
  BY <1>1, <1>2, <1>3

(* The head and the tail of a concatenation are those of its first part.   *)
LEMMA HeadTailConcat ==
  ASSUME NEW S, NEW a \in Seq(S), a # <<>>, NEW b \in Seq(S)
  PROVE  /\ a \o b # <<>>
         /\ Head(a \o b) = Head(a)
         /\ Tail(a \o b) = Tail(a) \o b
<1>1. /\ Len(a) \in Nat /\ Len(b) \in Nat /\ Len(a) # 0
      /\ a \o b \in Seq(S) /\ Len(a \o b) = Len(a) + Len(b)
  BY ConcatProperties, LenProperties, EmptySeq
<1>2. a \o b # <<>>
  BY <1>1, EmptySeq
<1>3. /\ Tail(a) \in Seq(S) /\ Len(Tail(a)) = Len(a) - 1
      /\ \A j \in 1 .. Len(Tail(a)) : Tail(a)[j] = a[j + 1]
  BY HeadTailProperties
<1>4. /\ Tail(a \o b) \in Seq(S) /\ Len(Tail(a \o b)) = Len(a) + Len(b) - 1
      /\ \A j \in 1 .. Len(Tail(a \o b)) : Tail(a \o b)[j] = (a \o b)[j + 1]
  BY <1>1, <1>2, HeadTailProperties
<1>5. /\ Tail(a) \o b \in Seq(S)
      /\ Len(Tail(a) \o b) = Len(a) - 1 + Len(b)
  BY <1>1, <1>3, ConcatProperties
<1>6. ASSUME NEW j \in 1 .. Len(a) + Len(b) - 1
      PROVE  Tail(a \o b)[j] = (Tail(a) \o b)[j]
  <2>1. Tail(a \o b)[j] = (a \o b)[j + 1] /\ j + 1 \in 1 .. Len(a) + Len(b)
    BY <1>1, <1>4
  <2>2. (a \o b)[j + 1] = IF j + 1 <= Len(a) THEN a[j + 1] ELSE b[j + 1 - Len(a)]
    BY <1>1, <2>1, ConcatProperties
  <2>3. (Tail(a) \o b)[j] = IF j <= Len(a) - 1 THEN Tail(a)[j]
                                             ELSE b[j - (Len(a) - 1)]
    BY <1>1, <1>3, ConcatProperties
  <2>4. CASE j <= Len(a) - 1
    BY <1>1, <1>3, <2>1, <2>2, <2>3, <2>4
  <2>5. CASE ~(j <= Len(a) - 1)
    <3>1. j + 1 - Len(a) = j - (Len(a) - 1) /\ ~(j + 1 <= Len(a))
      BY <1>1, <2>5
    <3> QED
      BY <2>1, <2>2, <2>3, <2>5, <3>1
  <2> QED
    BY <2>4, <2>5
<1>7. Tail(a \o b) = Tail(a) \o b
  <2>1. Len(Tail(a \o b)) = Len(Tail(a) \o b)
    BY <1>1, <1>4, <1>5
  <2> QED
    BY <1>1, <1>4, <1>5, <1>6, <2>1, SeqEqual
<1>8. Head(a \o b) = Head(a)
  <2>1. 1 \in 1 .. Len(a) + Len(b) /\ 1 <= Len(a)
    BY <1>1
  <2>2. (a \o b)[1] = a[1]
    BY <2>1, ConcatProperties
  <2> QED
    BY <2>2
<1> QED
  BY <1>2, <1>7, <1>8

(* A queue in four parts.                                                  *)
FourOf(a, b, c, d) == a \o b \o c \o d

(* A queue in four parts: moving elements from one part to the next does   *)
(* not change it, a new element goes to the end of the last part, and the  *)
(* next one is taken from the first.                                       *)
LEMMA MoveToThird ==
  ASSUME NEW S, NEW a \in Seq(S), NEW b \in Seq(S), NEW u \in Seq(S),
         NEW v \in Seq(S)
  PROVE  FourOf(a, b, u, v) = FourOf(a, b, <<>>, u \o v)
<1>1. a \o b \in Seq(S)
  BY ConcatProperties
<1>2. (a \o b) \o u \o v = (a \o b) \o (u \o v)
  BY <1>1, ConcatAssociative, SMTT(60)
<1>3. a \o b \o <<>> = a \o b
  BY <1>1, ConcatEmptySeq
<1> QED
  BY <1>2, <1>3 DEF FourOf

(* From the third part to the second.                                      *)
LEMMA MoveToSecond ==
  ASSUME NEW S, NEW a \in Seq(S), NEW b \in Seq(S), NEW c \in Seq(S),
         NEW d \in Seq(S)
  PROVE  FourOf(a, b \o c, <<>>, d) = FourOf(a, b, c, d)
<1>0. a \o b \o c = a \o (b \o c)
  BY ConcatAssociative, SMTT(60)
<1>1. b \o c \in Seq(S)
  BY ConcatProperties
<1>2. a \o (b \o c) \in Seq(S)
  BY <1>1, ConcatProperties
<1>3. a \o (b \o c) \o <<>> = a \o (b \o c)
  BY <1>2, ConcatEmptySeq
<1> QED
  BY <1>0, <1>3 DEF FourOf

(* From the second part to the first.                                      *)
LEMMA MoveToFirst ==
  ASSUME NEW S, NEW u \in Seq(S), NEW v \in Seq(S), NEW c, NEW d
  PROVE  FourOf(u, v, c, d) = FourOf(<<>>, u \o v, c, d)
<1>1. <<>> \o (u \o v) = u \o v
  BY ConcatProperties, ConcatEmptySeq
<1> QED
  BY <1>1 DEF FourOf

(* A new element at the end of the last part is one at the end of all.     *)
LEMMA AddToLast ==
  ASSUME NEW S, NEW a \in Seq(S), NEW b \in Seq(S), NEW c \in Seq(S),
         NEW d \in Seq(S), NEW e \in S
  PROVE  FourOf(a, b, c, Append(d, e)) = Append(FourOf(a, b, c, d), e)
<1> DEFINE abc == a \o b \o c
<1>1. abc \in Seq(S) /\ abc \o d \in Seq(S) /\ <<e>> \in Seq(S)
  BY FourParts, AppendProperties
<1> HIDE DEF abc
<1>2. Append(d, e) = d \o <<e>> /\ Append(abc \o d, e) = abc \o d \o <<e>>
  BY <1>1, AppendIsConcat
<1>3. abc \o (d \o <<e>>) = abc \o d \o <<e>>
  BY <1>1, ConcatAssociative, SMTT(60)
<1>4. abc \o Append(d, e) = Append(abc \o d, e)
  BY <1>2, <1>3
<1> QED
  BY <1>4 DEF abc, FourOf

(* The first element of the first part is the first of all.                *)
LEMMA TakeFromFirst ==
  ASSUME NEW S, NEW a \in Seq(S), a # <<>>, NEW b \in Seq(S),
         NEW c \in Seq(S), NEW d \in Seq(S)
  PROVE  /\ FourOf(a, b, c, d) # <<>>
         /\ Head(FourOf(a, b, c, d)) = Head(a)
         /\ Tail(FourOf(a, b, c, d)) = FourOf(Tail(a), b, c, d)
<1>1. /\ a \o b \in Seq(S) /\ a \o b # <<>>
      /\ Head(a \o b) = Head(a) /\ Tail(a \o b) = Tail(a) \o b
  BY HeadTailConcat, ConcatProperties
<1>2. /\ a \o b \o c \in Seq(S) /\ a \o b \o c # <<>>
      /\ Head(a \o b \o c) = Head(a \o b)
      /\ Tail(a \o b \o c) = Tail(a \o b) \o c
  BY <1>1, HeadTailConcat, ConcatProperties
<1>3. /\ a \o b \o c \o d # <<>>
      /\ Head(a \o b \o c \o d) = Head(a \o b \o c)
      /\ Tail(a \o b \o c \o d) = Tail(a \o b \o c) \o d
  BY <1>2, HeadTailConcat
<1> QED
  BY <1>1, <1>2, <1>3 DEF FourOf

-----------------------------------------------------------------------------
(* The queues of a scheduler: nobody is in a queue twice.                  *)
Once(s) == \A i, j \in 1 .. Len(s) : s[i] = s[j] => i = j

Absent(x, s) == \A i \in 1 .. Len(s) : s[i] # x

(* Who joins a queue goes behind the others.                               *)
LEMMA JoinQueue ==
  ASSUME NEW S, NEW s \in Seq(S), NEW x \in S
  PROVE  /\ Append(s, x) \in Seq(S) /\ Append(s, x) # <<>>
         /\ s # <<>> => Head(Append(s, x)) = Head(s)
         /\ s = <<>> => Head(Append(s, x)) = x
         /\ Once(s) /\ Absent(x, s) => Once(Append(s, x))
         /\ \A y : y # x /\ Absent(y, s) => Absent(y, Append(s, x))
<1>1. /\ Len(s) \in Nat
      /\ Append(s, x) \in Seq(S) /\ Append(s, x) # <<>>
      /\ Len(Append(s, x)) = Len(s) + 1
      /\ \A i \in 1 .. Len(s) : Append(s, x)[i] = s[i]
      /\ Append(s, x)[Len(s) + 1] = x
  BY LenProperties, AppendProperties
<1>2. /\ s # <<>> => Head(Append(s, x)) = Head(s)
      /\ s = <<>> => Head(Append(s, x)) = x
  <2>1. CASE s # <<>>
    <3>1. 1 \in 1 .. Len(s)
      BY <1>1, <2>1, EmptySeq
    <3> QED
      BY <1>1, <2>1, <3>1
  <2>2. CASE s = <<>>
    BY <2>2
  <2> QED
    BY <2>1, <2>2
<1>3. \A i \in 1 .. Len(Append(s, x)) : i \in 1 .. Len(s) \/ i = Len(s) + 1
  BY <1>1
<1>4. Once(s) /\ Absent(x, s) => Once(Append(s, x))
  BY <1>1, <1>3 DEF Once, Absent
<1>5. \A y : y # x /\ Absent(y, s) => Absent(y, Append(s, x))
  BY <1>1, <1>3 DEF Absent
<1> QED
  BY <1>1, <1>2, <1>4, <1>5

(* A sequence has one length.                                              *)
LEMMA SameLength ==
  ASSUME NEW a \in Nat, NEW b \in Nat, 1 .. a = 1 .. b
  PROVE  a = b
<1>1. CASE a < b
  <2>1. b \in 1 .. b /\ b \notin 1 .. a
    BY <1>1
  <2> QED
    BY <2>1
<1>2. CASE b < a
  <2>1. a \in 1 .. a /\ a \notin 1 .. b
    BY <1>2
  <2> QED
    BY <2>1
<1> QED
  BY <1>1, <1>2

(* Several join it.                                                        *)
LEMMA JoinMany ==
  ASSUME NEW S, NEW s \in Seq(S), NEW t \in Seq(S), Once(s), Once(t),
         \A i \in 1 .. Len(t) : Absent(t[i], s)
  PROVE  /\ s \o t \in Seq(S) /\ Once(s \o t)
         /\ \A y : Absent(y, s) /\ Absent(y, t) => Absent(y, s \o t)
<1>1. /\ Len(s) \in Nat /\ Len(t) \in Nat
      /\ s \o t \in Seq(S) /\ Len(s \o t) = Len(s) + Len(t)
      /\ \A i \in 1 .. Len(s) + Len(t) :
           (s \o t)[i] = IF i <= Len(s) THEN s[i] ELSE t[i - Len(s)]
  BY LenProperties, ConcatProperties
<1> DEFINE n == Len(s) m == Len(t) c == s \o t
<1>2. \A i \in 1 .. n + m : /\ i <= n => i \in 1 .. n /\ c[i] = s[i]
                            /\ ~(i <= n) => i - n \in 1 .. m /\ c[i] = t[i - n]
  BY <1>1
<1>3. Once(c)
  <2> SUFFICES ASSUME NEW i \in 1 .. n + m, NEW j \in 1 .. n + m, c[i] = c[j]
               PROVE  i = j
    BY <1>1 DEF Once
  <2> HIDE DEF c, n, m
  <2>0. n \in Nat /\ m \in Nat
    BY <1>1 DEF n, m
  <2>1. CASE i <= n /\ j <= n
    BY <1>2, <2>1 DEF Once, n
  <2>2. CASE ~(i <= n) /\ ~(j <= n)
    <3>1. i - n = j - n
      BY <1>2, <2>2 DEF Once, m
    <3> QED
      BY <2>0, <3>1
  <2>3. CASE i <= n /\ ~(j <= n)
    BY <1>2, <2>3 DEF Absent, n, m
  <2>4. CASE ~(i <= n) /\ j <= n
    BY <1>2, <2>4 DEF Absent, n, m
  <2> QED
    BY <2>1, <2>2, <2>3, <2>4
<1>4. ASSUME NEW y, Absent(y, s), Absent(y, t) PROVE Absent(y, c)
  BY <1>1, <1>2, <1>4 DEF Absent
<1> QED
  BY <1>1, <1>3, <1>4

(* Who leaves it is no more in it.                                         *)
LEMMA LeaveQueue ==
  ASSUME NEW S, NEW s \in Seq(S), s # <<>>
  PROVE  /\ Tail(s) \in Seq(S) /\ Head(s) \in S
         /\ Once(s) => Once(Tail(s)) /\ Absent(Head(s), Tail(s))
         /\ \A y : Absent(y, s) => y # Head(s) /\ Absent(y, Tail(s))
<1>1. /\ Tail(s) \in Seq(S) /\ Head(s) \in S /\ Len(s) \in Nat
      /\ Len(Tail(s)) = Len(s) - 1 /\ Len(s) # 0 /\ Head(s) = s[1]
      /\ \A i \in 1 .. Len(Tail(s)) : Tail(s)[i] = s[i + 1]
  BY HeadTailProperties, LenProperties, EmptySeq
<1>2. 1 \in 1 .. Len(s) /\ \A i \in 1 .. Len(Tail(s)) : i + 1 \in 1 .. Len(s)
  BY <1>1
<1>3. ASSUME Once(s) PROVE Once(Tail(s)) /\ Absent(Head(s), Tail(s))
  <2>1. \A i \in 1 .. Len(Tail(s)) : i + 1 # 1
    BY <1>1
  <2>2. Absent(Head(s), Tail(s))
    BY <1>1, <1>2, <1>3, <2>1 DEF Once, Absent
  <2>3. ASSUME NEW i \in 1 .. Len(Tail(s)), NEW j \in 1 .. Len(Tail(s)),
               Tail(s)[i] = Tail(s)[j]
        PROVE  i = j
    <3>1. i + 1 = j + 1
      BY <1>1, <1>2, <1>3, <2>3 DEF Once
    <3> QED
      BY <1>1, <3>1
  <2> QED
    BY <2>2, <2>3 DEF Once
<1>4. \A y : Absent(y, s) => y # Head(s) /\ Absent(y, Tail(s))
  BY <1>1, <1>2 DEF Absent
<1> QED
  BY <1>1, <1>3, <1>4

(* Who yields goes from the front of the queue to its end.                 *)
LEMMA YieldQueue ==
  ASSUME NEW S, NEW s \in Seq(S), s # <<>>
  PROVE  /\ Append(Tail(s), Head(s)) \in Seq(S)
         /\ Once(s) => Once(Append(Tail(s), Head(s)))
         /\ \A y : Absent(y, s) => Absent(y, Append(Tail(s), Head(s)))
<1> DEFINE r == Tail(s) x == Head(s)
<1>1. /\ r \in Seq(S) /\ x \in S
      /\ Once(s) => Once(r) /\ Absent(x, r)
      /\ \A y : Absent(y, s) => y # x /\ Absent(y, r)
  BY LeaveQueue
<1> HIDE DEF r, x
<1>2. /\ Append(r, x) \in Seq(S)
      /\ Once(r) /\ Absent(x, r) => Once(Append(r, x))
      /\ \A y : y # x /\ Absent(y, r) => Absent(y, Append(r, x))
  BY <1>1, JoinQueue
<1>3. /\ Append(r, x) \in Seq(S)
      /\ Once(s) => Once(Append(r, x))
      /\ \A y : Absent(y, s) => Absent(y, Append(r, x))
  BY <1>1, <1>2
<1> QED
  BY <1>3 DEF r, x

-----------------------------------------------------------------------------
(* ThreadTables: a recursive function has the value that its equation says *)
(* because there is a function that fits it.                               *)

(* found is the recursion of Indices over the first n entries.              *)
IsFound(f, params, t, n) ==
  f = [i \in 0 .. n |->
         IF i = 0 THEN <<>>
         ELSE IF params[i].thread = t THEN Append(f[i - 1], i)
         ELSE f[i - 1]]

(* Indices is defined by choosing such a function.                          *)
LEMMA IndicesDef ==
  ASSUME NEW params, NEW t
  PROVE  Indices(params, t)
           = (CHOOSE f : IsFound(f, params, t, Len(params)))[Len(params)]
BY Zenon DEF Indices, IsFound

(* There is one: the loop goes over the list entry by entry.               *)
LEMMA FoundExists ==
  ASSUME NEW params, NEW t, Len(params) \in Nat
  PROVE  \E f : IsFound(f, params, t, Len(params))
<1> DEFINE T == {n \in Nat : \E f : IsFound(f, params, t, n)}
<1>1. 0 \in T
  <2> DEFINE f == [i \in 0 .. 0 |-> <<>>]
  <2>1. IsFound(f, params, t, 0)
    BY DEF IsFound
  <2> QED
    BY <2>1
<1>2. ASSUME NEW n \in T PROVE n + 1 \in T
  <2>1. PICK f : IsFound(f, params, t, n)
    OBVIOUS
  <2> DEFINE val(i) == IF i = 0 THEN <<>>
                       ELSE IF params[i].thread = t THEN Append(f[i - 1], i)
                       ELSE f[i - 1]
             g == [i \in 0 .. n + 1 |-> val(i)]
  <2>2. \A i \in 0 .. n : f[i] = val(i)
    BY <2>1 DEF IsFound
  <2>3. \A i \in 0 .. n : g[i] = f[i]
    BY <2>2
  <2>4. \A i \in 0 .. n + 1 : i # 0 => i - 1 \in 0 .. n
    OBVIOUS
  <2>5. IsFound(g, params, t, n + 1)
    BY <2>3, <2>4 DEF IsFound
  <2> QED
    BY <2>5
<1>3. T = Nat
  <2> HIDE DEF T
  <2>1. T \in SUBSET Nat
    BY DEF T
  <2> QED
    BY <1>1, <1>2, <2>1, SetInduction
<1> QED
  BY <1>3

(* The entries of the list that name the thread.                           *)
Naming(params, t) == {i \in 1 .. Len(params) : params[i].thread = t}

(* They are at the indices, and nothing else is.                           *)
LEMMA IndicesType ==
  ASSUME NEW params, NEW t, Len(params) \in Nat
  PROVE  /\ Indices(params, t) \in Seq(Naming(params, t))
         /\ \A i \in Naming(params, t) : \E k \in DOMAIN Indices(params, t) :
                                          Indices(params, t)[k] = i
<1> DEFINE N == Len(params)
           R == {i \in 1 .. N : params[i].thread = t}
           In(s, n) == s \in Seq(R)
           Full(s, n) == \A i \in R : i <= n => \E k \in DOMAIN s : s[k] = i
<1>1. PICK f : IsFound(f, params, t, N) /\ Indices(params, t) = f[N]
  BY IndicesDef, FoundExists
<1> DEFINE T == {n \in Nat : n <= N => In(f[n], n) /\ Full(f[n], n)}
<1>2. 0 \in T
  <2>1. f[0] = <<>>
    BY <1>1 DEF IsFound
  <2>2. <<>> \in Seq(R)
    BY EmptySeq
  <2>3. Full(f[0], 0)
    OBVIOUS
  <2> QED
    BY <2>1, <2>2, <2>3
<1>3. ASSUME NEW n \in T PROVE n + 1 \in T
  <2>1. SUFFICES ASSUME n + 1 <= N PROVE In(f[n + 1], n + 1) /\ Full(f[n + 1], n + 1)
    OBVIOUS
  <2>2. n \in Nat /\ f[n] \in Seq(R) /\ Full(f[n], n) /\ n + 1 \in 1 .. N
    BY <2>1
  <2>3. f[n + 1] = IF params[n + 1].thread = t THEN Append(f[n], n + 1) ELSE f[n]
    <3>1. n + 1 \in 0 .. N /\ n + 1 # 0 /\ (n + 1) - 1 = n
      BY <2>1, <2>2
    <3> QED
      BY <1>1, <3>1 DEF IsFound
  <2>4. CASE params[n + 1].thread = t
    <3>1. n + 1 \in R
      BY <2>2, <2>4
    <3>2. R \subseteq Nat
      OBVIOUS
    <3>3. PICK s \in Seq(R) : s = f[n]
      BY <2>2
    <3>4. PICK m \in R : m = n + 1
      BY <3>1
    <3> HIDE DEF R
    <3>5. /\ Append(s, m) \in Seq(R) /\ Len(s) \in Nat
          /\ DOMAIN s = 1 .. Len(s) /\ DOMAIN Append(s, m) = 1 .. Len(s) + 1
          /\ Append(s, m)[Len(s) + 1] = m
          /\ \A k \in 1 .. Len(s) : Append(s, m)[k] = s[k]
      BY AppendProperties, LenProperties
    <3>6. f[n + 1] = Append(s, m)
      BY <2>3, <2>4, <3>3, <3>4
    <3>7. Full(Append(s, m), m)
      <4> SUFFICES ASSUME NEW i \in R, i <= m
                   PROVE  \E k \in DOMAIN Append(s, m) : Append(s, m)[k] = i
        OBVIOUS
      <4>1. CASE i = m
        BY <3>5, <4>1
      <4>2. CASE i # m
        <5>1. i <= n
          BY <2>2, <3>2, <3>4, <4>2
        <5>2. PICK k \in 1 .. Len(s) : s[k] = i
          BY <2>2, <3>3, <3>5, <5>1
        <5> QED
          BY <3>5, <5>2
      <4> QED
        BY <4>1, <4>2
    <3> QED
      BY <3>4, <3>5, <3>6, <3>7
  <2>5. CASE params[n + 1].thread # t
    <3>1. f[n + 1] = f[n]
      BY <2>3, <2>5
    <3>2. \A i \in R : i <= n + 1 => i <= n
      BY <2>2, <2>5
    <3> HIDE DEF R
    <3> QED
      BY <2>2, <3>1, <3>2
  <2> QED
    BY <2>4, <2>5
<1>4. T = Nat
  <2> HIDE DEF T
  <2>1. T \in SUBSET Nat
    BY DEF T
  <2> QED
    BY <1>2, <1>3, <2>1, SetInduction
<1>5. In(f[N], N) /\ Full(f[N], N)
  <2> HIDE DEF In, Full
  <2> N \in T /\ N <= N
    BY <1>4
  <2> QED
    OBVIOUS
<1>6. \A i \in R : i <= N
  OBVIOUS
<1> QED
  BY <1>1, <1>5, <1>6 DEF Naming

(* The parameters of a thread are the entries of the list that name it.    *)
LEMMA OfThreadIs ==
  ASSUME NEW S, NEW params \in Seq(S), NEW t
  PROVE  LET own == OfThread(params, t) IN
         /\ own \in Seq(S)
         /\ \A k \in DOMAIN own : \E i \in DOMAIN params :
              params[i].thread = t /\ own[k] = params[i]
         /\ \A i \in DOMAIN params : params[i].thread = t =>
              \E k \in DOMAIN own : own[k] = params[i]
<1> DEFINE own == OfThread(params, t)
           R == Naming(params, t)
<1>1. Len(params) \in Nat /\ DOMAIN params = 1 .. Len(params)
      /\ \A i \in 1 .. Len(params) : params[i] \in S
  BY LenProperties, ElementOfSeq
<1>2. PICK s : s = Indices(params, t)
  OBVIOUS
<1>3. s \in Seq(R) /\ \A i \in R : \E k \in DOMAIN s : s[k] = i
  BY <1>1, <1>2, IndicesType
<1>4. /\ DOMAIN s = 1 .. Len(s) /\ Len(s) \in Nat
      /\ \A k \in 1 .. Len(s) : s[k] \in R
  BY <1>3, LenProperties, ElementOfSeq
<1>5. own = [k \in 1 .. Len(s) |-> params[s[k]]]
  BY <1>2, <1>4 DEF OfThread
<1>6. own \in [1 .. Len(s) -> S]
  BY <1>1, <1>4, <1>5 DEF Naming
<1>7. own \in Seq(S)
  BY <1>4, <1>6, SeqDef
<1> HIDE DEF own
<1>8. \A k \in DOMAIN own : s[k] \in DOMAIN params /\ own[k] = params[s[k]]
                           /\ params[s[k]].thread = t
  BY <1>1, <1>4, <1>5 DEF Naming
<1>9. \A i \in DOMAIN params : params[i].thread = t =>
        \E k \in DOMAIN own : own[k] = params[i]
  BY <1>1, <1>3, <1>4, <1>5 DEF Naming
<1> QED
  BY <1>7, <1>8, <1>9 DEF own

(* The number of rx threads is that of the greatest id, plus one.          *)
LEMMA NThreadsType ==
  ASSUME NEW rx \in Seq(Params)
  PROVE  /\ NThreads(rx) \in Nat
         /\ \A i \in DOMAIN rx : rx[i].thread \in 0 .. NThreads(rx) - 1
         /\ NThreads(rx) # 0 =>
              \E i \in DOMAIN rx : rx[i].thread = NThreads(rx) - 1
<1> DEFINE I == {rx[i].thread + 1 : i \in DOMAIN rx}
           S == {0} \cup I
<1>1. DOMAIN rx = 1 .. Len(rx) /\ Len(rx) \in Nat /\ \A i \in DOMAIN rx : rx[i] \in Params
  BY LenProperties, ElementOfSeq
<1>2. S \subseteq Nat /\ S # {}
  BY <1>1 DEF Params
<1>3. IsFiniteSet(S)
  <2>1. IsFiniteSet(1 .. Len(rx))
    BY <1>1, FS_Interval
  <2> DEFINE f == [i \in DOMAIN rx |-> rx[i].thread + 1]
  <2>2. IsFiniteSet(I)
    <3>1. Image(f, DOMAIN rx) = I
      BY DEF Image
    <3>2. IsFiniteSet(Image(f, DOMAIN rx))
      BY <1>1, <2>1, ImageFinite
    <3> QED
      BY <3>1, <3>2
  <2>3. IsFiniteSet({0})
    BY FS_Singleton
  <2> QED
    BY <1>1, <2>2, <2>3, FS_Union
<1>4. \E x \in S : \A y \in S : x >= y
  <2> HIDE DEF S
  <2>1. S \in SUBSET Int
    BY <1>2
  <2> QED
    BY <1>2, <1>3, <2>1, GreatestNumber
<1>5. Max(S) \in S /\ \A y \in S : Max(S) >= y
  BY <1>4 DEF Max
<1>6. PICK n \in Nat : n = NThreads(rx)
  BY <1>2, <1>5 DEF NThreads
<1>7. n \in S /\ \A y \in S : n >= y
  BY <1>5, <1>6 DEF NThreads
<1>8. ASSUME NEW i \in DOMAIN rx PROVE rx[i].thread \in 0 .. n - 1
  <2>1. PICK m \in Nat : m = rx[i].thread
    BY <1>1 DEF Params
  <2>2. m + 1 \in S
    BY <2>1
  <2>3. n >= m + 1
    BY <1>7, <2>2
  <2> QED
    BY <2>1, <2>3
<1>9. ASSUME n # 0 PROVE \E i \in DOMAIN rx : rx[i].thread = n - 1
  <2>1. PICK i \in DOMAIN rx : n = rx[i].thread + 1
    BY <1>7, <1>9
  <2>2. PICK m \in Nat : m = rx[i].thread
    BY <1>1 DEF Params
  <2> QED
    BY <2>1, <2>2
<1> QED
  BY <1>6, <1>8, <1>9

(* An rx thread has the queues of the parameters that name it, and the     *)
(* lcore of one of them; without any it is all zero.                       *)
IsThread(c, rx, t) ==
  /\ c.queues \in Seq(Nat \X Nat) /\ c.lcore \in Nat
  /\ \A k \in DOMAIN c.queues : \E i \in DOMAIN rx :
       rx[i].thread = t /\ c.queues[k] = <<rx[i].port, rx[i].queue>>
  /\ \A i \in DOMAIN rx : rx[i].thread = t =>
       \E k \in DOMAIN c.queues : c.queues[k] = <<rx[i].port, rx[i].queue>>
  /\ c.queues # <<>> =>
       \E i \in DOMAIN rx : rx[i].thread = t /\ c.lcore = rx[i].lcore
  /\ c.queues = <<>> => c.lcore = 0

(* What init_rx_queues makes of the parameters is such a thread.           *)
LEMMA RxThreadIs ==
  ASSUME NEW rx \in Seq(Params), NEW t
  PROVE  IsThread(RxThread(rx, t), rx, t)
<1> DEFINE c == RxThread(rx, t)
<1>1. DOMAIN rx = 1 .. Len(rx) /\ Len(rx) \in Nat /\ \A i \in DOMAIN rx : rx[i] \in Params
  BY LenProperties, ElementOfSeq
<1>2. PICK own \in Seq(Params) :
        /\ own = OfThread(rx, t)
        /\ \A k \in DOMAIN own : \E i \in DOMAIN rx :
             rx[i].thread = t /\ own[k] = rx[i]
        /\ \A i \in DOMAIN rx : rx[i].thread = t =>
             \E k \in DOMAIN own : own[k] = rx[i]
  BY OfThreadIs
<1>3. /\ DOMAIN own = 1 .. Len(own) /\ Len(own) \in Nat
      /\ \A k \in DOMAIN own : own[k] \in Params
  BY LenProperties, ElementOfSeq
<1>4. /\ c.queues = [k \in DOMAIN own |-> <<own[k].port, own[k].queue>>]
      /\ c.lcore = IF own = <<>> THEN 0 ELSE Last(own).lcore
  BY <1>2 DEF RxThread
<1> HIDE DEF c
<1>5. PICK qs : qs = c.queues
  OBVIOUS
<1>6. DOMAIN qs = DOMAIN own /\ \A k \in DOMAIN own : qs[k] = <<own[k].port, own[k].queue>>
  BY <1>4, <1>5
<1>7. qs \in Seq(Nat \X Nat)
  <2>1. qs \in [1 .. Len(own) -> Nat \X Nat]
    BY <1>3, <1>4, <1>5 DEF Params
  <2> QED
    BY <1>3, <2>1, SeqDef
<1>8. own = <<>> <=> qs = <<>>
  <2>1. DOMAIN qs = 1 .. Len(qs) /\ Len(qs) \in Nat
    BY <1>7, LenProperties
  <2>2. Len(qs) = Len(own)
    BY <1>3, <1>6, <2>1
  <2> QED
    BY <1>7, <2>2, EmptySeq
<1>9. ASSUME own # <<>>
      PROVE  \E i \in DOMAIN rx : rx[i].thread = t /\ c.lcore = rx[i].lcore
  <2>1. Len(own) # 0
    BY <1>9, EmptySeq
  <2>2. Len(own) \in DOMAIN own
    BY <1>3, <2>1
  <2>3. PICK i \in DOMAIN rx : rx[i].thread = t /\ own[Len(own)] = rx[i]
    BY <1>2, <2>2
  <2>4. Last(own) = rx[i]
    BY <2>3 DEF Last
  <2> QED
    BY <1>4, <1>9, <2>3, <2>4
<1>10. c.lcore \in Nat
  <2>1. CASE own = <<>>
    BY <1>4, <2>1
  <2>2. CASE own # <<>>
    <3>1. PICK i \in DOMAIN rx : c.lcore = rx[i].lcore
      BY <1>9, <2>2
    <3> QED
      BY <1>1, <3>1 DEF Params
  <2> QED
    BY <2>1, <2>2
<1>11. ASSUME NEW k \in DOMAIN qs
       PROVE  \E i \in DOMAIN rx :
                rx[i].thread = t /\ qs[k] = <<rx[i].port, rx[i].queue>>
  <2>1. PICK i \in DOMAIN rx : rx[i].thread = t /\ own[k] = rx[i]
    BY <1>2, <1>6
  <2>2. qs[k] = <<rx[i].port, rx[i].queue>>
    BY <1>6, <2>1
  <2> QED
    BY <2>1, <2>2
<1>12. \A i \in DOMAIN rx : rx[i].thread = t =>
              \E k \in DOMAIN qs : qs[k] = <<rx[i].port, rx[i].queue>>
  BY <1>2, <1>6
<1> QED
  BY <1>4, <1>5, <1>7, <1>8, <1>9, <1>10, <1>11, <1>12 DEF c, IsThread

(* The rings of an rx thread are the tx threads that name it.              *)
LEMMA RingsOfIs ==
  ASSUME NEW tx, Len(tx) \in Nat, NEW t
  PROVE  LET r == RingsOf(tx, t) IN
         /\ r \in Seq(0 .. Len(tx) - 1)
         /\ \A k \in DOMAIN r : r[k] + 1 \in 1 .. Len(tx) /\ tx[r[k] + 1].thread = t
         /\ \A i \in 1 .. Len(tx) : tx[i].thread = t => \E k \in DOMAIN r : r[k] = i - 1
<1> DEFINE r == RingsOf(tx, t)
<1>1. PICK s \in Seq(Naming(tx, t)) :
        /\ s = Indices(tx, t)
        /\ \A i \in Naming(tx, t) : \E k \in DOMAIN s : s[k] = i
  BY IndicesType
<1>2. /\ DOMAIN s = 1 .. Len(s) /\ Len(s) \in Nat
      /\ \A k \in DOMAIN s : s[k] \in Naming(tx, t)
  BY LenProperties, ElementOfSeq
<1>3. r = [k \in 1 .. Len(s) |-> s[k] - 1]
  BY <1>1, <1>2 DEF RingsOf
<1>4. \A k \in DOMAIN s : s[k] \in 1 .. Len(tx) /\ tx[s[k]].thread = t
  BY <1>2 DEF Naming
<1>5. r \in [1 .. Len(s) -> 0 .. Len(tx) - 1]
  BY <1>2, <1>3, <1>4
<1>6. r \in Seq(0 .. Len(tx) - 1)
  BY <1>2, <1>5, SeqDef
<1> HIDE DEF r
<1>7. ASSUME NEW k \in DOMAIN r
      PROVE  r[k] + 1 \in 1 .. Len(tx) /\ tx[r[k] + 1].thread = t
  <2>1. PICK j \in 1 .. Len(tx) : j = s[k] /\ tx[j].thread = t /\ r[k] = j - 1
    BY <1>2, <1>3, <1>4
  <2>2. r[k] + 1 = j
    BY <2>1
  <2> QED
    BY <2>1, <2>2
<1>8. ASSUME NEW i \in 1 .. Len(tx), tx[i].thread = t
      PROVE  \E k \in DOMAIN r : r[k] = i - 1
  <2>1. i \in Naming(tx, t)
    BY <1>8 DEF Naming
  <2>2. PICK k \in DOMAIN s : s[k] = i
    BY <1>1, <2>1
  <2> QED
    BY <1>2, <1>3, <2>2
<1> QED
  BY <1>6, <1>7, <1>8 DEF r
=============================================================================
