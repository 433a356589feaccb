---------------------------- MODULE DataInduction ----------------------------
(***************************************************************************)
(* Induction without operator parameters: what holds of 0 and of the       *)
(* successors is a set of naturals, and a counterexample can be taken the  *)
(* least.  From this the facts on recursive functions, on the extremes of  *)
(* finite sets and on sums (MapThenSumSet, FoldSeq) that the proofs about  *)
(* the models need.                                                        *)
(***************************************************************************)
EXTENDS Integers, Sequences, FiniteSetsExt, SequencesExt, TLAPS,
        WellFoundedInduction, FiniteSetTheorems

LEMMA LeastNatural ==
  ASSUME NEW T, T \subseteq Nat, T # {}
  PROVE  \E x \in T : \A y \in T : x <= y
<1>1. IsWellFoundedOn(OpToRel(<, Nat), Nat)
  BY NatLessThanWellFounded
<1>2. PICK x \in T : \A y \in T : ~(<<y, x>> \in OpToRel(<, Nat))
  BY ONLY <1>1, WFMin, T \subseteq Nat, T # {}
<1>3. \A y \in T : ~(y < x)
  BY <1>2 DEF OpToRel
<1> QED
  BY <1>3

LEMMA NaturalsByInduction ==
  ASSUME NEW P, P \subseteq Nat, 0 \in P, \A n \in P : n + 1 \in P
  PROVE  P = Nat
<1> SUFFICES ASSUME P # Nat PROVE FALSE
  OBVIOUS
<1>1. PICK x \in Nat \ P : \A y \in Nat \ P : x <= y
  BY LeastNatural
<1>2. x - 1 \in Nat /\ x - 1 \in P
  BY <1>1
<1> QED
  BY <1>1, <1>2

\* Among the subsets of a finite set that have a property one is minimal.
LEMMA MinimalSubset ==
  ASSUME NEW S, IsFiniteSet(S), NEW T, T \subseteq SUBSET S, T # {}
  PROVE  \E x \in T : \A y \in T : y \subseteq x => y = x
<1>1. IsWellFoundedOn(StrictSubsetOrdering(S), FiniteSubsetsOf(S))
  BY FS_StrictSubsetOrderingWellFounded
<1>2. T \subseteq FiniteSubsetsOf(S)
  BY FS_Subset DEF FiniteSubsetsOf
<1>3. PICK x \in T : \A y \in T : ~(<<y, x>> \in StrictSubsetOrdering(S))
  BY <1>1, <1>2, WFMin
<1> QED
  BY <1>3 DEF StrictSubsetOrdering

\* A function by recursion on 0..n: h gives the next value from the last one.
HasRecursion(V, v, n, h) ==
  \E f \in [0..n -> V] : f[0] = v /\ \A k \in 1..n : f[k] = h[<<k, f[k - 1]>>]

LEMMA RecursiveFunction ==
  ASSUME NEW V, NEW v \in V, NEW n \in Nat, NEW h \in [(1..n) \X V -> V]
  PROVE  HasRecursion(V, v, n, h)
<1> DEFINE Upto(m, f) == f[0] = v /\ \A k \in 1..m : f[k] = h[<<k, f[k - 1]>>]
           P == {m \in Nat : m <= n => \E f \in [0..m -> V] : Upto(m, f)}
<1>1. 0 \in P
  <2> DEFINE f == [k \in 0..0 |-> v]
  <2>1. f \in [0..0 -> V] /\ Upto(0, f)
    OBVIOUS
  <2> QED
    BY <2>1
<1>2. ASSUME NEW m \in P PROVE m + 1 \in P
  <2> SUFFICES ASSUME m + 1 <= n PROVE \E f \in [0..m + 1 -> V] : Upto(m + 1, f)
    OBVIOUS
  <2>1. PICK f \in [0..m -> V] : Upto(m, f)
    OBVIOUS
  <2> DEFINE g == [k \in 0..m + 1 |-> IF k <= m THEN f[k] ELSE h[<<m + 1, f[m]>>]]
  <2>2. m \in Nat /\ f[m] \in V /\ <<m + 1, f[m]>> \in (1..n) \X V
    <3>1. m \in Nat /\ m \in 0..m /\ m + 1 \in 1..n
      OBVIOUS
    <3> QED
      BY <3>1
  <2>3. g \in [0..m + 1 -> V]
    BY <2>2
  <2>4. \A k \in 0..m : g[k] = f[k]
    BY <2>2
  <2>5. g[m + 1] = h[<<m + 1, f[m]>>]
    BY <2>2
  <2>6. g[0] = v
    BY <2>1, <2>2, <2>4
  <2>7. ASSUME NEW k \in 1..m + 1 PROVE g[k] = h[<<k, g[k - 1]>>]
    <3>1. CASE k <= m
      <4>1. k \in 1..m /\ k \in 0..m /\ k - 1 \in 0..m
        BY <2>2, <2>7, <3>1
      <4> QED
        BY <4>1, <2>1, <2>4
    <3>2. CASE k > m
      <4>1. k = m + 1 /\ k - 1 = m /\ m \in 0..m
        BY <2>2, <2>7, <3>2
      <4> QED
        BY <4>1, <2>4, <2>5
    <3> QED
      BY <2>2, <3>1, <3>2
  <2> HIDE DEF g
  <2> QED
    BY <2>3, <2>6, <2>7
<1> HIDE DEF P
<1>3. P = Nat
  BY <1>1, <1>2, NaturalsByInduction DEF P
<1> QED
  BY <1>3 DEF P, HasRecursion

-----------------------------------------------------------------------------
LEMMA ImageIsFinite ==
  ASSUME NEW S, IsFiniteSet(S), NEW f
  PROVE  IsFiniteSet({f[x] : x \in S})
<1> DEFINE K == {f[x] : x \in S}
           g == [x \in S |-> f[x]]
<1>1. g \in [S -> K] /\ \A k \in K : \E x \in S : g[x] = k
  OBVIOUS
<1>2. g \in Surjection(S, K)
  BY <1>1 DEF Surjection
<1> HIDE DEF g, K
<1>3. IsFiniteSet(K)
  BY <1>2, FS_Surjection
<1> QED
  BY <1>3 DEF K

\* A finite set of numbers has a greatest, and Max and Min are of the set.
LEMMA HasGreatest ==
  ASSUME NEW S, IsFiniteSet(S), S \subseteq Int, S # {}
  PROVE  \E m \in S : \A x \in S : x <= m
<1> DEFINE Bounded(t) == \E m \in t : \A x \in t : x <= m
           T == {t \in SUBSET S : t # {} /\ ~Bounded(t)}
<1> SUFFICES ASSUME T # {} PROVE FALSE
  BY DEF T
<1>1. PICK t \in T : \A u \in T : u \subseteq t => u = t
  <2>1. T \subseteq SUBSET S
    OBVIOUS
  <2> HIDE DEF T
  <2> QED
    BY ONLY <2>1, T # {}, IsFiniteSet(S), MinimalSubset
<1>2. PICK e \in t : TRUE
  OBVIOUS
<1>3. t \ {e} # {}
  <2>1. ASSUME t = {e} PROVE FALSE
    <3>1. \A x \in t : x <= e
      BY <2>1, <1>2
    <3> QED
      BY <3>1, <1>2
  <2> QED
    BY <2>1, <1>2
<1>4. Bounded(t \ {e})
  <2>1. t \ {e} \in SUBSET S /\ t \ {e} \subseteq t /\ t \ {e} # t
    BY <1>2
  <2>2. t \ {e} \notin T
    BY <2>1, <1>1
  <2> HIDE DEF Bounded
  <2> QED
    BY <2>1, <2>2, <1>3
<1>5. PICK m \in t \ {e} : \A x \in t \ {e} : x <= m
  BY <1>4
<1>6. e \in Int /\ m \in Int /\ t \subseteq Int
  BY <1>2, <1>5
<1>7. CASE e <= m
  BY <1>5, <1>6, <1>7
<1>8. CASE m < e
  BY <1>2, <1>5, <1>6, <1>8
<1> QED
  BY <1>6, <1>7, <1>8

LEMMA MaxIsGreatest ==
  ASSUME NEW S, IsFiniteSet(S), S \subseteq Int, S # {}
  PROVE  Max(S) \in S /\ \A x \in S : x <= Max(S)
<1>1. PICK m \in S : \A x \in S : m >= x
  BY HasGreatest
<1>2. Max(S) \in S /\ \A x \in S : Max(S) >= x
  BY <1>1 DEF Max
<1> QED
  BY <1>2

LEMMA MinIsLeast ==
  ASSUME NEW S, IsFiniteSet(S), S \subseteq Int, S # {}
  PROVE  Min(S) \in S /\ \A x \in S : Min(S) <= x
<1> DEFINE minus == [x \in S |-> 0 - x]
           N == {minus[x] : x \in S}
<1>1. IsFiniteSet(N)
  BY ImageIsFinite
<1>2. N \subseteq Int /\ N # {}
  <2>1. \A x \in S : minus[x] \in Int
    OBVIOUS
  <2> HIDE DEF minus
  <2> QED
    BY <2>1
<1> HIDE DEF N
<1>3. PICK n \in N : \A y \in N : y <= n
  BY <1>1, <1>2, HasGreatest
<1> USE DEF N
<1>4. PICK m \in S : n = 0 - m
  OBVIOUS
<1>5. \A x \in S : 0 - x <= 0 - m
  BY <1>3, <1>4
<1>6. \A x \in S : m =< x
  <2> HIDE DEF N, minus
  <2> QED
    BY <1>5
<1>7. Min(S) \in S /\ \A x \in S : Min(S) =< x
  BY <1>6 DEF Min
<1> QED
  BY <1>7

\* One element of a finite set has the greatest key.
LEMMA HasGreatestKey ==
  ASSUME NEW S, IsFiniteSet(S), S # {}, NEW key, \A x \in S : key[x] \in Int
  PROVE  \E m \in S : \A x \in S : key[x] <= key[m]
<1> DEFINE K == {key[x] : x \in S}
<1>1. IsFiniteSet(K)
  BY ImageIsFinite
<1>2. K \subseteq Int /\ K # {}
  OBVIOUS
<1> HIDE DEF K
<1>3. PICK k \in K : \A y \in K : y <= k
  BY <1>1, <1>2, HasGreatest
<1> QED
  BY <1>3 DEF K

-----------------------------------------------------------------------------
\* The sum of f over S, as the community modules' folds compute it.
SumOver(f, S) == MapThenSumSet(LAMBDA i : f[i], S)

Some(s) == CHOOSE x \in s : TRUE
OneMore(f, g, s) == IF s = {} THEN 0 ELSE f[Some(s)] + g[s \ {Some(s)}]
\* g gives the sums of the subsets of S.
Sums(g, f, S) == g = [s \in SUBSET S |-> OneMore(f, g, s)]

LEMMA SumIsChosen ==
  ASSUME NEW f, NEW S
  PROVE  SumOver(f, S) = (CHOOSE g : Sums(g, f, S))[S]
BY Zenon DEF SumOver, Sums, OneMore, Some, MapThenSumSet, MapThenFoldSet

\* Rounds that compute the sums of ever larger subsets.
HasRounds(f, S, n) ==
  \E F \in [0..n -> [SUBSET S -> Int]] :
    /\ \A s \in SUBSET S : F[0][s] = 0
    /\ \A k \in 1..n : \A s \in SUBSET S : F[k][s] = OneMore(f, F[k - 1], s)

LEMMA SumsInRounds ==
  ASSUME NEW S, NEW f, \A x \in S : f[x] \in Int, NEW n \in Nat,
         NEW V, V = [SUBSET S -> Int]
  PROVE  HasRounds(f, S, n)
<1>1. ASSUME NEW g \in V, NEW s \in SUBSET S PROVE OneMore(f, g, s) \in Int
  <2>1. s # {} => Some(s) \in s /\ s \ {Some(s)} \in SUBSET S
    BY DEF Some
  <2> QED
    BY <2>1, <1>1 DEF OneMore
<1>2. PICK h : h = [x \in (1..n) \X V |-> [s \in SUBSET S |-> OneMore(f, x[2], s)]]
  OBVIOUS
<1>3. h \in [(1..n) \X V -> V]
  <2>1. ASSUME NEW x \in (1..n) \X V PROVE [s \in SUBSET S |-> OneMore(f, x[2], s)] \in V
    BY <1>1
  <2> QED
    BY <2>1, <1>2
<1>4. PICK zero : zero = [s \in SUBSET S |-> 0]
  OBVIOUS
<1>5. zero \in V
  BY <1>4
<1>6. PICK F \in [0..n -> V] : F[0] = zero /\ \A k \in 1..n : F[k] = h[<<k, F[k - 1]>>]
  <2>1. HasRecursion(V, zero, n, h)
    BY <1>3, <1>5, RecursiveFunction
  <2> QED
    BY <2>1 DEF HasRecursion
<1>7. ASSUME NEW k \in 1..n, NEW s \in SUBSET S
      PROVE  F[k][s] = OneMore(f, F[k - 1], s)
  <2>1. F[k - 1] \in V
    <3>1. k - 1 \in 0..n
      OBVIOUS
    <3> QED
      BY <1>6, <3>1
  <2>2. <<k, F[k - 1]>> \in (1..n) \X V
    BY <2>1
  <2>3. F[k] = [t \in SUBSET S |-> OneMore(f, F[k - 1], t)]
    BY <1>2, <1>6, <2>2
  <2> QED
    BY <2>3
<1>8. \A s \in SUBSET S : F[0][s] = 0
  BY <1>4, <1>6
<1> QED
  BY <1>7, <1>8 DEF HasRounds

LEMMA SumsExist ==
  ASSUME NEW S, IsFiniteSet(S), NEW f, \A x \in S : f[x] \in Int
  PROVE  \E g \in [SUBSET S -> Int] : Sums(g, f, S)
<1> DEFINE V == [SUBSET S -> Int]
           n == Cardinality(S)
<1>1. n \in Nat
  BY FS_CardinalityType
<1>2. ASSUME NEW s \in SUBSET S, s # {}
      PROVE  Some(s) \in s /\ s \ {Some(s)} \in SUBSET S
  BY <1>2 DEF Some
<1> HIDE DEF n
<1>6. PICK F \in [0..n -> V] :
         /\ \A s \in SUBSET S : F[0][s] = 0
         /\ \A k \in 1..n : \A s \in SUBSET S : F[k][s] = OneMore(f, F[k - 1], s)
  <2>1. HasRounds(f, S, n)
    BY <1>1, SumsInRounds
  <2> QED
    BY <2>1 DEF HasRounds
<1> HIDE DEF V
<1>7. ASSUME NEW k \in 1..n, NEW s \in SUBSET S
      PROVE  F[k][s] = OneMore(f, F[k - 1], s)
  BY <1>6
<1> DEFINE Settled(k) == \A s \in SUBSET S : Cardinality(s) <= k => F[k][s] = OneMore(f, F[k], s)
           P == {k \in Nat : k <= n => Settled(k)}
<1>8. \A s \in SUBSET S : IsFiniteSet(s) /\ Cardinality(s) \in Nat
  BY FS_Subset, FS_CardinalityType
<1>9. \A s \in SUBSET S : s # {} => Cardinality(s \ {Some(s)}) = Cardinality(s) - 1
  BY <1>2, <1>8, FS_RemoveElement
<1>10. 0 \in P
  <2>1. ASSUME NEW s \in SUBSET S, Cardinality(s) <= 0 PROVE s = {}
    BY <1>8, <2>1, FS_EmptySet
  <2>2. {} \in SUBSET S /\ F[0][{}] = 0
    BY <1>6
  <2> QED
    BY <2>1, <2>2 DEF OneMore
<1>11. ASSUME NEW k \in P PROVE k + 1 \in P
  <2> SUFFICES ASSUME k + 1 <= n PROVE Settled(k + 1)
    OBVIOUS
  <2>1. k \in Nat /\ k + 1 \in 1..n /\ k + 1 - 1 = k /\ Settled(k)
    BY <1>1
  <2>2. ASSUME NEW s \in SUBSET S, Cardinality(s) <= k PROVE F[k + 1][s] = F[k][s]
    BY <2>1, <2>2, <1>7
  <2>3. ASSUME NEW s \in SUBSET S, Cardinality(s) <= k + 1
        PROVE  F[k + 1][s] = OneMore(f, F[k + 1], s)
    <3>1. F[k + 1][s] = OneMore(f, F[k], s)
      BY <2>1, <1>7
    <3>2. CASE s = {}
      BY <3>1, <3>2 DEF OneMore
    <3>3. CASE s # {}
      <4>1. Cardinality(s \ {Some(s)}) <= k /\ s \ {Some(s)} \in SUBSET S
        BY <2>1, <2>3, <3>3, <1>2, <1>8, <1>9
      <4> QED
        BY <3>1, <3>3, <4>1, <2>2 DEF OneMore
    <3> QED
      BY <3>2, <3>3
  <2> QED
    BY <2>3
<1> HIDE DEF P
<1>12. P = Nat
  BY <1>10, <1>11, NaturalsByInduction DEF P
<1>13. Settled(n)
  BY <1>1, <1>12 DEF P
<1>14. \A s \in SUBSET S : Cardinality(s) <= n
  BY FS_Subset DEF n
<1>15. F[n] \in [SUBSET S -> Int]
  <2>1. F[n] \in V
    BY <1>1
  <2> QED
    BY <2>1 DEF V
<1>16. F[n] = [s \in SUBSET S |-> OneMore(f, F[n], s)]
  BY <1>13, <1>14, <1>15
<1> QED
  BY <1>15, <1>16 DEF Sums

\* The sum over a subset is the same whatever set the partial sums are of.
LEMMA SumOfSubset ==
  ASSUME NEW S, IsFiniteSet(S), NEW f, \A x \in S : f[x] \in Int,
         NEW g, Sums(g, f, S), NEW T \in SUBSET S
  PROVE  SumOver(f, T) = g[T]
<1>1. IsFiniteSet(T) /\ \A x \in T : f[x] \in Int
  BY FS_Subset
<1>2. PICK h : h = CHOOSE k : Sums(k, f, T)
  OBVIOUS
<1>3. Sums(h, f, T)
  BY <1>1, <1>2, SumsExist
<1>4. SumOver(f, T) = h[T]
  BY <1>2, SumIsChosen
<1> DEFINE Differ == {t \in SUBSET T : h[t] # g[t]}
<1>5. ASSUME Differ # {} PROVE FALSE
  <2>1. Differ \subseteq SUBSET T
    OBVIOUS
  <2> HIDE DEF Differ
  <2>2. PICK t \in Differ : \A u \in Differ : u \subseteq t => u = t
    BY ONLY MinimalSubset, <1>1, <1>5, <2>1
  <2> USE DEF Differ
  <2>3. t \in SUBSET T /\ t \in SUBSET S /\ h[t] # g[t]
    OBVIOUS
  <2>4. h[t] = OneMore(f, h, t) /\ g[t] = OneMore(f, g, t)
    BY <1>3, <2>3 DEF Sums
  <2>5. t # {}
    BY <2>3, <2>4 DEF OneMore
  <2>6. Some(t) \in t
    BY <2>5 DEF Some
  <2>7. t \ {Some(t)} \in SUBSET T /\ t \ {Some(t)} \subseteq t /\ t \ {Some(t)} # t
    BY <2>3, <2>6
  <2>8. h[t \ {Some(t)}] = g[t \ {Some(t)}]
    BY <2>2, <2>7
  <2> QED
    BY <2>3, <2>4, <2>5, <2>8 DEF OneMore
<1> QED
  BY <1>4, <1>5

LEMMA SumOfNone == ASSUME NEW f PROVE SumOver(f, {}) = 0
<1>1. IsFiniteSet({}) /\ \A x \in {} : f[x] \in Int
  BY FS_EmptySet
<1>2. PICK g : Sums(g, f, {})
  BY <1>1, SumsExist
<1>3. SumOver(f, {}) = g[{}]
  BY <1>1, <1>2, SumOfSubset
<1> QED
  BY <1>2, <1>3 DEF Sums, OneMore

\* Any element can be the last that is added.
LEMMA SumOfOneMore ==
  ASSUME NEW S, IsFiniteSet(S), NEW f, \A x \in S : f[x] \in Int, NEW y \in S
  PROVE  /\ SumOver(f, S) \in Int /\ SumOver(f, S \ {y}) \in Int
         /\ SumOver(f, S) = f[y] + SumOver(f, S \ {y})
<1>1. PICK g \in [SUBSET S -> Int] : Sums(g, f, S)
  BY SumsExist
<1>2. \A s \in SUBSET S : SumOver(f, s) = g[s]
  BY <1>1, SumOfSubset
<1>3. \A s \in SUBSET S : g[s] = OneMore(f, g, s) /\ g[s] \in Int
  BY <1>1 DEF Sums
<1> DEFINE Ordered(s) == \A z \in s : g[s] = f[z] + g[s \ {z}]
           Bad == {s \in SUBSET S : ~Ordered(s)}
<1>4. ASSUME Bad # {} PROVE FALSE
  <2>1. Bad \subseteq SUBSET S
    OBVIOUS
  <2> HIDE DEF Bad
  <2>2. PICK s \in Bad : \A t \in Bad : t \subseteq s => t = s
    BY ONLY MinimalSubset, IsFiniteSet(S), <1>4, <2>1
  <2> USE DEF Bad
  <2>3. s \in SUBSET S
    OBVIOUS
  <2>4. PICK z \in s : g[s] # f[z] + g[s \ {z}]
    OBVIOUS
  <2> DEFINE e == Some(s)
             without == s \ {e, z}
  <2>5. e \in s
    BY <2>4 DEF Some
  <2>6. g[s] = f[e] + g[s \ {e}]
    BY <1>3, <2>3, <2>4 DEF OneMore
  <2> HIDE DEF e
  <2>7. e # z
    BY <2>4, <2>6
  <2>8. /\ s \ {e} \in SUBSET S /\ s \ {e} \subseteq s /\ s \ {e} # s
        /\ s \ {z} \in SUBSET S /\ s \ {z} \subseteq s /\ s \ {z} # s
        /\ z \in s \ {e} /\ e \in s \ {z} /\ without \in SUBSET S
        /\ (s \ {e}) \ {z} = without /\ (s \ {z}) \ {e} = without
    BY <2>3, <2>4, <2>5, <2>7
  <2>9. s \ {e} \notin Bad /\ s \ {z} \notin Bad
    BY <2>2, <2>8
  <2>10. g[s \ {e}] = f[z] + g[without] /\ g[s \ {z}] = f[e] + g[without]
    BY <2>8, <2>9
  <2>11. f[e] \in Int /\ f[z] \in Int /\ g[without] \in Int
    BY <1>3, <2>3, <2>4, <2>5, <2>8
  <2> HIDE DEF without
  <2> QED
    BY <2>4, <2>6, <2>10, <2>11
<1>5. g[S] = f[y] + g[S \ {y}]
  BY <1>4
<1> QED
  BY <1>2, <1>3, <1>5

\* Two functions that agree on the set have one sum.
LEMMA SumsAgree ==
  ASSUME NEW S, IsFiniteSet(S), NEW f, NEW g, \A x \in S : f[x] \in Int /\ f[x] = g[x]
  PROVE  SumOver(f, S) = SumOver(g, S)
<1> DEFINE Bad == {s \in SUBSET S : SumOver(f, s) # SumOver(g, s)}
<1> SUFFICES ASSUME Bad # {} PROVE FALSE
  OBVIOUS
<1>1. Bad \subseteq SUBSET S
  OBVIOUS
<1> HIDE DEF Bad
<1>2. PICK s \in Bad : \A t \in Bad : t \subseteq s => t = s
  BY ONLY MinimalSubset, IsFiniteSet(S), Bad # {}, <1>1
<1> USE DEF Bad
<1>3. s \in SUBSET S /\ IsFiniteSet(s)
  BY FS_Subset
<1>4. PICK x \in s : TRUE
  BY SumOfNone
<1>5. SumOver(f, s) = f[x] + SumOver(f, s \ {x}) /\ SumOver(g, s) = g[x] + SumOver(g, s \ {x})
  <2>1. \A z \in s : f[z] \in Int /\ g[z] \in Int
    BY <1>3
  <2> QED
    BY <1>3, <2>1, SumOfOneMore
<1>6. s \ {x} \in SUBSET S /\ s \ {x} \subseteq s /\ s \ {x} # s
  BY <1>3, <1>4
<1>7. SumOver(f, s \ {x}) = SumOver(g, s \ {x})
  BY <1>2, <1>6
<1> QED
  BY <1>3, <1>4, <1>5, <1>7

LEMMA SumIsNat ==
  ASSUME NEW S, IsFiniteSet(S), NEW f, \A x \in S : f[x] \in Nat
  PROVE  SumOver(f, S) \in Nat
<1> DEFINE Bad == {s \in SUBSET S : SumOver(f, s) \notin Nat}
<1> SUFFICES ASSUME Bad # {} PROVE FALSE
  OBVIOUS
<1>1. Bad \subseteq SUBSET S
  OBVIOUS
<1> HIDE DEF Bad
<1>2. PICK s \in Bad : \A t \in Bad : t \subseteq s => t = s
  BY ONLY MinimalSubset, IsFiniteSet(S), Bad # {}, <1>1
<1> USE DEF Bad
<1>3. s \in SUBSET S /\ IsFiniteSet(s)
  BY FS_Subset
<1>4. PICK x \in s : TRUE
  BY SumOfNone
<1>5. SumOver(f, s) = f[x] + SumOver(f, s \ {x})
  <2>1. \A z \in s : f[z] \in Int
    BY <1>3
  <2> QED
    BY <1>3, <2>1, SumOfOneMore
<1>6. s \ {x} \in SUBSET S /\ s \ {x} \subseteq s /\ s \ {x} # s
  BY <1>3, <1>4
<1>7. SumOver(f, s \ {x}) \in Nat
  BY <1>2, <1>6
<1> QED
  BY <1>3, <1>4, <1>5, <1>7

\* The sum over a part and the rest is the sum over the whole.
LEMMA SumOfParts ==
  ASSUME NEW S, IsFiniteSet(S), NEW f, \A x \in S : f[x] \in Int, NEW T \in SUBSET S
  PROVE  SumOver(f, S) = SumOver(f, T) + SumOver(f, S \ T)
<1> DEFINE Splits(t) == SumOver(f, S) = SumOver(f, t) + SumOver(f, S \ t)
           Bad == {t \in SUBSET S : ~Splits(t)}
<1> SUFFICES ASSUME Bad # {} PROVE FALSE
  OBVIOUS
<1>1. Bad \subseteq SUBSET S
  OBVIOUS
<1> HIDE DEF Bad
<1>2. PICK t \in Bad : \A u \in Bad : u \subseteq t => u = t
  BY ONLY MinimalSubset, IsFiniteSet(S), Bad # {}, <1>1
<1> USE DEF Bad
<1>3. \A u \in SUBSET S : IsFiniteSet(u)
  BY FS_Subset
<1>4. SumOver(f, S) \in Int
  <2>1. CASE S = {}
    BY <2>1, SumOfNone
  <2>2. CASE S # {}
    <3>1. PICK y \in S : TRUE
      BY <2>2
    <3> QED
      BY <3>1, SumOfOneMore
  <2> QED
    BY <2>1, <2>2
<1>5. t # {}
  <2>1. S \ {} = S
    OBVIOUS
  <2> QED
    BY <1>4, <2>1, SumOfNone
<1>6. PICK x \in t : TRUE
  BY <1>5
<1>7. t \in SUBSET S /\ t \ {x} \in SUBSET S /\ t \ {x} \subseteq t /\ t \ {x} # t
  BY <1>6
<1> DEFINE rest == S \ (t \ {x})
<1>8. rest \in SUBSET S /\ x \in rest /\ rest \ {x} = S \ t
  BY <1>6, <1>7
<1>9. SumOver(f, S) = SumOver(f, t \ {x}) + SumOver(f, rest)
  BY <1>2, <1>7
<1>10. /\ SumOver(f, t) = f[x] + SumOver(f, t \ {x})
       /\ SumOver(f, t \ {x}) \in Int
  BY <1>3, <1>6, <1>7, SumOfOneMore
<1>11. SumOver(f, rest) = f[x] + SumOver(f, S \ t) /\ SumOver(f, S \ t) \in Int
  <2>1. IsFiniteSet(rest) /\ \A z \in rest : f[z] \in Int
    BY <1>3, <1>8
  <2> QED
    BY <1>8, <2>1, SumOfOneMore
<1>12. f[x] \in Int
  BY <1>6, <1>7
<1> HIDE DEF rest
<1> QED
  BY <1>9, <1>10, <1>11, <1>12

LEMMA SumIsMonotone ==
  ASSUME NEW S, IsFiniteSet(S), NEW f, \A x \in S : f[x] \in Nat, NEW T \in SUBSET S
  PROVE  SumOver(f, T) \in Nat /\ SumOver(f, T) <= SumOver(f, S)
<1>1. /\ IsFiniteSet(T) /\ \A x \in T : f[x] \in Nat
      /\ IsFiniteSet(S \ T) /\ \A x \in S \ T : f[x] \in Nat
  BY FS_Subset
<1>2. SumOver(f, T) \in Nat /\ SumOver(f, S \ T) \in Nat
  BY <1>1, SumIsNat
<1>3. SumOver(f, S) = SumOver(f, T) + SumOver(f, S \ T)
  <2>1. \A x \in S : f[x] \in Int
    OBVIOUS
  <2> QED
    BY <2>1, SumOfParts
<1> QED
  BY <1>2, <1>3

-----------------------------------------------------------------------------
\* The sum of a sequence, as FoldSeq computes it.
SumOfSequence(s) == FoldSeq(LAMBDA x, y : x + y, 0, s)

LEMMA SequenceIsSum ==
  ASSUME NEW s
  PROVE  SumOfSequence(s) = SumOver(s, DOMAIN s)
BY Zenon DEF SumOfSequence, SumOver, MapThenSumSet, MapThenFoldSet,
             FoldSeq, FoldFunction, FoldFunctionOnSet

LEMMA SumOfAppended ==
  ASSUME NEW s \in Seq(Nat), NEW n \in Nat
  PROVE  /\ SumOfSequence(s) \in Nat
         /\ SumOfSequence(Append(s, n)) = SumOfSequence(s) + n
         /\ SumOfSequence(<<>>) = 0
<1>1. /\ DOMAIN s = 1..Len(s) /\ Len(s) \in Nat
      /\ \A k \in 1..Len(s) : s[k] \in Nat
  OBVIOUS
<1> DEFINE t == Append(s, n)
<1>2. /\ DOMAIN t = 1..(Len(s) + 1)
      /\ t[Len(s) + 1] = n
      /\ \A k \in 1..Len(s) : t[k] = s[k]
  OBVIOUS
<1> HIDE DEF t
<1>3. IsFiniteSet(1..Len(s)) /\ IsFiniteSet(1..(Len(s) + 1))
  BY <1>1, FS_Interval
<1>4. SumOver(s, 1..Len(s)) \in Nat
  BY <1>1, <1>3, SumIsNat
<1>5. SumOver(t, 1..(Len(s) + 1)) = t[Len(s) + 1] + SumOver(t, (1..(Len(s) + 1)) \ {Len(s) + 1})
  <2>1. \A x \in 1..(Len(s) + 1) : t[x] \in Int
    BY <1>1, <1>2
  <2>2. Len(s) + 1 \in 1..(Len(s) + 1)
    BY <1>1
  <2> QED
    BY <2>1, <2>2, <1>3, SumOfOneMore
<1>6. (1..(Len(s) + 1)) \ {Len(s) + 1} = 1..Len(s)
  BY <1>1
<1>7. SumOver(s, 1..Len(s)) = SumOver(t, 1..Len(s))
  <2>1. \A x \in 1..Len(s) : s[x] \in Int /\ s[x] = t[x]
    BY <1>1, <1>2
  <2> QED
    BY <2>1, <1>3, SumsAgree
<1>8. SumOfSequence(s) = SumOver(s, 1..Len(s)) /\ SumOfSequence(t) = SumOver(t, 1..(Len(s) + 1))
  BY <1>1, <1>2, SequenceIsSum
<1>9. SumOfSequence(<<>>) = 0
  <2>1. SumOfSequence(<<>>) = SumOver(<<>>, DOMAIN <<>>)
    BY SequenceIsSum
  <2>2. DOMAIN <<>> = {}
    OBVIOUS
  <2> QED
    BY <2>1, <2>2, SumOfNone
<1>10. SumOfSequence(t) = SumOfSequence(s) + n
  <2>1. SumOver(t, 1..(Len(s) + 1)) = n + SumOver(s, 1..Len(s))
    BY <1>2, <1>5, <1>6, <1>7, Zenon
  <2> QED
    BY <2>1, <1>4, <1>8
<1> QED
  BY <1>4, <1>8, <1>9, <1>10 DEF t

=============================================================================
