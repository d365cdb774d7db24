--------------------------- MODULE DataLemmas ---------------------------
(***************************************************************************)
(* Induction over finite sets and natural numbers, stated with sets        *)
(* instead of predicates, and what it gives for the recursive operators    *)
(* the models are written with: ascending lists and the folds.             *)
(***************************************************************************)
EXTENDS Integers, FiniteSetTheorems, SequenceTheorems, WellFoundedInduction, SequencesExt, IndexOrder, TLAPS

\* Induction over the subsets of a finite set: T holds a set if it holds its
\* proper subsets.
LEMMA SubsetInduction ==
  ASSUME NEW S, IsFiniteSet(S), NEW T,
         \A U \in SUBSET S : (\A V \in SUBSET U : V # U => V \in T) => U \in T
  PROVE  SUBSET S \subseteq T
<1> DEFINE bad == {U \in SUBSET S : U \notin T}
<1>1. SUFFICES ASSUME bad # {} PROVE FALSE
  OBVIOUS
<1>2. bad \subseteq FiniteSubsetsOf(S)
  BY FS_Subset DEF FiniteSubsetsOf
<1>3. IsWellFoundedOn(StrictSubsetOrdering(S), FiniteSubsetsOf(S))
  BY FS_StrictSubsetOrderingWellFounded
<1>4. PICK U \in bad : \A V \in bad : <<V, U>> \notin StrictSubsetOrdering(S)
  <2> HIDE DEF bad
  <2>1. QED
    BY <1>1, <1>2, <1>3, WFMin
<1>5. ASSUME NEW V \in SUBSET U, V # U
      PROVE  V \in T
  <2>1. <<V, U>> \in StrictSubsetOrdering(S)
    BY <1>5 DEF StrictSubsetOrdering
  <2>2. QED
    BY <1>4, <2>1
<1>6. QED
  BY <1>4, <1>5

\* Induction over the numbers, for a set T instead of a predicate.
LEMMA NatInductionSet ==
  ASSUME NEW T, 0 \in T, \A n \in Nat : n \in T => n + 1 \in T
  PROVE  Nat \subseteq T
<1> SUFFICES ASSUME NEW n \in Nat
             PROVE  n \in T
  OBVIOUS
<1> DEFINE G == {U \in SUBSET (1..n) : \A k \in 0..n : U = 1..k => k \in T}
<1>1. ASSUME NEW U \in SUBSET (1..n), \A V \in SUBSET U : V # U => V \in G
      PROVE  U \in G
  <2> SUFFICES ASSUME NEW k \in 0..n, U = 1..k
               PROVE  k \in T
    OBVIOUS
  <2>1. CASE k = 0
    BY <2>1
  <2>2. CASE k # 0
    <3>1. k - 1 \in 0..n /\ k - 1 \in Nat /\ (k - 1) + 1 = k
      BY <2>2
    <3>2. 1..k - 1 \in SUBSET U /\ k \in U /\ k \notin 1..k - 1
      BY <2>2
    <3>3. 1..k - 1 \in G
      BY <1>1, <3>2
    <3>4. k - 1 \in T
      BY <3>1, <3>3
    <3>5. QED
      BY <3>1, <3>4
  <2>3. QED
    BY <2>1, <2>2
<1>2. IsFiniteSet(1..n)
  BY FS_Interval
<1>3. SUBSET (1..n) \subseteq G
  <2>1. \A U \in SUBSET (1..n) : (\A V \in SUBSET U : V # U => V \in G) => U \in G
    BY <1>1
  <2> DEFINE S == 1..n
  <2> HIDE DEF G, S
  <2>2. \A U \in SUBSET S : (\A V \in SUBSET U : V # U => V \in G) => U \in G
    BY <2>1 DEF S
  <2>3. IsFiniteSet(S)
    BY <1>2 DEF S
  <2>4. SUBSET S \subseteq G
    BY <2>2, <2>3, SubsetInduction
  <2>5. QED
    BY <2>4 DEF S
<1>4. 1..n \in G
  BY <1>3
<1>5. QED
  BY <1>4

-----------------------------------------------------------------------------
\* Recursive functions on 0..n exist when each value is a function of the one
\* before: step[i][v] is the value at i that follows v.  Stated with a set of
\* values W that the steps stay in.
LEMMA RecursionExists ==
  ASSUME NEW n \in Nat, NEW W, NEW base \in W,
         NEW step, \A i \in 1..n : \A v \in W : step[<<i, v>>] \in W
  PROVE  \E f \in [0..n -> W] : f[0] = base /\ \A i \in 1..n : f[i] = step[<<i, f[i - 1]>>]
<1> DEFINE Good(k, f) == f[0] = base /\ \A i \in 1..k : f[i] = step[<<i, f[i - 1]>>]
           T == {k \in Nat : k <= n => \E f \in [0..k -> W] : Good(k, f)}
<1>1. 0 \in T
  <2>1. [i \in 0..0 |-> base] \in [0..0 -> W] /\ Good(0, [i \in 0..0 |-> base])
    OBVIOUS
  <2>2. QED
    BY <2>1
<1>2. ASSUME NEW k \in Nat, k \in T
      PROVE  k + 1 \in T
  <2> SUFFICES ASSUME k + 1 <= n
               PROVE  \E f \in [0..k + 1 -> W] : Good(k + 1, f)
    OBVIOUS
  <2>1. PICK f \in [0..k -> W] : Good(k, f)
    BY <1>2
  <2> DEFINE g == [i \in 0..k + 1 |-> IF i = k + 1 THEN step[<<k + 1, f[k]>>] ELSE f[i]]
  <2>2. k + 1 \in 1..n /\ k \in 0..k
    OBVIOUS
  <2>3. step[<<k + 1, f[k]>>] \in W
    BY <2>1, <2>2
  <2>4. g \in [0..k + 1 -> W]
    BY <2>1, <2>3
  <2>5. g[0] = base
    BY <2>1
  <2>6. ASSUME NEW i \in 1..k + 1
        PROVE  g[i] = step[<<i, g[i - 1]>>]
    <3>1. g[i - 1] = f[i - 1]
      OBVIOUS
    <3>2. CASE i = k + 1
      <4>1. i - 1 = k /\ g[i] = step[<<k + 1, f[k]>>]
        BY <3>2
      <4>2. QED
        BY <3>1, <3>2, <4>1
    <3>3. CASE i # k + 1
      <4>1. i \in 1..k /\ g[i] = f[i]
        BY <3>3
      <4>2. QED
        BY <2>1, <3>1, <4>1
    <3>4. QED
      BY <3>2, <3>3
  <2>7. QED
    BY <2>4, <2>5, <2>6
<1>3. Nat \subseteq T
  <2>1. \A k \in Nat : k \in T => k + 1 \in T
    BY <1>2
  <2> HIDE DEF T
  <2>2. QED
    BY <1>1, <2>1, NatInductionSet
<1>4. n \in T
  BY <1>3
<1>5. QED
  BY <1>4
-----------------------------------------------------------------------------
Sorted(m, U, s) == s \in [1..m -> U] /\ \A i, j \in 1..m : i < j => s[i] < s[j]

\* Every finite set of indices can be listed in ascending order.
LEMMA AscendingExists ==
  ASSUME NEW n \in Nat, NEW S \in SUBSET (0..n)
  PROVE  \E s : Sorted(Cardinality(S), S, s)
<1> DEFINE T == {k \in Nat : \A U \in SUBSET (0..k - 1) : \E s : Sorted(Cardinality(U), U, s)}
<1>1. 0 \in T
  <2>1. ASSUME NEW U \in SUBSET (0..0 - 1)
        PROVE  \E s : Sorted(Cardinality(U), U, s)
    <3>1. U = {}
      OBVIOUS
    <3>2. Cardinality(U) = 0
      BY <3>1, FS_EmptySet
    <3>3. Sorted(0, U, [i \in 1..0 |-> 0])
      BY DEF Sorted
    <3>4. QED
      BY <3>2, <3>3
  <2>2. QED
    BY <2>1
<1>2. ASSUME NEW k \in Nat, k \in T
      PROVE  k + 1 \in T
  <2> SUFFICES ASSUME NEW U \in SUBSET (0..k + 1 - 1)
               PROVE  \E s : Sorted(Cardinality(U), U, s)
    OBVIOUS
  <2> DEFINE V == U \ {k}
  <2>1. V \in SUBSET (0..k - 1)
    OBVIOUS
  <2>2. PICK s : Sorted(Cardinality(V), V, s)
    BY <1>2, <2>1
  <2>3. CASE k \notin U
    <3>1. V = U
      BY <2>3
    <3>2. QED
      BY <2>2, <3>1
  <2>4. CASE k \in U
    <3>1. IsFiniteSet(V) /\ U = V \cup {k} /\ k \notin V
      <4>1. IsFiniteSet(0..k - 1)
        BY FS_Interval
      <4>2. IsFiniteSet(V)
        BY <2>1, <4>1, FS_Subset
      <4>3. QED
        BY <2>4, <4>2
    <3>2. PICK m \in Nat : m = Cardinality(V)
      BY <3>1, FS_CardinalityType
    <3>3. Cardinality(U) = m + 1
      <4>1. Cardinality(V \cup {k}) = m + 1
        BY <3>1, <3>2, FS_AddElement
      <4>2. QED
        BY <3>1, <4>1
    <3>4. s \in [1..m -> V] /\ \A i, j \in 1..m : i < j => s[i] < s[j]
      BY <2>2, <3>2 DEF Sorted
    <3> DEFINE g == [i \in 1..m + 1 |-> IF i = m + 1 THEN k ELSE s[i]]
    <3>5. g \in [1..m + 1 -> U]
      BY <2>4, <3>4
    <3>6. ASSUME NEW i \in 1..m + 1, NEW j \in 1..m + 1, i < j
          PROVE  g[i] < g[j]
      <4>1. i \in 1..m /\ g[i] = s[i]
        BY <3>6
      <4>2. s[i] \in 0..k - 1
        BY <2>1, <3>4, <4>1
      <4>3. CASE j = m + 1
        BY <4>1, <4>2, <4>3
      <4>4. CASE j # m + 1
        <5>1. j \in 1..m /\ g[j] = s[j]
          BY <4>4
        <5>2. QED
          BY <3>4, <3>6, <4>1, <5>1
      <4>5. QED
        BY <4>3, <4>4
    <3>7. Sorted(m + 1, U, g)
      BY <3>5, <3>6 DEF Sorted
    <3>8. QED
      BY <3>3, <3>7
  <2>5. QED
    BY <2>3, <2>4
<1>3. Nat \subseteq T
  <2>1. \A k \in Nat : k \in T => k + 1 \in T
    BY <1>2
  <2> HIDE DEF T
  <2>2. QED
    BY <1>1, <2>1, NatInductionSet
<1>4. n + 1 \in T
  BY <1>3, n + 1 \in Nat
<1>5. QED
  BY <1>4

\* Ascending(S) lists S, each number once, in order.
LEMMA AscendingFromZero ==
  ASSUME NEW n \in Nat, NEW S \in SUBSET (0..n)
  PROVE  \E m \in Nat :
           /\ m = Cardinality(S)
           /\ Ascending(S) \in [1..m -> S]
           /\ \A i, j \in 1..m : i < j => Ascending(S)[i] < Ascending(S)[j]
           /\ \A x \in S : \E i \in 1..m : Ascending(S)[i] = x
<1>1. Sorted(Cardinality(S), S, Ascending(S))
  <2>1. PICK s : Sorted(Cardinality(S), S, s)
    BY AscendingExists
  <2>2. /\ s \in [1..Cardinality(S) -> S]
        /\ \A i, j \in 1..Cardinality(S) : i < j => s[i] < s[j]
    BY <2>1 DEF Sorted
  <2>3. QED
    BY <2>2 DEF Ascending, Sorted
<1>2. IsFiniteSet(S)
  <2>1. IsFiniteSet(0..n)
    BY FS_Interval
  <2>2. QED
    BY <2>1, FS_Subset
<1>3. PICK m \in Nat : m = Cardinality(S)
  BY <1>2, FS_CardinalityType
<1>4. PICK s \in [1..m -> S] : s = Ascending(S) /\ \A i, j \in 1..m : i < j => s[i] < s[j]
  BY <1>1, <1>3 DEF Sorted
<1>5. s \in Injection(1..m, S)
  <2>1. ASSUME NEW i \in 1..m, NEW j \in 1..m, s[i] = s[j]
        PROVE  i = j
    <3>1. s[i] \in Nat /\ s[j] \in Nat
      <4>1. s[i] \in S /\ s[j] \in S /\ S \subseteq Nat
        BY <1>4
      <4>2. QED
        BY <4>1
    <3>2. ~(i < j) /\ ~(j < i)
      BY <1>4, <2>1, <3>1
    <3>3. QED
      BY <3>2
  <2>2. QED
    BY <1>4, <2>1 DEF Injection, IsInjective
<1>6. Cardinality(1..m) = m
  BY FS_Interval
<1>7. s \in Surjection(1..m, S)
  <2>1. Cardinality(1..m) = Cardinality(S)
    BY <1>3, <1>6
  <2> DEFINE D == 1..m
  <2> HIDE DEF D
  <2>2. s \in Injection(D, S) /\ Cardinality(D) = Cardinality(S)
    BY <1>5, <2>1 DEF D
  <2>3. s \in Surjection(D, S)
    BY <1>2, <2>2, FS_Injection
  <2>4. QED
    BY <2>3 DEF D
<1>8. \A x \in S : \E i \in 1..m : s[i] = x
  BY <1>7 DEF Surjection
<1>9. QED
  BY <1>3, <1>4, <1>8

\* The same of positions, which are counted from one.
LEMMA AscendingProperties ==
  ASSUME NEW n \in Nat, NEW S \in SUBSET (1..n)
  PROVE  \E m \in Nat :
           /\ m = Cardinality(S)
           /\ Ascending(S) \in [1..m -> S]
           /\ \A i, j \in 1..m : i < j => Ascending(S)[i] < Ascending(S)[j]
           /\ \A x \in S : \E i \in 1..m : Ascending(S)[i] = x
<1>1. S \in SUBSET (0..n)
  OBVIOUS
<1>2. QED
  BY <1>1, AscendingFromZero

-----------------------------------------------------------------------------
\* A fold over S in W: pick says which element of a set comes next, step what
\* it makes of the value of the others.
FoldOver(S, W, base, pick, step) ==
  /\ IsFiniteSet(S) /\ base \in W
  /\ \A U \in SUBSET S : U # {} => pick[U] \in U
  /\ \A x \in S : \A w \in W : step[<<x, w>>] \in W
IsFold(S, W, base, pick, step, iter) ==
  /\ iter \in [SUBSET S -> W]
  /\ iter[{}] = base
  /\ \A U \in SUBSET S : U # {} => iter[U] = step[<<pick[U], iter[U \ {pick[U]}]>>]

\* The function a fold computes exists: it takes one element after another out
\* of the set, as pick chooses them.
LEMMA FoldExists ==
  ASSUME NEW S, NEW W, NEW base, NEW pick, NEW step, FoldOver(S, W, base, pick, step)
  PROVE  \E iter : IsFold(S, W, base, pick, step, iter)
<1> USE DEF FoldOver
<1> DEFINE Small(k) == {U \in SUBSET S : Cardinality(U) <= k}
           Value(f, U) == IF U = {} THEN base ELSE step[<<pick[U], f[U \ {pick[U]}]>>]
           T == {k \in Nat : \E f \in [Small(k) -> W] : \A U \in Small(k) : f[U] = Value(f, U)}
<1>1. \A U \in SUBSET S : IsFiniteSet(U) /\ Cardinality(U) \in Nat
  BY FS_Subset, FS_CardinalityType
<1>2. ASSUME NEW U \in SUBSET S, U # {}
      PROVE  /\ pick[U] \in S /\ U \ {pick[U]} \in SUBSET S
             /\ Cardinality(U \ {pick[U]}) = Cardinality(U) - 1
             /\ Cardinality(U) # 0
  BY <1>1, <1>2, FS_RemoveElement, FS_EmptySet
<1>3. 0 \in T
  <2>1. \A U \in Small(0) : U = {}
    BY <1>1, FS_EmptySet
  <2> DEFINE f == [U \in Small(0) |-> base]
  <2>2. f \in [Small(0) -> W] /\ \A U \in Small(0) : f[U] = Value(f, U)
    BY <2>1
  <2>3. QED
    BY <2>2
<1>4. ASSUME NEW k \in Nat, k \in T
      PROVE  k + 1 \in T
  <2>1. PICK f \in [Small(k) -> W] : \A U \in Small(k) : f[U] = Value(f, U)
    BY <1>4
  <2> DEFINE g == [U \in Small(k + 1) |-> IF U \in Small(k) THEN f[U] ELSE Value(f, U)]
  <2>2. ASSUME NEW U \in Small(k + 1), U # {}
        PROVE  pick[U] \in S /\ U \ {pick[U]} \in Small(k)
    BY <1>1, <1>2, <2>2
  <2>3. \A U \in Small(k) : U \in Small(k + 1)
    BY <1>1
  <2>4. \A U \in Small(k + 1) : Value(f, U) \in W
    BY <2>1, <2>2
  <2>5. g \in [Small(k + 1) -> W]
    BY <2>1, <2>4
  <2>6. \A U \in Small(k) : g[U] = f[U]
    BY <2>3
  <2>7. ASSUME NEW U \in Small(k + 1)
        PROVE  g[U] = Value(g, U)
    <3>1. Value(g, U) = Value(f, U)
      <4>1. U # {} => g[U \ {pick[U]}] = f[U \ {pick[U]}]
        <5> HIDE DEF g, Small
        <5>1. QED
          BY <2>2, <2>6
      <4> HIDE DEF g
      <4>2. QED
        BY <4>1
    <3>2. g[U] = Value(f, U)
      BY <2>1
    <3>3. QED
      BY <3>1, <3>2
  <2>8. \E h \in [Small(k + 1) -> W] : \A U \in Small(k + 1) : h[U] = Value(h, U)
    <3>1. \A U \in Small(k + 1) : g[U] = Value(g, U)
      BY <2>7
    <3> HIDE DEF g, Value, Small
    <3>2. QED
      BY <2>5, <3>1
  <2> HIDE DEF g, Value, Small
  <2>9. QED
    BY <2>8
<1>5. Nat \subseteq T
  <2>1. \A k \in Nat : k \in T => k + 1 \in T
    BY <1>4
  <2> HIDE DEF T
  <2>2. QED
    BY <1>3, <2>1, NatInductionSet
<1>6. Cardinality(S) \in T
  BY <1>1, <1>5
<1>7. Small(Cardinality(S)) = SUBSET S
  BY <1>1, FS_Subset
<1>8. PICK f \in [SUBSET S -> W] : \A U \in SUBSET S : f[U] = Value(f, U)
  <2>1. PICK f \in [Small(Cardinality(S)) -> W] : \A U \in Small(Cardinality(S)) : f[U] = Value(f, U)
    BY <1>6
  <2> HIDE DEF Small
  <2>2. QED
    BY <1>7, <2>1
<1>9. QED
  BY <1>8 DEF IsFold
-----------------------------------------------------------------------------
\* The sum of f[x] for x in S, as the models write it.
SumOver(f, S) == MapThenSumSet(LAMBDA x : f[x], S)

ElementOf(U) == CHOOSE x \in U : TRUE
IsSum(f, S, iter) ==
  /\ iter \in [SUBSET S -> Nat]
  /\ iter[{}] = 0
  /\ \A U \in SUBSET S : U # {} => iter[U] = f[ElementOf(U)] + iter[U \ {ElementOf(U)}]

\* A sum is computed by some function over the subsets.
LEMMA SumIter ==
  ASSUME NEW S, IsFiniteSet(S), NEW f, \A x \in S : f[x] \in Nat
  PROVE  \E iter : IsSum(f, S, iter) /\ SumOver(f, S) = iter[S]
<1> DEFINE pick == [U \in SUBSET S |-> ElementOf(U)]
           step == [p \in S \X Nat |-> f[p[1]] + p[2]]
           Is(g) == g = [s \in SUBSET S |-> IF s = {} THEN 0
                                            ELSE LET x == CHOOSE x \in s : TRUE
                                                 IN  f[x] + g[s \ {x}]]
<1>1. \A U \in SUBSET S : U # {} => pick[U] \in U /\ ElementOf(U) \in U
  BY DEF ElementOf
<1>2. \A x \in S, w \in Nat : step[<<x, w>>] \in Nat /\ step[<<x, w>>] = f[x] + w
  OBVIOUS
<1>3. PICK h : IsFold(S, Nat, 0, pick, step, h)
  <2>1. FoldOver(S, Nat, 0, pick, step)
    BY <1>1, <1>2 DEF FoldOver
  <2> HIDE DEF pick, step, Is
  <2>2. QED
    BY <2>1, FoldExists
<1>4. /\ h \in [SUBSET S -> Nat] /\ h[{}] = 0
      /\ \A U \in SUBSET S : U # {} => h[U] = step[<<pick[U], h[U \ {pick[U]}]>>]
  BY <1>3 DEF IsFold
<1>5. \A U \in SUBSET S : U # {} => h[U] = f[ElementOf(U)] + h[U \ {ElementOf(U)}]
  <2> TAKE U \in SUBSET S
  <2> HAVE U # {}
  <2>1. pick[U] = ElementOf(U) /\ ElementOf(U) \in S
    BY <1>1
  <2>2. h[U \ {ElementOf(U)}] \in Nat
    BY <1>4
  <2> HIDE DEF pick, step
  <2>3. QED
    BY <1>2, <1>4, <2>1, <2>2
<1>6. h[{}] = 0
  BY <1>4
<1>7. h = [s \in SUBSET S |-> IF s = {} THEN 0 ELSE f[ElementOf(s)] + h[s \ {ElementOf(s)}]]
  BY <1>4, <1>5, <1>6
<1>8. Is(h)
  BY <1>7 DEF ElementOf
<1>9. SumOver(f, S) = (CHOOSE g : Is(g))[S]
  BY DEF SumOver, MapThenSumSet, MapThenFoldSet
<1>10. Is(CHOOSE g : Is(g))
  <2> HIDE DEF Is
  <2>1. QED
    BY <1>8
<1>11. PICK k : Is(k) /\ SumOver(f, S) = k[S]
  BY <1>9, <1>10
<1>12. \A U \in SUBSET S : k[U] = h[U]
  <2> DEFINE T == {U \in SUBSET S : k[U] = h[U]}
  <2>1. ASSUME NEW U \in SUBSET S, \A V \in SUBSET U : V # U => V \in T
        PROVE  U \in T
    <3>1. CASE U = {}
      <4>1. k[{}] = 0
        BY <1>11
      <4>2. QED
        BY <1>6, <3>1, <4>1
    <3>2. CASE U # {}
      <4>1. ElementOf(U) \in U
        BY <1>1, <3>2
      <4>2. k[U \ {ElementOf(U)}] = h[U \ {ElementOf(U)}]
        BY <2>1, <4>1
      <4>3. k[U] = f[ElementOf(U)] + k[U \ {ElementOf(U)}]
        BY <1>11, <3>2 DEF ElementOf
      <4>4. QED
        BY <1>5, <3>2, <4>2, <4>3
    <3>3. QED
      BY <3>1, <3>2
  <2>2. SUBSET S \subseteq T
    <3>1. \A U \in SUBSET S : (\A V \in SUBSET U : V # U => V \in T) => U \in T
      BY <2>1
    <3> HIDE DEF T
    <3>2. QED
      BY <3>1, SubsetInduction
  <2>3. QED
    BY <2>2
<1>13. SumOver(f, S) = h[S]
  BY <1>11, <1>12
<1>14. QED
  BY <1>4, <1>5, <1>6, <1>13 DEF IsSum

\* The sum of a part of S is the same, taken alone or on the way to the sum of S.
LEMMA SumPart ==
  ASSUME NEW S, IsFiniteSet(S), NEW f, \A x \in S : f[x] \in Nat,
         NEW iter, IsSum(f, S, iter)
  PROVE  \A U \in SUBSET S : SumOver(f, U) = iter[U]
<1> DEFINE T == {U \in SUBSET S : SumOver(f, U) = iter[U]}
<1> SUFFICES ASSUME NEW R \in SUBSET S
             PROVE  SumOver(f, R) = iter[R]
  OBVIOUS
<1>1. IsFiniteSet(R) /\ \A x \in R : f[x] \in Nat
  BY FS_Subset
<1>2. PICK part : IsSum(f, R, part) /\ SumOver(f, R) = part[R]
  BY <1>1, SumIter
<1> DEFINE G == {U \in SUBSET R : part[U] = iter[U]}
<1>3. ASSUME NEW U \in SUBSET R, \A V \in SUBSET U : V # U => V \in G
      PROVE  U \in G
  <2>1. CASE U = {}
    BY <1>2, <2>1 DEF IsSum
  <2>2. CASE U # {}
    <3>1. ElementOf(U) \in U
      BY <2>2 DEF ElementOf
    <3>2. part[U \ {ElementOf(U)}] = iter[U \ {ElementOf(U)}]
      BY <1>3, <3>1
    <3>3. QED
      BY <1>2, <2>2, <3>2 DEF IsSum
  <2>3. QED
    BY <2>1, <2>2
<1>4. SUBSET R \subseteq G
  <2>1. \A U \in SUBSET R : (\A V \in SUBSET U : V # U => V \in G) => U \in G
    BY <1>3
  <2> HIDE DEF G
  <2>2. QED
    BY <1>1, <2>1, SubsetInduction
<1>5. QED
  BY <1>2, <1>4

\* The empty sum.
LEMMA SumEmpty == \A f : SumOver(f, {}) = 0
<1> TAKE f
<1>1. IsFiniteSet({})
  BY FS_EmptySet
<1>2. PICK iter : IsSum(f, {}, iter) /\ SumOver(f, {}) = iter[{}]
  BY <1>1, SumIter
<1>3. QED
  BY <1>2 DEF IsSum

\* A sum does not depend on the order it is taken in.
LEMMA SumTake ==
  ASSUME NEW S, IsFiniteSet(S), NEW f, \A x \in S : f[x] \in Nat
  PROVE  /\ SumOver(f, S) \in Nat
         /\ \A x \in S : SumOver(f, S) = f[x] + SumOver(f, S \ {x})
<1>1. PICK iter : IsSum(f, S, iter)
  BY SumIter
<1>2. \A U \in SUBSET S : SumOver(f, U) = iter[U]
  BY <1>1, SumPart
<1> DEFINE G == {U \in SUBSET S : \A x \in U : iter[U] = f[x] + iter[U \ {x}]}
<1>3. ASSUME NEW U \in SUBSET S, \A V \in SUBSET U : V # U => V \in G
      PROVE  U \in G
  <2> SUFFICES ASSUME NEW x \in U
               PROVE  iter[U] = f[x] + iter[U \ {x}]
    OBVIOUS
  <2> DEFINE c == ElementOf(U)
  <2>1. c \in U
    BY DEF ElementOf
  <2>2. iter[U] = f[c] + iter[U \ {c}]
    BY <1>1 DEF IsSum
  <2>3. CASE x = c
    BY <2>2, <2>3
  <2>4. CASE x # c
    <3> DEFINE V == (U \ {c}) \ {x}
    <3>1. V = (U \ {x}) \ {c}
      OBVIOUS
    <3>2. iter[U \ {c}] = f[x] + iter[V]
      <4>1. U \ {c} \in G /\ x \in U \ {c}
        BY <1>3, <2>1, <2>4
      <4>2. QED
        BY <4>1
    <3>3. iter[U \ {x}] = f[c] + iter[V]
      <4>1. U \ {x} \in G /\ c \in U \ {x}
        BY <1>3, <2>1, <2>4
      <4>2. QED
        BY <3>1, <4>1
    <3>4. f[x] \in Nat /\ f[c] \in Nat /\ iter[V] \in Nat
      BY <1>1, <2>1 DEF IsSum
    <3> HIDE DEF V, c
    <3>5. QED
      BY <2>2, <3>2, <3>3, <3>4
  <2>5. QED
    BY <2>3, <2>4
<1>4. SUBSET S \subseteq G
  <2>1. \A U \in SUBSET S : (\A V \in SUBSET U : V # U => V \in G) => U \in G
    BY <1>3
  <2> HIDE DEF G
  <2>2. QED
    BY <2>1, SubsetInduction
<1>5. S \in G
  BY <1>4
<1>6. \A x \in S : iter[S] = f[x] + iter[S \ {x}]
  BY <1>5
<1>7. iter[S] \in Nat
  BY <1>1 DEF IsSum
<1>8. QED
  BY <1>2, <1>6, <1>7

\* Two functions that agree on S have the same sum.
LEMMA SumCongruence ==
  ASSUME NEW S, IsFiniteSet(S), NEW f, NEW g, \A x \in S : f[x] \in Nat /\ g[x] = f[x]
  PROVE  SumOver(f, S) = SumOver(g, S)
<1> DEFINE T == {U \in SUBSET S : SumOver(f, U) = SumOver(g, U)}
<1>1. ASSUME NEW U \in SUBSET S, \A V \in SUBSET U : V # U => V \in T
      PROVE  U \in T
  <2>1. IsFiniteSet(U) /\ \A x \in U : f[x] \in Nat /\ g[x] \in Nat
    BY FS_Subset
  <2>2. CASE U = {}
    BY <2>2, SumEmpty
  <2>3. CASE U # {}
    <3>1. PICK x \in U : TRUE
      BY <2>3
    <3>2. SumOver(f, U \ {x}) = SumOver(g, U \ {x})
      BY <1>1, <3>1
    <3>3. SumOver(f, U) = f[x] + SumOver(f, U \ {x}) /\ SumOver(g, U) = g[x] + SumOver(g, U \ {x})
      BY <2>1, <3>1, SumTake
    <3>4. QED
      BY <3>1, <3>2, <3>3
  <2>4. QED
    BY <2>2, <2>3
<1>2. SUBSET S \subseteq T
  <2>1. \A U \in SUBSET S : (\A V \in SUBSET U : V # U => V \in T) => U \in T
    BY <1>1
  <2> HIDE DEF T
  <2>2. QED
    BY <2>1, SubsetInduction
<1>3. QED
  BY <1>2

\* Summing over the chosen elements is summing zero for the others.
LEMMA SumSelected ==
  ASSUME NEW S, IsFiniteSet(S), NEW v, \A x \in S : v[x] \in Nat,
         NEW A, NEW f, \A x \in S : f[x] = IF x \in A THEN v[x] ELSE 0
  PROVE  SumOver(f, S) = SumOver(v, S \cap A)
<1> DEFINE T == {U \in SUBSET S : SumOver(f, U) = SumOver(v, U \cap A)}
<1>1. ASSUME NEW U \in SUBSET S, \A V \in SUBSET U : V # U => V \in T
      PROVE  U \in T
  <2>1. IsFiniteSet(U) /\ IsFiniteSet(U \cap A)
    BY FS_Subset
  <2>2. \A x \in U : f[x] \in Nat /\ v[x] \in Nat
    OBVIOUS
  <2>3. CASE U = {}
    <3>1. U \cap A = {}
      BY <2>3
    <3>2. QED
      BY <2>3, <3>1, SumEmpty
  <2>4. CASE U # {}
    <3>1. PICK x \in U : TRUE
      BY <2>4
    <3>2. SumOver(f, U \ {x}) = SumOver(v, (U \ {x}) \cap A)
      BY <1>1, <3>1
    <3>3. SumOver(f, U) = f[x] + SumOver(f, U \ {x})
      BY <2>1, <2>2, <3>1, SumTake
    <3>4. CASE x \in A
      <4>1. x \in U \cap A /\ (U \cap A) \ {x} = (U \ {x}) \cap A
        BY <3>1, <3>4
      <4>2. SumOver(v, U \cap A) = v[x] + SumOver(v, (U \cap A) \ {x})
        BY <2>1, <2>2, <4>1, SumTake
      <4>3. f[x] = v[x]
        BY <3>1, <3>4
      <4>4. QED
        BY <3>2, <3>3, <4>1, <4>2, <4>3
    <3>5. CASE x \notin A
      <4>1. (U \ {x}) \cap A = U \cap A
        BY <3>5
      <4>2. f[x] = 0
        BY <3>1, <3>5
      <4>3. SumOver(v, U \cap A) \in Nat
        BY <2>1, <2>2, SumTake
      <4>4. QED
        BY <3>2, <3>3, <4>1, <4>2, <4>3
    <3>6. QED
      BY <3>4, <3>5
  <2>5. QED
    BY <2>3, <2>4
<1>2. SUBSET S \subseteq T
  <2>1. \A U \in SUBSET S : (\A V \in SUBSET U : V # U => V \in T) => U \in T
    BY <1>1
  <2> HIDE DEF T
  <2>2. QED
    BY <2>1, SubsetInduction
<1>3. QED
  BY <1>2

\* The sum of bits counts the ones.
LEMMA SumOfBits ==
  ASSUME NEW S, IsFiniteSet(S), NEW A, NEW f, \A x \in S : f[x] = IF x \in A THEN 1 ELSE 0
  PROVE  SumOver(f, S) = Cardinality(S \cap A)
<1> DEFINE T == {U \in SUBSET S : SumOver(f, U) = Cardinality(U \cap A)}
<1>1. ASSUME NEW U \in SUBSET S, \A V \in SUBSET U : V # U => V \in T
      PROVE  U \in T
  <2>1. IsFiniteSet(U) /\ IsFiniteSet(U \cap A)
    BY FS_Subset
  <2>2. \A x \in U : f[x] \in Nat
    OBVIOUS
  <2>3. CASE U = {}
    <3>1. U \cap A = {}
      BY <2>3
    <3>2. QED
      BY <2>3, <3>1, SumEmpty, FS_EmptySet
  <2>4. CASE U # {}
    <3>1. PICK x \in U : TRUE
      BY <2>4
    <3>2. SumOver(f, U \ {x}) = Cardinality((U \ {x}) \cap A)
      BY <1>1, <3>1
    <3>3. SumOver(f, U) = f[x] + SumOver(f, U \ {x})
      BY <2>1, <2>2, <3>1, SumTake
    <3>4. Cardinality(U \cap A) \in Nat
      BY <2>1, FS_CardinalityType
    <3>5. CASE x \in A
      <4>1. x \in U \cap A /\ (U \cap A) \ {x} = (U \ {x}) \cap A
        BY <3>1, <3>5
      <4>2. Cardinality((U \cap A) \ {x}) = Cardinality(U \cap A) - 1
        BY <2>1, <4>1, FS_RemoveElement
      <4>3. f[x] = 1
        BY <3>1, <3>5
      <4>4. QED
        BY <3>2, <3>3, <3>4, <4>1, <4>2, <4>3
    <3>6. CASE x \notin A
      <4>1. (U \ {x}) \cap A = U \cap A
        BY <3>6
      <4>2. f[x] = 0
        BY <3>1, <3>6
      <4>3. QED
        BY <3>2, <3>3, <3>4, <4>1, <4>2
    <3>7. QED
      BY <3>5, <3>6
  <2>5. QED
    BY <2>3, <2>4
<1>2. SUBSET S \subseteq T
  <2>1. \A U \in SUBSET S : (\A V \in SUBSET U : V # U => V \in T) => U \in T
    BY <1>1
  <2> HIDE DEF T
  <2>2. QED
    BY <2>1, SubsetInduction
<1>3. QED
  BY <1>2

\* What a function makes of a finite set is finite, and as large if it maps
\* no two elements alike.
LEMMA FiniteImage ==
  ASSUME NEW S, IsFiniteSet(S), NEW h
  PROVE  /\ IsFiniteSet({h[x] : x \in S})
         /\ (\A x, y \in S : h[x] = h[y] => x = y)
              => Cardinality({h[x] : x \in S}) = Cardinality(S)
<1> DEFINE img == {h[x] : x \in S}
           f == [x \in S |-> h[x]]
<1>1. f \in Surjection(S, img)
  BY DEF Surjection
<1>2. (\A x, y \in S : h[x] = h[y] => x = y) => f \in Injection(S, img)
  BY DEF Injection, IsInjective
<1> HIDE DEF f, img
<1>3. IsFiniteSet(img) /\ (Cardinality(img) = Cardinality(S) <=> f \in Injection(S, img))
  BY <1>1, FS_Surjection
<1>4. QED
  BY <1>2, <1>3 DEF img

\* Summing over different names of the same things.
LEMMA SumRename ==
  ASSUME NEW S, IsFiniteSet(S), NEW h, \A x, y \in S : h[x] = h[y] => x = y,
         NEW g, NEW f, \A x \in S : f[x] \in Nat /\ f[x] = g[h[x]]
  PROVE  SumOver(f, S) = SumOver(g, {h[x] : x \in S})
<1> DEFINE Img(U) == {h[x] : x \in U}
           T == {U \in SUBSET S : SumOver(f, U) = SumOver(g, Img(U))}
<1>1. ASSUME NEW U \in SUBSET S, \A V \in SUBSET U : V # U => V \in T
      PROVE  U \in T
  <2>1. IsFiniteSet(U) /\ IsFiniteSet(Img(U))
    BY FS_Subset, FiniteImage
  <2>2. /\ \A x \in U : f[x] \in Nat
        /\ \A y \in Img(U) : g[y] \in Nat
    OBVIOUS
  <2>3. CASE U = {}
    <3>1. Img(U) = {}
      BY <2>3
    <3>2. QED
      BY <2>3, <3>1, SumEmpty
  <2>4. CASE U # {}
    <3>1. PICK x \in U : TRUE
      BY <2>4
    <3>2. SumOver(f, U \ {x}) = SumOver(g, Img(U \ {x}))
      BY <1>1, <3>1
    <3>3. SumOver(f, U) = f[x] + SumOver(f, U \ {x})
      BY <2>1, <2>2, <3>1, SumTake
    <3>4. h[x] \in Img(U)
      BY <3>1
    <3>5. Img(U \ {x}) = Img(U) \ {h[x]}
      BY <3>1
    <3>6. SumOver(g, Img(U)) = g[h[x]] + SumOver(g, Img(U) \ {h[x]})
      <4> HIDE DEF Img
      <4>1. QED
        BY <2>1, <2>2, <3>4, SumTake
    <3>7. QED
      BY <3>1, <3>2, <3>3, <3>5, <3>6
  <2>5. QED
    BY <2>3, <2>4
<1>2. SUBSET S \subseteq T
  <2>1. \A U \in SUBSET S : (\A V \in SUBSET U : V # U => V \in T) => U \in T
    BY <1>1
  <2> HIDE DEF T
  <2>2. QED
    BY <2>1, SubsetInduction
<1>3. QED
  BY <1>2

\* A sum is at most the number of summands times the largest.
LEMMA SumBounded ==
  ASSUME NEW S, IsFiniteSet(S), NEW f, NEW b \in Nat, \A x \in S : f[x] \in 0..b
  PROVE  SumOver(f, S) <= Cardinality(S) * b
<1> DEFINE T == {U \in SUBSET S : SumOver(f, U) <= Cardinality(U) * b}
<1>1. ASSUME NEW U \in SUBSET S, \A V \in SUBSET U : V # U => V \in T
      PROVE  U \in T
  <2>1. IsFiniteSet(U) /\ \A x \in U : f[x] \in Nat
    BY FS_Subset
  <2>2. CASE U = {}
    BY <2>2, SumEmpty, FS_EmptySet
  <2>3. CASE U # {}
    <3>1. PICK x \in U : TRUE
      BY <2>3
    <3>2. SumOver(f, U \ {x}) <= Cardinality(U \ {x}) * b
      BY <1>1, <3>1
    <3>3. SumOver(f, U) = f[x] + SumOver(f, U \ {x})
      BY <2>1, <3>1, SumTake
    <3>4. SumOver(f, U \ {x}) \in Nat
      <4>1. IsFiniteSet(U \ {x}) /\ \A y \in U \ {x} : f[y] \in Nat
        BY <2>1, FS_Subset
      <4>2. QED
        BY <4>1, SumTake
    <3>5. PICK c \in Nat : c = Cardinality(U \ {x})
      BY <2>1, FS_Subset, FS_CardinalityType
    <3>6. Cardinality(U) = c + 1
      <4>1. Cardinality(U) \in Nat /\ Cardinality(U \ {x}) = Cardinality(U) - 1
        BY <2>1, <3>1, FS_CardinalityType, FS_RemoveElement
      <4>2. QED
        BY <3>5, <4>1
    <3>7. (c + 1) * b = c * b + b
      OBVIOUS
    <3>8. f[x] <= b /\ f[x] \in Nat
      BY <3>1
    <3>9. SumOver(f, U) <= (c + 1) * b
      BY <3>2, <3>3, <3>4, <3>5, <3>7, <3>8
    <3>10. QED
      BY <3>6, <3>9
  <2>4. QED
    BY <2>2, <2>3
<1>2. SUBSET S \subseteq T
  <2>1. \A U \in SUBSET S : (\A V \in SUBSET U : V # U => V \in T) => U \in T
    BY <1>1
  <2> HIDE DEF T
  <2>2. QED
    BY <2>1, SubsetInduction
<1>3. QED
  BY <1>2
-----------------------------------------------------------------------------
\* Division with remainder.
LEMMA Divided ==
  ASSUME NEW M \in Nat \ {0}, NEW a \in Nat
  PROVE  \E q \in Nat : a = q * M + (a % M)
<1> DEFINE T == {n \in Nat : \E q \in Nat : \E r \in 0..M - 1 : n = q * M + r}
<1>1. 0 \in T
  <2>1. 0 = 0 * M + 0 /\ 0 \in 0..M - 1
    OBVIOUS
  <2>2. QED
    BY <2>1
<1>2. ASSUME NEW n \in Nat, n \in T
      PROVE  n + 1 \in T
  <2>1. PICK q \in Nat, r \in 0..M - 1 : n = q * M + r
    BY <1>2
  <2>2. CASE r < M - 1
    <3>1. r + 1 \in 0..M - 1 /\ n + 1 = q * M + (r + 1)
      BY <2>1, <2>2
    <3>2. QED
      BY <3>1
  <2>3. CASE ~(r < M - 1)
    <3>1. (q + 1) * M = q * M + M
      OBVIOUS
    <3>2. n + 1 = (q + 1) * M + 0 /\ 0 \in 0..M - 1
      BY <2>1, <2>3, <3>1
    <3>3. q + 1 \in Nat /\ \E k \in Nat : \E e \in 0..M - 1 : n + 1 = k * M + e
      BY <3>2
    <3>4. QED
      BY <3>3
  <2>4. QED
    BY <2>2, <2>3
<1>3. Nat \subseteq T
  <2>1. \A k \in Nat : k \in T => k + 1 \in T
    BY <1>2
  <2> HIDE DEF T
  <2>2. QED
    BY <1>1, <2>1, NatInductionSet
<1>4. PICK q \in Nat, r \in 0..M - 1 : a = q * M + r
  BY <1>3
<1>5. (q * M + r) % M = r
  OBVIOUS
<1>6. QED
  BY <1>4, <1>5

\* Two sums that differ by a multiple of M are the same modulo M.
LEMMA SameRemainder ==
  ASSUME NEW M \in Nat \ {0}, NEW a \in Nat, NEW b \in Int, NEW q \in Int, b = a + q * M
  PROVE  b % M = a % M
<1>1. PICK p \in Nat : a = p * M + (a % M)
  BY Divided
<1>2. a % M \in 0..M - 1
  OBVIOUS
<1>3. PICK r \in 0..M - 1 : r = a % M
  BY <1>2
<1>4. (p + q) * M = p * M + q * M
  OBVIOUS
<1>5. b = (p + q) * M + r
  BY <1>1, <1>3, <1>4
<1>6. p + q \in Int
  OBVIOUS
<1>7. ((p + q) * M + r) % M = r
  BY <1>6
<1>8. QED
  BY <1>3, <1>5, <1>7

\* The sum modulo M of f[x] for x in S, as the models write it.
SumModOver(M, f, S) ==
  MapThenFoldSet(LAMBDA a, b : (a + b) % M, 0, LAMBDA x : f[x], LAMBDA s : CHOOSE x \in s : TRUE, S)

\* Reducing after every addition or once at the end is the same.
LEMMA ModSum ==
  ASSUME NEW M \in Nat \ {0}, NEW S, IsFiniteSet(S), NEW f, \A x \in S : f[x] \in Nat
  PROVE  SumModOver(M, f, S) = SumOver(f, S) % M
<1> DEFINE Is(g) == g = [s \in SUBSET S |-> IF s = {} THEN 0
                                            ELSE LET x == CHOOSE x \in s : TRUE
                                                 IN  (f[x] + g[s \ {x}]) % M]
           R == 0..M - 1
           pick == [U \in SUBSET S |-> ElementOf(U)]
           step == [p \in S \X R |-> (f[p[1]] + p[2]) % M]
<1>1. \A U \in SUBSET S : U # {} => pick[U] \in U /\ ElementOf(U) \in U
  BY DEF ElementOf
<1>2. \A x \in S, w \in R : step[<<x, w>>] \in R /\ step[<<x, w>>] = (f[x] + w) % M
  <2> SUFFICES ASSUME NEW x \in S, NEW w \in R
               PROVE  step[<<x, w>>] \in R /\ step[<<x, w>>] = (f[x] + w) % M
    OBVIOUS
  <2>1. f[x] + w \in Int
    OBVIOUS
  <2>2. (f[x] + w) % M \in R
    BY <2>1
  <2>3. QED
    BY <2>2
<1>3. PICK h : IsFold(S, R, 0, pick, step, h)
  <2>1. 0 \in R
    OBVIOUS
  <2> HIDE DEF pick, step, Is, R
  <2>2. FoldOver(S, R, 0, pick, step)
    BY <1>1, <1>2, <2>1 DEF FoldOver
  <2>3. QED
    BY <2>2, FoldExists
<1>4. /\ h \in [SUBSET S -> R] /\ h[{}] = 0
      /\ \A U \in SUBSET S : U # {} => h[U] = step[<<pick[U], h[U \ {pick[U]}]>>]
  BY <1>3 DEF IsFold
<1>5. \A U \in SUBSET S : U # {} => h[U] = (f[ElementOf(U)] + h[U \ {ElementOf(U)}]) % M
  <2> TAKE U \in SUBSET S
  <2> HAVE U # {}
  <2>1. pick[U] = ElementOf(U) /\ ElementOf(U) \in S
    BY <1>1
  <2>2. h[U \ {ElementOf(U)}] \in R
    BY <1>4
  <2> HIDE DEF pick, step, R
  <2>3. QED
    BY <1>2, <1>4, <2>1, <2>2
<1>6. h = [s \in SUBSET S |-> IF s = {} THEN 0 ELSE (f[ElementOf(s)] + h[s \ {ElementOf(s)}]) % M]
  BY <1>4, <1>5
<1>7. Is(h)
  BY <1>6 DEF ElementOf
<1>8. SumModOver(M, f, S) = (CHOOSE g : Is(g))[S]
  BY DEF SumModOver, MapThenFoldSet
<1>9. Is(CHOOSE g : Is(g))
  <2> HIDE DEF Is
  <2>1. QED
    BY <1>7
<1>10. PICK k : Is(k) /\ SumModOver(M, f, S) = k[S]
  BY <1>8, <1>9
<1>11. PICK sum : IsSum(f, S, sum) /\ SumOver(f, S) = sum[S]
  BY SumIter
<1> DEFINE G == {U \in SUBSET S : k[U] = sum[U] % M}
<1>12. ASSUME NEW U \in SUBSET S, \A V \in SUBSET U : V # U => V \in G
       PROVE  U \in G
  <2>1. CASE U = {}
    <3>1. k[U] = 0 /\ sum[U] = 0
      BY <1>10, <1>11, <2>1 DEF IsSum
    <3>2. QED
      BY <3>1
  <2>2. CASE U # {}
    <3> DEFINE c == ElementOf(U)
    <3>1. c \in U
      BY <1>1, <2>2
    <3>2. k[U \ {c}] = sum[U \ {c}] % M
      BY <1>12, <3>1
    <3>3. k[U] = (f[c] + k[U \ {c}]) % M
      BY <1>10, <2>2 DEF ElementOf
    <3>4. sum[U] = f[c] + sum[U \ {c}]
      BY <1>11, <2>2 DEF IsSum
    <3>5. PICK a \in Nat, b \in Nat : a = f[c] /\ b = sum[U \ {c}]
      BY <1>11, <3>1 DEF IsSum
    <3>6. PICK q \in Nat : b = q * M + (b % M)
      BY Divided
    <3>7. PICK r \in R : r = b % M
      OBVIOUS
    <3>8. PICK t \in Int, u \in Nat, i \in Int : t = a + b /\ u = a + r /\ i = q * M
      OBVIOUS
    <3> HIDE DEF c
    <3>9. (a + b) % M = (a + r) % M
      <4>1. t = u + i
        BY <3>6, <3>7, <3>8
      <4>2. t = u + q * M
        BY <4>1, <3>8
      <4>3. M \in Nat \ {0} /\ u \in Nat /\ t \in Int /\ q \in Int
        OBVIOUS
      <4> HIDE DEF R, pick, step, Is, G
      <4>5. t % M = u % M
        BY <4>2, <4>3, SameRemainder, Zenon
      <4>6. QED
        BY <4>5, <3>8
    <3>10. QED
      BY <3>2, <3>3, <3>4, <3>5, <3>7, <3>9
  <2>3. QED
    BY <2>1, <2>2
<1>13. SUBSET S \subseteq G
  <2>1. \A U \in SUBSET S : (\A V \in SUBSET U : V # U => V \in G) => U \in G
    BY <1>12
  <2> HIDE DEF G
  <2>2. QED
    BY <2>1, SubsetInduction
<1>14. QED
  BY <1>10, <1>11, <1>13

\* Rows masked by r, the value v added for the rows of A.
MaskedBy(M, S, A, v, r, ot) ==
  \A x \in S : /\ v[x] \in Nat /\ r[x] \in Nat
              /\ ot[x] = IF x \in A THEN (v[x] + r[x]) % M ELSE r[x]

\* Their sum is that of the masks and of A's values, up to multiples of M.
LEMMA MaskedRows ==
  ASSUME NEW M \in Nat \ {0}, NEW S, IsFiniteSet(S), NEW A, NEW v, NEW r, NEW ot,
         MaskedBy(M, S, A, v, r, ot)
  PROVE  \E q \in Nat : SumOver(ot, S) + q * M = SumOver(r, S) + SumOver(v, S \cap A)
<1> USE DEF MaskedBy
<1>1. \A x \in S : ot[x] \in Nat
  <2> SUFFICES ASSUME NEW x \in S PROVE ot[x] \in Nat
    OBVIOUS
  <2>1. v[x] + r[x] \in Nat /\ r[x] \in Nat
    OBVIOUS
  <2>2. (v[x] + r[x]) % M \in 0..M - 1
    BY <2>1
  <2>3. QED
    BY <2>1, <2>2
<1> DEFINE T == {U \in SUBSET S :
                   \E q \in Nat : SumOver(ot, U) + q * M = SumOver(r, U) + SumOver(v, U \cap A)}
<1>2. ASSUME NEW U \in SUBSET S, \A V \in SUBSET U : V # U => V \in T
      PROVE  U \in T
  <2>1. IsFiniteSet(U) /\ IsFiniteSet(U \cap A)
    BY FS_Subset
  <2>2. CASE U = {}
    <3>1. U \cap A = {}
      BY <2>2
    <3>2. SumOver(ot, U) + 0 * M = SumOver(r, U) + SumOver(v, U \cap A)
      BY <2>2, <3>1, SumEmpty
    <3>3. QED
      BY <3>2
  <2>3. CASE U # {}
    <3>1. PICK x \in U : TRUE
      BY <2>3
    <3> DEFINE V == U \ {x}
    <3>2. PICK q \in Nat : SumOver(ot, V) + q * M = SumOver(r, V) + SumOver(v, V \cap A)
      BY <1>2, <3>1
    <3>3. /\ SumOver(ot, U) = ot[x] + SumOver(ot, V)
          /\ SumOver(r, U) = r[x] + SumOver(r, V)
      BY <1>1, <2>1, <3>1, SumTake
    <3>4. IsFiniteSet(V) /\ IsFiniteSet(V \cap A)
      BY <2>1, FS_Subset
    <3>5. PICK a \in Nat, b \in Nat, c \in Nat :
            a = SumOver(ot, V) /\ b = SumOver(r, V) /\ c = SumOver(v, V \cap A)
      <4>1. SumOver(ot, V) \in Nat /\ SumOver(r, V) \in Nat /\ SumOver(v, V \cap A) \in Nat
        BY <1>1, <3>4, SumTake
      <4>2. QED
        BY <4>1
    <3>6. PICK y \in Nat, z \in Nat, o \in Nat : y = v[x] /\ z = r[x] /\ o = ot[x]
      BY <1>1, <3>1
    <3>7. CASE x \in A
      <4>1. x \in U \cap A /\ (U \cap A) \ {x} = V \cap A
        BY <3>1, <3>7
      <4>2. SumOver(v, U \cap A) = y + c
        <5>1. \A w \in U \cap A : v[w] \in Nat
          OBVIOUS
        <5>2. SumOver(v, U \cap A) = v[x] + SumOver(v, (U \cap A) \ {x})
          BY <2>1, <4>1, <5>1, SumTake
        <5> HIDE DEF V
        <5>3. QED
          BY <3>5, <3>6, <4>1, <5>2
      <4>3. PICK p \in Nat : y + z = p * M + o
        <5>1. o = (y + z) % M
          BY <3>1, <3>6, <3>7
        <5>2. y + z \in Nat
          OBVIOUS
        <5>3. QED
          BY <5>1, <5>2, Divided
      <4>4. (p + q) * M = p * M + q * M
        OBVIOUS
      <4> HIDE DEF V
      <4>5. a + q * M = b + c
        BY <3>2, <3>5
      <4>6. (o + a) + (p + q) * M = (z + b) + (y + c)
        <5>1. PICK i \in Int, j \in Int, k \in Int : i = p * M /\ j = q * M /\ k = (p + q) * M
          OBVIOUS
        <5>2. y + z = i + o /\ a + j = b + c /\ k = i + j
          BY <4>3, <4>4, <4>5, <5>1
        <5>3. (o + a) + k = (z + b) + (y + c)
          BY <5>2
        <5>4. QED
          BY <5>1, <5>3
      <4>7. SumOver(ot, U) = o + a /\ SumOver(r, U) = z + b
        BY <3>3, <3>5, <3>6
      <4>8. p + q \in Nat /\ SumOver(ot, U) + (p + q) * M = SumOver(r, U) + SumOver(v, U \cap A)
        BY <4>2, <4>6, <4>7
      <4>9. QED
        BY <4>8
    <3>8. CASE x \notin A
      <4>1. V \cap A = U \cap A
        BY <3>8
      <4>2. o = z
        BY <3>1, <3>6, <3>8
      <4> HIDE DEF V
      <4>3. a + q * M = b + c
        BY <3>2, <3>5
      <4>4. SumOver(ot, U) = o + a /\ SumOver(r, U) = z + b /\ SumOver(v, U \cap A) = c
        BY <3>3, <3>5, <3>6, <4>1
      <4>5. (o + a) + q * M = (z + b) + c
        <5>1. PICK j \in Int : j = q * M
          OBVIOUS
        <5>2. QED
          BY <4>2, <4>3, <5>1
      <4>6. SumOver(ot, U) + q * M = SumOver(r, U) + SumOver(v, U \cap A)
        BY <4>4, <4>5
      <4>7. QED
        BY <4>6
    <3>9. QED
      BY <3>7, <3>8
  <2>4. QED
    BY <2>2, <2>3
<1>3. SUBSET S \subseteq T
  <2>1. \A U \in SUBSET S : (\A V \in SUBSET U : V # U => V \in T) => U \in T
    BY <1>2
  <2> HIDE DEF T
  <2>2. QED
    BY <2>1, SubsetInduction
<1>4. S \in T
  BY <1>3
<1>5. QED
  BY <1>4

\* Taking the masks off again leaves the sum of A's values, if it is small
\* enough for the ring.
LEMMA Unmasked ==
  ASSUME NEW M \in Nat \ {0}, NEW S, IsFiniteSet(S), NEW A, NEW v, NEW r, NEW ot,
         MaskedBy(M, S, A, v, r, ot),
         SumOver(v, S \cap A) < M
  PROVE  (SumModOver(M, ot, S) + M - SumModOver(M, r, S)) % M = SumOver(v, S \cap A)
<1>1. \A x \in S : ot[x] \in Nat
  <2> USE DEF MaskedBy
  <2> SUFFICES ASSUME NEW x \in S PROVE ot[x] \in Nat
    OBVIOUS
  <2>1. v[x] + r[x] \in Nat /\ r[x] \in Nat
    OBVIOUS
  <2>2. (v[x] + r[x]) % M \in 0..M - 1
    BY <2>1
  <2>3. QED
    BY <2>1, <2>2
<1>2. PICK q \in Nat : SumOver(ot, S) + q * M = SumOver(r, S) + SumOver(v, S \cap A)
  BY MaskedRows
<1>3. PICK a \in Nat, b \in Nat, c \in Nat :
        a = SumOver(ot, S) /\ b = SumOver(r, S) /\ c = SumOver(v, S \cap A)
  <2>1. IsFiniteSet(S \cap A)
    BY FS_Subset
  <2>2. \A x \in S : v[x] \in Nat /\ r[x] \in Nat
    BY DEF MaskedBy
  <2>3. SumOver(ot, S) \in Nat /\ SumOver(r, S) \in Nat /\ SumOver(v, S \cap A) \in Nat
    BY <1>1, <2>1, <2>2, SumTake
  <2>4. QED
    BY <2>3
<1>4. SumModOver(M, ot, S) = a % M /\ SumModOver(M, r, S) = b % M
  <2>1. \A x \in S : r[x] \in Nat
    BY DEF MaskedBy
  <2>2. QED
    BY <1>1, <1>3, <2>1, ModSum
<1>5. PICK d \in Nat, e \in Nat : a = d * M + (a % M) /\ b = e * M + (b % M)
  BY Divided
<1>6. PICK x \in 0..M - 1, y \in 0..M - 1 : x = a % M /\ y = b % M
  OBVIOUS
<1>7. a + q * M = b + c
  BY <1>2, <1>3
<1>8. x + M - y = (((e - d) - q) + 1) * M + c
  <2>1. PICK i \in Int, j \in Int, k \in Int : i = d * M /\ j = e * M /\ k = q * M
    OBVIOUS
  <2>2. (((e - d) - q) + 1) * M = ((j - i) - k) + M
    BY <2>1
  <2>3. a = i + x /\ b = j + y /\ a + k = b + c
    BY <1>5, <1>6, <1>7, <2>1
  <2>4. QED
    BY <2>2, <2>3
<1>9. c \in 0..M - 1 /\ ((e - d) - q) + 1 \in Int
  BY <1>3
<1>10. ((((e - d) - q) + 1) * M + c) % M = c
  BY <1>9
<1>11. QED
  BY <1>3, <1>4, <1>6, <1>8, <1>10

\* What two concatenated lists hold.
LEMMA ToSetConcat ==
  ASSUME NEW A, NEW s \in Seq(A), NEW t \in Seq(A)
  PROVE  ToSet(s \o t) = ToSet(s) \cup ToSet(t)
<1>1. Len(s) \in Nat /\ Len(t) \in Nat /\ DOMAIN s = 1..Len(s) /\ DOMAIN t = 1..Len(t)
  OBVIOUS
<1>2. PICK k \in Nat, l \in Nat : k = Len(s) /\ l = Len(t)
  BY <1>1
<1>3. PICK u : u = s \o t
  OBVIOUS
<1>4. DOMAIN u = 1..k + l
  <2>1. u \in Seq(A) /\ Len(u) = Len(s) + Len(t)
    BY <1>3, ConcatProperties
  <2>2. DOMAIN u = 1..Len(u)
    BY <2>1
  <2>3. QED
    BY <1>2, <2>1, <2>2
<1>5. \A i \in 1..k + l : u[i] = IF i <= k THEN s[i] ELSE t[i - k]
  BY <1>2, <1>3, ConcatProperties
<1>6. \A i \in 1..k : u[i] = s[i] /\ i \in 1..k + l
  BY <1>5
<1>7. \A i \in 1..l : u[k + i] = t[i] /\ k + i \in 1..k + l
  <2> TAKE i \in 1..l
  <2>1. PICK j \in 1..k + l : j = k + i /\ ~(j <= k) /\ j - k = i
    OBVIOUS
  <2>2. u[j] = t[j - k]
    BY <1>5, <2>1
  <2>3. QED
    BY <2>1, <2>2
<1>8. \A i \in 1..k + l : \/ i \in 1..k /\ u[i] = s[i]
                          \/ \E j \in 1..l : u[i] = t[j]
  <2> TAKE i \in 1..k + l
  <2>1. CASE i <= k
    BY <1>5, <2>1
  <2>2. CASE ~(i <= k)
    <3>1. i - k \in 1..l
      BY <2>2
    <3>2. QED
      BY <1>5, <2>2, <3>1
  <2>3. QED
    BY <2>1, <2>2
<1> DEFINE D == 1..k + l
           K == 1..k
           L == 1..l
<1>9. /\ \A i \in K : u[i] = s[i] /\ i \in D
      /\ \A i \in L : \E j \in D : u[j] = t[i]
      /\ \A i \in D : (\E j \in K : u[i] = s[j]) \/ \E j \in L : u[i] = t[j]
  BY <1>6, <1>7, <1>8
<1>10. DOMAIN u = D /\ DOMAIN s = K /\ DOMAIN t = L
  BY <1>1, <1>2, <1>4
<1> HIDE DEF D, K, L
<1>11. {u[i] : i \in D} = {s[i] : i \in K} \cup {t[i] : i \in L}
  BY <1>9
<1>12. QED
  BY <1>3, <1>10, <1>11 DEF ToSet

\* A non-empty finite set of numbers has a greatest one.
LEMMA Greatest ==
  ASSUME NEW S, IsFiniteSet(S), S # {}, NEW f, \A x \in S : f[x] \in Nat
  PROVE  \E x \in S : \A y \in S : f[y] <= f[x]
<1> DEFINE T == {U \in SUBSET S : U # {} => \E x \in U : \A y \in U : f[y] <= f[x]}
<1>1. ASSUME NEW U \in SUBSET S, \A V \in SUBSET U : V # U => V \in T
      PROVE  U \in T
  <2>1. CASE U = {}
    BY <2>1
  <2>2. CASE U # {}
    <3>1. PICK u \in U : TRUE
      BY <2>2
    <3>2. CASE U \ {u} = {}
      BY <3>1, <3>2
    <3>3. CASE U \ {u} # {}
      <4>1. U \ {u} \in T
        BY <1>1, <3>1
      <4>2. PICK x \in U \ {u} : \A y \in U \ {u} : f[y] <= f[x]
        BY <3>3, <4>1
      <4>3. f[x] \in Nat /\ f[u] \in Nat /\ \A y \in U : f[y] \in Nat
        BY <3>1, <4>2
      <4>4. CASE f[u] <= f[x]
        BY <4>2, <4>4
      <4>5. CASE ~(f[u] <= f[x])
        <5>1. \A y \in U : f[y] <= f[u]
          BY <4>2, <4>3, <4>5
        <5>2. QED
          BY <3>1, <5>1
      <4>6. QED
        BY <4>4, <4>5
    <3>4. QED
      BY <3>2, <3>3
  <2>3. QED
    BY <2>1, <2>2
<1>2. SUBSET S \subseteq T
  <2>1. \A U \in SUBSET S : (\A V \in SUBSET U : V # U => V \in T) => U \in T
    BY <1>1
  <2> HIDE DEF T
  <2>2. QED
    BY <2>1, SubsetInduction
<1>3. S \in T
  BY <1>2
<1>4. QED
  BY <1>3
-----------------------------------------------------------------------------
\* Quotient and remainder.
LEMMA Quotient ==
  ASSUME NEW M \in Nat \ {0}, NEW a \in Nat
  PROVE  \E q \in Nat, r \in 0..M - 1 : a = q * M + r /\ a \div M = q
<1>1. PICK q \in Nat : a = q * M + (a % M)
  BY Divided
<1>2. a % M \in 0..M - 1
  OBVIOUS
<1>3. PICK r \in 0..M - 1 : r = a % M
  BY <1>2
<1>4. a = q * M + r
  BY <1>1, <1>3
<1>5. (q * M + r) \div M = q
  OBVIOUS
<1>6. QED
  BY <1>4, <1>5

\* Multiples in order.
LEMMA Multiples ==
  ASSUME NEW M \in Nat \ {0}, NEW a \in Nat, NEW b \in Nat, a * M < (b + 1) * M
  PROVE  a <= b
<1> SUFFICES ASSUME ~(a <= b) PROVE FALSE
  OBVIOUS
<1>1. PICK d \in Nat : a = (b + 1) + d
  <2>1. a - (b + 1) \in Nat /\ a = (b + 1) + (a - (b + 1))
    OBVIOUS
  <2>2. QED
    BY <2>1
<1>2. ((b + 1) + d) * M = (b + 1) * M + d * M
  OBVIOUS
<1>3. d * M \in Nat /\ (b + 1) * M \in Nat
  OBVIOUS
<1>4. PICK x \in Nat, y \in Nat : x = d * M /\ y = (b + 1) * M
  BY <1>3
<1>5. y + x < y
  BY <1>1, <1>2, <1>4
<1>6. QED
  BY <1>5

\* The lesser of two numbers.
LEMMA MinOfTwo ==
  ASSUME NEW a \in Int, NEW b \in Int
  PROVE  Min({a, b}) = IF a <= b THEN a ELSE b
<1> DEFINE m == IF a <= b THEN a ELSE b
<1>1. m \in {a, b} /\ \A y \in {a, b} : m <= y
  OBVIOUS
<1>2. \A x \in {a, b} : (\A y \in {a, b} : x <= y) => x = m
  OBVIOUS
<1>3. QED
  BY <1>1, <1>2 DEF Min

\* Two lists without repetition that have nothing in common make one.
LEMMA InjectiveConcat ==
  ASSUME NEW A, NEW s \in Seq(A), NEW t \in Seq(A), IsInjective(s), IsInjective(t),
         ToSet(s) \cap ToSet(t) = {}
  PROVE  IsInjective(s \o t)
<1>1. PICK k \in Nat, l \in Nat : k = Len(s) /\ l = Len(t) /\ DOMAIN s = 1..k /\ DOMAIN t = 1..l
  <2>1. Len(s) \in Nat /\ Len(t) \in Nat /\ DOMAIN s = 1..Len(s) /\ DOMAIN t = 1..Len(t)
    OBVIOUS
  <2>2. QED
    BY <2>1
<1>2. PICK u : u = s \o t
  OBVIOUS
<1>3. DOMAIN u = 1..k + l /\ \A i \in 1..k + l : u[i] = IF i <= k THEN s[i] ELSE t[i - k]
  <2>1. /\ u \in Seq(A) /\ Len(u) = Len(s) + Len(t)
        /\ \A i \in 1..Len(s) + Len(t) : u[i] = IF i <= Len(s) THEN s[i] ELSE t[i - Len(s)]
    BY <1>2, ConcatProperties
  <2>2. DOMAIN u = 1..Len(u)
    BY <2>1
  <2>3. QED
    BY <1>1, <2>1, <2>2
<1>4. \A i \in 1..k, j \in 1..l : s[i] # t[j]
  BY <1>1 DEF ToSet
<1>5. ASSUME NEW i \in 1..k + l, NEW j \in 1..k + l, u[i] = u[j]
      PROVE  i = j
  <2>1. CASE i <= k /\ j <= k
    <3>1. i \in 1..k /\ j \in 1..k /\ s[i] = s[j]
      BY <1>3, <1>5, <2>1
    <3>2. QED
      BY <1>1, <3>1 DEF IsInjective
  <2>2. CASE i <= k /\ ~(j <= k)
    <3>1. i \in 1..k /\ j - k \in 1..l /\ s[i] = t[j - k]
      BY <1>3, <1>5, <2>2
    <3>2. QED
      BY <1>4, <3>1
  <2>3. CASE ~(i <= k) /\ j <= k
    <3>1. j \in 1..k /\ i - k \in 1..l /\ s[j] = t[i - k]
      BY <1>3, <1>5, <2>3
    <3>2. QED
      BY <1>4, <3>1
  <2>4. CASE ~(i <= k) /\ ~(j <= k)
    <3>1. i - k \in 1..l /\ j - k \in 1..l /\ t[i - k] = t[j - k]
      BY <1>3, <1>5, <2>4
    <3>2. i - k = j - k
      BY <1>1, <3>1 DEF IsInjective
    <3>3. QED
      BY <3>2
  <2>5. QED
    BY <2>1, <2>2, <2>3, <2>4
<1>6. QED
  BY <1>2, <1>3, <1>5 DEF IsInjective

\* A list turned round holds the same, each element as often.
LEMMA Reversed ==
  ASSUME NEW A, NEW s \in Seq(A)
  PROVE  ToSet(Reverse(s)) = ToSet(s) /\ (IsInjective(s) => IsInjective(Reverse(s)))
<1>1. PICK n \in Nat : n = Len(s) /\ DOMAIN s = 1..n
  <2>1. Len(s) \in Nat /\ DOMAIN s = 1..Len(s)
    OBVIOUS
  <2>2. QED
    BY <2>1
<1>2. PICK r : r = Reverse(s)
  OBVIOUS
<1>3. r = [i \in 1..n |-> s[(n - i) + 1]]
  BY <1>1, <1>2 DEF Reverse
<1>4. \A i \in 1..n : (n - i) + 1 \in 1..n /\ (n - ((n - i) + 1)) + 1 = i
  OBVIOUS
<1>5. ToSet(r) = ToSet(s)
  <2>1. DOMAIN r = 1..n
    BY <1>3
  <2>2. \A i \in 1..n : \E j \in 1..n : r[i] = s[j]
    BY <1>3, <1>4
  <2>3. \A i \in 1..n : \E j \in 1..n : s[i] = r[j]
    <3>1. TAKE i \in 1..n
    <3>2. r[(n - i) + 1] = s[(n - ((n - i) + 1)) + 1]
      BY <1>3, <1>4
    <3>3. r[(n - i) + 1] = s[i]
      BY <1>4, <3>2
    <3>4. PICK k : k = (n - i) + 1
      OBVIOUS
    <3>5. k \in 1..n /\ s[i] = r[k]
      BY <1>4, <3>3, <3>4
    <3>6. QED
      BY <3>5
  <2>4. ToSet(r) = {r[i] : i \in 1..n} /\ ToSet(s) = {s[i] : i \in 1..n}
    BY <1>1, <2>1 DEF ToSet
  <2>5. {r[i] : i \in 1..n} = {s[i] : i \in 1..n}
    <3> DEFINE I == 1..n
    <3>1. \A i \in I : \E j \in I : r[i] = s[j]
      BY <2>2
    <3>2. \A i \in I : \E j \in I : s[i] = r[j]
      BY <2>3
    <3> HIDE DEF I
    <3>3. \A x : (\E i \in I : x = r[i]) <=> (\E i \in I : x = s[i])
      BY <3>1, <3>2
    <3>4. \A x : x \in {r[i] : i \in I} <=> x \in {s[i] : i \in I}
      BY <3>3
    <3>5. {r[i] : i \in I} = {s[i] : i \in I}
      BY <3>4
    <3>6. QED
      BY <3>5 DEF I
  <2>6. QED
    BY <2>4, <2>5
<1>6. ASSUME IsInjective(s) PROVE IsInjective(r)
  <2> SUFFICES ASSUME NEW i \in 1..n, NEW j \in 1..n, r[i] = r[j]
               PROVE  i = j
    BY <1>3 DEF IsInjective
  <2>1. s[(n - i) + 1] = s[(n - j) + 1]
    BY <1>3
  <2>2. (n - i) + 1 = (n - j) + 1
    BY <1>1, <1>4, <1>6, <2>1 DEF IsInjective
  <2>3. QED
    BY <2>2
<1>7. QED
  BY <1>2, <1>5, <1>6

\* Max picks an element.
LEMMA MaxPicks ==
  ASSUME NEW n \in Nat, NEW U \in SUBSET (1..n), U # {}
  PROVE  Max(U) \in U
<1>1. IsFiniteSet(U)
  <2>1. IsFiniteSet(1..n)
    BY FS_Interval
  <2>2. QED
    BY <2>1, FS_Subset
<1> DEFINE f == [x \in U |-> x]
<1>2. PICK x \in U : \A y \in U : f[y] <= f[x]
  <2>1. \A x \in U : f[x] \in Nat
    OBVIOUS
  <2> HIDE DEF f
  <2>2. QED
    BY <1>1, <2>1, Greatest
<1>3. \A y \in U : x >= y
  BY <1>2
<1>4. QED
  BY <1>3 DEF Max

\* The first i of the numbers from one on, and the largest of them.
LEMMA PrefixMax ==
  ASSUME NEW i \in Nat, i # 0
  PROVE  Max(1..i) = i /\ (1..i) \ {i} = 1..i - 1
<1>1. i \in 1..i /\ \A y \in 1..i : i >= y
  OBVIOUS
<1>2. Max(1..i) = i
  <2>1. \A x \in 1..i : (\A y \in 1..i : x >= y) => x = i
    BY <1>1
  <2>2. QED
    BY <1>1, <2>1 DEF Max
<1>3. QED
  BY <1>2

\* A loop over 1..n, from base on: step gives the value after element i.
IsRun(n, W, base, step, h) ==
  /\ h \in [SUBSET (1..n) -> W]
  /\ h[{}] = base
  /\ \A U \in SUBSET (1..n) : U # {} => h[U] = step[<<Max(U), h[U \ {Max(U)}]>>]

\* A loop over a list of n elements goes from one value to the next; this is
\* how a fold over its positions, the last one first, runs through them.
LEMMA RunExists ==
  ASSUME NEW n \in Nat, NEW W, NEW base \in W,
         NEW step, \A i \in 1..n : \A v \in W : step[<<i, v>>] \in W
  PROVE  \E h : IsRun(n, W, base, step, h)
<1> DEFINE S == 1..n
           pick == [U \in SUBSET S |-> Max(U)]
<1>1. \A U \in SUBSET S : U # {} => Max(U) \in U /\ pick[U] = Max(U)
  BY MaxPicks
<1>2. IsFiniteSet(S)
  BY FS_Interval
<1>3. FoldOver(S, W, base, pick, step)
  BY <1>1, <1>2 DEF FoldOver
<1> HIDE DEF pick
<1>4. PICK h : IsFold(S, W, base, pick, step, h)
  BY <1>3, FoldExists
<1>5. h \in [SUBSET S -> W] /\ h[{}] = base
      /\ \A U \in SUBSET S : U # {} => h[U] = step[<<pick[U], h[U \ {pick[U]}]>>]
  BY <1>4 DEF IsFold
<1>6. \A U \in SUBSET S : U # {} => h[U] = step[<<Max(U), h[U \ {Max(U)}]>>]
  BY <1>1, <1>5
<1>7. QED
  BY <1>5, <1>6 DEF IsRun

\* Appending a new element keeps a list without repetition.
LEMMA AppendNew ==
  ASSUME NEW A, NEW s \in Seq(A), NEW c \in A, IsInjective(s), c \notin ToSet(s)
  PROVE  /\ Append(s, c) \in Seq(A) /\ IsInjective(Append(s, c)) /\ Len(Append(s, c)) = Len(s) + 1
         /\ \A k \in 1..Len(s) : Append(s, c)[k] = s[k]
<1>1. PICK l \in Nat : l = Len(s) /\ DOMAIN s = 1..l
  BY Len(s) \in Nat, DOMAIN s = 1..Len(s)
<1>2. PICK u \in Seq(A) : u = Append(s, c) /\ Len(u) = l + 1 /\ DOMAIN u = 1..l + 1
                          /\ u[l + 1] = c /\ \A k \in 1..l : u[k] = s[k]
  <2>1. /\ Append(s, c) \in Seq(A) /\ Len(Append(s, c)) = Len(s) + 1
        /\ \A k \in 1..Len(s) : Append(s, c)[k] = s[k]
        /\ Append(s, c)[Len(s) + 1] = c
    BY AppendProperties
  <2>2. DOMAIN Append(s, c) = 1..Len(s) + 1
    BY <2>1
  <2>3. QED
    BY <1>1, <2>1, <2>2
<1>3. \A k \in 1..l : s[k] # c
  BY <1>1 DEF ToSet
<1>4. \A i, j \in 1..l : s[i] = s[j] => i = j
  BY <1>1 DEF IsInjective
<1>5. \A i, j \in 1..l + 1 : u[i] = u[j] => i = j
  BY <1>2, <1>3, <1>4
<1>6. QED
  BY <1>1, <1>2, <1>5 DEF IsInjective
-----------------------------------------------------------------------------
(***************************************************************************)
(* Lists of n entries: their parts, and what FlattenSeq makes of them.     *)
(***************************************************************************)
-----------------------------------------------------------------------------
\* A list of n entries.
List(s, n) == s = [k \in 1..n |-> s[k]]

\* Such a list is a sequence.
LEMMA ListFacts ==
  ASSUME NEW n \in Nat, NEW s, List(s, n)
  PROVE  DOMAIN s = 1..n /\ Len(s) = n /\ s \in Seq({s[k] : k \in 1..n})
<1> DEFINE A == {s[k] : k \in 1..n}
<1>1. PICK t : t = s /\ t = [k \in 1..n |-> s[k]]
  BY DEF List
<1>2. \A k \in 1..n : s[k] \in A
  OBVIOUS
<1> HIDE DEF A
<1>3. t \in [1..n -> A]
  BY <1>1, <1>2
<1>4. t \in Seq(A) /\ Len(t) = n /\ DOMAIN t = 1..n
  BY <1>3
<1>5. QED
  BY <1>1, <1>4 DEF A

\* A part of a list.
Slice(u, s, skipped, n) == u = SubSeq(s, skipped + 1, skipped + n)

\* Its entries are those of the list.
LEMMA PartList ==
  ASSUME NEW n \in Nat, NEW s, List(s, n), NEW skipped \in Nat, NEW m \in Nat, skipped + m <= n,
         NEW u, Slice(u, s, skipped, m)
  PROVE  List(u, m) /\ \A k \in 1..m : u[k] = s[skipped + k]
<1> DEFINE A == {s[k] : k \in 1..n}
<1>1. s \in Seq(A) /\ Len(s) = n
  BY ListFacts
<1> HIDE DEF A
<1>2. PICK i \in Nat, j \in Nat : i = skipped + 1 /\ j = skipped + m /\ j - i + 1 = m
  <2>1. skipped + 1 \in Nat /\ skipped + m \in Nat /\ (skipped + m) - (skipped + 1) + 1 = m
    OBVIOUS
  <2>2. QED
    BY <2>1
<1>3. u = SubSeq(s, i, j)
  BY <1>2 DEF Slice
<1>4. SubSeq(s, i, j) = [k \in 1..m |-> s[skipped + k]]
  <2>1. \A k \in 1..m : i + k - 1 = skipped + k
    BY <1>2
  <2>2. SubSeq(s, i, j) = [k \in 1..(1 + j - i) |-> s[k + i - 1]]
    BY <1>1
  <2>3. 1 + j - i = m /\ \A k \in 1..m : k + i - 1 = skipped + k
    BY <1>2
  <2>4. QED
    BY <2>2, <2>3
<1>5. PICK v : v = u /\ v = [k \in 1..m |-> s[skipped + k]]
  BY <1>3, <1>4
<1>6. QED
  BY <1>5 DEF List

\* A list after another.
JoinedTo(u, s, t) == u = s \o t

\* Its entries are those of either list.
LEMMA ConcatList ==
  ASSUME NEW a \in Nat, NEW b \in Nat, NEW s, List(s, a), NEW t, List(t, b),
         NEW u, JoinedTo(u, s, t)
  PROVE  /\ List(u, a + b)
         /\ \A k \in 1..a : u[k] = s[k]
         /\ \A k \in 1..b : u[a + k] = t[k]
<1> DEFINE A == {s[k] : k \in 1..a} \cup {t[k] : k \in 1..b}
<1>1. (\A k \in 1..a : s[k] \in A) /\ (\A k \in 1..b : t[k] \in A)
  OBVIOUS
<1> HIDE DEF A
<1>2. s \in [1..a -> A] /\ t \in [1..b -> A]
  BY <1>1 DEF List
<1>3. s \in Seq(A) /\ Len(s) = a /\ t \in Seq(A) /\ Len(t) = b
  BY <1>2
<1>4. u \in Seq(A) /\ Len(u) = a + b
  <2>1. s \o t \in Seq(A) /\ Len(s \o t) = Len(s) + Len(t)
    BY <1>3, ConcatProperties
  <2>2. QED
    BY <1>3, <2>1 DEF JoinedTo
<1>5. u = [k \in 1..a + b |-> u[k]]
  <2>1. u \in [1..Len(u) -> A]
    BY <1>4, LenProperties
  <2>2. QED
    BY <1>4, <2>1
<1>9. \A k \in 1..a + b : u[k] = IF k <= a THEN s[k] ELSE t[k - a]
  <2>1. \A k \in 1..Len(s) + Len(t) : (s \o t)[k] = IF k <= Len(s) THEN s[k] ELSE t[k - Len(s)]
    BY <1>3, ConcatProperties
  <2>2. \A k \in 1..a + b : (s \o t)[k] = IF k <= a THEN s[k] ELSE t[k - a]
    BY <1>3, <2>1
  <2>3. PICK v : v = s \o t /\ v = u
    BY DEF JoinedTo
  <2>4. QED
    BY <2>2, <2>3
<1>6. \A k \in 1..a : u[k] = s[k]
  BY <1>9
<1>7. \A k \in 1..b : u[a + k] = t[k]
  <2>1. TAKE k \in 1..b
  <2>2. PICK j \in 1..a + b : j = a + k /\ ~(j <= a) /\ j - a = k
    OBVIOUS
  <2>3. u[j] = t[j - a]
    BY <1>9, <2>2
  <2>4. QED
    BY <2>2, <2>3
<1>8. QED
  BY <1>4, <1>5, <1>6, <1>7 DEF List

\* FlattenSeq puts the pieces together one by one.
LEMMA FlatSteps ==
  ASSUME NEW t \in Nat \ {0}, NEW s, List(s, t)
  PROVE  \E f : /\ f[1] = s[1] /\ \A i \in 2..t : f[i] = f[i - 1] \o s[i]
                /\ FlattenSeq(s) = f[t]
<1> DEFINE Up(n, f) == f = [i \in 1..n |-> IF i = 1 THEN s[i] ELSE f[i - 1] \o s[i]]
<1>1. \A n \in Nat : \E f : Up(n, f)
  <2> DEFINE T == {n \in Nat : \E f : Up(n, f)}
  <2>1. 0 \in T
    <3>1. Up(0, << >>)
      OBVIOUS
    <3> HIDE DEF Up
    <3>2. QED
      BY <3>1
  <2>2. ASSUME NEW n \in Nat, n \in T
        PROVE  n + 1 \in T
    <3>1. PICK f : Up(n, f)
      BY <2>2
    <3> DEFINE g == [i \in 1..n + 1 |-> IF i # n + 1 THEN f[i] ELSE IF i = 1 THEN s[i] ELSE f[n] \o s[i]]
    <3>2. \A i \in 1..n : i # n + 1 /\ i \in 1..n + 1
      OBVIOUS
    <3>3. \A i \in 1..n : g[i] = f[i]
      BY <3>2
    <3>4. n + 1 \in 1..n + 1 /\ g[n + 1] = IF n + 1 = 1 THEN s[n + 1] ELSE f[n] \o s[n + 1]
      OBVIOUS
    <3>5. g = [i \in 1..n + 1 |-> g[i]]
      OBVIOUS
    <3>6. \A i \in 1..n : f[i] = IF i = 1 THEN s[i] ELSE f[i - 1] \o s[i]
      BY <3>1
    <3> HIDE DEF g
    <3>7. ASSUME NEW i \in 1..n + 1
          PROVE  g[i] = IF i = 1 THEN s[i] ELSE g[i - 1] \o s[i]
      <4>1. CASE i = n + 1
        <5>1. i # 1 => i - 1 = n /\ n \in 1..n
          BY <4>1
        <5>2. QED
          BY <3>3, <3>4, <4>1, <5>1
      <4>2. CASE i # n + 1
        <5>1. i \in 1..n /\ (i # 1 => i - 1 \in 1..n)
          BY <4>2
        <5>2. QED
          BY <3>3, <3>6, <5>1
      <4>3. QED
        BY <4>1, <4>2
    <3>8. Up(n + 1, g)
      BY <3>5, <3>7
    <3> HIDE DEF Up
    <3>9. QED
      BY <3>8
  <2> HIDE DEF T
  <2>3. Nat \subseteq T
    BY <2>1, <2>2, NatInductionSet
  <2>4. QED
    BY <2>3 DEF T
<1>2. PICK f : f = (CHOOSE g : Up(t, g)) /\ Up(t, f)
  <2> HIDE DEF Up
  <2>1. QED
    BY <1>1
<1>3. FlattenSeq(s) = f[t]
  <2>1. Len(s) = t /\ t # 0
    BY ListFacts
  <2>2. QED
    BY <1>2, <2>1 DEF FlattenSeq
<1>4. \A i \in 1..t : f[i] = IF i = 1 THEN s[i] ELSE f[i - 1] \o s[i]
  BY <1>2
<1>5. f[1] = s[1] /\ \A i \in 2..t : f[i] = f[i - 1] \o s[i]
  <2>1. 1 \in 1..t /\ \A i \in 2..t : i \in 1..t /\ i # 1
    OBVIOUS
  <2>2. QED
    BY <1>4, <2>1
<1>6. QED
  BY <1>3, <1>5

\* The lengths of t pieces, all L but for the last one, and of all together.
Lengths(t, L, len, n) ==
  (\A i \in 1..t : len[i] \in Nat /\ (i # t => len[i] = L)) /\ n = (t - 1) * L + len[t]

\* The pieces are found in u at multiples of L.
PiecesIn(u, s, t, L, len, n) ==
  \A i \in 1..t : \A k \in 1..len[i] : (i - 1) * L + k \in 1..n /\ u[(i - 1) * L + k] = s[i][k]

\* FlattenSeq puts them there.
LEMMA FlatAt ==
  ASSUME NEW t \in Nat \ {0}, NEW L \in Nat, NEW s, List(s, t), NEW len, NEW n, Lengths(t, L, len, n),
         \A i \in 1..t : List(s[i], len[i])
  PROVE  n \in Nat /\ List(FlattenSeq(s), n) /\ PiecesIn(FlattenSeq(s), s, t, L, len, n)
<1>0. \A i \in 1..t : len[i] \in Nat /\ List(s[i], len[i]) /\ (i # t => len[i] = L)
  BY DEF Lengths
<1>1. PICK f : /\ f[1] = s[1] /\ \A i \in 2..t : f[i] = f[i - 1] \o s[i]
               /\ FlattenSeq(s) = f[t]
  BY FlatSteps
<1> DEFINE Good(m) == /\ m * L + len[m + 1] \in Nat
                      /\ List(f[m + 1], m * L + len[m + 1])
                      /\ \A i \in 1..m + 1 : \A k \in 1..len[i] :
                           /\ (i - 1) * L + k \in 1..m * L + len[m + 1]
                           /\ f[m + 1][(i - 1) * L + k] = s[i][k]
           S == {m \in Nat : m + 1 <= t => Good(m)}
<1>2. 0 \in S
  <2>1. 1 \in 1..t /\ 0 * L = 0 /\ (1 - 1) * L = 0 /\ 0 + 1 = 1
    OBVIOUS
  <2>2. \A i \in 1..1 : i = 1
    OBVIOUS
  <2>3. len[1] \in Nat /\ List(f[1], len[1])
    BY <1>0, <1>1, <2>1
  <2>4. 0 * L + len[0 + 1] = len[1]
    BY <2>1, <2>3
  <2>5. \A k \in 1..len[1] : (1 - 1) * L + k = k
    BY <2>1, <2>3
  <2>6. Good(0)
    BY <1>1, <2>1, <2>2, <2>3, <2>4, <2>5
  <2> HIDE DEF Good
  <2>7. QED
    BY <2>6
<1>3. ASSUME NEW c \in Nat, c \in S
      PROVE  c + 1 \in S
  <2>1. SUFFICES ASSUME (c + 1) + 1 <= t PROVE Good(c + 1)
    <3> HIDE DEF Good
    <3>1. QED
      OBVIOUS
  <2>2. PICK m \in 1..t, j \in 2..t : m = c + 1 /\ j = (c + 1) + 1 /\ j - 1 = m /\ m # t /\ j = m + 1 /\ j \in 1..t
    <3>1. c + 1 \in 1..t /\ (c + 1) + 1 \in 2..t /\ (c + 1) # t
      BY <2>1
    <3>2. QED
      BY <3>1
  <2>3. len[m] = L /\ len[j] \in Nat
    BY <1>0, <2>2
  <2>4. PICK a \in Nat : a = c * L + L /\ a = m * L
    <3>1. c * L + L = (c + 1) * L /\ (c + 1) * L \in Nat
      OBVIOUS
    <3>2. QED
      BY <2>2, <3>1
  <2>5. /\ List(f[m], a)
        /\ \A i \in 1..m : \A k \in 1..len[i] : (i - 1) * L + k \in 1..a /\ f[m][(i - 1) * L + k] = s[i][k]
    <3>1. Good(c)
      BY <1>3, <2>1
    <3>2. QED
      BY <2>2, <2>3, <2>4, <3>1
  <2>6. PICK b \in Nat : b = len[j] /\ List(s[j], b)
    BY <1>0, <2>2, <2>3
  <2>7. PICK u : /\ u = f[j] /\ List(u, a + b)
                 /\ \A k \in 1..a : u[k] = f[m][k]
                 /\ \A k \in 1..b : u[a + k] = s[j][k]
    <3>1. PICK u, v, w : u = f[j] /\ v = f[m] /\ w = s[j]
      OBVIOUS
    <3>2. List(v, a) /\ List(w, b) /\ JoinedTo(u, v, w)
      BY <1>1, <2>2, <2>5, <2>6, <3>1 DEF JoinedTo
    <3>3. /\ List(u, a + b)
          /\ \A k \in 1..a : u[k] = v[k]
          /\ \A k \in 1..b : u[a + k] = w[k]
      <4>1. List(u, a + b)
        BY <3>2, ConcatList
      <4>2. \A k \in 1..a : u[k] = v[k]
        BY <3>2, ConcatList
      <4>3. \A k \in 1..b : u[a + k] = w[k]
        BY <3>2, ConcatList
      <4>4. QED
        BY <4>1, <4>2, <4>3
    <3>4. QED
      BY <3>1, <3>3
  <2>8. ASSUME NEW i \in 1..m + 1, NEW k \in 1..len[i]
        PROVE  (i - 1) * L + k \in 1..a + b /\ u[(i - 1) * L + k] = s[i][k]
    <3>1. CASE i = m + 1
      <4>1. (i - 1) * L = a /\ k \in 1..b
        BY <2>2, <2>4, <2>6, <3>1
      <4>2. a + k \in 1..a + b
        BY <4>1
      <4>3. QED
        BY <2>2, <2>7, <3>1, <4>1, <4>2
    <3>2. CASE i # m + 1
      <4>1. i \in 1..m
        BY <3>2
      <4>2. PICK x \in 1..a : x = (i - 1) * L + k /\ f[m][x] = s[i][k]
        BY <2>5, <4>1
      <4>3. x \in 1..a + b
        OBVIOUS
      <4>4. QED
        BY <2>7, <4>2, <4>3
    <3>3. QED
      BY <3>1, <3>2
  <2>9. Good(c + 1)
    <3>1. (c + 1) * L + len[(c + 1) + 1] = a + b /\ (c + 1) + 1 = j /\ m + 1 = j /\ a + b \in Nat
      BY <2>2, <2>4, <2>6
    <3>2. QED
      BY <2>7, <2>8, <3>1
  <2> HIDE DEF Good
  <2>10. QED
    BY <2>9
<1> HIDE DEF S
<1>4. Nat \subseteq S
  BY <1>2, <1>3, NatInductionSet
<1>5. Good(t - 1)
  <2>1. t - 1 \in Nat /\ (t - 1) + 1 <= t
    OBVIOUS
  <2> HIDE DEF Good
  <2>2. QED
    BY <1>4, <2>1 DEF S
<1>6. (t - 1) + 1 = t /\ n = (t - 1) * L + len[t]
  BY DEF Lengths
<1>7. QED
  BY <1>1, <1>5, <1>6 DEF PiecesIn

\* Every position is in a piece.
LEMMA FlatCover ==
  ASSUME NEW t \in Nat \ {0}, NEW L \in Nat, NEW len, NEW n, Lengths(t, L, len, n), NEW r \in 1..n
  PROVE  \E i \in 1..t : \E k \in 1..len[i] : r = (i - 1) * L + k
<1>1. PICK a \in Nat, last \in Nat : a = (t - 1) * L /\ last = len[t] /\ r \in Nat /\ r >= 1 /\ r <= a + last
  <2>1. t - 1 \in Nat /\ len[t] \in Nat /\ n = (t - 1) * L + len[t]
    BY DEF Lengths
  <2>2. (t - 1) * L \in Nat
    BY <2>1
  <2>3. PICK a \in Nat, last \in Nat : a = (t - 1) * L /\ last = len[t]
    BY <2>1, <2>2
  <2>4. r \in 1..a + last
    BY <2>1, <2>3
  <2>5. QED
    BY <2>3, <2>4
<1>2. CASE r > a
  <2>1. r - a \in 1..last /\ r = a + (r - a) /\ t \in 1..t
    BY <1>1, <1>2
  <2>2. \E k \in 1..len[t] : r = (t - 1) * L + k
    BY <1>1, <2>1
  <2>3. QED
    BY <2>1, <2>2
<1>3. CASE r <= a
  <2>1. L # 0
    <3>1. SUFFICES ASSUME L = 0 PROVE FALSE
      OBVIOUS
    <3>2. (t - 1) * 0 = 0
      OBVIOUS
    <3>3. QED
      BY <1>1, <1>3, <3>1, <3>2
  <2>2. PICK b \in Nat : b = r - 1
    BY <1>1
  <2>3. L \in Nat \ {0}
    BY <2>1
  <2>4. PICK q \in Nat, e \in 0..L - 1 : b = q * L + e
    <3>1. \E q \in Nat, e \in 0..L - 1 : b = q * L + e /\ b \div L = q
      BY <2>3, Quotient
    <3>2. QED
      BY <3>1
  <2>5. q + 1 \in 1..t - 1
    <3>1. SUFFICES ASSUME q >= t - 1 PROVE FALSE
      OBVIOUS
    <3>2. PICK c \in Nat : q = (t - 1) + c
      <4>1. q - (t - 1) \in Nat /\ q = (t - 1) + (q - (t - 1))
        BY <3>1
      <4>2. QED
        BY <4>1
    <3>3. q * L = a + c * L /\ c * L \in Nat
      <4>1. ((t - 1) + c) * L = (t - 1) * L + c * L
        OBVIOUS
      <4>2. QED
        BY <1>1, <3>2, <4>1
    <3>4. PICK x \in Nat, y \in Nat : x = q * L /\ y = c * L
      BY <3>3
    <3>5. b = x + e /\ x = a + y
      BY <2>4, <3>3, <3>4
    <3>6. QED
      BY <1>1, <1>3, <2>2, <3>5
  <2>6. q + 1 \in 1..t /\ q + 1 # t /\ (q + 1) - 1 = q
    BY <2>5
  <2>7. len[q + 1] = L /\ e + 1 \in 1..L
    BY <2>6 DEF Lengths
  <2>8. r = ((q + 1) - 1) * L + (e + 1)
    <3>1. PICK x \in Nat : x = q * L
      OBVIOUS
    <3>2. b = x + e /\ r = b + 1
      BY <1>1, <2>2, <2>4, <3>1
    <3>3. r = x + (e + 1)
      BY <3>2
    <3>4. QED
      BY <2>6, <3>1, <3>3
  <2>9. QED
    BY <2>6, <2>7, <2>8
<1>4. QED
  BY <1>1, <1>2, <1>3
-----------------------------------------------------------------------------
\* Half a quotient.
LEMMA HalfQuotient ==
  ASSUME NEW P \in Nat \ {0}, NEW x \in Nat
  PROVE  /\ x \div P \in Nat /\ x \div (2 * P) \in Nat /\ (x \div P) % 2 \in {0, 1}
         /\ x \div P = 2 * (x \div (2 * P)) + ((x \div P) % 2)
<1>1. 2 * P \in Nat \ {0}
  OBVIOUS
<1>2. PICK D \in Nat \ {0} : D = 2 * P
  BY <1>1
<1>3. PICK u \in Nat, e \in 0..D - 1 : x = u * D + e /\ x \div D = u
  BY Quotient
<1>4. PICK b \in {0, 1}, r \in 0..P - 1 : e = b * P + r
  <2>1. CASE e < P
    <3>1. e \in 0..P - 1 /\ e = 0 * P + e
      BY <2>1
    <3>2. QED
      BY <3>1
  <2>2. CASE ~(e < P)
    <3>1. e - P \in 0..P - 1 /\ e = 1 * P + (e - P)
      BY <1>2, <2>2
    <3>2. QED
      BY <3>1
  <2>3. QED
    BY <2>1, <2>2
<1>5. x = (2 * u + b) * P + r
  <2>1. u * D = (2 * u) * P
    <3>1. u * (2 * P) = (2 * u) * P
      OBVIOUS
    <3>2. QED
      BY <1>2, <3>1
  <2>2. (2 * u + b) * P = (2 * u) * P + b * P
    OBVIOUS
  <2>3. PICK y \in Nat, z \in Nat : y = (2 * u) * P /\ z = b * P
    <3>1. 2 * u \in Nat /\ b \in Nat
      OBVIOUS
    <3>2. (2 * u) * P \in Nat /\ b * P \in Nat
      BY <3>1
    <3>3. QED
      BY <3>2
  <2>4. QED
    BY <1>3, <1>4, <2>1, <2>2, <2>3
<1>6. PICK q \in Nat : q = 2 * u + b /\ q % 2 = b
  OBVIOUS
<1>7. x \div P = q
  <2>1. (q * P + r) \div P = q
    OBVIOUS
  <2>2. x = q * P + r
    BY <1>5, <1>6
  <2>3. QED
    BY <2>1, <2>2
<1>8. QED
  BY <1>2, <1>3, <1>6, <1>7

Odd(S) == Cardinality(S) % 2 = 1

\* What two sets have in common does not count.
LEMMA OddSymDiff ==
  ASSUME NEW A, IsFiniteSet(A), NEW B, IsFiniteSet(B)
  PROVE  Odd(SymDiff(A, B)) <=> ~(Odd(A) <=> Odd(B))
<1>1. IsFiniteSet(A \ B) /\ IsFiniteSet(B \ A) /\ IsFiniteSet(A \cap B)
  BY FS_Difference, FS_Intersection
<1>2. PICK a \in Nat, b \in Nat, c \in Nat :
        a = Cardinality(A \ B) /\ b = Cardinality(B \ A) /\ c = Cardinality(A \cap B)
  BY <1>1, FS_CardinalityType
<1>3. Cardinality(A) = a + c /\ Cardinality(B) = b + c
  <2>1. Cardinality(A \ B) = Cardinality(A) - Cardinality(A \cap B) /\ Cardinality(A) \in Nat
    BY FS_Difference, FS_CardinalityType
  <2>2. Cardinality(B \ A) = Cardinality(B) - Cardinality(B \cap A) /\ Cardinality(B) \in Nat
    BY FS_Difference, FS_CardinalityType
  <2>3. B \cap A = A \cap B
    OBVIOUS
  <2>4. PICK m \in Nat, n \in Nat : m = Cardinality(A) /\ n = Cardinality(B)
    BY FS_CardinalityType
  <2>5. a = m - c /\ b = n - c
    BY <1>2, <2>1, <2>2, <2>3, <2>4
  <2>6. m = a + c /\ n = b + c
    BY <2>5
  <2>7. QED
    BY <2>4, <2>6
<1>4. Cardinality(SymDiff(A, B)) = a + b
  <2>1. Cardinality((A \ B) \cup (B \ A))
          = Cardinality(A \ B) + Cardinality(B \ A) - Cardinality((A \ B) \cap (B \ A))
    BY <1>1, FS_Union
  <2>2. (A \ B) \cap (B \ A) = {}
    OBVIOUS
  <2>3. Cardinality((A \ B) \cap (B \ A)) = 0
    BY <2>2, FS_EmptySet
  <2>4. QED
    BY <1>2, <2>1, <2>3 DEF SymDiff
<1>5. (a + b) % 2 = 1 <=> ~((a + c) % 2 = 1 <=> (b + c) % 2 = 1)
  OBVIOUS
<1>6. QED
  BY <1>3, <1>4, <1>5 DEF Odd
=============================================================================
