------------------------------ MODULE OkvsProofs ------------------------------
(***************************************************************************)
(* Proofs about Okvs, for any parameters, keys, hash functions, number of  *)
(* threads and interleaving of them.  What the threads do to the shared    *)
(* arrays is described by positions: the rank of a key among those of its  *)
(* bin says where it is, in its thread's region and after gathering.       *)
(* Queries are described by the batch they wait in.                        *)
(***************************************************************************)
EXTENDS Okvs, DataLemmas

\* Where a thread's range of n keys begins; how many of the first i keys are in
\* bin b, when home says which bin each is in.
Begin(n, t)      == (n * t) \div ThreadNum
Among(home, b, i) == {j \in 1..i : home[j] = b}
Rank(home, b, i) == Cardinality(Among(home, b, i))

\* Where key i lies in the region its thread t keeps for its bin.
Offset(n, home, t, i) == Rank(home, home[i], i) - Rank(home, home[i], Begin(n, t)) - 1

\* No thread has more than C keys for a bin.
Bounded(B, C, n, home) ==
  \A b \in 0..B - 1 : \A t \in Threads :
    Rank(home, b, Begin(n, t + 1)) - Rank(home, b, Begin(n, t)) <= C

\* A cell of a region of C cells, by bin, thread and position.
At(C, b, t, k) == b * ThreadNum * C + t * C + k
-----------------------------------------------------------------------------
\* The invariant of solve with B bins, regions of C cells, and n keys ks with
\* values vs, of bins home.

\* Threads take turns at the bins: thread t those that leave t.
Turns(B) ==
  /\ pc \in [Threads -> {"hash", "barrier", "merge", "draw", "done"}]
  /\ bin \in [Threads -> Nat] /\ src \in [Threads -> 0..ThreadNum]
  /\ \A t \in Threads : bin[t] % ThreadNum = t
  /\ \A t \in Threads : pc[t] = "done" => bin[t] >= B
  /\ DOMAIN encoded = 0..B - 1
  /\ \A b \in 0..B - 1 : encoded[b] # NotYet => b < bin[b % ThreadNum]

\* Either all hash, or all have hashed.
Stage(n) ==
  /\ pos \in [Threads -> Nat]
  /\ \A t \in Threads : pos[t] <= Begin(n, t + 1) - Begin(n, t)
  /\ \/ \A t \in Threads : /\ pc[t] \in {"hash", "barrier"} /\ bin[t] = t /\ src[t] = 0
                           /\ pc[t] = "barrier" => pos[t] = Begin(n, t + 1) - Begin(n, t)
     \/ \A t \in Threads : /\ pc[t] \in {"merge", "draw", "done"}
                           /\ pos[t] = Begin(n, t + 1) - Begin(n, t)

\* The sizes count the keys hashed so far.
Sizes(B, n, home) ==
  /\ binSize \in [Threads -> [0..B - 1 -> Nat]]
  /\ \A t \in Threads : \A b \in 0..B - 1 :
       binSize[t][b] = Rank(home, b, Begin(n, t) + pos[t]) - Rank(home, b, Begin(n, t))

\* A region is raw until its bin's thread gathers it; then it is no more read.
Raw(b, t) ==
  LET o == b % ThreadNum IN bin[o] < b \/ (bin[o] = b /\ src[o] <= t)

Holds(c, key, val) == hashes[c] = key /\ values[c] = val

\* Every key hashed is where its thread put it, while that region is raw.
Regions(B, C, n, home, ks, vs) ==
  /\ hashes \in [0..B * ThreadNum * C - 1 -> Int] /\ values \in [0..B * ThreadNum * C - 1 -> Int]
  /\ \A t \in Threads : \A i \in Begin(n, t) + 1..Begin(n, t) + pos[t] :
       Raw(home[i], t) => Holds(At(C, home[i], t, Offset(n, home, t, i)), ks[i], vs[i])

\* The keys gathered so far lie one after the other at the start of the bin.
Gathering(B, C, n, home, ks, vs) ==
  /\ binPos \in [Threads -> Nat]
  /\ \A t \in Threads : bin[t] < B =>
       /\ binPos[t] = Rank(home, bin[t], Begin(n, src[t]))
       /\ \A i \in 1..Begin(n, src[t]) :
            home[i] = bin[t] => Holds(At(C, bin[t], 0, Rank(home, bin[t], i) - 1), ks[i], vs[i])

\* The rows bin b is to be encoded from.
RowsOf(n, home, ks, vs, b) ==
  LET mine == Ascending(Among(home, b, n)) IN
  [k \in DOMAIN mine |-> Row(ks[mine[k]], vs[mine[k]])]

Rows(B, n, home, ks, vs) ==
  \A b \in 0..B - 1 : b < bin[b % ThreadNum] => encoded[b].rows = RowsOf(n, home, ks, vs, b)

Loop(B, C, n, home, ks, vs) ==
  /\ Stage(n) /\ Sizes(B, n, home)
  /\ Regions(B, C, n, home, ks, vs) /\ Gathering(B, C, n, home, ks, vs)
  /\ Rows(B, n, home, ks, vs)

Home == [k \in DOMAIN keys |-> binOf[keys[k]]]

\* What encode was given, and what it made of it.
Inputs ==
  /\ keys \in Seq(Items) /\ IsInjective(keys) /\ Len(keys) <= pp.itemNum
  /\ given \in Seq(Items) /\ Len(given) <= Len(keys)
  /\ \A k \in 1..Len(given) : keys[k] = given[k]
  /\ vals \in [1..pp.itemNum -> Int]
  /\ \A k \in 1..Len(given) : vals[k] = Value(given[k])

\* With one bin there is one step.
Single ==
  /\ DOMAIN encoded = {0}
  /\ \/ encoded[0] = NotYet /\ \A t \in Threads : pc[t] = "hash"
     \/ encoded[0].rows = [k \in DOMAIN keys |-> Row(keys[k], vals[k])]

\* Every key given has its value in the bin it is looked for in.
Stored == \A k \in 1..Len(given) : Lookup(given[k]) = Value(given[k])

Encoding_OK ==
  /\ phase \in {"setup", "encode", "solve", "decode", "query", "returned", "threw"}
  /\ pp \in Parameters
  /\ phase \notin {"setup", "threw"} => Valid /\ binOf \in [Items -> Bins]
  /\ phase \in {"setup", "encode"} => encoded = << >>
  /\ phase = "solve" => Inputs
  /\ phase = "solve" /\ BinNum = 1 => Single
  /\ phase = "solve" /\ BinNum > 1 => Turns(BinNum)
  /\ phase = "solve" /\ BinNum > 1 /\ Fits => Loop(BinNum, Capacity, Len(keys), Home, keys, vals)
  /\ phase \in {"decode", "query"} => given \in Seq(Items) /\ (fitted => Stored)
-----------------------------------------------------------------------------
\* The invariant of decode.

\* A batch waits in order, each query once, in a bin of its own.
Batch(b) ==
  /\ Len(keyIndices[b]) < DecodeSize
  /\ \A k \in 1..Len(keyIndices[b]) :
       keyIndices[b][k] \in 1..sorted /\ binOf[queries[keyIndices[b][k]]] = b
  /\ \A j, k \in 1..Len(keyIndices[b]) : keyIndices[b][j] = keyIndices[b][k] => j = k

Waits(q) ==
  LET b == binOf[queries[q]] IN
  flushed <= b /\ \E k \in 1..Len(keyIndices[b]) : keyIndices[b][k] = q

Batches ==
  /\ sorted \in 0..BatchLen /\ flushed \in 0..BinNum
  /\ flushed > 0 => sorted = BatchLen
  /\ keyIndices \in [Bins -> Seq(Queries)]
  /\ valueBuffer \in [1..DecodeSize -> 0..BatchLen]
  /\ source \in [Queries -> 0..BatchLen]
  /\ \A b \in Bins : flushed <= b => Batch(b)
  /\ \A q \in 1..sorted : Waits(q) \/ source[q] = q

InPlace ==
  /\ source \in [Queries -> 0..BatchLen]
  /\ \/ sorted = 0 /\ flushed = 0
     \/ sorted = BatchLen /\ \A q \in Queries : source[q] = q

\* What OKVS::decode is told of the number of keys is right: a batch is
\* shorter than 2^w, for the w bits of idx_type.
BatchesFit ==
  \A p \in Parameters, asked \in QuerySets :
    Len(asked) < IdxMod \/ (DecodeMax < IdxMod /\ p.itemNum > p.binSize)

Decoding_OK ==
  /\ phase # "returned" => answers = << >>
  /\ phase = "query" => queries \in QuerySets /\ queries # << >>
  /\ phase = "query" /\ BinNum > 1 => Batches
  /\ phase = "query" /\ BinNum = 1 => InPlace
  /\ phase = "returned" => RoundTrip
-----------------------------------------------------------------------------
\* Division keeps the order.
LEMMA DivideMonotone ==
  ASSUME NEW a \in Nat, NEW b \in Nat, a <= b, NEW d \in Nat \ {0}
  PROVE  a \div d \in Nat /\ b \div d \in Nat /\ a \div d <= b \div d
<1>1. PICK p \in Nat, r \in Nat : p = a \div d /\ a = p * d + r /\ r < d
  BY a \div d \in Nat, a % d \in 0..d - 1, a = (a \div d) * d + (a % d)
<1>2. PICK q \in Nat, s \in Nat : q = b \div d /\ b = q * d + s /\ s < d
  BY b \div d \in Nat, b % d \in 0..d - 1, b = (b \div d) * d + (b % d)
<1>3. SUFFICES ASSUME q < p PROVE FALSE
  BY <1>1, <1>2
<1>4. PICK e \in Nat : p = q + 1 + e
  BY <1>3, p - q - 1 \in Nat
<1>5. p * d = q * d + d + e * d
  BY <1>4
<1>6. e * d \in Nat /\ q * d \in Nat /\ p * d \in Nat
  OBVIOUS
<1>7. QED
  BY <1>1, <1>2, <1>5, <1>6

\* Stepping by d keeps the remainder, and skips no number that has it.
LEMMA StrideFacts ==
  ASSUME NEW d \in Nat \ {0}, NEW x \in Nat
  PROVE  /\ x % d \in 0..d - 1
         /\ (x + d) % d = x % d
         /\ \A y \in Nat : y < x + d /\ y % d = x % d => y <= x
<1>1. PICK q \in Nat, r \in 0..d - 1 : x = q * d + r /\ r = x % d
  BY x \div d \in Nat, x % d \in 0..d - 1, x = (x \div d) * d + (x % d)
<1>2. x + d = (q + 1) * d + r
  BY <1>1
<1>3. ((q + 1) * d + r) % d = r
  OBVIOUS
<1>4. ASSUME NEW y \in Nat, y < x + d, y % d = r
      PROVE  y <= x
  <2>1. PICK p \in Nat : y = p * d + r
    BY <1>4, y \div d \in Nat, y = (y \div d) * d + (y % d)
  <2>2. SUFFICES ASSUME p > q PROVE FALSE
    <3>1. SUFFICES ASSUME p <= q PROVE p * d <= q * d
      BY <1>1, <2>1, <2>2
    <3>2. PICK e \in Nat : q = p + e
      BY <3>1, q - p \in Nat
    <3>3. q * d = p * d + e * d /\ e * d \in Nat /\ p * d \in Nat
      BY <3>2
    <3>4. QED
      BY <3>3
  <2>3. PICK e \in Nat : p = q + 1 + e
    BY <2>2, p - q - 1 \in Nat
  <2>4. p * d = q * d + d + e * d /\ e * d \in Nat /\ q * d \in Nat
    BY <2>3
  <2>5. QED
    BY <1>1, <1>4, <2>1, <2>4
<1>5. QED
  BY <1>1, <1>2, <1>3, <1>4

\* The ranges of the threads follow each other and cover the keys.
LEMMA BeginFacts ==
  ASSUME NEW n \in Nat
  PROVE  /\ Begin(n, 0) = 0 /\ Begin(n, ThreadNum) = n
         /\ \A t \in 0..ThreadNum : Begin(n, t) \in 0..n
         /\ \A t \in Threads : Begin(n, t) <= Begin(n, t + 1)
<1>1. ThreadNum \in Nat \ {0}
  BY SolveAssumption
<1>2. Begin(n, 0) = 0
  BY <1>1 DEF Begin
<1>3. Begin(n, ThreadNum) = n
  BY <1>1 DEF Begin
<1>4. ASSUME NEW s \in Nat, NEW t \in Nat, s <= t
      PROVE  Begin(n, s) \in Nat /\ Begin(n, t) \in Nat /\ Begin(n, s) <= Begin(n, t)
  <2>1. PICK e \in Nat : t = s + e
    BY <1>4, t - s \in Nat
  <2>2. n * t = n * s + n * e /\ n * e \in Nat /\ n * s \in Nat
    BY <2>1
  <2>3. n * s <= n * t /\ n * t \in Nat
    BY <2>2
  <2>4. QED
    BY <1>1, <2>2, <2>3, DivideMonotone DEF Begin
<1>5. ASSUME NEW t \in 0..ThreadNum
      PROVE  Begin(n, t) \in 0..n
  <2>1. Begin(n, t) \in Nat /\ Begin(n, t) <= Begin(n, ThreadNum)
    BY <1>1, <1>4
  <2>2. QED
    BY <1>3, <2>1
<1>6. ASSUME NEW t \in Threads
      PROVE  Begin(n, t) <= Begin(n, t + 1)
  BY <1>1, <1>4 DEF Threads
<1>7. QED
  BY <1>2, <1>3, <1>5, <1>6

\* One more key raises the rank of its own bin, and of no other.
LEMMA RankStep ==
  ASSUME NEW home, NEW b, NEW i \in Nat
  PROVE  /\ Rank(home, b, i) \in Nat /\ Rank(home, b, 0) = 0
         /\ IsFiniteSet(Among(home, b, i))
         /\ Rank(home, b, i + 1) = Rank(home, b, i) + (IF home[i + 1] = b THEN 1 ELSE 0)
<1>1. IsFiniteSet(Among(home, b, i))
  <2>1. IsFiniteSet(1..i) /\ Among(home, b, i) \in SUBSET (1..i)
    BY FS_Interval DEF Among
  <2>2. QED
    BY <2>1, FS_Subset
<1>2. Rank(home, b, i) \in Nat /\ Rank(home, b, 0) = 0
  <2>1. Among(home, b, 0) = {}
    BY DEF Among
  <2>2. QED
    BY <1>1, <2>1, FS_CardinalityType, FS_EmptySet DEF Rank
<1>3. CASE home[i + 1] = b
  <2>1. Among(home, b, i + 1) = Among(home, b, i) \cup {i + 1} /\ i + 1 \notin Among(home, b, i)
    BY <1>3 DEF Among
  <2>2. Cardinality(Among(home, b, i) \cup {i + 1}) = Cardinality(Among(home, b, i)) + 1
    BY <1>1, <2>1, FS_AddElement
  <2>3. Rank(home, b, i + 1) = Rank(home, b, i) + 1
    BY <2>1, <2>2 DEF Rank
  <2>4. QED
    BY <1>1, <1>2, <1>3, <2>3
<1>4. CASE home[i + 1] # b
  <2>1. Among(home, b, i + 1) = Among(home, b, i)
    BY <1>4 DEF Among
  <2>2. Rank(home, b, i + 1) = Rank(home, b, i)
    BY <2>1 DEF Rank
  <2>3. QED
    BY <1>1, <1>2, <1>4, <2>2
<1>5. QED
  BY <1>3, <1>4

\* Ranks grow; the keys from lo to hi account for the difference.
LEMMA RankBetween ==
  ASSUME NEW home, NEW b, NEW lo \in Nat, NEW hi \in Nat, lo <= hi
  PROVE  /\ Rank(home, b, lo) \in Nat /\ Rank(home, b, hi) \in Nat
         /\ Rank(home, b, lo) <= Rank(home, b, hi)
         /\ Cardinality({j \in lo + 1..hi : home[j] = b}) = Rank(home, b, hi) - Rank(home, b, lo)
<1> DEFINE A == Among(home, b, lo)
           D == {j \in lo + 1..hi : home[j] = b}
<1>1. Among(home, b, hi) = A \cup D /\ A \cap D = {}
  BY DEF Among
<1>2. IsFiniteSet(A) /\ IsFiniteSet(D)
  <2>1. IsFiniteSet(lo + 1..hi) /\ D \in SUBSET (lo + 1..hi)
    BY FS_Interval
  <2>2. IsFiniteSet(D)
    BY <2>1, FS_Subset
  <2>3. QED
    BY <2>2, RankStep
<1>3. Cardinality(A) \in Nat /\ Cardinality(D) \in Nat
  BY <1>2, FS_CardinalityType
<1>4. Cardinality(A \cap D) = 0
  BY <1>1, FS_EmptySet
<1> HIDE DEF A, D
<1>5. Cardinality(A \cup D) = Cardinality(A) + Cardinality(D)
  <2>1. Cardinality(A \cup D) = Cardinality(A) + Cardinality(D) - Cardinality(A \cap D)
    BY <1>2, FS_Union
  <2>2. QED
    BY <1>3, <1>4, <2>1
<1>6. Rank(home, b, lo) = Cardinality(A) /\ Rank(home, b, hi) = Cardinality(A) + Cardinality(D)
  BY <1>1, <1>5 DEF Rank, A
<1>7. QED
  BY <1>3, <1>6 DEF D

\* Two numbers with the same quotient and remainder in parts are made of the same parts.
LEMMA SameDigits ==
  ASSUME NEW d \in Nat, NEW p \in Nat, NEW q \in Nat, NEW r \in Nat, NEW s \in Nat,
         r < d, s < d, p * d + r = q * d + s
  PROVE  p = q /\ r = s
<1>1. ASSUME NEW x \in Nat, NEW y \in Nat, NEW u \in Nat, NEW v \in Nat,
             u < d, v < d, x * d + u = y * d + v, x < y
      PROVE  FALSE
  <2>1. PICK e \in Nat : y = x + 1 + e
    BY <1>1, y - x - 1 \in Nat
  <2>2. y * d = x * d + d + e * d
    BY <2>1
  <2>3. e * d \in Nat /\ x * d \in Nat
    OBVIOUS
  <2>4. QED
    BY <1>1, <2>2, <2>3
<1>2. p = q
  BY <1>1
<1>3. QED
  BY <1>2

\* Of two keys of a bin the later has the higher rank.
LEMMA RankStrict ==
  ASSUME NEW home, NEW b, NEW i \in Nat, NEW j \in Nat, i < j, home[j] = b
  PROVE  Rank(home, b, i) \in Nat /\ Rank(home, b, j) \in Nat /\ Rank(home, b, i) < Rank(home, b, j)
<1>1. PICK k \in Nat : j = k + 1
  BY j - 1 \in Nat
<1>2. i <= k
  BY <1>1
<1>3. Rank(home, b, i) \in Nat /\ Rank(home, b, k) \in Nat /\ Rank(home, b, i) <= Rank(home, b, k)
  BY <1>2, RankBetween
<1>4. Rank(home, b, k + 1) = Rank(home, b, k) + (IF home[k + 1] = b THEN 1 ELSE 0)
  BY RankStep
<1>5. QED
  BY <1>1, <1>3, <1>4

\* A key lies within the region of its thread, and after those before it.
LEMMA OffsetFacts ==
  ASSUME NEW B \in Nat, NEW C \in Nat, NEW n \in Nat, NEW home \in [1..n -> 0..B - 1],
         Bounded(B, C, n, home),
         NEW t \in Threads, NEW i \in Begin(n, t) + 1..Begin(n, t + 1)
  PROVE  /\ i \in 1..n /\ home[i] \in 0..B - 1
         /\ Offset(n, home, t, i) \in 0..C - 1
         /\ \A j \in Begin(n, t) + 1..i - 1 :
              home[j] = home[i] => Offset(n, home, t, j) < Offset(n, home, t, i)
<1>1. PICK lo \in 0..n, hi \in 0..n : lo = Begin(n, t) /\ hi = Begin(n, t + 1)
  <2>1. t \in 0..ThreadNum /\ t + 1 \in 0..ThreadNum
    BY SolveAssumption DEF Threads
  <2>2. Begin(n, t) \in 0..n /\ Begin(n, t + 1) \in 0..n
    BY <2>1, BeginFacts
  <2>3. QED
    BY <2>2
<1>2. PICK b \in 0..B - 1 : b = home[i]
  BY <1>1
<1>3. /\ Rank(home, b, lo) \in Nat /\ Rank(home, b, hi) \in Nat /\ Rank(home, b, i) \in Nat
      /\ Rank(home, b, lo) < Rank(home, b, i) /\ Rank(home, b, i) <= Rank(home, b, hi)
  <2>1. i \in Nat /\ lo \in Nat /\ hi \in Nat /\ lo < i /\ i <= hi
    BY <1>1
  <2>2. Rank(home, b, lo) < Rank(home, b, i)
    BY <1>2, <2>1, RankStrict
  <2>3. Rank(home, b, i) \in Nat /\ Rank(home, b, hi) \in Nat /\ Rank(home, b, i) <= Rank(home, b, hi)
    BY <2>1, RankBetween
  <2>4. Rank(home, b, lo) \in Nat
    BY <2>1, RankStep
  <2>5. QED
    BY <2>2, <2>3, <2>4
<1>4. Rank(home, b, hi) - Rank(home, b, lo) <= C
  BY <1>1 DEF Bounded
<1>5. Offset(n, home, t, i) \in 0..C - 1
  <2>1. Offset(n, home, t, i) = Rank(home, b, i) - Rank(home, b, lo) - 1
    BY <1>1, <1>2 DEF Offset
  <2>2. QED
    BY <1>3, <1>4, <2>1
<1>6. ASSUME NEW j \in lo + 1..i - 1, home[j] = b
      PROVE  Offset(n, home, t, j) < Offset(n, home, t, i)
  <2>1. i \in Nat /\ j \in Nat /\ j < i
    BY <1>1
  <2>2. Rank(home, b, j) \in Nat /\ Rank(home, b, j) < Rank(home, b, i)
    BY <1>2, <2>1, RankStrict
  <2>3. /\ Offset(n, home, t, i) = Rank(home, b, i) - Rank(home, b, lo) - 1
        /\ Offset(n, home, t, j) = Rank(home, b, j) - Rank(home, b, lo) - 1
    BY <1>1, <1>2, <1>6 DEF Offset
  <2>4. QED
    BY <1>3, <2>2, <2>3
<1>7. QED
  BY <1>1, <1>2, <1>5, <1>6

\* The keys of the first s threads fit into the first s regions of a bin.
LEMMA GatheredFits ==
  ASSUME NEW B \in Nat, NEW C \in Nat, NEW n \in Nat, NEW home,
         Bounded(B, C, n, home), NEW b \in 0..B - 1, NEW s \in 0..ThreadNum
  PROVE  Rank(home, b, Begin(n, s)) \in Nat /\ Rank(home, b, Begin(n, s)) <= s * C
<1> DEFINE T == {k \in Nat : k <= ThreadNum => /\ Rank(home, b, Begin(n, k)) \in Nat
                                               /\ Rank(home, b, Begin(n, k)) <= k * C}
<1>1. ThreadNum \in Nat
  BY SolveAssumption
<1>2. 0 \in T
  BY BeginFacts, RankStep
<1>3. ASSUME NEW k \in Nat, k \in T
      PROVE  k + 1 \in T
  <2> SUFFICES ASSUME k + 1 <= ThreadNum
               PROVE  /\ Rank(home, b, Begin(n, k + 1)) \in Nat
                      /\ Rank(home, b, Begin(n, k + 1)) <= (k + 1) * C
    OBVIOUS
  <2>1. Rank(home, b, Begin(n, k)) \in Nat /\ Rank(home, b, Begin(n, k)) <= k * C
    BY <1>1, <1>3
  <2>2. Begin(n, k + 1) \in Nat
    BY <1>1, BeginFacts
  <2>3. Rank(home, b, Begin(n, k + 1)) \in Nat
    BY <2>2, RankStep
  <2>4. Rank(home, b, Begin(n, k + 1)) - Rank(home, b, Begin(n, k)) <= C
    BY <1>1 DEF Bounded, Threads
  <2>5. (k + 1) * C = k * C + C /\ k * C \in Nat
    OBVIOUS
  <2>6. QED
    BY <2>1, <2>3, <2>4, <2>5
<1>4. Nat \subseteq T
  <2>1. \A k \in Nat : k \in T => k + 1 \in T
    BY <1>3
  <2> HIDE DEF T
  <2>2. QED
    BY <1>2, <2>1, NatInductionSet
<1>5. s \in T /\ s <= ThreadNum
  BY <1>1, <1>4
<1>6. QED
  BY <1>5

\* The j-th of the keys of a bin has rank j.
LEMMA AscendingRank ==
  ASSUME NEW n \in Nat, NEW home, NEW b
  PROVE  /\ Ascending(Among(home, b, n)) \in [1..Rank(home, b, n) -> Among(home, b, n)]
         /\ \A j \in 1..Rank(home, b, n) : Rank(home, b, Ascending(Among(home, b, n))[j]) = j
<1> DEFINE S == Among(home, b, n)
<1>1. S \in SUBSET (1..n)
  BY DEF Among
<1> DEFINE s == Ascending(S)
<1>2. PICK m \in Nat : /\ m = Cardinality(S)
                       /\ s \in [1..m -> S]
                       /\ \A i, j \in 1..m : i < j => s[i] < s[j]
                       /\ \A x \in S : \E e \in 1..m : s[e] = x
  <2> HIDE DEF S
  <2>1. QED
    BY <1>1, AscendingProperties
<1> HIDE DEF s
<1>3. ASSUME NEW j \in 1..m
      PROVE  Rank(home, b, s[j]) = j
  <2> DEFINE A == Among(home, b, s[j])
             f == [i \in 1..j |-> s[i]]
  <2>1. \A i \in 1..m : s[i] \in 1..n /\ home[s[i]] = b
    BY <1>2 DEF Among
  <2>2. \A i \in 1..m : s[i] <= s[j] <=> i <= j
    BY <1>2, <2>1
  <2>3. f \in [1..j -> A]
    BY <2>1, <2>2 DEF Among
  <2>4. \A x \in A : \E i \in 1..j : f[i] = x
    <3> TAKE x \in A
    <3>1. x \in S /\ x <= s[j]
      BY <2>1 DEF Among
    <3>2. PICK i \in 1..m : s[i] = x
      <4> HIDE DEF S, A, f
      <4> QED BY <1>2, <3>1
    <3>3. i \in 1..j
      BY <2>2, <3>1, <3>2
    <3>4. QED
      BY <3>2, <3>3
  <2>5. \A i, k \in 1..j : f[i] = f[k] => i = k
    BY <1>2, <2>1
  <2>6. ExistsBijection(1..j, A)
    <3> HIDE DEF f, A
    <3>1. f \in Bijection(1..j, A)
      BY <2>3, <2>4, <2>5 DEF Bijection, Injection, Surjection, IsInjective
    <3>2. QED
      BY <3>1 DEF ExistsBijection
  <2>7. IsFiniteSet(1..j) /\ Cardinality(1..j) = j
    BY FS_Interval
  <2>8. Cardinality(A) = Cardinality(1..j)
    <3> DEFINE D == 1..j
    <3> HIDE DEF f, A, D
    <3>1. ExistsBijection(D, A) /\ IsFiniteSet(D)
      BY <2>6, <2>7 DEF D
    <3>2. Cardinality(A) = Cardinality(D)
      BY <3>1, FS_Bijection
    <3>3. QED
      BY <3>2 DEF D
  <2>9. QED
    BY <2>7, <2>8 DEF Rank
<1>4. QED
  BY <1>2, <1>3 DEF Rank, s

\* Regions do not overlap, and lie within the array.
LEMMA AtFacts ==
  ASSUME NEW C \in Nat, NEW b \in Nat, NEW t \in Threads, NEW k \in 0..C - 1
  PROVE  /\ t * C + k \in 0..ThreadNum * C - 1 /\ t * C \in Nat
         /\ At(C, b, t, k) = At(C, b, 0, t * C + k)
         /\ \A s \in Threads : \A l \in 0..C - 1 : t * C + k = s * C + l => t = s /\ k = l
<1>1. ThreadNum \in Nat \ {0} /\ t \in 0..ThreadNum - 1
  BY SolveAssumption DEF Threads
<1>2. PICK e \in Nat : ThreadNum = t + 1 + e
  BY <1>1, ThreadNum - t - 1 \in Nat
<1>3. ThreadNum * C = t * C + C + e * C
  BY <1>1, <1>2
<1>4. t * C \in Nat /\ e * C \in Nat
  BY <1>1
<1>5. t * C + k \in 0..ThreadNum * C - 1
  BY <1>3, <1>4
<1>6. ASSUME NEW s \in Threads, NEW l \in 0..C - 1, t * C + k = s * C + l
      PROVE  t = s /\ k = l
  BY <1>1, <1>6, SameDigits DEF Threads
<1>7. At(C, b, t, k) = At(C, b, 0, t * C + k)
  <2>1. b * ThreadNum * C \in Nat
    BY <1>1
  <2>2. QED
    BY <1>1, <1>4, <2>1 DEF At
<1>8. QED
  BY <1>4, <1>5, <1>6, <1>7

\* The same for bins, by the place in the bin.
LEMMA BinFacts ==
  ASSUME NEW B \in Nat, NEW C \in Nat, NEW b \in 0..B - 1, NEW x \in 0..ThreadNum * C - 1
  PROVE  /\ At(C, b, 0, x) \in 0..B * ThreadNum * C - 1
         /\ At(C, b, 0, 0) \in Nat /\ At(C, b, 0, x) = At(C, b, 0, 0) + x
         /\ \A a \in Nat : \A y \in 0..ThreadNum * C - 1 :
              At(C, b, 0, x) = At(C, a, 0, y) => b = a /\ x = y
<1>1. ThreadNum \in Nat \ {0}
  BY SolveAssumption
<1>2. PICK M \in Nat : M = ThreadNum * C
  BY <1>1
<1> x \in 0..M - 1 /\ x \in Nat /\ b \in Nat
  BY <1>2
<1>3. \A a \in Nat : a * ThreadNum * C = a * M
  BY <1>1, <1>2
<1>4. \A a \in Nat, y \in Nat : At(C, a, 0, y) = a * M + y
  BY <1>3 DEF At
<1>5. PICK e \in Nat : B = b + 1 + e
  BY B - b - 1 \in Nat
<1>6. B * M = b * M + M + e * M /\ b * M \in Nat /\ e * M \in Nat
  BY <1>5
<1>7. At(C, b, 0, x) \in 0..B * ThreadNum * C - 1
  <2>1. B * ThreadNum * C = B * M /\ At(C, b, 0, x) = b * M + x
    BY <1>3, <1>4
  <2>2. QED
    BY <1>6, <2>1
<1>8. ASSUME NEW a \in Nat, NEW y \in 0..M - 1, At(C, b, 0, x) = At(C, a, 0, y)
      PROVE  b = a /\ x = y
  <2>1. y \in Nat /\ x < M /\ y < M
    OBVIOUS
  <2>2. At(C, b, 0, x) = b * M + x /\ At(C, a, 0, y) = a * M + y
    BY <1>4, <2>1
  <2>3. b * M + x = a * M + y
    BY <1>8, <2>2
  <2>4. M \in Nat /\ a \in Nat /\ b \in Nat /\ x \in Nat
    OBVIOUS
  <2>5. QED
    BY <2>1, <2>3, <2>4, SameDigits
<1>9. QED
  BY <1>2, <1>4, <1>6, <1>7, <1>8
-----------------------------------------------------------------------------
\* The parts of the invariant that a step leaves alone.
LEMMA FrameFacts ==
  ASSUME NEW B, NEW C, NEW n, NEW home, NEW ks, NEW vs
  PROVE  /\ Sizes(B, n, home) /\ UNCHANGED <<binSize, pos>> => Sizes(B, n, home)'
         /\ Regions(B, C, n, home, ks, vs) /\ UNCHANGED <<scratch, pos, bin, src>>
              => Regions(B, C, n, home, ks, vs)'
         /\ Gathering(B, C, n, home, ks, vs) /\ UNCHANGED <<scratch, bin, src, binPos>>
              => Gathering(B, C, n, home, ks, vs)'
         /\ Rows(B, n, home, ks, vs) /\ UNCHANGED <<bin, encoded>> => Rows(B, n, home, ks, vs)'
<1>1. Sizes(B, n, home) /\ UNCHANGED <<binSize, pos>> => Sizes(B, n, home)'
  BY DEF Sizes
<1>2. Regions(B, C, n, home, ks, vs) /\ UNCHANGED <<scratch, pos, bin, src>>
        => Regions(B, C, n, home, ks, vs)'
  BY DEF Regions, Raw, Holds, scratch
<1>3. Gathering(B, C, n, home, ks, vs) /\ UNCHANGED <<scratch, bin, src, binPos>>
        => Gathering(B, C, n, home, ks, vs)'
  BY DEF Gathering, Holds, scratch
<1>4. Rows(B, n, home, ks, vs) /\ UNCHANGED <<bin, encoded>> => Rows(B, n, home, ks, vs)'
  BY DEF Rows
<1>5. QED
  BY <1>1, <1>2, <1>3, <1>4

\* The model's view of an encode, in constants.
Job(B, C, n, home, ks, vs) ==
  /\ B \in Nat /\ C \in Nat /\ n \in Nat /\ home \in [1..n -> 0..B - 1]
  /\ Bounded(B, C, n, home)
  /\ \A i \in 1..n : ks[i] \in Int /\ vs[i] \in Int
Now(B, C, n, home, ks, vs) ==
  /\ BinNum = B /\ Capacity = C /\ keys = ks /\ vals = vs /\ Len(keys) = n
  /\ \A i \in 1..n : binOf[keys[i]] = home[i]

\* The code's names for the cells and ranges of such a job.
LEMMA NowFacts ==
  ASSUME NEW B, NEW C, NEW n, NEW home, NEW ks, NEW vs, Now(B, C, n, home, ks, vs)
  PROVE  /\ Bins = 0..B - 1 /\ Cells = 0..B * ThreadNum * C - 1
         /\ \A t : KeyBegin(t) = Begin(n, t) /\ KeyLen(t) = Begin(n, t + 1) - Begin(n, t)
         /\ \A b, t, k : Cell(b, t, k) = At(C, b, t, k)
<1>1. Bins = 0..B - 1 /\ Cells = 0..B * ThreadNum * C - 1
  BY DEF Now, Bins, Cells
<1>2. \A t : KeyBegin(t) = Begin(n, t)
  BY DEF Now, KeyBegin, Begin
<1>3. \A t : KeyLen(t) = Begin(n, t + 1) - Begin(n, t)
  BY <1>2 DEF KeyLen
<1>4. \A b, t, k : Cell(b, t, k) = At(C, b, t, k)
  BY DEF Now, Cell, At
<1>5. QED
  BY <1>1, <1>2, <1>3, <1>4

\* Whatever the sizes, a thread only moves on in its own turn.
LEMMA TurnsStep ==
  ASSUME NEW B, BinNum = B, B \in Nat, Turns(B), NEW t \in Threads, Thread(t)
  PROVE  Turns(B)'
<1> USE DEF Turns
<1>1. ThreadNum \in Nat \ {0} /\ Threads = 0..ThreadNum - 1
  BY SolveAssumption DEF Threads
<1>2. CASE HashKey(t)
  BY <1>2 DEF HashKey, merging
<1>3. CASE HashDone(t)
  BY <1>3 DEF HashDone, merging
<1>4. CASE Gather(t)
  <2>1. pc[t] = "merge" /\ src[t] < ThreadNum /\ src' \in {src, [src EXCEPT ![t] = @ + 1]}
    BY <1>4 DEF Gather
  <2>2. src' \in [Threads -> 0..ThreadNum]
    <3>1. src[t] \in 0..ThreadNum /\ src[t] + 1 \in 0..ThreadNum
      BY SMTT(30), <1>1, <2>1
    <3> HIDE DEF Turns
    <3>2. src \in [Threads -> 0..ThreadNum]
      BY DEF Turns
    <3>3. QED
      BY <2>1, <3>1, <3>2
  <2>3. UNCHANGED <<pc, bin, encoded>>
    BY <1>4 DEF Gather
  <2>4. QED
    BY <2>2, <2>3
<1>5. CASE Draw(t)
  BY <1>5 DEF Draw
<1>6. CASE Encode(t)
  <2>1. bin[t] \in 0..B - 1 /\ bin[t] % ThreadNum = t
    <3>1. bin[t] < BinNum /\ bin[t] \in Nat
      BY <1>6 DEF Encode, Gathered
    <3>2. QED
      BY <3>1
  <2>2. bin' = [bin EXCEPT ![t] = @ + ThreadNum]
    BY <1>6 DEF Encode, NextBin
  <2>3. pc' = [pc EXCEPT ![t] = "merge"] /\ src' = [src EXCEPT ![t] = 0]
        /\ encoded' = [encoded EXCEPT ![bin[t]] = Encoding(t)]
    BY <1>6 DEF Encode
  <2>4. (bin[t] + ThreadNum) % ThreadNum = t
    BY <1>1, <2>1, StrideFacts
  <2>5. \A s \in Threads : bin'[s] % ThreadNum = s
    BY <2>2, <2>4
  <2>6. \A b \in 0..B - 1 : encoded'[b] # NotYet => b < bin'[b % ThreadNum]
    <3> TAKE b \in 0..B - 1
    <3> HAVE encoded'[b] # NotYet
    <3>1. b % ThreadNum \in 0..ThreadNum - 1
      BY <1>1
    <3>2. PICK o \in Threads : o = b % ThreadNum
      BY <1>1, <3>1
    <3>3. bin[o] \in Nat /\ bin'[o] = IF o = t THEN bin[o] + ThreadNum ELSE bin[o]
      BY <2>2
    <3>4. CASE b = bin[t]
      BY <1>1, <2>1, <3>2, <3>3, <3>4
    <3>5. CASE b # bin[t]
      <4>1. encoded'[b] = encoded[b]
        BY <2>3, <3>5
      <4>2. b < bin[o]
        BY <3>2, <4>1
      <4>3. b < bin'[o]
        BY <1>1, <3>3, <4>2
      <4>4. QED
        BY <3>2, <4>3
    <3>6. QED
      BY <3>4, <3>5
  <2>7. pc' \in [Threads -> {"hash", "barrier", "merge", "draw", "done"}]
        /\ bin' \in [Threads -> Nat] /\ src' \in [Threads -> 0..ThreadNum]
        /\ DOMAIN encoded' = 0..B - 1
    BY <1>1, <2>2, <2>3
  <2>8. \A s \in Threads : pc'[s] = "done" => bin'[s] >= B
    BY <2>2, <2>3
  <2>9. QED
    BY <2>5, <2>6, <2>7, <2>8
<1>7. CASE EncodeThrows(t)
  BY <1>7 DEF EncodeThrows, merging
<1>8. CASE Leave(t)
  BY <1>8 DEF Leave, merging
<1>9. QED
  BY <1>2, <1>3, <1>4, <1>5, <1>6, <1>7, <1>8 DEF Thread

\* The barrier leaves the turns as they are.
LEMMA TurnsBarrier ==
  ASSUME NEW B, Turns(B), Barrier
  PROVE  Turns(B)'
BY DEF Turns, Barrier, merging
-----------------------------------------------------------------------------
\* A thread that hashes a key writes to a cell of its own.
LEMMA LoopHashKey ==
  ASSUME NEW B, NEW C, NEW n, NEW home, NEW ks, NEW vs,
         Job(B, C, n, home, ks, vs), Now(B, C, n, home, ks, vs),
         Turns(B), Loop(B, C, n, home, ks, vs), NEW t \in Threads, HashKey(t)
  PROVE  Loop(B, C, n, home, ks, vs)'
<1> DEFINE N == B * ThreadNum * C - 1
<1> /\ Stage(n) /\ Sizes(B, n, home)
    /\ Regions(B, C, n, home, ks, vs) /\ Gathering(B, C, n, home, ks, vs) /\ Rows(B, n, home, ks, vs)
  BY DEF Loop
<1>1. CASE UNCHANGED <<binSize, scratch, pos>>
  <2>1. UNCHANGED <<pc, bin, src, binPos, encoded>>
    BY DEF HashKey, merging
  <2>2. Stage(n)'
    BY <1>1, <2>1 DEF Stage
  <2>3. QED
    BY <1>1, <2>1, <2>2, FrameFacts DEF Loop
<1>2. CASE ~UNCHANGED <<binSize, scratch, pos>>
  <2>1. B \in Nat /\ C \in Nat /\ n \in Nat /\ home \in [1..n -> 0..B - 1] /\ Bounded(B, C, n, home)
        /\ \A i \in 1..n : ks[i] \in Int /\ vs[i] \in Int
    BY DEF Job
  <2>2. ThreadNum \in Nat \ {0} /\ Threads = 0..ThreadNum - 1
    BY SolveAssumption DEF Threads
  <2>3. PICK lo \in 0..n, hi \in 0..n : lo = Begin(n, t) /\ hi = Begin(n, t + 1)
    <3>1. Begin(n, t) \in 0..n /\ Begin(n, t + 1) \in 0..n
      BY <2>1, <2>2, BeginFacts
    <3>2. QED
      BY <3>1
  <2>4. PICK p \in Nat : p = pos[t] /\ pc[t] = "hash" /\ p < hi - lo
    <3>1. pc[t] = "hash" /\ pos[t] < KeyLen(t) /\ pos[t] \in Nat
      BY DEF HashKey, Stage
    <3>2. QED
      BY <2>3, <3>1, NowFacts
  <2>5. PICK i \in 1..n, b \in 0..B - 1 : i = lo + p + 1 /\ b = home[i] /\ b \in Nat
    <3> n \in Nat
      BY <2>1
    <3>1. lo + p + 1 \in 1..n
      BY <2>4
    <3>2. home[lo + p + 1] \in 0..B - 1
      BY <2>1, <3>1
    <3>3. QED
      BY <3>1, <3>2
  <2>6. i \in Begin(n, t) + 1..Begin(n, t + 1)
    BY <2>3, <2>4, <2>5
  <2>7. PICK k \in 0..C - 1 : k = Offset(n, home, t, i)
    BY <2>1, <2>6, OffsetFacts
  <2>8. binSize[t][b] = k /\ Rank(home, b, i) = Rank(home, b, i - 1) + 1 /\ Rank(home, b, i - 1) \in Nat
        /\ Rank(home, b, lo) \in Nat
    <3>1. binSize[t][b] = Rank(home, b, lo + p) - Rank(home, b, lo)
      BY <2>3, <2>4 DEF Sizes
    <3>2. /\ Rank(home, b, (lo + p) + 1) = Rank(home, b, lo + p) + (IF home[(lo + p) + 1] = b THEN 1 ELSE 0)
          /\ Rank(home, b, lo + p) \in Nat /\ Rank(home, b, lo) \in Nat
      <4>1. lo + p \in Nat /\ lo \in Nat
        BY <2>3
      <4>2. QED
        BY <4>1, RankStep
    <3>3. i - 1 = lo + p /\ (lo + p) + 1 = i
      BY <2>3, <2>5
    <3>4. k = Rank(home, b, i) - Rank(home, b, lo) - 1
      BY <2>3, <2>5, <2>7 DEF Offset
    <3>5. QED
      BY <2>5, <3>1, <3>2, <3>3, <3>4
  <2>9. PICK c \in 0..N : c = At(C, b, t, k)
    <3>1. t * C + k \in 0..ThreadNum * C - 1 /\ At(C, b, t, k) = At(C, b, 0, t * C + k)
      BY <2>1, AtFacts
    <3>2. At(C, b, 0, t * C + k) \in 0..N
      BY <2>1, <3>1, BinFacts
    <3>3. QED
      BY <3>1, <3>2
  <2>10. /\ binSize' = [binSize EXCEPT ![t][b] = k + 1]
         /\ hashes' = [hashes EXCEPT ![c] = ks[i]]
         /\ values' = [values EXCEPT ![c] = vs[i]]
         /\ pos' = [pos EXCEPT ![t] = p + 1]
    <3>1. KeyBegin(t) + pos[t] + 1 = i
      BY <2>3, <2>4, <2>5, NowFacts
    <3>2. binOf[keys[i]] = b /\ keys = ks /\ vals = vs
      BY <2>5 DEF Now
    <3>3. Cell(b, t, k) = c
      BY <2>9, NowFacts
    <3>4. /\ binSize' = [binSize EXCEPT ![t][b] = @ + 1]
          /\ Store(t, i, b, k)
          /\ pos' = [pos EXCEPT ![t] = @ + 1]
      BY <1>2, <2>8, <3>1, <3>2 DEF HashKey
    <3>5. QED
      BY <2>4, <2>8, <3>2, <3>3, <3>4 DEF Store
  <2>11. UNCHANGED <<pc, bin, src, binPos, encoded>>
    BY DEF HashKey, merging
  <2>12. \A s \in Threads : /\ pc[s] \in {"hash", "barrier"} /\ bin[s] = s /\ src[s] = 0
                            /\ pc[s] = "barrier" => pos[s] = Begin(n, s + 1) - Begin(n, s)
    <3>1. ~\A s \in Threads : pc[s] \in {"merge", "draw", "done"}
      BY <2>4
    <3>2. QED
      BY <3>1 DEF Stage
  <2>13. Stage(n)'
    <3>1. \A s \in Threads : pos'[s] \in Nat /\ pos'[s] <= Begin(n, s + 1) - Begin(n, s)
      BY <2>3, <2>4, <2>10 DEF Stage
    <3>2. pos' \in [Threads -> Nat]
      BY <2>10 DEF Stage
    <3>3. \A s \in Threads : pc[s] = "barrier" => pos'[s] = Begin(n, s + 1) - Begin(n, s)
      BY <2>4, <2>10, <2>12 DEF Stage
    <3>4. QED
      BY <2>11, <2>12, <3>1, <3>2, <3>3 DEF Stage
  <2>14. Sizes(B, n, home)'
    <3>1. binSize' \in [Threads -> [0..B - 1 -> Nat]]
      BY <2>10 DEF Sizes
    <3>2. ASSUME NEW s \in Threads, NEW a \in 0..B - 1
          PROVE  binSize'[s][a] = Rank(home, a, Begin(n, s) + pos'[s]) - Rank(home, a, Begin(n, s))
      <4>1. CASE s # t
        BY <2>10, <4>1 DEF Sizes, Stage
      <4>2. CASE s = t /\ a # b
        <5>1. Rank(home, a, (lo + p) + 1) = Rank(home, a, lo + p)
          <6>1. lo + p \in Nat /\ home[(lo + p) + 1] # a
            BY <2>3, <2>5, <4>2
          <6>2. Rank(home, a, lo + p) \in Nat
            BY <6>1, RankStep
          <6>3. Rank(home, a, (lo + p) + 1) = Rank(home, a, lo + p) + 0
            BY <6>1, RankStep
          <6>4. QED
            BY <6>2, <6>3
        <5>2. pos'[s] = p + 1 /\ (lo + p) + 1 = lo + (p + 1)
          BY <2>3, <2>10, <4>2 DEF Stage
        <5>3. binSize'[s][a] = binSize[t][a]
          BY <2>10, <4>2 DEF Sizes
        <5>4. QED
          BY <2>3, <2>4, <4>2, <5>1, <5>2, <5>3, SMTT(30) DEF Sizes
      <4>3. CASE s = t /\ a = b
        <5>1. binSize'[s][a] = k + 1
          BY <2>10, <4>3 DEF Sizes
        <5>2. Begin(n, s) + pos'[s] = i
          BY <2>3, <2>5, <2>10, <4>3 DEF Stage
        <5>3. k = Rank(home, b, i) - Rank(home, b, lo) - 1
          BY <2>3, <2>5, <2>7 DEF Offset
        <5>4. QED
          BY <2>3, <2>8, <4>3, <5>1, <5>2, <5>3
      <4>4. QED
        BY <4>1, <4>2, <4>3
    <3>3. QED
      BY <3>1, <3>2 DEF Sizes
  <2>15. Regions(B, C, n, home, ks, vs)'
    <3>1. hashes' \in [0..N -> Int] /\ values' \in [0..N -> Int]
      BY <2>1, <2>10 DEF Regions
    <3>2. ASSUME NEW s \in Threads, NEW j \in Begin(n, s) + 1..Begin(n, s) + pos'[s], Raw(home[j], s)'
          PROVE  Holds(At(C, home[j], s, Offset(n, home, s, j)), ks[j], vs[j])'
      <4>1. CASE s = t /\ j = i
        <5>1. At(C, home[j], s, Offset(n, home, s, j)) = c
          BY <2>5, <2>7, <2>9, <4>1
        <5>2. hashes'[c] = ks[j] /\ values'[c] = vs[j]
          BY <2>10, <4>1 DEF Regions
        <5>3. QED
          BY <5>1, <5>2 DEF Holds
      <4>2. CASE ~(s = t /\ j = i)
        <5>1. PICK q \in Nat, r \in Nat :
                q = Begin(n, s) /\ r = Begin(n, s + 1) /\ pos[s] \in Nat /\ pos[s] <= r - q /\ r <= n
          <6>1. Begin(n, s) \in 0..n /\ Begin(n, s + 1) \in 0..n
            BY <2>1, <2>2, BeginFacts
          <6>2. QED
            BY <6>1 DEF Stage
        <5>2. j \in q + 1..q + pos[s]
          BY <2>3, <2>4, <2>5, <2>10, <4>2, <5>1 DEF Stage
        <5>3. j \in Begin(n, s) + 1..Begin(n, s + 1)
          BY <5>1, <5>2
        <5>4. PICK l \in 0..C - 1, a \in 0..B - 1 :
                l = Offset(n, home, s, j) /\ a = home[j] /\ a \in Nat /\ j \in 1..n
          <6>1. Offset(n, home, s, j) \in 0..C - 1 /\ home[j] \in 0..B - 1 /\ j \in 1..n
            BY <2>1, <5>3, OffsetFacts
          <6>2. QED
            BY <6>1
        <5>5. At(C, a, s, l) # c
          <6> SUFFICES ASSUME At(C, a, s, l) = c PROVE FALSE
            OBVIOUS
          <6>1. C \in Nat /\ a \in Nat /\ b \in Nat /\ B \in Nat
            BY <2>1, <2>5, <5>4
          <6>2. s * C + l \in 0..ThreadNum * C - 1 /\ At(C, a, s, l) = At(C, a, 0, s * C + l)
            BY <6>1, AtFacts
          <6>3. t * C + k \in 0..ThreadNum * C - 1 /\ At(C, b, t, k) = At(C, b, 0, t * C + k)
            BY SMTT(30), <6>1, AtFacts
          <6>4. a = b /\ s * C + l = t * C + k
            <7>1. At(C, b, 0, t * C + k) = At(C, a, 0, s * C + l)
              BY <2>9, <6>2, <6>3
            <7>2. QED
              BY <6>1, <6>2, <6>3, <7>1, BinFacts
          <6>5. s = t /\ l = k
            BY <6>1, <6>4, AtFacts
          <6>6. j \in Begin(n, t) + 1..i - 1
            BY <2>3, <2>4, <2>5, <4>2, <5>1, <5>2, <6>5
          <6>7. Offset(n, home, t, j) < Offset(n, home, t, i)
            BY <2>1, <2>5, <2>6, <5>4, <6>4, <6>6, OffsetFacts
          <6>8. QED
            BY <2>7, <5>4, <6>5, <6>7
        <5>6. At(C, a, s, l) \in 0..N
          <6>1. s * C + l \in 0..ThreadNum * C - 1 /\ At(C, a, s, l) = At(C, a, 0, s * C + l)
            BY <2>1, <5>4, AtFacts
          <6>2. QED
            BY <2>1, <6>1, BinFacts
        <5>7. Holds(At(C, a, s, l), ks[j], vs[j])
          <6>1. Raw(home[j], s)
            BY <2>11, <3>2 DEF Raw
          <6>2. QED
            BY <5>1, <5>2, <5>4, <6>1 DEF Regions
        <5>8. hashes'[At(C, a, s, l)] = hashes[At(C, a, s, l)]
              /\ values'[At(C, a, s, l)] = values[At(C, a, s, l)]
          BY <2>10, <5>5, <5>6 DEF Regions
        <5>9. QED
          BY <5>4, <5>7, <5>8 DEF Holds
      <4>3. QED
        BY <4>1, <4>2
    <3>3. QED
      BY <3>1, <3>2 DEF Regions
  <2>16. Gathering(B, C, n, home, ks, vs)'
    <3>1. \A s \in Threads : src'[s] = 0 /\ bin'[s] = bin[s]
      BY <2>11, <2>12
    <3>2. Begin(n, 0) = 0
      BY <2>1, BeginFacts
    <3>3. \A s \in Threads : \A j \in 1..Begin(n, src'[s]) : FALSE
      BY <3>1, <3>2
    <3>4. \A s \in Threads : bin'[s] < B => binPos'[s] = Rank(home, bin'[s], Begin(n, src'[s]))
      BY <2>11 DEF Gathering
    <3>5. binPos' \in [Threads -> Nat]
      BY <2>11 DEF Gathering
    <3>6. QED
      BY <3>3, <3>4, <3>5 DEF Gathering
  <2>17. Rows(B, n, home, ks, vs)'
    BY <2>11, FrameFacts
  <2>18. QED
    BY <2>13, <2>14, <2>15, <2>16, <2>17 DEF Loop
<1>3. QED
  BY <1>1, <1>2

\* A thread waits at the barrier when it has hashed its range.
LEMMA LoopHashDone ==
  ASSUME NEW B, NEW C, NEW n, NEW home, NEW ks, NEW vs,
         Now(B, C, n, home, ks, vs),
         Turns(B), Loop(B, C, n, home, ks, vs), NEW t \in Threads, HashDone(t)
  PROVE  Loop(B, C, n, home, ks, vs)'
<1>1. UNCHANGED <<pos, binSize, scratch, bin, src, binPos, encoded>>
  BY DEF HashDone, merging
<1>2. pc[t] = "hash" /\ pos[t] = Begin(n, t + 1) - Begin(n, t) /\ pc' = [pc EXCEPT ![t] = "barrier"]
  BY NowFacts DEF HashDone
<1>3. Stage(n)'
  <2>1. ~\A s \in Threads : pc[s] \in {"merge", "draw", "done"}
    BY <1>2
  <2>2. \A s \in Threads : /\ pc[s] \in {"hash", "barrier"} /\ bin[s] = s /\ src[s] = 0
                           /\ pc[s] = "barrier" => pos[s] = Begin(n, s + 1) - Begin(n, s)
    BY <2>1 DEF Loop, Stage
  <2>3. \A s \in Threads : pc'[s] = IF s = t THEN "barrier" ELSE pc[s]
    BY <1>2 DEF Turns
  <2>4. \A s \in Threads : /\ pc'[s] \in {"hash", "barrier"}
                           /\ pc'[s] = "barrier" => pos[s] = Begin(n, s + 1) - Begin(n, s)
    BY <1>2, <2>2, <2>3
  <2>5. QED
    BY <1>1, <2>2, <2>4 DEF Loop, Stage
<1>4. QED
  BY <1>1, <1>3, FrameFacts DEF Loop

\* Behind the barrier every region is complete.
LEMMA LoopBarrier ==
  ASSUME NEW B, NEW C, NEW n, NEW home, NEW ks, NEW vs,
         Loop(B, C, n, home, ks, vs), Barrier
  PROVE  Loop(B, C, n, home, ks, vs)'
<1>1. UNCHANGED <<pos, binSize, scratch, bin, src, binPos, encoded>>
  BY DEF Barrier, merging
<1>2. Stage(n)'
  <2>1. \A s \in Threads : pc[s] = "barrier" /\ pc'[s] = "merge"
    BY DEF Barrier
  <2>2. \A s \in Threads : pos[s] = Begin(n, s + 1) - Begin(n, s)
    BY <2>1 DEF Loop, Stage
  <2>3. QED
    BY <1>1, <2>1, <2>2 DEF Loop, Stage
<1>3. QED
  BY <1>1, <1>2, FrameFacts DEF Loop

\* Drawing the coins, leaving the loop and an encode that fails touch no key.
LEMMA LoopDrawOrLeave ==
  ASSUME NEW B, NEW C, NEW n, NEW home, NEW ks, NEW vs, Turns(B),
         Loop(B, C, n, home, ks, vs), NEW t \in Threads, Draw(t) \/ Leave(t) \/ EncodeThrows(t)
  PROVE  Loop(B, C, n, home, ks, vs)'
<1>1. UNCHANGED <<pos, binSize, scratch, bin, src, binPos, encoded>>
  BY DEF Draw, Leave, EncodeThrows, merging
<1>2. Stage(n)'
  <2>1. CASE EncodeThrows(t)
    BY <1>1, <2>1 DEF EncodeThrows, Loop, Stage
  <2>2. CASE Draw(t) \/ Leave(t)
    <3>1. pc[t] = "merge"
      BY <2>2 DEF Draw, Leave
    <3>2. ~\A s \in Threads : pc[s] \in {"hash", "barrier"}
      BY <3>1
    <3>3. \A s \in Threads : /\ pc[s] \in {"merge", "draw", "done"}
                             /\ pos[s] = Begin(n, s + 1) - Begin(n, s)
      BY <3>2 DEF Loop, Stage
    <3>4. \A s \in Threads : pc'[s] \in {"merge", "draw", "done"}
      BY <2>2, <3>3 DEF Draw, Leave, Turns
    <3>5. QED
      BY <1>1, <3>3, <3>4 DEF Loop, Stage
  <2>3. QED
    BY <2>1, <2>2
<1>3. QED
  BY <1>1, <1>2, FrameFacts DEF Loop

\* What a block move does to a cell outside its target and to one inside.
IsMove(N, array, to, from, m, new) ==
  /\ new \in [0..N -> Int]
  /\ \A c \in 0..N : c \notin to..to + m - 1 => new[c] = array[c]
  /\ \A k \in 0..m - 1 : to + k \in 0..N /\ from + k \in 0..N => new[to + k] = array[from + k]

\* Moved is such a move, whether or not target and source overlap.
LEMMA MovedFacts ==
  ASSUME NEW N \in Int, Cells = 0..N, NEW array \in [0..N -> Int],
         NEW to \in Int, NEW from \in Int, NEW m \in Nat
  PROVE  IsMove(N, array, to, from, m, Moved(array, to, from, m))
<1> DEFINE at(c) == IF c \notin to..to + m - 1 THEN array[c]
                    ELSE IF from + (c - to) \in 0..N THEN array[from + (c - to)] ELSE Nothing
<1>1. Moved(array, to, from, m) = [c \in 0..N |-> at(c)]
  BY DEF Moved
<1>2. \A c \in 0..N : at(c) \in Int
  BY DEF Nothing
<1>3. \A k \in 0..m - 1 : from + k \in 0..N => at(to + k) = array[from + k]
  <2> TAKE k \in 0..m - 1
  <2>1. from + ((to + k) - to) = from + k /\ to + k \in to..to + m - 1
    OBVIOUS
  <2>2. QED
    BY <2>1
<1>4. \A c \in 0..N : c \notin to..to + m - 1 => at(c) = array[c]
  OBVIOUS
<1> HIDE DEF at
<1>5. QED
  BY <1>1, <1>2, <1>3, <1>4 DEF IsMove

\* A thread that gathers a region writes after what it has gathered of the bin
\* and before the regions still raw.
LEMMA GatherWrites ==
  ASSUME NEW B, NEW C, NEW n, NEW home, NEW ks, NEW vs,
         Job(B, C, n, home, ks, vs), Now(B, C, n, home, ks, vs),
         Turns(B), Loop(B, C, n, home, ks, vs), NEW t \in Threads, Gather(t),
         ~UNCHANGED <<scratch, binPos, src>>
  PROVE  \E b \in 0..B - 1, s \in Threads, x \in Nat, y \in Nat :
           /\ b = bin[t] /\ b % ThreadNum = t /\ s = src[t]
           /\ x = Rank(home, b, Begin(n, s)) /\ y = Rank(home, b, Begin(n, s + 1))
           /\ x <= y /\ y - x <= C /\ x <= s * C /\ y <= (s + 1) * C /\ (s + 1) * C <= ThreadNum * C
           /\ src' = [src EXCEPT ![t] = s + 1] /\ binPos' = [binPos EXCEPT ![t] = y]
           /\ hashes' = Moved(hashes, At(C, b, 0, x), At(C, b, s, 0), y - x)
           /\ values' = Moved(values, At(C, b, 0, x), At(C, b, s, 0), y - x)
<1>1. /\ B \in Nat /\ C \in Nat /\ n \in Nat /\ Bounded(B, C, n, home)
      /\ ThreadNum \in Nat \ {0} /\ Threads = 0..ThreadNum - 1
  BY SolveAssumption DEF Job, Threads
<1>2. /\ pc[t] = "merge" /\ bin[t] < B /\ src[t] < ThreadNum
      /\ src' = [src EXCEPT ![t] = @ + 1]
      /\ binPos' = [binPos EXCEPT ![t] = @ + binSize[src[t]][bin[t]]]
      /\ hashes' = Moved(hashes, Cell(bin[t], 0, binPos[t]), Cell(bin[t], src[t], 0), binSize[src[t]][bin[t]])
      /\ values' = Moved(values, Cell(bin[t], 0, binPos[t]), Cell(bin[t], src[t], 0), binSize[src[t]][bin[t]])
  BY DEF Gather, scratch, Now
<1>3. PICK b \in 0..B - 1 : b = bin[t] /\ b % ThreadNum = t
  <2>1. bin[t] \in Nat /\ bin[t] % ThreadNum = t
    BY DEF Turns
  <2>2. bin[t] \in 0..B - 1
    BY <1>1, <1>2, <2>1
  <2>3. QED
    BY <2>1, <2>2
<1>4. PICK s \in Threads : s = src[t] /\ s + 1 \in 0..ThreadNum /\ s \in 0..ThreadNum /\ s \in Nat
  <2>1. src[t] \in 0..ThreadNum
    BY DEF Turns
  <2>2. QED
    BY <1>1, <1>2, <2>1
<1>5. Begin(n, s) \in Nat /\ Begin(n, s + 1) \in Nat
  <2>1. \A r \in 0..ThreadNum : Begin(n, r) \in 0..n
    BY <1>1, BeginFacts
  <2>2. Begin(n, s) \in 0..n /\ Begin(n, s + 1) \in 0..n
    BY <1>4, <2>1
  <2>3. QED
    BY <1>1, <2>2
<1>6. PICK x \in Nat : x = Rank(home, b, Begin(n, s)) /\ x <= s * C
  BY <1>1, <1>4, GatheredFits
<1>7. PICK y \in Nat : y = Rank(home, b, Begin(n, s + 1)) /\ y <= (s + 1) * C
  BY <1>1, <1>4, GatheredFits
<1>8. y - x <= C
  BY <1>1, <1>6, <1>7 DEF Bounded
<1>9. x <= y
  <2>1. Begin(n, s) \in Nat /\ Begin(n, s + 1) \in Nat
    BY <1>5
  <2>2. Begin(n, s) <= Begin(n, s + 1)
    BY <1>1, BeginFacts
  <2>3. QED
    BY <1>6, <1>7, <2>1, <2>2, RankBetween
<1>10. (s + 1) * C <= ThreadNum * C
  <2>1. PICK e \in Nat : ThreadNum = s + 1 + e
    <3>1. ThreadNum \in Nat /\ C \in Nat
      BY <1>1
    <3>2. ThreadNum - s - 1 \in Nat /\ ThreadNum = s + 1 + (ThreadNum - s - 1)
      BY <1>4, <3>1
    <3>3. QED
      BY <3>2
  <2>2. ThreadNum * C = (s + 1) * C + e * C /\ e * C \in Nat /\ (s + 1) * C \in Nat
    <3>1. C \in Nat /\ s \in Nat
      BY <1>1, <1>4
    <3>2. (s + 1 + e) * C = (s + 1) * C + e * C /\ e * C \in Nat /\ (s + 1) * C \in Nat
      BY <3>1
    <3>3. QED
      BY <2>1, <3>2
  <2>3. QED
    BY <2>2
<1>11. binPos[t] = x
  BY <1>2, <1>3, <1>4, <1>6 DEF Loop, Gathering
<1>12. binSize[s][b] = y - x
  <2>1. ~\A r \in Threads : pc[r] \in {"hash", "barrier"}
    BY <1>2
  <2>2. pos[s] = Begin(n, s + 1) - Begin(n, s)
    BY <2>1 DEF Loop, Stage
  <2>3. Begin(n, s) \in Nat /\ Begin(n, s + 1) \in Nat
    BY <1>5
  <2>4. Begin(n, s) + pos[s] = Begin(n, s + 1)
    BY <2>2, <2>3
  <2>5. binSize[s][b] = Rank(home, b, Begin(n, s) + pos[s]) - Rank(home, b, Begin(n, s))
    BY <1>3 DEF Loop, Sizes
  <2>6. QED
    BY <1>6, <1>7, <2>4, <2>5
<1>13. binPos' = [binPos EXCEPT ![t] = y]
  <2>1. x + (y - x) = y
    OBVIOUS
  <2>2. binPos' = [binPos EXCEPT ![t] = x + (y - x)]
    BY <1>2, <1>3, <1>4, <1>11, <1>12
  <2>3. QED
    BY <2>1, <2>2
<1>14. \A a, r, k : Cell(a, r, k) = At(C, a, r, k)
  BY NowFacts
<1>15. /\ hashes' = Moved(hashes, At(C, b, 0, x), At(C, b, s, 0), y - x)
       /\ values' = Moved(values, At(C, b, 0, x), At(C, b, s, 0), y - x)
       /\ src' = [src EXCEPT ![t] = s + 1]
  BY <1>2, <1>3, <1>4, <1>11, <1>12, <1>14
<1>16. QED
  BY <1>3, <1>4, <1>6, <1>7, <1>8, <1>9, <1>10, <1>13, <1>15

\* What gathering keys x..y-1 of bin b does to the array, place by place: it
\* moves them from region s and leaves the other bins and places alone.
IsGather(B, C, array, b, s, x, y, new) ==
  /\ new \in [0..B * ThreadNum * C - 1 -> Int]
  /\ \A a \in 0..B - 1 : \A z \in 0..ThreadNum * C - 1 :
       a # b \/ z < x \/ z >= y => new[At(C, a, 0, z)] = array[At(C, a, 0, z)]
  /\ \A k \in 0..C - 1 : x + k < y => new[At(C, b, 0, x + k)] = array[At(C, b, s, k)]

\* A move between the cells of bin b is such a gathering.
LEMMA GatherCells ==
  ASSUME NEW B \in Nat, NEW C \in Nat, NEW N, N = B * ThreadNum * C - 1, Cells = 0..N,
         NEW array \in [0..N -> Int], NEW b \in 0..B - 1, NEW s \in Threads,
         NEW x \in Nat, NEW y \in Nat, x <= y, y - x <= C, y <= ThreadNum * C,
         NEW new, new = Moved(array, At(C, b, 0, x), At(C, b, s, 0), y - x)
  PROVE  IsGather(B, C, array, b, s, x, y, new)
<1> DEFINE to == At(C, b, 0, x)
           from == At(C, b, s, 0)
           m == y - x
<1>1. ThreadNum \in Nat \ {0} /\ s \in 0..ThreadNum - 1
  BY SolveAssumption DEF Threads
<1>2. PICK M \in Nat : M = ThreadNum * C
  BY <1>1
<1>3. \A a \in Nat : a * ThreadNum * C \in Nat
  BY <1>1
<1>4. s * C \in Nat
  BY <1>1
<1>5. to \in Nat /\ from \in Nat /\ m \in Nat /\ N \in Int
  <2>1. b * ThreadNum * C \in Nat /\ B * ThreadNum * C \in Nat
    BY <1>3
  <2>2. QED
    BY <1>4, <2>1 DEF At
<1>6. /\ new \in [0..N -> Int]
      /\ \A c \in 0..N : c \notin to..to + m - 1 => new[c] = array[c]
      /\ \A k \in 0..m - 1 : to + k \in 0..N /\ from + k \in 0..N => new[to + k] = array[from + k]
  <2> HIDE DEF to, from, m
  <2>1. new = Moved(array, to, from, m)
    BY DEF to, from, m
  <2>2. to \in Int /\ from \in Int
    BY <1>5
  <2>3. IsMove(N, array, to, from, m, Moved(array, to, from, m))
    BY <1>5, <2>2, MovedFacts
  <2>4. IsMove(N, array, to, from, m, new)
    BY <2>1, <2>3
  <2>5. QED
    BY <2>4 DEF IsMove
<1>7. \A k \in Nat : At(C, b, 0, x + k) = to + k
  <2>1. PICK u \in Nat : u = b * ThreadNum * C
    BY <1>3
  <2>2. 0 * C = 0
    OBVIOUS
  <2>3. \A k \in Nat : u + 0 + (x + k) = u + 0 + x + k
    OBVIOUS
  <2>4. QED
    BY <2>1, <2>2, <2>3 DEF At
<1>8. \A k \in Nat : At(C, b, s, k) = from + k
  <2>1. PICK u \in Nat, v \in Nat : u = b * ThreadNum * C /\ v = s * C
    BY SMTT(30), <1>3, <1>4
  <2>2. \A k \in Nat : u + v + k = u + v + 0 + k
    OBVIOUS
  <2>3. QED
    BY <2>1, <2>2 DEF At
<1>9. ASSUME NEW a \in 0..B - 1, NEW z \in 0..M - 1, a # b \/ z < x \/ z >= y
      PROVE  new[At(C, a, 0, z)] = array[At(C, a, 0, z)]
  <2>1. At(C, a, 0, z) \in 0..N
    BY <1>2, BinFacts
  <2>2. At(C, a, 0, z) \notin to..to + m - 1
    <3> SUFFICES ASSUME At(C, a, 0, z) \in to..to + m - 1
                 PROVE  FALSE
      OBVIOUS
    <3>1. PICK k \in 0..m - 1 : At(C, a, 0, z) = to + k
      <4> HIDE DEF to, m
      <4>1. At(C, a, 0, z) - to \in 0..m - 1 /\ At(C, a, 0, z) = to + (At(C, a, 0, z) - to)
        BY SMTT(30), <1>5, <2>1
      <4>2. QED
        BY <4>1
    <3>2. x + k \in 0..M - 1 /\ k \in Nat /\ x + k < y
      BY SMTT(30), <1>2, <1>5
    <3>3. At(C, a, 0, z) = At(C, b, 0, x + k)
      BY <1>7, <3>1, <3>2
    <3>4. a = b /\ z = x + k
      <4>1. b \in Nat /\ a \in 0..B - 1 /\ z \in 0..ThreadNum * C - 1 /\ x + k \in 0..ThreadNum * C - 1
        BY <1>2, <3>2
      <4>2. QED
        BY <3>3, <4>1, BinFacts
    <3>5. QED
      BY <1>9, <3>2, <3>4
  <2>3. QED
    BY <1>6, <2>1, <2>2
<1>10. ASSUME NEW k \in 0..C - 1, x + k < y
       PROVE  new[At(C, b, 0, x + k)] = array[At(C, b, s, k)]
  <2>1. k \in 0..m - 1 /\ k \in Nat /\ x + k \in 0..ThreadNum * C - 1
    BY <1>2, <1>10
  <2>2. At(C, b, 0, x + k) = to + k /\ At(C, b, s, k) = from + k
    BY <1>7, <1>8, <2>1
  <2>3. At(C, b, 0, x + k) \in 0..N
    BY <2>1, BinFacts
  <2>4. At(C, b, s, k) \in 0..N
    <3>1. b \in Nat
      OBVIOUS
    <3>2. s * C + k \in 0..ThreadNum * C - 1 /\ At(C, b, s, k) = At(C, b, 0, s * C + k)
      BY <3>1, AtFacts
    <3>3. QED
      BY <3>2, BinFacts
  <2> HIDE DEF to, from, m
  <2>5. QED
    BY <1>6, <2>1, <2>2, <2>3, <2>4
<1>11. QED
  BY <1>2, <1>6, <1>9, <1>10 DEF IsGather

\* Gathering appends a region's keys to those before, and spoils no other.
LEMMA LoopGather ==
  ASSUME NEW B, NEW C, NEW n, NEW home, NEW ks, NEW vs,
         Job(B, C, n, home, ks, vs), Now(B, C, n, home, ks, vs),
         Turns(B), Loop(B, C, n, home, ks, vs), NEW t \in Threads, Gather(t)
  PROVE  Loop(B, C, n, home, ks, vs)'
<1> DEFINE N == B * ThreadNum * C - 1
<1> /\ Stage(n) /\ Sizes(B, n, home)
    /\ Regions(B, C, n, home, ks, vs) /\ Gathering(B, C, n, home, ks, vs) /\ Rows(B, n, home, ks, vs)
  BY DEF Loop
<1>1. UNCHANGED <<pc, pos, binSize, bin, encoded>>
  BY DEF Gather
<1>2. Sizes(B, n, home)' /\ Rows(B, n, home, ks, vs)'
  BY <1>1, FrameFacts
<1>3. CASE UNCHANGED <<scratch, binPos, src>>
  <2>1. Stage(n)'
    BY <1>1, <1>3 DEF Stage
  <2>2. QED
    BY <1>1, <1>2, <1>3, <2>1, FrameFacts DEF Loop
<1>4. CASE ~UNCHANGED <<scratch, binPos, src>>
  <2>1. /\ B \in Nat /\ C \in Nat /\ n \in Nat /\ home \in [1..n -> 0..B - 1]
        /\ Bounded(B, C, n, home)
    BY DEF Job
  <2>2. ThreadNum \in Nat \ {0} /\ Threads = 0..ThreadNum - 1
    BY SolveAssumption DEF Threads
  <2>3. PICK b \in 0..B - 1, s \in Threads, x \in Nat, y \in Nat :
           /\ b = bin[t] /\ b % ThreadNum = t /\ s = src[t]
           /\ x = Rank(home, b, Begin(n, s)) /\ y = Rank(home, b, Begin(n, s + 1))
           /\ x <= y /\ y - x <= C /\ x <= s * C /\ y <= (s + 1) * C /\ (s + 1) * C <= ThreadNum * C
           /\ src' = [src EXCEPT ![t] = s + 1] /\ binPos' = [binPos EXCEPT ![t] = y]
           /\ hashes' = Moved(hashes, At(C, b, 0, x), At(C, b, s, 0), y - x)
           /\ values' = Moved(values, At(C, b, 0, x), At(C, b, s, 0), y - x)
    BY <1>4, GatherWrites
  <2>4. y <= ThreadNum * C
    <3>1. (s + 1) * C \in Int /\ ThreadNum * C \in Int
      BY <2>1, <2>2
    <3>2. QED
      BY <2>3, <3>1
  <2>5. hashes \in [0..N -> Int] /\ values \in [0..N -> Int] /\ Cells = 0..N
    BY NowFacts DEF Regions
  <2> DEFINE Same(a, z) == a # b \/ z < x \/ z >= y
             Kept(c) == hashes'[c] = hashes[c] /\ values'[c] = values[c]
             Copied(c, d) == hashes'[c] = hashes[d] /\ values'[c] = values[d]
  <2>6. /\ hashes' \in [0..N -> Int] /\ values' \in [0..N -> Int]
        /\ \A a \in 0..B - 1 : \A z \in 0..ThreadNum * C - 1 : Same(a, z) => Kept(At(C, a, 0, z))
        /\ \A k \in 0..C - 1 : x + k < y => Copied(At(C, b, 0, x + k), At(C, b, s, k))
    <3>1. PICK h, v : h = hashes' /\ v = values'
      OBVIOUS
    <3>2. PICK h0 \in [0..N -> Int], v0 \in [0..N -> Int] : h0 = hashes /\ v0 = values
      BY <2>5
    <3>3. /\ h = Moved(h0, At(C, b, 0, x), At(C, b, s, 0), y - x)
          /\ v = Moved(v0, At(C, b, 0, x), At(C, b, s, 0), y - x)
      BY <2>3, <3>1, <3>2
    <3>4. IsGather(B, C, h0, b, s, x, y, h) /\ IsGather(B, C, v0, b, s, x, y, v)
      BY <2>1, <2>3, <2>4, <2>5, <3>3, GatherCells
    <3>5. QED
      BY <3>1, <3>2, <3>4 DEF IsGather
  <2> HIDE DEF N, Same, Kept, Copied
  <2>7. Stage(n)'
    <3>1. ~\A r \in Threads : pc[r] \in {"hash", "barrier"}
      BY DEF Gather
    <3>2. \A r \in Threads : /\ pc[r] \in {"merge", "draw", "done"}
                             /\ pos[r] = Begin(n, r + 1) - Begin(n, r)
      BY <3>1 DEF Stage
    <3>3. QED
      BY <1>1, <3>2 DEF Stage
  <2>8. \A r \in Threads : src'[r] = IF r = t THEN s + 1 ELSE src[r]
    BY <2>3 DEF Turns
  <2>9. Regions(B, C, n, home, ks, vs)'
    <3>1. ASSUME NEW r \in Threads, NEW j \in Begin(n, r) + 1..Begin(n, r) + pos[r], Raw(home[j], r)'
          PROVE  Holds(At(C, home[j], r, Offset(n, home, r, j)), ks[j], vs[j])'
      <4>1. j \in Begin(n, r) + 1..Begin(n, r + 1)
        <5>1. Begin(n, r) \in Nat /\ Begin(n, r + 1) \in Nat
          <6>1. r \in 0..ThreadNum /\ r + 1 \in 0..ThreadNum
            BY <2>2
          <6>2. Begin(n, r) \in 0..n /\ Begin(n, r + 1) \in 0..n
            BY <2>1, <6>1, BeginFacts
          <6>3. n \in Nat
            BY <2>1
          <6>4. QED
            BY <6>2, <6>3
        <5>2. pos[r] \in Nat /\ pos[r] <= Begin(n, r + 1) - Begin(n, r)
          BY DEF Stage
        <5>3. QED
          BY <5>1, <5>2
      <4>2. PICK l \in 0..C - 1, a \in 0..B - 1 : l = Offset(n, home, r, j) /\ a = home[j] /\ a \in Nat
        <5>1. Offset(n, home, r, j) \in 0..C - 1 /\ home[j] \in 0..B - 1
          BY <2>1, <4>1, OffsetFacts
        <5>2. QED
          BY <5>1
      <4>3. PICK z \in 0..ThreadNum * C - 1 : z = r * C + l /\ At(C, a, r, l) = At(C, a, 0, z)
        <5> C \in Nat /\ a \in Nat
          BY <2>1, <4>2
        <5>1. r * C + l \in 0..ThreadNum * C - 1 /\ At(C, a, r, l) = At(C, a, 0, r * C + l)
          BY AtFacts
        <5>2. QED
          BY <5>1
      <4>4. PICK o \in Threads : o = a % ThreadNum
        <5>1. a % ThreadNum \in 0..ThreadNum - 1
          BY SMTT(30), <2>2, <4>2
        <5>2. QED
          BY <2>2, <5>1
      <4>5. bin[o] < a \/ (bin[o] = a /\ src'[o] <= r)
        BY <1>1, <3>1, <4>2, <4>4 DEF Raw
      <4>6. Raw(a, r)
        <5>1. src[o] <= src'[o] /\ src[o] \in Nat /\ src'[o] \in Nat
          <6>1. src[o] \in Nat /\ s \in Nat
            <7>1. src[o] \in 0..ThreadNum
              BY DEF Turns
            <7>2. QED
              BY <2>2, <7>1
          <6>2. src'[o] = IF o = t THEN s + 1 ELSE src[o]
            BY <2>8
          <6>3. o = t => src[o] = s
            BY <2>3
          <6>4. QED
            BY <6>1, <6>2, <6>3
        <5>2. r \in Nat
          BY <2>2
        <5>3. bin[o] < a \/ (bin[o] = a /\ src[o] <= r)
          BY <4>5, <5>1, <5>2
        <5>4. QED
          BY <4>4, <5>3 DEF Raw
      <4>7. Same(a, z)
        <5> SUFFICES ASSUME a = b PROVE z >= y
          BY DEF Same
        <5>1. o = t
          BY <2>3, <4>4
        <5>2. s + 1 <= r
          <6>1. src'[t] = s + 1 /\ bin[t] = a
            BY <2>3, <2>8
          <6>2. ~(bin[t] < a)
            BY <4>2, <6>1
          <6>3. QED
            BY <4>5, <5>1, <6>1, <6>2
        <5>3. PICK e \in Nat : r = s + 1 + e
          <6>1. r \in Nat /\ s \in Nat
            BY <2>2
          <6>2. r - s - 1 \in Nat /\ r = s + 1 + (r - s - 1)
            BY <5>2, <6>1
          <6>3. QED
            BY <6>2
        <5>4. (s + 1 + e) * C = (s + 1) * C + e * C /\ e * C \in Nat /\ (s + 1) * C \in Nat
          <6>1. s \in Nat
            BY <2>2
          <6>2. QED
            BY <2>1, <6>1
        <5>5. r * C = (s + 1) * C + e * C
          BY <5>3, <5>4
        <5>6. QED
          BY <2>3, <4>3, <5>4, <5>5
      <4>8. Holds(At(C, a, r, l), ks[j], vs[j])
        BY <4>2, <4>6 DEF Regions
      <4>9. Kept(At(C, a, r, l))
        BY <2>6, <4>3, <4>7
      <4>10. QED
        BY <4>2, <4>8, <4>9 DEF Holds, Kept
    <3>2. hashes' \in [0..B * ThreadNum * C - 1 -> Int] /\ values' \in [0..B * ThreadNum * C - 1 -> Int]
      BY <2>6 DEF N
    <3>3. QED
      BY <1>1, <3>1, <3>2 DEF Regions
  <2>10. Gathering(B, C, n, home, ks, vs)'
    <3>1. binPos' \in [Threads -> Nat]
      BY <2>3 DEF Gathering
    <3>2. ASSUME NEW r \in Threads, bin[r] < B
          PROVE  binPos'[r] = Rank(home, bin[r], Begin(n, src'[r]))
      <4>1. CASE r = t
        BY <2>3, <2>8, <4>1 DEF Gathering
      <4>2. CASE r # t
        BY <2>3, <2>8, <3>2, <4>2 DEF Gathering
      <4>3. QED
        BY <4>1, <4>2
    <3>3. ASSUME NEW r \in Threads, bin[r] < B, NEW i \in 1..Begin(n, src'[r]), home[i] = bin[r]
          PROVE  Holds(At(C, bin[r], 0, Rank(home, bin[r], i) - 1), ks[i], vs[i])'
      <4>1. PICK a \in 0..B - 1 : a = bin[r] /\ a % ThreadNum = r /\ a \in Nat
        <5>1. bin[r] \in Nat /\ bin[r] % ThreadNum = r
          BY DEF Turns
        <5>2. QED
          BY <2>1, <3>3, <5>1
      <4>2. CASE r # t \/ i <= Begin(n, s)
        <5>1. PICK q \in 0..ThreadNum : q = src[r] /\ i \in 1..Begin(n, q)
          <6>1. src[r] \in 0..ThreadNum
            BY DEF Turns
          <6>2. i \in 1..Begin(n, src[r])
            <7>1. CASE r # t
              BY <2>8, <3>3, <7>1
            <7>2. CASE r = t
              <8>1. Begin(n, s) \in Int
                BY <2>1, <2>2, BeginFacts
              <8>2. i \in 1..Begin(n, s)
                BY <4>2, <7>2, <8>1
              <8>3. QED
                BY <2>3, <7>2, <8>2
            <7>3. QED
              BY <7>1, <7>2
          <6>3. QED
            BY <6>1, <6>2
        <5>2. Holds(At(C, a, 0, Rank(home, a, i) - 1), ks[i], vs[i])
          BY <3>3, <4>1, <5>1 DEF Gathering
        <5>3. /\ Rank(home, a, i) \in Nat /\ Rank(home, a, Begin(n, q)) \in Nat
              /\ Rank(home, a, i) <= Rank(home, a, Begin(n, q)) /\ Rank(home, a, i) > 0
              /\ Rank(home, a, Begin(n, q)) <= q * C
          <6>1. Begin(n, q) \in Nat /\ i \in Nat /\ 0 < i /\ i <= Begin(n, q) /\ 0 \in Nat
            <7>1. Begin(n, q) \in 0..n
              BY <2>1, BeginFacts
            <7>2. Begin(n, q) \in Nat
              BY <2>1, <7>1
            <7>3. QED
              BY <5>1, <7>2
          <6>2. Rank(home, a, i) \in Nat /\ Rank(home, a, i) <= Rank(home, a, Begin(n, q))
            BY <6>1, RankBetween
          <6>3. Rank(home, a, 0) < Rank(home, a, i) /\ Rank(home, a, 0) \in Nat
            BY <3>3, <4>1, <6>1, RankStrict
          <6>4. Rank(home, a, Begin(n, q)) \in Nat /\ Rank(home, a, Begin(n, q)) <= q * C
            BY <2>1, GatheredFits
          <6>5. QED
            BY <6>2, <6>3, <6>4
        <5>4. q * C <= ThreadNum * C /\ q * C \in Nat /\ ThreadNum * C \in Nat
          <6>1. PICK e \in Nat : ThreadNum = q + e
            <7>1. ThreadNum - q \in Nat /\ ThreadNum = q + (ThreadNum - q)
              BY <2>2
            <7>2. QED
              BY <7>1
          <6>2. (q + e) * C = q * C + e * C /\ q * C \in Nat /\ e * C \in Nat
            BY <2>1
          <6>3. QED
            BY <6>1, <6>2
        <5>5. PICK z \in 0..ThreadNum * C - 1 : z = Rank(home, a, i) - 1
          BY <5>3, <5>4
        <5>6. Same(a, z)
          <6> SUFFICES ASSUME a = b PROVE z < x
            BY DEF Same
          <6>1. r = t /\ q = s
            BY <2>3, <4>1, <5>1
          <6>2. QED
            BY <2>3, <5>3, <5>5, <6>1
        <5>7. Kept(At(C, a, 0, z))
          BY <2>6, <5>6
        <5>8. QED
          BY <4>1, <5>2, <5>5, <5>7, <1>1 DEF Holds, Kept
      <4>3. CASE r = t /\ ~(i <= Begin(n, s))
        <5>1. a = b /\ i \in Begin(n, s) + 1..Begin(n, s + 1) /\ home[i] = b
          <6>1. Begin(n, s) \in Nat
            <7>1. s \in 0..ThreadNum
              BY <2>2
            <7>2. Begin(n, s) \in 0..n
              BY <2>1, <7>1, BeginFacts
            <7>3. QED
              BY <2>1, <7>2
          <6>2. i \in 1..Begin(n, s + 1)
            BY <2>8, <3>3, <4>3
          <6>3. QED
            BY <2>3, <3>3, <4>1, <4>3, <6>1, <6>2
        <5>2. PICK k \in 0..C - 1 : k = Offset(n, home, s, i)
          BY <2>1, <5>1, OffsetFacts
        <5>3. Rank(home, b, i) - 1 = x + k /\ x + k < y
          <6>1. Begin(n, s + 1) \in Nat /\ i \in Nat /\ i <= Begin(n, s + 1)
            <7>1. s + 1 \in 0..ThreadNum
              BY <2>2
            <7>2. Begin(n, s + 1) \in 0..n
              BY <2>1, <7>1, BeginFacts
            <7>3. i \in 1..Begin(n, s + 1)
              BY <2>8, <3>3, <4>3
            <7>4. QED
              BY <2>1, <7>2, <7>3
          <6>2. Rank(home, b, i) \in Nat /\ Rank(home, b, i) <= y
            BY <2>3, <6>1, RankBetween
          <6>3. k = Rank(home, b, i) - x - 1
            BY <2>3, <5>1, <5>2 DEF Offset
          <6>4. QED
            BY <6>2, <6>3
        <5>4. Copied(At(C, b, 0, x + k), At(C, b, s, k))
          BY <2>6, <5>3
        <5>5. Holds(At(C, b, s, k), ks[i], vs[i])
          <6>1. Raw(b, s)
            <7>1. s <= s
              BY <2>2
            <7>2. QED
              BY <2>3, <7>1 DEF Raw
          <6>2. ~\A m \in Threads : pc[m] \in {"hash", "barrier"}
            BY DEF Gather
          <6>3. pos[s] = Begin(n, s + 1) - Begin(n, s)
            BY <6>2 DEF Stage
          <6>4. Begin(n, s) \in Nat /\ Begin(n, s + 1) \in Nat
            <7>1. s \in 0..ThreadNum /\ s + 1 \in 0..ThreadNum
              BY <2>2
            <7>2. Begin(n, s) \in 0..n /\ Begin(n, s + 1) \in 0..n
              BY <2>1, <7>1, BeginFacts
            <7>3. QED
              BY <2>1, <7>2
          <6>5. Begin(n, s) + pos[s] = Begin(n, s + 1)
            BY <6>3, <6>4
          <6>6. i \in Begin(n, s) + 1..Begin(n, s) + pos[s]
            BY <5>1, <6>5
          <6>7. QED
            BY <5>1, <5>2, <6>1, <6>6 DEF Regions
        <5>6. QED
          BY <1>1, <4>1, <5>1, <5>3, <5>4, <5>5 DEF Holds, Copied
      <4>4. QED
        BY <4>2, <4>3
    <3>4. QED
      BY <1>1, <3>1, <3>2, <3>3 DEF Gathering
  <2>11. QED
    BY <1>2, <2>7, <2>9, <2>10 DEF Loop
<1>5. QED
  BY <1>3, <1>4

\* A thread encodes a bin when it has gathered all its regions: it finds the
\* rows of the bin's keys, in order.
LEMMA EncodingRows ==
  ASSUME NEW B, NEW C, NEW n, NEW home, NEW ks, NEW vs,
         Job(B, C, n, home, ks, vs), Now(B, C, n, home, ks, vs),
         Turns(B), Loop(B, C, n, home, ks, vs), NEW t \in Threads, Encode(t),
         NEW b \in 0..B - 1, b = bin[t]
  PROVE  Encoding(t).rows = RowsOf(n, home, ks, vs, b)
<1>1. /\ B \in Nat /\ C \in Nat /\ n \in Nat /\ Bounded(B, C, n, home)
      /\ ThreadNum \in Nat \ {0}
  BY SolveAssumption DEF Job
<1>2. src[t] = ThreadNum /\ Begin(n, ThreadNum) = n /\ bin[t] < B /\ bin[t] = b
  BY <1>1, BeginFacts, SMTT(30) DEF Encode, Gathered
<1>3. PICK m \in Nat : m = Rank(home, b, n) /\ m <= ThreadNum * C
  <2>1. ThreadNum \in 0..ThreadNum
    BY <1>1
  <2>2. Rank(home, b, Begin(n, ThreadNum)) \in Nat /\ Rank(home, b, Begin(n, ThreadNum)) <= ThreadNum * C
    BY <1>1, <2>1, GatheredFits
  <2>3. QED
    BY <1>2, <2>2
<1>4. binPos[t] = m
  BY <1>2, <1>3 DEF Loop, Gathering
<1>5. \A i \in 1..n : home[i] = b => Holds(At(C, b, 0, Rank(home, b, i) - 1), ks[i], vs[i])
  BY <1>2 DEF Loop, Gathering
<1>6. PICK mine \in [1..m -> Among(home, b, n)] :
        mine = Ascending(Among(home, b, n)) /\ \A j \in 1..m : Rank(home, b, mine[j]) = j
  BY <1>1, <1>3, AscendingRank
<1>7. \A j \in 1..m : Holds(At(C, b, 0, j - 1), ks[mine[j]], vs[mine[j]])
  <2> TAKE j \in 1..m
  <2>1. PICK i \in 1..n : i = mine[j] /\ home[i] = b
    BY <1>6 DEF Among
  <2>2. QED
    BY <1>5, <1>6, <2>1
<1>8. \A j \in 1..m : At(C, b, 0, j - 1) \in Cells
  <2> TAKE j \in 1..m
  <2>1. ThreadNum * C \in Nat
    BY <1>1
  <2>2. j - 1 \in 0..ThreadNum * C - 1
    BY <1>3, <2>1
  <2>3. At(C, b, 0, j - 1) \in 0..B * ThreadNum * C - 1
    BY <1>1, <2>2, BinFacts
  <2>4. QED
    BY <2>3, NowFacts
<1>9. \A j \in 1..m : Cell(bin[t], 0, j - 1) = At(C, b, 0, j - 1)
  BY NowFacts
<1>10. {k \in 1..binPos[t] : Cell(bin[t], 0, k - 1) \in Cells} = 1..m
  BY <1>4, <1>8, <1>9
<1>11. Encoding(t).rows = [j \in 1..m |-> Row(hashes[Cell(bin[t], 0, j - 1)], values[Cell(bin[t], 0, j - 1)])]
  BY <1>10 DEF Encoding
<1>12. \A j \in 1..m : Row(hashes[Cell(bin[t], 0, j - 1)], values[Cell(bin[t], 0, j - 1)])
                         = Row(ks[mine[j]], vs[mine[j]])
  BY <1>7, <1>9 DEF Holds
<1>13. RowsOf(n, home, ks, vs, b) = [j \in 1..m |-> Row(ks[mine[j]], vs[mine[j]])]
  BY <1>6 DEF RowsOf
<1>14. QED
  BY <1>11, <1>12, <1>13

\* It then turns to its next bin, whose regions nobody has touched.
LEMMA LoopEncode ==
  ASSUME NEW B, NEW C, NEW n, NEW home, NEW ks, NEW vs,
         Job(B, C, n, home, ks, vs), Now(B, C, n, home, ks, vs),
         Turns(B), Loop(B, C, n, home, ks, vs), NEW t \in Threads, Encode(t)
  PROVE  Loop(B, C, n, home, ks, vs)'
<1> /\ Stage(n) /\ Sizes(B, n, home)
    /\ Regions(B, C, n, home, ks, vs) /\ Gathering(B, C, n, home, ks, vs) /\ Rows(B, n, home, ks, vs)
  BY DEF Loop
<1>1. B \in Nat /\ n \in Nat /\ ThreadNum \in Nat \ {0} /\ Threads = 0..ThreadNum - 1
  BY SolveAssumption DEF Job, Threads
<1>2. PICK b \in 0..B - 1 : b = bin[t] /\ b % ThreadNum = t /\ b \in Nat
  <2>1. bin[t] \in Nat /\ bin[t] % ThreadNum = t /\ bin[t] < B
    BY DEF Turns, Encode, Gathered, Now
  <2>2. bin[t] \in 0..B - 1
    BY <1>1, <2>1
  <2>3. QED
    BY <2>1, <2>2
<1>3. UNCHANGED <<pos, binSize, scratch>>
  BY DEF Encode
<1>4. /\ \A r \in Threads : bin'[r] = IF r = t THEN b + ThreadNum ELSE bin[r]
      /\ \A r \in Threads : src'[r] = IF r = t THEN 0 ELSE src[r]
      /\ binPos' = [binPos EXCEPT ![t] = 0]
      /\ \A r \in Threads : pc'[r] = IF r = t THEN "merge" ELSE pc[r]
      /\ \A a \in 0..B - 1 : encoded'[a] = IF a = b THEN Encoding(t) ELSE encoded[a]
  BY <1>2 DEF Encode, NextBin, Turns
<1>5. Stage(n)'
  <2>1. ~\A r \in Threads : pc[r] \in {"hash", "barrier"}
    BY DEF Encode, Gathered
  <2>2. \A r \in Threads : pc[r] \in {"merge", "draw", "done"} /\ pos[r] = Begin(n, r + 1) - Begin(n, r)
    BY <2>1 DEF Stage
  <2>3. \A r \in Threads : pc'[r] \in {"merge", "draw", "done"}
    BY <1>4, <2>2
  <2>4. QED
    BY <1>3, <2>2, <2>3 DEF Stage
<1>6. Sizes(B, n, home)'
  BY <1>3, FrameFacts
<1>7. Regions(B, C, n, home, ks, vs)'
  <2>1. ASSUME NEW r \in Threads, NEW j \in Begin(n, r) + 1..Begin(n, r) + pos[r], Raw(home[j], r)'
        PROVE  Raw(home[j], r)
    <3>1. PICK a : a = home[j]
      OBVIOUS
    <3>2. PICK o : o = a % ThreadNum
      OBVIOUS
    <3>3. bin'[o] < a \/ (bin'[o] = a /\ src'[o] <= r)
      BY <2>1, <3>1, <3>2 DEF Raw
    <3>4. j \in 1..n
      <4>1. pos[r] \in Nat /\ pos[r] <= Begin(n, r + 1) - Begin(n, r)
        BY DEF Stage
      <4>2. Begin(n, r) \in 0..n /\ Begin(n, r + 1) \in 0..n
        <5>1. r \in 0..ThreadNum /\ r + 1 \in 0..ThreadNum
          BY <1>1
        <5>2. QED
          BY <1>1, <5>1, BeginFacts
      <4>3. QED
        BY <1>1, <4>1, <4>2
    <3>5. a \in 0..B - 1
      BY <3>1, <3>4 DEF Job
    <3>6. o \in Threads
      BY <1>1, <3>2, <3>5
    <3>7. bin[o] < a \/ (bin[o] = a /\ src[o] <= r)
      <4>1. CASE o = t
        <5>1. b + ThreadNum < a \/ b + ThreadNum = a
          BY <1>4, <3>3, <3>6, <4>1
        <5>2. b < a
          BY <1>1, <1>2, <3>5, <5>1
        <5>3. QED
          BY <1>2, <4>1, <5>2
      <4>2. CASE o # t
        BY <1>4, <3>3, <3>6, <4>2
      <4>3. QED
        BY <4>1, <4>2
    <3>8. QED
      BY <3>1, <3>2, <3>7 DEF Raw
  <2>2. QED
    BY <1>3, <2>1 DEF Regions, Holds, scratch
<1>8. Gathering(B, C, n, home, ks, vs)'
  <2>1. Begin(n, 0) = 0
    BY <1>1, BeginFacts
  <2>2. binPos' \in [Threads -> Nat]
    BY <1>4 DEF Gathering
  <2>3. ASSUME NEW r \in Threads, bin'[r] < B
        PROVE  binPos'[r] = Rank(home, bin'[r], Begin(n, src'[r]))
    <3>1. CASE r = t
      <4>1. src'[r] = 0 /\ binPos'[r] = 0
        BY <1>4, <3>1 DEF Gathering
      <4>2. Rank(home, bin'[r], 0) = 0
        BY RankStep
      <4>3. QED
        BY <2>1, <4>1, <4>2
    <3>2. CASE r # t
      BY <1>4, <2>3, <3>2 DEF Gathering
    <3>3. QED
      BY <3>1, <3>2
  <2>4. ASSUME NEW r \in Threads, bin'[r] < B, NEW i \in 1..Begin(n, src'[r]), home[i] = bin'[r]
        PROVE  Holds(At(C, bin[r], 0, Rank(home, bin[r], i) - 1), ks[i], vs[i])'
    <3>1. PICK q : q = bin'[r]
      OBVIOUS
    <3>2. r # t
      BY <1>4, <2>1, <2>4
    <3>3. bin[r] = q /\ bin[r] < B /\ i \in 1..Begin(n, src[r]) /\ home[i] = bin[r]
      BY <1>4, <2>4, <3>1, <3>2
    <3>4. Holds(At(C, bin[r], 0, Rank(home, bin[r], i) - 1), ks[i], vs[i])
      BY <3>3 DEF Gathering
    <3>5. PICK c : c = At(C, q, 0, Rank(home, q, i) - 1)
      OBVIOUS
    <3>6. hashes[c] = ks[i] /\ values[c] = vs[i]
      BY <3>3, <3>4, <3>5 DEF Holds
    <3>7. hashes'[c] = ks[i] /\ values'[c] = vs[i]
      BY <1>3, <3>6 DEF scratch
    <3>8. QED
      BY <3>1, <3>5, <3>7 DEF Holds
  <2>5. QED
    BY <2>2, <2>3, <2>4 DEF Gathering
<1>9. Rows(B, n, home, ks, vs)'
  <2>1. ASSUME NEW a \in 0..B - 1, a < bin'[a % ThreadNum]
        PROVE  encoded'[a].rows = RowsOf(n, home, ks, vs, a)
    <3>1. CASE a = b
      BY <1>2, <1>4, <3>1, EncodingRows
    <3>2. CASE a # b
      <4>1. PICK o \in Threads : o = a % ThreadNum
        <5>1. a % ThreadNum \in 0..ThreadNum - 1
          BY <1>1
        <5>2. QED
          BY <1>1, <5>1
      <4>2. a < bin[o]
        <5>1. CASE o # t
          BY <1>4, <2>1, <4>1, <5>1
        <5>2. CASE o = t
          <6>1. a < b + ThreadNum /\ a % ThreadNum = b % ThreadNum
            BY <1>2, <1>4, <2>1, <4>1, <5>2
          <6>2. a <= b
            <7>1. a \in Nat
              OBVIOUS
            <7>2. \A y \in Nat : y < b + ThreadNum /\ y % ThreadNum = b % ThreadNum => y <= b
              BY <1>1, <1>2, StrideFacts
            <7>3. QED
              BY <6>1, <7>1, <7>2
          <6>3. a < b
            BY <1>1, <1>2, <3>2, <6>2
          <6>4. QED
            BY <1>2, <5>2, <6>3
        <5>3. QED
          BY <5>1, <5>2
      <4>3. encoded[a].rows = RowsOf(n, home, ks, vs, a)
        BY <4>1, <4>2 DEF Rows
      <4>4. QED
        BY <1>4, <3>2, <4>3
    <3>3. QED
      BY <3>1, <3>2
  <2>2. QED
    BY <2>1 DEF Rows
<1>10. QED
  BY <1>5, <1>6, <1>7, <1>8, <1>9 DEF Loop

\* Every step of a thread keeps the invariant.
LEMMA LoopStep ==
  ASSUME NEW B, NEW C, NEW n, NEW home, NEW ks, NEW vs,
         Job(B, C, n, home, ks, vs), Now(B, C, n, home, ks, vs),
         Turns(B), Loop(B, C, n, home, ks, vs), NEW t \in Threads, Thread(t)
  PROVE  Loop(B, C, n, home, ks, vs)'
<1>1. CASE HashKey(t)
  BY <1>1, LoopHashKey
<1>2. CASE HashDone(t)
  BY <1>2, LoopHashDone
<1>3. CASE Gather(t)
  BY <1>3, LoopGather
<1>4. CASE Encode(t)
  BY <1>4, LoopEncode
<1>5. CASE Draw(t) \/ Leave(t) \/ EncodeThrows(t)
  BY <1>5, LoopDrawOrLeave
<1>6. QED
  BY <1>1, <1>2, <1>3, <1>4, <1>5 DEF Thread
-----------------------------------------------------------------------------
\* Before the first key is hashed nothing is stored.
LEMMA LoopBegins ==
  ASSUME NEW B \in Nat, NEW C \in Nat, NEW n \in Nat, NEW home, NEW ks, NEW vs,
         BinNum = B, Capacity = C, Allocate
  PROVE  Turns(B)' /\ Loop(B, C, n, home, ks, vs)'
<1>1. ThreadNum \in Nat \ {0} /\ Threads = 0..ThreadNum - 1 /\ Bins = 0..B - 1
      /\ Cells = 0..B * ThreadNum * C - 1
  BY SolveAssumption DEF Threads, Bins, Cells
<1>2. /\ \A t \in Threads : pc'[t] = "hash" /\ pos'[t] = 0 /\ bin'[t] = t /\ src'[t] = 0 /\ binPos'[t] = 0
      /\ \A t \in Threads : \A b \in 0..B - 1 : binSize'[t][b] = 0
      /\ \A b \in 0..B - 1 : encoded'[b] = NotYet
  BY <1>1 DEF Allocate
<1>3. \A b \in Nat : b % ThreadNum \in Threads /\ b % ThreadNum <= b
  <2> TAKE b \in Nat
  <2>1. PICK q \in Nat, r \in 0..ThreadNum - 1 : b = q * ThreadNum + r /\ r = b % ThreadNum
    BY <1>1, b \div ThreadNum \in Nat, b % ThreadNum \in 0..ThreadNum - 1,
       b = (b \div ThreadNum) * ThreadNum + (b % ThreadNum)
  <2>2. q * ThreadNum \in Nat
    BY <1>1
  <2>3. QED
    BY <1>1, <2>1, <2>2
<1>4. Turns(B)'
  <2>1. /\ pc' \in [Threads -> {"hash", "barrier", "merge", "draw", "done"}]
        /\ bin' \in [Threads -> Nat] /\ src' \in [Threads -> 0..ThreadNum]
        /\ DOMAIN encoded' = 0..B - 1
    BY <1>1 DEF Allocate
  <2>2. \A t \in Threads : t % ThreadNum = t
    BY <1>1
  <2>3. QED
    BY <1>2, <2>1, <2>2 DEF Turns
<1>5. \A t \in Threads : Begin(n, t) \in Nat /\ Begin(n, t + 1) \in Nat /\ Begin(n, t) <= Begin(n, t + 1)
  <2> TAKE t \in Threads
  <2>1. t \in 0..ThreadNum /\ t + 1 \in 0..ThreadNum
    BY <1>1
  <2>2. Begin(n, t) \in 0..n /\ Begin(n, t + 1) \in 0..n
    BY <2>1, BeginFacts
  <2>3. QED
    BY <2>2, BeginFacts
<1>6. Stage(n)'
  <2>1. pos' \in [Threads -> Nat]
    BY DEF Allocate
  <2>2. \A t \in Threads : pos'[t] <= Begin(n, t + 1) - Begin(n, t)
    BY <1>2, <1>5
  <2>3. QED
    BY <1>2, <2>1, <2>2 DEF Stage
<1>7. Sizes(B, n, home)'
  <2>1. binSize' \in [Threads -> [0..B - 1 -> Nat]]
    BY <1>1 DEF Allocate
  <2>2. \A t \in Threads : \A b \in 0..B - 1 :
          binSize'[t][b] = Rank(home, b, Begin(n, t) + pos'[t]) - Rank(home, b, Begin(n, t))
    <3> TAKE t \in Threads
    <3> TAKE b \in 0..B - 1
    <3>1. Begin(n, t) + pos'[t] = Begin(n, t) /\ binSize'[t][b] = 0
      BY <1>2, <1>5
    <3>2. Rank(home, b, Begin(n, t)) \in Nat
      BY <1>5, RankStep
    <3>3. QED
      BY <3>1, <3>2
  <2>3. QED
    BY <2>1, <2>2 DEF Sizes
<1>8. Regions(B, C, n, home, ks, vs)'
  <2>1. hashes' \in [0..B * ThreadNum * C - 1 -> Int] /\ values' \in [0..B * ThreadNum * C - 1 -> Int]
    BY <1>1 DEF Allocate, Nothing
  <2>2. \A t \in Threads : Begin(n, t) + 1..Begin(n, t) + pos'[t] = {}
    BY <1>2, <1>5
  <2>3. QED
    BY <2>1, <2>2 DEF Regions
<1>9. Gathering(B, C, n, home, ks, vs)'
  <2>1. binPos' \in [Threads -> Nat]
    BY DEF Allocate
  <2>2. \A t \in Threads : Begin(n, src'[t]) = 0
    BY <1>2, BeginFacts
  <2>3. \A t \in Threads : binPos'[t] = Rank(home, bin'[t], Begin(n, src'[t]))
    <3> TAKE t \in Threads
    <3>1. PICK b : b = bin'[t]
      OBVIOUS
    <3>2. Rank(home, b, 0) = 0
      BY RankStep
    <3>3. QED
      BY <1>2, <2>2, <3>1, <3>2
  <2>4. \A t \in Threads : 1..Begin(n, src'[t]) = {}
    BY <2>2
  <2>5. QED
    BY <2>1, <2>3, <2>4 DEF Gathering
<1>10. Rows(B, n, home, ks, vs)'
  <2>1. \A b \in 0..B - 1 : ~(b < bin'[b % ThreadNum])
    <3> TAKE b \in 0..B - 1
    <3>1. PICK o \in Threads : o = b % ThreadNum /\ o <= b
      BY <1>3
    <3>2. bin'[o] = o /\ o \in Nat
      BY <1>1, <1>2
    <3>3. ~(b < bin'[o])
      BY <3>1, <3>2
    <3>4. QED
      BY <3>1, <3>3
  <2>2. QED
    BY <2>1 DEF Rows
<1>11. QED
  BY <1>4, <1>6, <1>7, <1>8, <1>9, <1>10 DEF Loop

\* The parameters of a call that was accepted.
LEMMA ParameterFacts ==
  ASSUME pp \in Parameters, Valid
  PROVE  /\ pp.itemNum \in Nat \ {0} /\ pp.binSize \in Nat \ {0}
         /\ BinNum \in Nat \ {0} /\ Capacity \in Nat
<1>1. PICK p : p = pp
  OBVIOUS
<1>2. p.itemNum \in Nat /\ p.binSize \in Nat /\ p.itemNum > 0 /\ p.binSize > 0
  BY <1>1, ApiAssumption DEF Valid
<1>3. PICK a \in Nat \ {0}, d \in Nat \ {0} : a = p.itemNum /\ d = p.binSize
  BY <1>2
<1>4. (a + d - 1) \div d \in Nat \ {0}
  <2>1. PICK q \in Int, r \in 0..d - 1 : a + d - 1 = q * d + r /\ q = (a + d - 1) \div d
    BY a + d - 1 \in Nat, (a + d - 1) \div d \in Int, (a + d - 1) % d \in 0..d - 1,
       a + d - 1 = ((a + d - 1) \div d) * d + ((a + d - 1) % d)
  <2>2. SUFFICES ASSUME q <= 0 PROVE FALSE
    BY <2>1
  <2>3. PICK e \in Nat : q = -e
    BY <2>2, -q \in Nat
  <2>4. q * d = -(e * d) /\ e * d \in Nat
    BY <2>3
  <2>5. QED
    BY <2>1, <2>4
<1>5. LET bins == (p.itemNum + p.binSize - 1) \div p.binSize IN
      HashtableBinSize(bins, (p.itemNum + ThreadNum - 1) \div ThreadNum) \in Nat
  BY <1>1, <1>2, ApiAssumption
<1>6. QED
  BY <1>1, <1>3, <1>4, <1>5 DEF BinNum, Capacity

\* Within Fits, what the invariant needs to know of an encode.
LEMMA JobFacts ==
  ASSUME pp \in Parameters, Valid, binOf \in [Items -> Bins],
         keys \in Seq(Items), Len(keys) <= pp.itemNum, vals \in [1..pp.itemNum -> Int], Fits
  PROVE  \E B, C, n, home, ks, vs :
           /\ B \in Nat /\ C \in Nat /\ n \in Nat
           /\ B = BinNum /\ C = Capacity /\ n = Len(keys) /\ home = Home /\ ks = keys /\ vs = vals
           /\ Job(B, C, n, home, ks, vs) /\ Now(B, C, n, home, ks, vs)
<1>1. PICK B \in Nat, C \in Nat : B = BinNum /\ C = Capacity
  BY ParameterFacts
<1>2. PICK n \in Nat : n = Len(keys) /\ DOMAIN keys = 1..n
  BY Len(keys) \in Nat, DOMAIN keys = 1..Len(keys)
<1>3. PICK home, ks, vs : home = Home /\ ks = keys /\ vs = vals
  OBVIOUS
<1>4. \A i \in 1..n : keys[i] \in Items /\ home[i] = binOf[keys[i]]
  BY <1>2, <1>3 DEF Home
<1>5. Now(B, C, n, home, ks, vs)
  BY <1>1, <1>2, <1>3, <1>4 DEF Now
<1>6. home \in [1..n -> 0..B - 1]
  <2>1. Bins = 0..B - 1
    BY <1>1 DEF Bins
  <2>2. \A i \in 1..n : binOf[keys[i]] \in 0..B - 1
    BY <1>4, <2>1
  <2>3. home = [i \in 1..n |-> binOf[keys[i]]]
    BY <1>2, <1>3 DEF Home
  <2>4. QED
    BY <2>2, <2>3
<1>7. \A i \in 1..n : ks[i] \in Int /\ vs[i] \in Int
  <2> TAKE i \in 1..n
  <2>1. i \in 1..pp.itemNum
    BY <1>2, ParameterFacts
  <2>2. vals[i] \in Int
    BY <2>1
  <2>3. keys[i] \in Nat
    BY <1>4, SolveAssumption
  <2>4. QED
    BY <1>3, <2>2, <2>3
<1>8. Bounded(B, C, n, home)
  <2> SUFFICES ASSUME NEW b \in 0..B - 1, NEW t \in Threads
               PROVE  Rank(home, b, Begin(n, t + 1)) - Rank(home, b, Begin(n, t)) <= C
    BY DEF Bounded
  <2>1. ThreadNum \in Nat /\ Threads = 0..ThreadNum - 1
    BY SolveAssumption DEF Threads
  <2>2. PICK lo \in 0..n, hi \in 0..n : lo = Begin(n, t) /\ hi = Begin(n, t + 1) /\ lo <= hi
    <3>1. t \in 0..ThreadNum /\ t + 1 \in 0..ThreadNum
      BY <2>1
    <3>2. Begin(n, t) \in 0..n /\ Begin(n, t + 1) \in 0..n
      BY <3>1, BeginFacts
    <3>3. QED
      BY <3>2, BeginFacts
  <2>3. Share(t, b) = {j \in lo + 1..hi : home[j] = b}
    <3>1. KeyBegin(t) = lo /\ KeyBegin(t + 1) = hi
      BY <1>2, <2>2 DEF KeyBegin, Begin
    <3>2. \A j \in lo + 1..hi : home[j] = binOf[keys[j]]
      BY <1>4
    <3>3. QED
      BY <3>1, <3>2 DEF Share
  <2>4. Cardinality(Share(t, b)) <= C
    BY <1>1 DEF Fits, Bins
  <2>5. Cardinality({j \in lo + 1..hi : home[j] = b}) = Rank(home, b, hi) - Rank(home, b, lo)
    BY <2>2, RankBetween
  <2>6. QED
    BY <2>2, <2>3, <2>4, <2>5
<1>9. QED
  BY <1>1, <1>2, <1>3, <1>5, <1>6, <1>7, <1>8 DEF Job
-----------------------------------------------------------------------------
\* Padding appends new keys to those given, up to item_num.
LEMMA PadKeysFacts ==
  ASSUME NEW some \in Seq(Items), NEW stream \in Seq(Items), IsInjective(some),
         pp.itemNum \in Nat, Len(some) <= pp.itemNum
  PROVE  /\ PadKeys(some, stream) \in Seq(Items) /\ IsInjective(PadKeys(some, stream))
         /\ Len(some) <= Len(PadKeys(some, stream)) /\ Len(PadKeys(some, stream)) <= pp.itemNum
         /\ \A k \in 1..Len(some) : PadKeys(some, stream)[k] = some[k]
<1>1. PICK m \in Nat, g \in Nat, n \in Nat :
        /\ m = pp.itemNum /\ g = Len(some) /\ n = Len(stream) /\ DOMAIN stream = 1..n /\ g <= m
  BY Len(some) \in Nat, Len(stream) \in Nat, DOMAIN stream = 1..Len(stream)
<1> DEFINE S == 1..n
           W == {s \in Seq(Items) : /\ IsInjective(s) /\ g <= Len(s) /\ Len(s) <= m
                                    /\ \A k \in 1..g : s[k] = some[k]}
           add(padded, candidate) == IF Len(padded) < m /\ candidate \notin ToSet(padded)
                                     THEN Append(padded, candidate) ELSE padded
           Is(f) == f = [s \in SUBSET S |-> IF s = {} THEN some
                                            ELSE LET x == Max(s) IN add(f[s \ {x}], stream[x])]
           pick == [U \in SUBSET S |-> Max(U)]
           step == [p \in S \X W |-> add(p[2], stream[p[1]])]
<1>2. \A U \in SUBSET S : U # {} => Max(U) \in U /\ pick[U] = Max(U)
  BY MaxPicks
<1>3. \A x \in S : \A w \in W : add(w, stream[x]) \in W
  <2> SUFFICES ASSUME NEW x \in S, NEW w \in W, Len(w) < m, stream[x] \notin ToSet(w)
               PROVE  Append(w, stream[x]) \in W
    OBVIOUS
  <2>1. stream[x] \in Items /\ w \in Seq(Items) /\ IsInjective(w)
    BY <1>1
  <2>2. PICK u : u = Append(w, stream[x])
    OBVIOUS
  <2>3. /\ u \in Seq(Items) /\ IsInjective(u) /\ Len(u) = Len(w) + 1
        /\ \A k \in 1..Len(w) : u[k] = w[k]
    BY <2>1, <2>2, AppendNew
  <2>4. Len(w) \in Nat /\ g <= Len(w)
    BY <2>1
  <2>5. \A k \in 1..g : u[k] = some[k]
    BY <2>3, <2>4
  <2>6. g <= Len(u) /\ Len(u) <= m
    BY <2>3, <2>4
  <2>7. u \in W
    BY <2>3, <2>5, <2>6
  <2>8. QED
    BY <2>2, <2>7
<1>4. some \in W
  BY <1>1
<1>5. PICK h : IsFold(S, W, some, pick, step, h)
  <2>1. IsFiniteSet(S)
    BY FS_Interval
  <2>2. \A x \in S : \A w \in W : step[<<x, w>>] = add(w, stream[x])
    OBVIOUS
  <2> HIDE DEF S, W, pick, step, add
  <2>3. FoldOver(S, W, some, pick, step)
    BY <1>2, <1>3, <1>4, <2>1, <2>2 DEF FoldOver
  <2>4. QED
    BY <2>3, FoldExists
<1>6. Is(h)
  <2>1. /\ h \in [SUBSET S -> W] /\ h[{}] = some
        /\ \A U \in SUBSET S : U # {} => h[U] = step[<<pick[U], h[U \ {pick[U]}]>>]
    BY <1>5 DEF IsFold
  <2>2. \A U \in SUBSET S : U # {} => h[U] = add(h[U \ {Max(U)}], stream[Max(U)])
    <3> TAKE U \in SUBSET S
    <3> HAVE U # {}
    <3>1. pick[U] = Max(U) /\ Max(U) \in S /\ U \ {Max(U)} \in SUBSET S
      BY <1>2
    <3>2. h[U \ {Max(U)}] \in W
      BY <2>1, <3>1
    <3>3. step[<<Max(U), h[U \ {Max(U)}]>>] = add(h[U \ {Max(U)}], stream[Max(U)])
      <4> HIDE DEF S, W, add
      <4> QED BY <3>1, <3>2
    <3>4. QED
      BY <2>1, <3>1, <3>3
  <2> HIDE DEF add, S, W
  <2>3. QED
    BY <2>1, <2>2
<1>7. PICK k : Is(k) /\ PadKeys(some, stream) = k[S]
  <2>1. PadKeys(some, stream) = (CHOOSE f : Is(f))[S]
    BY <1>1 DEF PadKeys, FoldLeft, MapThenFoldSet
  <2>2. Is(CHOOSE f : Is(f))
    <3> HIDE DEF Is
    <3> QED BY <1>6
  <2> HIDE DEF Is
  <2>3. QED
    BY <2>1, <2>2
<1> DEFINE T == {U \in SUBSET S : k[U] \in W}
<1>8. ASSUME NEW U \in SUBSET S, \A V \in SUBSET U : V # U => V \in T
      PROVE  U \in T
  <2> HIDE DEF W, add
  <2>1. CASE U = {}
    BY <1>4, <1>7, <2>1
  <2>2. CASE U # {}
    <3>1. Max(U) \in U
      BY <1>2, <2>2
    <3>2. k[U \ {Max(U)}] \in W
      BY <1>8, <3>1
    <3>3. k[U] = add(k[U \ {Max(U)}], stream[Max(U)])
      BY <1>7, <2>2
    <3>4. QED
      BY <1>3, <3>1, <3>2, <3>3
  <2>3. QED
    BY <2>1, <2>2
<1>9. S \in T
  <2>1. \A U \in SUBSET S : (\A V \in SUBSET U : V # U => V \in T) => U \in T
    BY <1>8
  <2>2. IsFiniteSet(S)
    BY FS_Interval
  <2> HIDE DEF T, S
  <2>3. SUBSET S \subseteq T
    BY <2>1, <2>2, SubsetInduction
  <2>4. QED
    BY <2>3
<1>10. QED
  BY <1>1, <1>7, <1>9

\* Row e is the one of an item.
IsRowOf(rows, e, item) ==
  e \in DOMAIN rows /\ \A j \in DOMAIN rows : rows[j].hash = item <=> j = e

\* A lookup finds the one row of its key.
LEMMA LookupFinds ==
  ASSUME NEW item, NEW rows, encoded[IF BinNum = 1 THEN 0 ELSE binOf[item]].rows = rows,
         NEW e, IsRowOf(rows, e, item)
  PROVE  Lookup(item) = rows[e].value
<1> DEFINE own == {rows[k].value : k \in {j \in DOMAIN rows : rows[j].hash = item}}
<1>1. own = {rows[e].value}
  BY DEF own, IsRowOf
<1>2. Cardinality(own) = 1
  BY <1>1, FS_Singleton
<1>3. (CHOOSE v \in own : TRUE) = rows[e].value
  BY <1>1
<1>4. Lookup(item) = IF Cardinality(own) = 1 THEN CHOOSE v \in own : TRUE ELSE Nothing
  BY DEF Lookup
<1>5. QED
  BY <1>2, <1>3, <1>4

\* What is encoded when every thread has left is every bin, from all its keys.
LEMMA StoredInBins ==
  ASSUME NEW B \in Nat, NEW C, NEW n \in Nat, NEW home, NEW ks, NEW vs,
         Job(B, C, n, home, ks, vs), Now(B, C, n, home, ks, vs),
         B > 1, Inputs, Turns(B), Loop(B, C, n, home, ks, vs), Solved
  PROVE  Stored
<1>1. ThreadNum \in Nat \ {0} /\ Threads = 0..ThreadNum - 1
  BY SolveAssumption DEF Threads
<1>2. PICK g \in Nat : g = Len(given) /\ g <= n
  BY Len(given) \in Nat DEF Inputs, Now
<1> SUFFICES ASSUME NEW k \in 1..g
             PROVE  Lookup(given[k]) = Value(given[k])
  BY <1>2 DEF Stored
<1>3. k \in 1..n /\ given[k] = ks[k] /\ vs[k] = Value(given[k]) /\ keys = ks
  BY <1>2 DEF Inputs, Now
<1>4. PICK b \in 0..B - 1 : b = home[k] /\ b = binOf[given[k]]
  BY <1>3 DEF Job, Now
<1>5. encoded[b].rows = RowsOf(n, home, ks, vs, b)
  <2>1. PICK o \in Threads : o = b % ThreadNum
    <3>1. b % ThreadNum \in 0..ThreadNum - 1
      BY <1>1
    <3>2. QED
      BY <1>1, <3>1
  <2>2. bin[o] >= B /\ bin[o] \in Nat
    BY DEF Solved, Turns
  <2>3. b < bin[o]
    BY <2>2
  <2>4. QED
    BY <2>1, <2>3 DEF Loop, Rows
<1>6. PICK m \in Nat : m = Rank(home, b, n)
  BY RankStep
<1>7. PICK mine \in [1..m -> Among(home, b, n)] :
        mine = Ascending(Among(home, b, n)) /\ \A j \in 1..m : Rank(home, b, mine[j]) = j
  BY <1>6, AscendingRank
<1>8. \E e \in 1..m : mine[e] = k
  <2>1. Among(home, b, n) \in SUBSET (1..n) /\ k \in Among(home, b, n)
    BY <1>3, <1>4 DEF Among
  <2>2. PICK l \in Nat : /\ Ascending(Among(home, b, n)) \in [1..l -> Among(home, b, n)]
                         /\ \E i \in 1..l : Ascending(Among(home, b, n))[i] = k
    BY <2>1, AscendingProperties
  <2>3. 1..l = 1..m
    BY <1>7, <2>2
  <2>4. QED
    BY <1>7, <2>2, <2>3
<1>9. PICK e \in 1..m : mine[e] = k
  BY <1>8
<1>10. PICK rows : rows = [j \in 1..m |-> Row(ks[mine[j]], vs[mine[j]])]
  OBVIOUS
<1>11. encoded[b].rows = rows
  BY <1>5, <1>7, <1>10 DEF RowsOf
<1>12. \A j \in 1..m : rows[j].hash = given[k] <=> j = e
  <2> TAKE j \in 1..m
  <2>1. rows[j].hash = ks[mine[j]]
    BY <1>10 DEF Row
  <2>2. ks[mine[j]] = ks[k] <=> mine[j] = k
    <3>1. DOMAIN keys = 1..n
      BY DEF Inputs, Now
    <3>2. \A i, l \in 1..n : ks[i] = ks[l] => i = l
      BY <1>3, <3>1 DEF Inputs, IsInjective
    <3>3. mine[j] \in 1..n
      BY <1>7 DEF Among
    <3>4. QED
      BY <1>3, <3>2, <3>3
  <2>3. mine[j] = k <=> j = e
    BY <1>7, <1>9
  <2>4. QED
    BY <1>3, <2>1, <2>2, <2>3
<1>13. rows[e].value = vs[k]
  BY <1>9, <1>10 DEF Row
<1>14. BinNum # 1
  BY DEF Now
<1>15. Lookup(given[k]) = rows[e].value
  <2>1. DOMAIN rows = 1..m
    BY <1>10
  <2>2. PICK item : item = given[k]
    OBVIOUS
  <2>3. encoded[IF BinNum = 1 THEN 0 ELSE binOf[item]].rows = rows
    BY <1>4, <1>11, <1>14, <2>2
  <2>4. IsRowOf(rows, e, item)
    BY <1>12, <2>1, <2>2 DEF IsRowOf
  <2>5. Lookup(item) = rows[e].value
    BY <2>3, <2>4, LookupFinds
  <2>6. QED
    BY <2>2, <2>5
<1>16. QED
  BY <1>3, <1>13, <1>15

\* A single bin is encoded from all keys.
LEMMA StoredInOne ==
  ASSUME BinNum = 1, Inputs, Single, Solved
  PROVE  Stored
<1>1. PICK n \in Nat : n = Len(keys) /\ DOMAIN keys = 1..n
  BY Len(keys) \in Nat, DOMAIN keys = 1..Len(keys) DEF Inputs
<1>2. PICK g \in Nat : g = Len(given) /\ g <= n
  BY <1>1, Len(given) \in Nat DEF Inputs
<1> SUFFICES ASSUME NEW k \in 1..g
             PROVE  Lookup(given[k]) = Value(given[k])
  BY <1>2 DEF Stored
<1>3. k \in 1..n /\ given[k] = keys[k] /\ vals[k] = Value(given[k])
  BY <1>1, <1>2 DEF Inputs
<1>4. PICK rows : rows = [j \in 1..n |-> Row(keys[j], vals[j])]
  OBVIOUS
<1>5. encoded[0].rows = rows
  <2>1. 0 \in Threads
    BY SolveAssumption DEF Threads
  <2>2. ~(\A t \in Threads : pc[t] = "hash")
    BY <2>1 DEF Solved
  <2>3. QED
    BY <1>1, <1>4, <2>2 DEF Single
<1>6. \A j \in 1..n : rows[j].hash = given[k] <=> j = k
  BY <1>1, <1>3, <1>4 DEF Row, Inputs, IsInjective
<1>7. Lookup(given[k]) = rows[k].value
  <2>1. DOMAIN rows = 1..n
    BY <1>4
  <2>2. PICK item : item = given[k]
    OBVIOUS
  <2>3. encoded[IF BinNum = 1 THEN 0 ELSE binOf[item]].rows = rows
    BY <1>5
  <2>4. IsRowOf(rows, k, item)
    BY <1>3, <1>6, <2>1, <2>2 DEF IsRowOf
  <2>5. Lookup(item) = rows[k].value
    BY <2>3, <2>4, LookupFinds
  <2>6. QED
    BY <2>2, <2>5
<1>8. QED
  BY <1>3, <1>4, <1>7 DEF Row

\* A call that is not in progress leaves no trace.
LEMMA EncodingThrow ==
  ASSUME Encoding_OK, Throw
  PROVE  Encoding_OK'
BY DEF Encoding_OK, Throw, arguments

\* What a step that leaves the arguments alone cannot change.
LEMMA ArgumentFacts ==
  ASSUME UNCHANGED arguments
  PROVE  /\ (Valid' <=> Valid) /\ BinNum' = BinNum /\ Capacity' = Capacity /\ Bins' = Bins /\ Home' = Home
         /\ (Fits' <=> Fits)
<1>1. /\ (Valid' <=> Valid) /\ BinNum' = BinNum /\ Capacity' = Capacity /\ ItemNumPerBin' = ItemNumPerBin
      /\ Home' = Home /\ Bins' = Bins
  BY DEF arguments, Valid, BinNum, Capacity, ItemNumPerBin, Home, Bins
<1>2. /\ \A t, b : Share(t, b)' = Share(t, b)
      /\ \A b : BinKeys(b)' = BinKeys(b)
  BY DEF arguments, Share, BinKeys, KeyBegin
<1>3. QED
  BY <1>1, <1>2 DEF Fits

\* setup draws a hash function.
LEMMA EncodingSetup ==
  ASSUME Encoding_OK, Setup
  PROVE  Encoding_OK'
<1>1. CASE Throw
  BY <1>1, EncodingThrow
<1>2. CASE ~Throw
  <2>1. /\ Valid /\ phase = "setup" /\ phase' = "encode" /\ binOf' \in [Items -> Bins]
        /\ UNCHANGED <<pp, keys, vals, solving, queries, decoding, given, fitted, answers>>
    BY <1>2 DEF Setup
  <2>2. pp' = pp /\ encoded' = encoded
    BY <2>1 DEF solving, merging
  <2>3. Valid' /\ Bins' = Bins
    BY <2>1, <2>2 DEF Valid, Bins, BinNum
  <2>4. QED
    BY <2>1, <2>2, <2>3 DEF Encoding_OK
<1>3. QED
  BY <1>1, <1>2

\* An encode starts from the keys it was given, padded.
LEMMA EncodingCall ==
  ASSUME Encoding_OK, NEW request \in Requests, EncodeCall(request)
  PROVE  Encoding_OK'
<1>1. CASE Throw
  BY <1>1, EncodingThrow
<1>2. CASE ~Throw
  <2> PICK some : some = request.keys
    OBVIOUS
  <2>1. PICK stream \in Streams : some = request.keys /\ keys' = PadKeys(some, stream)
    BY <1>2 DEF EncodeCall
  <2>2. /\ phase = "encode" /\ Len(some) <= pp.itemNum /\ phase' = "solve"
        /\ given' = some /\ vals' = PadValues(some) /\ Allocate
        /\ UNCHANGED <<pp, binOf, queries, decoding, fitted, answers>>
    BY <1>2, <2>1 DEF EncodeCall
  <2>3. some \in Seq(Items) /\ IsInjective(some) /\ stream \in Seq(Items)
    BY <2>1, ApiAssumption
  <2>4. pp \in Parameters /\ Valid /\ binOf \in [Items -> Bins]
    BY <2>2 DEF Encoding_OK
  <2>5. pp.itemNum \in Nat /\ BinNum \in Nat /\ Capacity \in Nat
    BY <2>4, ParameterFacts
  <2>6. /\ keys' \in Seq(Items) /\ IsInjective(keys')
        /\ Len(some) <= Len(keys') /\ Len(keys') <= pp.itemNum
        /\ \A k \in 1..Len(some) : keys'[k] = some[k]
    BY <2>1, <2>2, <2>3, <2>5, PadKeysFacts
  <2>7. PICK g \in Nat : g = Len(some) /\ DOMAIN some = 1..g
    BY <2>3, Len(some) \in Nat, DOMAIN some = 1..Len(some)
  <2>8. vals' \in [1..pp.itemNum -> Int] /\ \A k \in 1..g : vals'[k] = Value(some[k])
    <3>1. \A k \in 1..g : Value(some[k]) \in Int
      <4> TAKE k \in 1..g
      <4>1. some[k] \in Items
        BY <2>3, <2>7
      <4>2. some[k] \in Nat
        BY <4>1, SolveAssumption
      <4>3. QED
        BY <4>2 DEF Value
    <3>2. \A k \in 1..g : k \in 1..pp.itemNum
      BY <2>2, <2>5, <2>7
    <3>3. vals' = [k \in 1..pp.itemNum |-> IF k <= g THEN Value(some[k]) ELSE Zero]
      BY <2>2, <2>7 DEF PadValues
    <3>4. \A k \in 1..pp.itemNum : (IF k <= g THEN Value(some[k]) ELSE Zero) \in Int
      BY <2>7, <3>1 DEF Zero
    <3>5. QED
      BY <3>2, <3>3, <3>4
  <2>9. Inputs'
    BY <2>2, <2>3, <2>6, <2>7, <2>8 DEF Inputs
  <2>10. Valid' /\ Bins' = Bins /\ BinNum' = BinNum /\ Capacity' = Capacity
    BY <2>2, <2>4 DEF Valid, Bins, BinNum, Capacity
  <2>11. BinNum = 1 => Single'
    <3> SUFFICES ASSUME BinNum = 1 PROVE Single'
      OBVIOUS
    <3>1. Bins = {0}
      BY DEF Bins
    <3>2. encoded' = [b \in {0} |-> NotYet] /\ \A t \in Threads : pc'[t] = "hash"
      BY <2>2, <3>1 DEF Allocate
    <3>3. QED
      BY <3>2 DEF Single
  <2>12. Turns(BinNum)' /\ Loop(BinNum, Capacity, Len(keys), Home, keys, vals)'
    <3>1. PICK B, C, n, home, ks, vs :
            /\ B \in Nat /\ C \in Nat /\ n \in Nat
            /\ B = BinNum /\ C = Capacity /\ n = Len(keys') /\ home = Home' /\ ks = keys' /\ vs = vals'
      <4>1. Len(keys') \in Nat
        BY <2>6
      <4>2. QED
        BY <2>5, <4>1
    <3>2. Turns(B)' /\ Loop(B, C, n, home, ks, vs)'
      BY <2>2, <3>1, LoopBegins
    <3>3. QED
      BY <2>10, <3>1, <3>2
  <2>13. QED
    BY <2>2, <2>4, <2>9, <2>10, <2>11, <2>12 DEF Encoding_OK
<1>3. QED
  BY <1>1, <1>2

\* Every step of solve keeps it.
LEMMA EncodingSolve ==
  ASSUME Encoding_OK, SolveStep
  PROVE  Encoding_OK'
<1>1. phase = "solve" /\ phase' = phase /\ UNCHANGED arguments /\ given' = given
  BY DEF SolveStep, SingleStep, BarrierStep, ThreadStep, Solving
<1>2. pp \in Parameters /\ Valid /\ binOf \in [Items -> Bins] /\ Inputs
  BY <1>1 DEF Encoding_OK
<1>3. /\ pp' = pp /\ keys' = keys /\ vals' = vals /\ binOf' = binOf
      /\ (Valid' <=> Valid) /\ BinNum' = BinNum /\ Capacity' = Capacity /\ Bins' = Bins /\ Home' = Home
      /\ (Fits' <=> Fits)
  BY <1>1, ArgumentFacts DEF arguments
<1>4. Inputs'
  BY <1>1, <1>2, <1>3 DEF Inputs
<1>5. BinNum \in Nat
  BY <1>2, ParameterFacts
<1>6. BinNum = 1 => Single'
  <2> SUFFICES ASSUME BinNum = 1 PROVE Single'
    OBVIOUS
  <2>1. SolveSingle
    BY DEF SolveStep, SingleStep, BarrierStep, ThreadStep
  <2>2. Single
    BY <1>1 DEF Encoding_OK
  <2>3. encoded'[0].rows = [k \in DOMAIN keys |-> Row(keys[k], vals[k])] /\ DOMAIN encoded' = {0}
    BY <2>1, <2>2 DEF SolveSingle, Single
  <2>4. QED
    BY <1>3, <2>3 DEF Single
<1>7. BinNum > 1 => Turns(BinNum)' /\ (Fits => Loop(BinNum, Capacity, Len(keys), Home, keys, vals)')
  <2> SUFFICES ASSUME BinNum > 1
               PROVE  Turns(BinNum)' /\ (Fits => Loop(BinNum, Capacity, Len(keys), Home, keys, vals)')
    OBVIOUS
  <2>1. Barrier \/ \E t \in Threads : Thread(t)
    BY <1>5 DEF SolveStep, SingleStep, BarrierStep, ThreadStep, SolveSingle
  <2>2. PICK B \in Nat : B = BinNum
    BY <1>5
  <2>3. Turns(B)
    BY <1>1, <2>2 DEF Encoding_OK
  <2>4. Turns(B)'
    BY <2>1, <2>2, <2>3, TurnsStep, TurnsBarrier
  <2>5. ASSUME Fits
        PROVE  Loop(BinNum, Capacity, Len(keys), Home, keys, vals)'
    <3>1. PICK b, C, n, home, ks, vs :
            /\ C \in Nat /\ n \in Nat
            /\ b = BinNum /\ C = Capacity /\ n = Len(keys) /\ home = Home /\ ks = keys /\ vs = vals
            /\ Job(b, C, n, home, ks, vs) /\ Now(b, C, n, home, ks, vs)
      BY <1>2, <2>5, JobFacts DEF Inputs
    <3>2. Job(B, C, n, home, ks, vs) /\ Now(B, C, n, home, ks, vs)
      BY <2>2, <3>1
    <3>3. Loop(B, C, n, home, ks, vs)
      BY <1>1, <2>2, <2>5, <3>1 DEF Encoding_OK
    <3>4. Loop(B, C, n, home, ks, vs)'
      BY <2>1, <2>3, <3>2, <3>3, LoopStep, LoopBarrier
    <3>5. QED
      BY <1>3, <2>2, <3>1, <3>4
  <2>6. QED
    BY <1>3, <2>2, <2>4, <2>5
<1>8. QED
  BY <1>1, <1>2, <1>3, <1>4, <1>6, <1>7 DEF Encoding_OK

\* When solve returns every key given is found.
LEMMA EncodingReturns ==
  ASSUME Encoding_OK, EncodeReturns
  PROVE  Encoding_OK'
<1>1. /\ phase = "solve" /\ phase' = "decode" /\ Solved /\ fitted' = (BinNum = 1 \/ Fits)
      /\ pp' = pp /\ binOf' = binOf /\ given' = given /\ encoded' = encoded
  BY DEF EncodeReturns, Free
<1>2. pp \in Parameters /\ Valid /\ binOf \in [Items -> Bins] /\ Inputs
  BY <1>1 DEF Encoding_OK
<1>3. Valid' /\ Bins' = Bins /\ BinNum' = BinNum
  BY <1>1, <1>2 DEF Valid, Bins, BinNum
<1>4. BinNum \in Nat \ {0}
  BY <1>2, ParameterFacts
<1>5. fitted' => Stored
  <2> SUFFICES ASSUME fitted' PROVE Stored
    OBVIOUS
  <2>1. CASE BinNum = 1
    <3>1. Single
      BY <1>1, <2>1 DEF Encoding_OK
    <3>2. QED
      BY <1>1, <1>2, <2>1, <3>1, StoredInOne
  <2>2. CASE BinNum # 1
    <3>1. BinNum > 1 /\ Fits
      <4>1. Fits
        BY <1>1, <2>2, Zenon
      <4>2. QED
        BY <1>4, <2>2, <4>1
    <3>2. PICK B, C, n, home, ks, vs :
            /\ B \in Nat /\ C \in Nat /\ n \in Nat
            /\ B = BinNum /\ C = Capacity /\ n = Len(keys) /\ home = Home /\ ks = keys /\ vs = vals
            /\ Job(B, C, n, home, ks, vs) /\ Now(B, C, n, home, ks, vs)
      BY <1>2, <3>1, JobFacts DEF Inputs
    <3>3. B > 1 /\ Turns(B) /\ Loop(B, C, n, home, ks, vs)
      BY <1>1, <3>1, <3>2 DEF Encoding_OK
    <3>4. QED
      BY <1>1, <1>2, <3>2, <3>3, StoredInBins
  <2>3. QED
    BY <2>1, <2>2
<1>6. Stored => Stored'
  <2>1. \A item : Lookup(item)' = Lookup(item)
    BY <1>1, <1>3 DEF Lookup
  <2>2. QED
    BY <1>1, <2>1 DEF Stored
<1>7. given' \in Seq(Items)
  BY <1>1, <1>2 DEF Inputs
<1>8. QED
  BY <1>1, <1>2, <1>3, <1>5, <1>6, <1>7 DEF Encoding_OK

\* Later steps read what was encoded and change nothing of it.
LEMMA EncodingLater ==
  ASSUME Encoding_OK, phase # "solve", UNCHANGED <<arguments, solving, given, fitted>>,
         phase' = phase \/ (phase \in {"decode", "query"} /\ phase' \in {"query", "returned"})
  PROVE  Encoding_OK'
<1>1. /\ pp' = pp /\ binOf' = binOf /\ encoded' = encoded /\ given' = given /\ fitted' = fitted
      /\ (Valid' <=> Valid) /\ Bins' = Bins /\ BinNum' = BinNum
  BY ArgumentFacts DEF arguments, solving, merging
<1>2. Stored => Stored'
  <2>1. \A item : Lookup(item)' = Lookup(item)
    BY <1>1 DEF Lookup
  <2>2. QED
    BY <1>1, <2>1 DEF Stored
<1>3. QED
  BY <1>1, <1>2 DEF Encoding_OK
-----------------------------------------------------------------------------
\* In every reachable state the arrays hold what the threads have done so far,
\* and what encode returns holds every key's value.
THEOREM EncodingInvariant == Spec => []Encoding_OK
<1>1. Init => Encoding_OK
  BY DEF Init, NotSolving, Encoding_OK
<1>2. Encoding_OK /\ [Next]_vars => Encoding_OK'
  <2> SUFFICES ASSUME Encoding_OK, [Next]_vars
               PROVE  Encoding_OK'
    OBVIOUS
  <2>1. CASE Setup
    BY <2>1, EncodingSetup
  <2>2. ASSUME NEW request \in Requests, EncodeCall(request)
        PROVE  Encoding_OK'
    BY <2>2, EncodingCall
  <2>3. CASE SolveStep
    BY <2>3, EncodingSolve
  <2>4. CASE EncodeFails
    BY <2>4, EncodingThrow DEF EncodeFails
  <2>5. CASE EncodeReturns
    BY <2>5, EncodingReturns
  <2>6. ASSUME NEW asked \in QuerySets, NEW extra \in Storages, DecodeCall(asked, extra)
        PROVE  Encoding_OK'
    BY <2>6, EncodingThrow, EncodingLater DEF DecodeCall
  <2>7. CASE DecodeStep \/ DecodeReturns
    BY <2>7, EncodingLater DEF DecodeStep, DecodeReturns
  <2>8. CASE UNCHANGED vars
    <3>1. phase' = phase /\ UNCHANGED <<arguments, solving, given, fitted>>
      BY <2>8 DEF vars
    <3>2. CASE phase # "solve"
      BY <3>1, <3>2, EncodingLater
    <3>3. CASE phase = "solve"
      <4>1. (Valid' <=> Valid) /\ BinNum' = BinNum /\ Capacity' = Capacity /\ Bins' = Bins /\ Home' = Home
            /\ (Fits' <=> Fits)
        BY <3>1, ArgumentFacts
      <4>2. /\ pp' = pp /\ binOf' = binOf /\ keys' = keys /\ vals' = vals /\ given' = given
            /\ UNCHANGED <<pc, pos, binSize, values, hashes, bin, src, binPos, encoded>>
        BY <3>1 DEF arguments, solving, merging, scratch
      <4>3. Inputs => Inputs'
        BY <4>2 DEF Inputs
      <4>4. Single => Single'
        BY <4>2 DEF Single
      <4>5. \A B : Turns(B) => Turns(B)'
        BY <4>2 DEF Turns
      <4>6. \A B, C, n, home, ks, vs : Loop(B, C, n, home, ks, vs) => Loop(B, C, n, home, ks, vs)'
        <5>1. \A n : Stage(n) => Stage(n)'
          BY <4>2 DEF Stage
        <5>2. QED
          BY <4>2, <5>1, FrameFacts DEF Loop, scratch
      <4>7. PICK B, C, n, home, ks, vs :
              B = BinNum /\ C = Capacity /\ n = Len(keys) /\ home = Home /\ ks = keys /\ vs = vals
        OBVIOUS
      <4>8. Turns(BinNum) => Turns(BinNum)'
        BY <4>1, <4>5, <4>7
      <4>9. Loop(BinNum, Capacity, Len(keys), Home, keys, vals)
              => Loop(BinNum, Capacity, Len(keys), Home, keys, vals)'
        BY <4>1, <4>2, <4>6, <4>7
      <4>10. QED
        BY <3>1, <3>3, <4>1, <4>2, <4>3, <4>4, <4>8, <4>9 DEF Encoding_OK
    <3>4. QED
      BY <3>2, <3>3
  <2>9. QED
    BY <2>1, <2>2, <2>3, <2>4, <2>5, <2>6, <2>7, <2>8 DEF Next, Finished
<1>3. QED
  BY <1>1, <1>2, PTL DEF Spec

\* Every bin is encoded from its keys, each once, with its own value and in the
\* order they were given, however many threads there are and however they
\* interleave (impl_solve, baxos.cpp).
THEOREM RowsOfItsOwnKeys == Spec => []BinsExact
<1>1. Encoding_OK => BinsExact
  <2> SUFFICES ASSUME Encoding_OK, phase = "solve", BinNum > 1, Fits,
                      NEW b \in Bins, encoded[b] # NotYet
               PROVE  encoded[b].rows = [k \in DOMAIN Ascending(BinKeys(b)) |->
                        Row(keys[Ascending(BinKeys(b))[k]], vals[Ascending(BinKeys(b))[k]])]
    BY DEF BinsExact
  <2>1. /\ Turns(BinNum) /\ Loop(BinNum, Capacity, Len(keys), Home, keys, vals) /\ keys \in Seq(Items)
    BY DEF Encoding_OK, Inputs
  <2>2. PICK B : B = BinNum /\ b \in 0..B - 1
    BY DEF Bins
  <2>3. b < bin[b % ThreadNum]
    BY <2>1, <2>2 DEF Turns
  <2>4. encoded[b].rows = RowsOf(Len(keys), Home, keys, vals, b)
    BY <2>1, <2>2, <2>3 DEF Loop, Rows
  <2>5. BinKeys(b) = Among(Home, b, Len(keys))
    <3>1. DOMAIN keys = 1..Len(keys)
      BY <2>1
    <3>2. QED
      BY <3>1 DEF BinKeys, Among, Home
  <2>6. QED
    BY <2>4, <2>5 DEF RowsOf
<1>2. QED
  BY <1>1, EncodingInvariant, PTL

\* No bin is encoded twice.
THEOREM OneEncodingPerBin == Spec => EncodedOnce
<1> DEFINE Kept == \A b \in DOMAIN encoded : encoded[b] # NotYet => encoded'[b] = encoded[b]
<1>1. Encoding_OK /\ [Next]_vars => Kept
  <2> SUFFICES ASSUME Encoding_OK, [Next]_vars, NEW b \in DOMAIN encoded, encoded[b] # NotYet
               PROVE  encoded'[b] = encoded[b]
    OBVIOUS
  <2>1. CASE Setup
    BY <2>1 DEF Setup, Throw, solving, merging
  <2>2. ASSUME NEW request \in Requests, EncodeCall(request)
        PROVE  FALSE
    BY <2>2 DEF EncodeCall, Encoding_OK
  <2>3. CASE SingleStep
    <3>1. phase = "solve" /\ BinNum = 1 /\ encoded[0] = NotYet
      BY <2>3 DEF SingleStep, Solving, SolveSingle
    <3>2. DOMAIN encoded = {0}
      BY <3>1 DEF Encoding_OK, Single
    <3>3. QED
      BY <3>1, <3>2
  <2>4. CASE BarrierStep
    BY <2>4 DEF BarrierStep, Barrier, merging
  <2>5. ASSUME NEW t \in Threads, ThreadStep(t)
        PROVE  encoded'[b] = encoded[b]
    <3>1. CASE UNCHANGED encoded
      BY <3>1
    <3>2. CASE Encode(t)
      <4>1. Turns(BinNum)
        BY <2>5 DEF ThreadStep, Solving, Encoding_OK
      <4>2. b # bin[t]
        <5> SUFFICES ASSUME b = bin[t] PROVE FALSE
          OBVIOUS
        <5>1. bin[t] < bin[bin[t] % ThreadNum] /\ bin[t] % ThreadNum = t /\ bin[t] \in Nat
          BY <4>1 DEF Turns
        <5>2. QED
          BY <5>1
      <4>3. QED
        BY <3>2, <4>2 DEF Encode
    <3>3. QED
      BY <2>5, <3>1, <3>2 DEF ThreadStep, Thread, HashKey, HashDone, Gather, Draw, EncodeThrows, Leave, merging
  <2>6. CASE EncodeFails
    BY <2>6 DEF EncodeFails, Throw, solving, merging
  <2>7. CASE EncodeReturns
    BY <2>7 DEF EncodeReturns, Free
  <2>8. ASSUME NEW asked \in QuerySets, NEW extra \in Storages, DecodeCall(asked, extra)
        PROVE  encoded'[b] = encoded[b]
    BY <2>8 DEF DecodeCall, Throw, solving, merging
  <2>9. CASE DecodeStep \/ DecodeReturns \/ UNCHANGED vars
    BY <2>9 DEF DecodeStep, DecodeReturns, vars, solving, merging
  <2>10. QED
    BY <2>1, <2>2, <2>3, <2>4, <2>5, <2>6, <2>7, <2>8, <2>9 DEF Next, Finished, SolveStep
<1>2. QED
  BY <1>1, EncodingInvariant, PTL DEF Spec, EncodedOnce
-----------------------------------------------------------------------------
\* Copying blocks of an array over another, one after the other: what f says of
\* a set of blocks.
Over(P, src0, blk, o) == [k \in P |-> IF k \in blk THEN src0[k] ELSE o[k]]
IsCopy(n, P, V, base, src0, block, f) ==
  /\ f[{}] = base
  /\ \A U \in SUBSET (1..n) : U # {} /\ f[U \ {Max(U)}] \in [P -> V] =>
       f[U] = Over(P, src0, block[Max(U)], f[U \ {Max(U)}])
Copyable(n, P, V, base, src0, block) ==
  /\ base \in [P -> V]
  /\ \A x \in 1..n : \A k \in P : k \in block[x] => src0[k] \in V

\* It can be done, ...
LEMMA CopyExists ==
  ASSUME NEW n \in Nat, NEW P, NEW V, NEW base, NEW src0, NEW block, Copyable(n, P, V, base, src0, block)
  PROVE  \E f \in [SUBSET (1..n) -> [P -> V]] : IsCopy(n, P, V, base, src0, block, f)
<1> DEFINE S == 1..n
           W == [P -> V]
           pick == [U \in SUBSET S |-> Max(U)]
           step == [p \in S \X W |-> Over(P, src0, block[p[1]], p[2])]
<1>1. \A x \in S : \A w \in W : Over(P, src0, block[x], w) \in W
  BY DEF Over, Copyable
<1>2. \A x \in S : \A w \in W : step[<<x, w>>] = Over(P, src0, block[x], w)
  OBVIOUS
<1>3. \A U \in SUBSET S : U # {} => Max(U) \in U /\ pick[U] = Max(U)
  BY MaxPicks
<1>4. base \in W /\ IsFiniteSet(S)
  BY FS_Interval DEF Copyable
<1> HIDE DEF S, W, pick, step
<1>5. PICK h : IsFold(S, W, base, pick, step, h)
  <2>1. FoldOver(S, W, base, pick, step)
    BY <1>1, <1>2, <1>3, <1>4 DEF FoldOver
  <2>2. QED
    BY <2>1, FoldExists
<1>6. h \in [SUBSET S -> W] /\ h[{}] = base
      /\ \A U \in SUBSET S : U # {} => h[U] = step[<<pick[U], h[U \ {pick[U]}]>>]
  BY <1>5 DEF IsFold
<1>7. \A U \in SUBSET S : U # {} => h[U] = Over(P, src0, block[Max(U)], h[U \ {Max(U)}])
  <2> TAKE U \in SUBSET S
  <2> HAVE U # {}
  <2>1. pick[U] = Max(U) /\ Max(U) \in S /\ U \ {Max(U)} \in SUBSET S
    BY <1>3
  <2>2. h[U \ {Max(U)}] \in W
    BY <1>6, <2>1
  <2>3. QED
    BY <1>2, <1>6, <2>1, <2>2
<1>8. IsCopy(n, P, V, base, src0, block, h)
  BY <1>6, <1>7 DEF IsCopy, S
<1>9. QED
  BY <1>6, <1>8 DEF S, W

\* ... and leaves the blocks copied and the rest as it was.
IsCopied(n, P, V, base, src0, block, o) ==
  /\ o \in [P -> V]
  /\ \A k \in P : (\E x \in 1..n : k \in block[x]) => o[k] = src0[k]
  /\ \A k \in P : (\A x \in 1..n : k \notin block[x]) => o[k] = base[k]

\* Block by block, whatever the order they are picked in.
LEMMA CopyResult ==
  ASSUME NEW n \in Nat, NEW P, NEW V, NEW base, NEW src0, NEW block, Copyable(n, P, V, base, src0, block),
         NEW f, IsCopy(n, P, V, base, src0, block, f)
  PROVE  IsCopied(n, P, V, base, src0, block, f[1..n])
<1> DEFINE S == 1..n
           Good(U, o) == /\ o \in [P -> V]
                         /\ \A k \in P : (\E x \in U : k \in block[x]) => o[k] = src0[k]
                         /\ \A k \in P : (\A x \in U : k \notin block[x]) => o[k] = base[k]
           T == {U \in SUBSET S : Good(U, f[U])}
<1>1. ASSUME NEW U \in SUBSET S, \A R \in SUBSET U : R # U => R \in T
      PROVE  U \in T
  <2>1. CASE U = {}
    BY <2>1 DEF IsCopy, Copyable
  <2>2. CASE U # {}
    <3>1. PICK c \in U : c = Max(U)
      BY <2>2, MaxPicks
    <3>2. PICK o : o = f[U \ {c}]
      OBVIOUS
    <3>3. Good(U \ {c}, o)
      <4>1. U \ {c} \in SUBSET U /\ U \ {c} # U
        OBVIOUS
      <4>2. QED
        BY <1>1, <3>2, <4>1
    <3>4. f[U] = Over(P, src0, block[c], o)
      BY <2>2, <3>1, <3>2, <3>3 DEF IsCopy
    <3>5. Good(U, Over(P, src0, block[c], o))
      BY <3>3 DEF Over, Copyable
    <3>6. QED
      BY <3>4, <3>5
  <2>3. QED
    BY <2>1, <2>2
<1>2. S \in T
  <2>1. \A U \in SUBSET S : (\A R \in SUBSET U : R # U => R \in T) => U \in T
    BY <1>1
  <2>2. IsFiniteSet(S)
    BY FS_Interval
  <2> HIDE DEF T, S
  <2>3. SUBSET S \subseteq T
    BY <2>1, <2>2, SubsetInduction
  <2>4. QED
    BY <2>3
<1>3. QED
  BY <1>2 DEF IsCopied

\* The loops of OKVS::decode: n groups, and n keys after the first groups.
Whole(batch, out, n) ==
  FoldLeft(LAMBDA o, g : Decode_32(batch, o, (g - 1) * GroupLen), out, [g \in 1..n |-> g])
Rest(batch, out, groups, n) ==
  FoldLeft(LAMBDA o, k : Decode_1(batch, o, groups * GroupLen + k - 1), out, [k \in 1..n |-> k])

Group(x)         == (x - 1) * GroupLen + 1..(x - 1) * GroupLen + GroupLen
Groups(n)        == [x \in 1..n |-> Group(x)]
Places(groups, n) == [x \in 1..n |-> {groups * GroupLen + x}]

\* Each is such a copy.
LEMMA WholeCopies ==
  ASSUME NEW n \in Nat, NEW P, NEW V, NEW batch, NEW out, Copyable(n, P, V, out, batch, Groups(n))
  PROVE  \E f : IsCopy(n, P, V, out, batch, Groups(n), f) /\ Whole(batch, out, n) = f[1..n]
<1> DEFINE seq == [g \in 1..n |-> g]
           S == DOMAIN seq
           Is(f) == f = [s \in SUBSET S |-> IF s = {} THEN out
                         ELSE LET x == Max(s) IN Decode_32(batch, f[s \ {x}], (seq[x] - 1) * GroupLen)]
<1>1. S = 1..n /\ \A x \in 1..n : seq[x] = x
  OBVIOUS
<1> HIDE DEF seq
<1>2. \A U \in SUBSET S : U # {} => Max(U) \in U
  BY <1>1, MaxPicks
<1>3. \A x \in S : \A o \in [P -> V] :
        Decode_32(batch, o, (seq[x] - 1) * GroupLen) = Over(P, batch, Groups(n)[x], o)
  BY <1>1 DEF Decode_32, Over, Groups, Group
<1>4. PICK h \in [SUBSET S -> [P -> V]] : IsCopy(n, P, V, out, batch, Groups(n), h)
  BY <1>1, CopyExists
<1>5. Is(h)
  <2>1. h[{}] = out
    BY <1>4 DEF IsCopy
  <2>2. \A U \in SUBSET S : U # {} => h[U] = Decode_32(batch, h[U \ {Max(U)}], (seq[Max(U)] - 1) * GroupLen)
    <3> TAKE U \in SUBSET S
    <3> HAVE U # {}
    <3>1. PICK c \in S : c = Max(U)
      BY <1>2
    <3>2. PICK o \in [P -> V] : o = h[U \ {c}]
      <4>1. U \ {c} \in SUBSET S
        OBVIOUS
      <4>2. QED
        BY <1>4, <4>1
    <3>3. h[U] = Over(P, batch, Groups(n)[c], o)
      BY <1>1, <1>4, <3>1, <3>2 DEF IsCopy
    <3>4. QED
      BY <1>3, <3>1, <3>2, <3>3
  <2> HIDE DEF S
  <2>3. QED
    BY <2>1, <2>2
<1>6. PICK k : Is(k) /\ Whole(batch, out, n) = k[1..n]
  <2>1. Whole(batch, out, n) = (CHOOSE f : Is(f))[S]
    BY DEF Whole, FoldLeft, MapThenFoldSet, seq
  <2>2. Is(CHOOSE f : Is(f))
    <3> HIDE DEF Is
    <3> QED BY <1>5
  <2> HIDE DEF Is, S
  <2>3. QED
    BY <1>1, <2>1, <2>2
<1>7. IsCopy(n, P, V, out, batch, Groups(n), k)
  <2>1. k[{}] = out
    BY <1>6
  <2>2. ASSUME NEW U \in SUBSET (1..n), U # {}, k[U \ {Max(U)}] \in [P -> V]
        PROVE  k[U] = Over(P, batch, Groups(n)[Max(U)], k[U \ {Max(U)}])
    <3>1. k[U] = Decode_32(batch, k[U \ {Max(U)}], (seq[Max(U)] - 1) * GroupLen)
      BY <1>1, <1>6, <2>2
    <3>2. Max(U) \in S
      BY <1>1, <1>2, <2>2
    <3>3. QED
      BY <1>3, <2>2, <3>1, <3>2
  <2>3. QED
    BY <2>1, <2>2 DEF IsCopy
<1>8. QED
  BY <1>6, <1>7

\* The keys after the groups, one by one.
LEMMA RestCopies ==
  ASSUME NEW n \in Nat, NEW P, NEW V, NEW batch, NEW out, NEW groups \in Nat,
         Copyable(n, P, V, out, batch, Places(groups, n)),
         \A x \in 1..n : groups * GroupLen + x \in P
  PROVE  \E f : IsCopy(n, P, V, out, batch, Places(groups, n), f) /\ Rest(batch, out, groups, n) = f[1..n]
<1> DEFINE seq == [g \in 1..n |-> g]
           S == DOMAIN seq
           Is(f) == f = [s \in SUBSET S |-> IF s = {} THEN out
                         ELSE LET x == Max(s) IN Decode_1(batch, f[s \ {x}], groups * GroupLen + seq[x] - 1)]
<1>1. S = 1..n /\ \A x \in 1..n : seq[x] = x
  OBVIOUS
<1> HIDE DEF seq
<1>2. \A U \in SUBSET S : U # {} => Max(U) \in U
  BY <1>1, MaxPicks
<1>3. \A x \in S : \A o \in [P -> V] :
        Decode_1(batch, o, groups * GroupLen + seq[x] - 1) = Over(P, batch, Places(groups, n)[x], o)
  <2> TAKE x \in S
  <2> TAKE o \in [P -> V]
  <2>1. PICK y \in P : y = groups * GroupLen + x /\ groups * GroupLen \in Nat
    <3>1. groups * GroupLen \in Nat
      BY DecodeAssumption
    <3>2. QED
      BY <1>1, <3>1
  <2>2. groups * GroupLen + seq[x] - 1 + 1 = y
    BY <1>1, <2>1
  <2>3. Decode_1(batch, o, groups * GroupLen + seq[x] - 1) = [o EXCEPT ![y] = batch[y]]
    BY <2>2 DEF Decode_1
  <2>4. Places(groups, n)[x] = {y}
    BY <1>1, <2>1 DEF Places
  <2>5. [o EXCEPT ![y] = batch[y]] = [k \in P |-> IF k \in {y} THEN batch[k] ELSE o[k]]
    BY <2>1
  <2>6. QED
    BY <2>3, <2>4, <2>5 DEF Over
<1>4. PICK h \in [SUBSET S -> [P -> V]] : IsCopy(n, P, V, out, batch, Places(groups, n), h)
  BY <1>1, CopyExists
<1>5. Is(h)
  <2>1. h[{}] = out
    BY <1>4 DEF IsCopy
  <2>2. \A U \in SUBSET S : U # {} =>
          h[U] = Decode_1(batch, h[U \ {Max(U)}], groups * GroupLen + seq[Max(U)] - 1)
    <3> TAKE U \in SUBSET S
    <3> HAVE U # {}
    <3>1. PICK c \in S : c = Max(U)
      BY <1>2
    <3>2. PICK o \in [P -> V] : o = h[U \ {c}]
      <4>1. U \ {c} \in SUBSET S
        OBVIOUS
      <4>2. QED
        BY <1>4, <4>1
    <3>3. h[U] = Over(P, batch, Places(groups, n)[c], o)
      BY <1>1, <1>4, <3>1, <3>2 DEF IsCopy
    <3>4. QED
      BY <1>3, <3>1, <3>2, <3>3
  <2> HIDE DEF S
  <2>3. QED
    BY <2>1, <2>2
<1>6. PICK k : Is(k) /\ Rest(batch, out, groups, n) = k[1..n]
  <2>1. Rest(batch, out, groups, n) = (CHOOSE f : Is(f))[S]
    BY DEF Rest, FoldLeft, MapThenFoldSet, seq
  <2>2. Is(CHOOSE f : Is(f))
    <3> HIDE DEF Is
    <3> QED BY <1>5
  <2> HIDE DEF Is, S
  <2>3. QED
    BY <1>1, <2>1, <2>2
<1>7. IsCopy(n, P, V, out, batch, Places(groups, n), k)
  <2>1. k[{}] = out
    BY <1>6
  <2>2. ASSUME NEW U \in SUBSET (1..n), U # {}, k[U \ {Max(U)}] \in [P -> V]
        PROVE  k[U] = Over(P, batch, Places(groups, n)[Max(U)], k[U \ {Max(U)}])
    <3>1. k[U] = Decode_1(batch, k[U \ {Max(U)}], groups * GroupLen + seq[Max(U)] - 1)
      BY <1>1, <1>6, <2>2
    <3>2. Max(U) \in S
      BY <1>1, <1>2, <2>2
    <3>3. QED
      BY <1>3, <2>2, <3>1, <3>2
  <2>3. QED
    BY <2>1, <2>2 DEF IsCopy
<1>8. QED
  BY <1>6, <1>7

\* OKVS::decode puts every key's value into its place, whole groups first, the
\* rest after them.
Decodes(batch, n, d, V, result) ==
  result \in [1..d -> V] /\ \A k \in 1..n : result[k] = batch[k]

\* So it does, when it is told of all of them.
LEMMA OkvsDecodeFacts ==
  ASSUME NEW d \in Nat, NEW V, NEW out \in [1..d -> V], NEW n \in Nat, NEW batch \in [1..n -> V],
         Len(batch) = n, n <= d, n < IdxMod
  PROVE  Decodes(batch, n, d, V, OkvsDecode(batch, out))
<1>1. GroupLen \in Nat \ {0} /\ n % IdxMod = n
  BY DecodeAssumption
<1>2. PICK q \in Nat, r \in 0..GroupLen - 1 :
        n = q * GroupLen + r /\ q = n \div GroupLen /\ r = n % GroupLen
  BY <1>1, n \div GroupLen \in Nat, n % GroupLen \in 0..GroupLen - 1,
     n = (n \div GroupLen) * GroupLen + (n % GroupLen)
<1>3. OkvsDecode(batch, out) = Rest(batch, Whole(batch, out, q), q, r)
  <2> DEFINE l == Len(batch) % IdxMod
  <2>1. OkvsDecode(batch, out) = Rest(batch, Whole(batch, out, l \div GroupLen), l \div GroupLen, l % GroupLen)
    BY DEF OkvsDecode, Rest, Whole, FoldLeft, MapThenFoldSet
  <2>2. l = n
    BY <1>1
  <2> HIDE DEF l
  <2>3. QED
    BY <1>2, <2>1, <2>2, Zenon
<1>4. q * GroupLen \in Nat /\ q * GroupLen <= n
  BY <1>1, <1>2
<1>5. \A x \in 1..q : Group(x) \subseteq 1..q * GroupLen
  <2> TAKE x \in 1..q
  <2>1. PICK a \in Nat, e \in Nat : x - 1 = a /\ q = a + 1 + e
    <3>1. x - 1 \in Nat /\ q - x \in Nat /\ q = (x - 1) + 1 + (q - x)
      OBVIOUS
    <3>2. QED
      BY <3>1
  <2>2. q * GroupLen = a * GroupLen + GroupLen + e * GroupLen /\ a * GroupLen \in Nat /\ e * GroupLen \in Nat
    BY <1>1, <2>1
  <2>3. QED
    BY <1>1, <2>1, <2>2 DEF Group
<1>6. \A k \in 1..q * GroupLen : \E x \in 1..q : k \in Group(x)
  <2> TAKE k \in 1..q * GroupLen
  <2>1. PICK a \in Nat, c \in 0..GroupLen - 1 : k - 1 = a * GroupLen + c
    BY <1>1, <1>4, k - 1 \in Nat, (k - 1) \div GroupLen \in Nat, (k - 1) % GroupLen \in 0..GroupLen - 1,
       k - 1 = ((k - 1) \div GroupLen) * GroupLen + ((k - 1) % GroupLen)
  <2>2. a < q
    <3> SUFFICES ASSUME a >= q PROVE FALSE
      OBVIOUS
    <3>1. PICK e \in Nat : a = q + e
      BY a - q \in Nat
    <3>2. a * GroupLen = q * GroupLen + e * GroupLen /\ e * GroupLen \in Nat
      BY <1>1, <3>1
    <3>3. QED
      BY <1>4, <2>1, <3>2
  <2>3. a * GroupLen \in Nat /\ a + 1 \in 1..q /\ (a + 1) - 1 = a
    BY <1>1, <2>2
  <2>4. k \in Group(a + 1)
    <3>1. Group(a + 1) = a * GroupLen + 1..a * GroupLen + GroupLen
      BY <2>3 DEF Group
    <3>2. QED
      BY <1>1, <2>1, <2>3, <3>1
  <2>5. QED
    BY <2>3, <2>4
<1>7. PICK w \in [1..d -> V] : w = Whole(batch, out, q) /\ \A k \in 1..q * GroupLen : w[k] = batch[k]
  <2>1. \A x \in 1..q : Groups(q)[x] = Group(x)
    BY DEF Groups
  <2>2. Copyable(q, 1..d, V, out, batch, Groups(q))
    <3>1. \A x \in 1..q : \A k \in 1..d : k \in Group(x) => k \in 1..n
      BY <1>4, <1>5
    <3>2. QED
      BY <2>1, <3>1 DEF Copyable
  <2>3. PICK f : IsCopy(q, 1..d, V, out, batch, Groups(q), f) /\ Whole(batch, out, q) = f[1..q]
    BY <2>2, WholeCopies
  <2>4. IsCopied(q, 1..d, V, out, batch, Groups(q), f[1..q])
    BY <2>2, <2>3, CopyResult
  <2>5. \A k \in 1..q * GroupLen : k \in 1..d
    BY <1>4
  <2>6. \A k \in 1..q * GroupLen : f[1..q][k] = batch[k]
    BY <1>6, <2>1, <2>4, <2>5 DEF IsCopied
  <2>7. QED
    BY <2>3, <2>4, <2>6 DEF IsCopied
<1>8. \A x \in 1..r : q * GroupLen + x \in 1..n
  BY SMTT(30), <1>1, <1>2, <1>4
<1>9. \A x \in 1..r : Places(q, r)[x] = {q * GroupLen + x}
  BY DEF Places
<1>10. Copyable(r, 1..d, V, w, batch, Places(q, r))
  BY <1>8, <1>9 DEF Copyable
<1>11. PICK f : IsCopy(r, 1..d, V, w, batch, Places(q, r), f) /\ Rest(batch, w, q, r) = f[1..r]
  <2>1. \A x \in 1..r : q * GroupLen + x \in 1..d
    BY <1>8
  <2>2. QED
    BY <1>10, <2>1, RestCopies
<1>12. PICK z : z = OkvsDecode(batch, out) /\ z = f[1..r]
  BY <1>3, <1>7, <1>11
<1>13. IsCopied(r, 1..d, V, w, batch, Places(q, r), z)
  <2>1. r \in Nat
    BY <1>1
  <2>2. IsCopied(r, 1..d, V, w, batch, Places(q, r), f[1..r])
    BY <1>10, <1>11, <2>1, CopyResult
  <2>3. QED
    BY <1>12, <2>2
<1>14. \A k \in 1..n : z[k] = batch[k]
  <2> TAKE k \in 1..n
  <2>1. k \in 1..d
    OBVIOUS
  <2>2. CASE k <= q * GroupLen
    <3>1. \A x \in 1..r : k \notin Places(q, r)[x]
      BY <1>4, <1>9, <2>2
    <3>2. k \in 1..q * GroupLen
      BY <1>4, <2>2
    <3>3. QED
      BY <1>7, <1>13, <2>1, <3>1, <3>2 DEF IsCopied
  <2>3. CASE k > q * GroupLen
    <3>1. k - q * GroupLen \in 1..r /\ k = q * GroupLen + (k - q * GroupLen)
      BY <1>1, <1>2, <1>4, <2>3
    <3>2. \E x \in 1..r : k \in Places(q, r)[x]
      BY <1>9, <3>1
    <3>3. QED
      BY <1>13, <2>1, <3>2 DEF IsCopied
  <2>4. QED
    BY <1>4, <2>2, <2>3
<1>15. QED
  BY <1>12, <1>13, <1>14 DEF IsCopied, Decodes

\* Each query of a batch of n has its own value, and the others keep theirs.
HandedBack(batch, n, m, d) ==
  /\ valueBuffer' \in [1..d -> 0..m] /\ source' \in [1..m -> 0..m]
  /\ \A q \in 1..m : (\E k \in 1..n : batch[k] = q) => source'[q] = q
  /\ \A q \in 1..m : (\A k \in 1..n : batch[k] # q) => source'[q] = source[q]

\* So it is after a batch was decoded, whatever the buffer held before.
LEMMA DecodeBatchFacts ==
  ASSUME NEW m \in Nat, NEW d \in Nat, NEW n \in Nat, NEW batch \in [1..n -> 1..m], Len(batch) = n,
         BatchLen = m, n <= d, n < IdxMod,
         valueBuffer \in [1..d -> 0..m], source \in [1..m -> 0..m], DecodeBatch(batch)
  PROVE  HandedBack(batch, n, m, d)
<1>1. PICK w : w = OkvsDecode(batch, valueBuffer)
  OBVIOUS
<1>2. w \in [1..d -> 0..m] /\ \A k \in 1..n : w[k] = batch[k]
  <2>1. PICK out : out = valueBuffer
    OBVIOUS
  <2>2. batch \in [1..n -> 0..m]
    OBVIOUS
  <2>3. out \in [1..d -> 0..m]
    BY <2>1
  <2>4. Decodes(batch, n, d, 0..m, OkvsDecode(batch, out))
    BY <2>2, <2>3, OkvsDecodeFacts
  <2>5. QED
    BY <1>1, <2>1, <2>4 DEF Decodes
<1>3. DOMAIN batch = 1..n /\ \A q : q \in ToSet(batch) <=> \E k \in 1..n : batch[k] = q
  BY DEF ToSet
<1>4. /\ valueBuffer' = w
      /\ source' = [q \in 1..m |-> IF q \in ToSet(batch) THEN w[CHOOSE k \in 1..n : batch[k] = q] ELSE source[q]]
  BY <1>1, <1>3 DEF DecodeBatch, Queries
<1>5. \A q \in 1..m : q \in ToSet(batch) => w[CHOOSE k \in 1..n : batch[k] = q] = q
  BY <1>2, <1>3
<1>6. \A q \in 1..m : source'[q] = IF q \in ToSet(batch) THEN q ELSE source[q]
  BY <1>4, <1>5
<1>7. source' \in [1..m -> 0..m]
  <2>1. \A q \in 1..m : (IF q \in ToSet(batch) THEN w[CHOOSE k \in 1..n : batch[k] = q] ELSE source[q]) \in 0..m
    <3> TAKE q \in 1..m
    <3>1. q \in ToSet(batch) => w[CHOOSE k \in 1..n : batch[k] = q] = q
      BY <1>5
    <3>2. source[q] \in 0..m /\ q \in 0..m
      OBVIOUS
    <3>3. QED
      BY <3>1, <3>2, Zenon
  <2>2. QED
    BY <1>4, <2>1
<1>8. QED
  BY <1>2, <1>3, <1>4, <1>6, <1>7 DEF HandedBack

\* The sizes decode works with.
LEMMA SizeFacts ==
  ASSUME pp \in Parameters, Valid, queries \in QuerySets, queries # << >>, BatchesFit
  PROVE  \E m, d \in Nat :
           /\ m = BatchLen /\ d = DecodeSize /\ 1 <= d /\ d <= m
           /\ queries \in [1..m -> Items]
           /\ d < IdxMod /\ (BinNum = 1 => m < IdxMod)
<1>1. queries \in Seq(Items)
  BY ApiAssumption
<1>2. PICK m \in Nat \ {0} : m = BatchLen /\ queries \in [1..m -> Items]
  <2>1. Len(queries) \in Nat /\ queries \in [1..Len(queries) -> Items]
    BY <1>1
  <2>2. Len(queries) # 0
    BY <1>1, EmptySeq
  <2>3. QED
    BY <2>1, <2>2 DEF BatchLen
<1>3. DecodeMax \in Nat \ {0} /\ IdxMod \in Nat \ {0}
  BY DecodeAssumption
<1>4. PICK d \in Nat : d = DecodeSize /\ 1 <= d /\ d <= m /\ d <= DecodeMax
  BY <1>2, <1>3 DEF DecodeSize
<1>5. m < IdxMod \/ (DecodeMax < IdxMod /\ pp.itemNum > pp.binSize)
  BY <1>2 DEF BatchesFit, BatchLen
<1>6. BinNum = 1 => ~(pp.itemNum > pp.binSize)
  <2>1. PICK a \in Nat \ {0}, w \in Nat \ {0} : a = pp.itemNum /\ w = pp.binSize
    BY ParameterFacts
  <2>2. PICK h \in Nat : h = a + w - 1
    OBVIOUS
  <2>3. PICK q \in Int, r \in 0..w - 1 : h = q * w + r /\ q = h \div w
    BY h \div w \in Int, h % w \in 0..w - 1, h = (h \div w) * w + (h % w)
  <2>4. BinNum = q
    BY <2>1, <2>2, <2>3 DEF BinNum
  <2>5. q = 1 => h < 2 * w
    BY <2>3
  <2>6. QED
    BY <2>1, <2>2, <2>4, <2>5
<1>7. QED
  BY <1>2, <1>3, <1>4, <1>5, <1>6

\* Decoding starts with empty batches.
LEMMA BatchesBegin ==
  ASSUME NEW asked \in Seq(Items), asked # << >>, BinNum \in Nat, DecodeStart(asked), UNCHANGED <<pp, binOf>>
  PROVE  Batches' /\ InPlace'
<1>1. PICK m \in Nat \ {0} : m = Len(asked) /\ DOMAIN asked = 1..m
  BY Len(asked) \in Nat, DOMAIN asked = 1..Len(asked), EmptySeq
<1>2. PICK d : d = IF m < DecodeMax THEN m ELSE DecodeMax
  OBVIOUS
<1>3. d \in Nat \ {0}
  BY <1>1, <1>2, DecodeAssumption
<1>4. /\ BatchLen' = m /\ Queries' = 1..m /\ DecodeSize' = d /\ BinNum' = BinNum /\ Bins' = Bins
      /\ sorted' = 0 /\ flushed' = 0 /\ keyIndices' = [b \in Bins |-> << >>]
      /\ valueBuffer' = [k \in 1..d |-> None] /\ source' = [k \in 1..m |-> None]
  BY <1>1, <1>2 DEF DecodeStart, BatchLen, Queries, DecodeSize, BinNum, Bins
<1>5. \A b \in Bins : Batch(b)'
  BY <1>3, <1>4 DEF Batch
<1>6. valueBuffer' \in [1..d -> 0..m] /\ source' \in [1..m -> 0..m]
  BY <1>1, <1>4 DEF None
<1>7. keyIndices' \in [Bins -> Seq(1..m)]
  BY <1>4
<1>8. QED
  BY <1>1, <1>4, <1>5, <1>6, <1>7 DEF Batches, InPlace

\* A batch that is left alone is still one when more queries are sorted.
LEMMA BatchKept ==
  ASSUME NEW c, Batch(c), keyIndices'[c] = keyIndices[c], DecodeSize' = DecodeSize,
         queries' = queries, binOf' = binOf, NEW s \in Nat, NEW z \in Nat, s <= z, sorted = s, sorted' = z
  PROVE  Batch(c)'
<1>1. PICK list : list = keyIndices[c]
  OBVIOUS
<1>2. /\ Len(list) < DecodeSize
      /\ \A k \in 1..Len(list) : list[k] \in 1..s /\ binOf[queries[list[k]]] = c
      /\ \A j, k \in 1..Len(list) : list[j] = list[k] => j = k
  BY <1>1 DEF Batch
<1>3. \A k \in 1..Len(list) : list[k] \in 1..z
  BY <1>2
<1>4. keyIndices'[c] = list
  BY <1>1
<1>5. QED
  BY <1>2, <1>3, <1>4 DEF Batch

\* Sorting a query puts it into the batch of its bin, and decodes the batch
\* when it is full.
LEMMA BatchesSort ==
  ASSUME NEW B \in Nat, NEW m \in Nat, NEW d \in Nat,
         BinNum = B, BatchLen = m, DecodeSize = d, 1 <= d, d < IdxMod,
         queries \in [1..m -> Items], binOf \in [Items -> Bins], Batches, Sort,
         UNCHANGED <<queries, arguments>>
  PROVE  Batches'
<1>1. /\ Queries = 1..m /\ Bins = 0..B - 1
      /\ BatchLen' = m /\ Queries' = 1..m /\ DecodeSize' = d /\ BinNum' = B /\ Bins' = Bins
      /\ queries' = queries /\ binOf' = binOf
  BY ArgumentFacts DEF BatchLen, Queries, DecodeSize, Bins, arguments
<1>2. PICK s \in 0..m - 1 : s = sorted /\ sorted' = s + 1
  BY DEF Sort, Batches
<1>3. flushed = 0 /\ flushed' = 0
  BY <1>2 DEF Sort, Batches
<1>4. PICK x \in 1..m : x = s + 1
  BY <1>2
<1>5. PICK b \in 0..B - 1 : b = binOf[queries[x]]
  BY <1>1
<1>6. PICK list \in Seq(1..m) : list = keyIndices[b]
  BY <1>1 DEF Batches
<1>7. PICK l \in Nat : l = Len(list) /\ list \in [1..l -> 1..m]
  <2>1. Len(list) \in Nat /\ list \in [1..Len(list) -> 1..m]
    BY SMTT(30)
  <2>2. QED
    BY <2>1
<1>8. /\ \A q \in 1..s : Waits(q) \/ source[q] = q
      /\ \A c \in 0..B - 1 : Batch(c)
      /\ valueBuffer \in [1..d -> 0..m] /\ source \in [1..m -> 0..m] /\ keyIndices \in [0..B - 1 -> Seq(1..m)]
  BY <1>1, <1>2, <1>3 DEF Batches
<1>9. PICK batch \in Seq(1..m) : batch = Append(list, x)
  BY Append(list, x) \in Seq(1..m)
<1>10. /\ Len(batch) = l + 1 /\ batch \in [1..l + 1 -> 1..m]
       /\ batch[l + 1] = x /\ \A k \in 1..l : batch[k] = list[k]
  <2>1. Len(batch) = l + 1
    BY <1>7, <1>9
  <2>2. batch \in [1..Len(batch) -> 1..m]
    OBVIOUS
  <2>3. batch[l + 1] = x /\ \A k \in 1..l : batch[k] = list[k]
    BY <1>7, <1>9
  <2>4. QED
    BY <2>1, <2>2, <2>3
<1>11. l < d /\ (\A k \in 1..l : list[k] \in 1..s /\ binOf[queries[list[k]]] = b)
       /\ \A j, k \in 1..l : list[j] = list[k] => j = k
  BY <1>2, <1>6, <1>7, <1>8 DEF Batch
<1>12. \A q \in 1..s : Waits(q) /\ binOf[queries[q]] = b => \E k \in 1..l : list[k] = q
  BY <1>6, <1>7 DEF Waits
<1>13. CASE l + 1 = d
  <2>1. DecodeBatch(batch) /\ keyIndices' = [keyIndices EXCEPT ![b] = << >>]
    BY <1>2, <1>4, <1>5, <1>6, <1>9, <1>10, <1>13 DEF Sort
  <2>2. /\ valueBuffer' \in [1..d -> 0..m] /\ source' \in [1..m -> 0..m]
        /\ \A q \in 1..m : (\E k \in 1..d : batch[k] = q) => source'[q] = q
        /\ \A q \in 1..m : (\A k \in 1..d : batch[k] # q) => source'[q] = source[q]
    <3>1. batch \in [1..d -> 1..m] /\ Len(batch) = d
      BY <1>10, <1>13
    <3>2. d \in Nat /\ m \in Nat /\ BatchLen = m /\ d <= d /\ d < IdxMod
      OBVIOUS
    <3>3. valueBuffer \in [1..d -> 0..m] /\ source \in [1..m -> 0..m] /\ DecodeBatch(batch)
      BY <1>8, <2>1
    <3>4. HandedBack(batch, d, m, d)
      BY <3>1, <3>2, <3>3, DecodeBatchFacts
    <3>5. QED
      BY <3>4 DEF HandedBack
  <2>3. keyIndices' \in [0..B - 1 -> Seq(1..m)]
    BY <1>8, <2>1
  <2>4. ASSUME NEW c \in 0..B - 1
        PROVE  Batch(c)'
    <3>1. CASE c = b
      BY <1>1, <1>8, <2>1, <3>1 DEF Batch
    <3>2. CASE c # b
      <4>1. keyIndices'[c] = keyIndices[c] /\ Batch(c)
        BY <1>8, <2>1, <3>2
      <4>2. QED
        BY SMTT(30), <1>1, <1>2, <4>1, BatchKept
    <3>3. QED
      BY <3>1, <3>2
  <2>5. ASSUME NEW q \in 1..s + 1
        PROVE  Waits(q)' \/ source'[q] = q
    <3>1. q \in 1..m
      BY <1>2
    <3>2. CASE \E k \in 1..d : batch[k] = q
      BY <2>2, <3>1, <3>2
    <3>3. CASE \A k \in 1..d : batch[k] # q
      <4>1. q # x /\ q \in 1..s
        BY <1>4, <1>10, <1>13, <3>3
      <4>2. source'[q] = source[q]
        BY <2>2, <3>1, <3>3
      <4>3. CASE Waits(q)
        <5>1. binOf[queries[q]] # b
          <6>1. SUFFICES ASSUME binOf[queries[q]] = b PROVE FALSE
            OBVIOUS
          <6>2. PICK k \in 1..l : list[k] = q
            BY <1>12, <4>1, <4>3, <6>1
          <6>3. QED
            BY <1>10, <1>13, <3>3, <6>2
        <5>2. binOf[queries[q]] \in 0..B - 1
          BY <1>1, <3>1
        <5>3. keyIndices'[binOf[queries[q]]] = keyIndices[binOf[queries[q]]]
          BY <1>8, <2>1, <5>1, <5>2
        <5>4. QED
          BY <1>1, <1>3, <4>3, <5>3 DEF Waits
      <4>4. QED
        BY <1>8, <4>1, <4>2, <4>3
    <3>4. QED
      BY <3>2, <3>3
  <2>6. QED
    BY <1>1, <1>2, <1>3, <2>2, <2>3, <2>4, <2>5 DEF Batches
<1>14. CASE l + 1 # d
  <2>1. keyIndices' = [keyIndices EXCEPT ![b] = batch] /\ valueBuffer' = valueBuffer /\ source' = source
    BY <1>2, <1>4, <1>5, <1>6, <1>9, <1>10, <1>14 DEF Sort
  <2>2. keyIndices' \in [0..B - 1 -> Seq(1..m)]
    BY <1>8, <2>1
  <2>3. keyIndices'[b] = batch
    BY <1>8, <2>1
  <2>4. ASSUME NEW c \in 0..B - 1
        PROVE  Batch(c)'
    <3>1. CASE c = b
      <4>1. l + 1 < d
        BY <1>11, <1>14
      <4>2. \A k \in 1..l + 1 : batch[k] \in 1..s + 1 /\ binOf[queries[batch[k]]] = b
        <5> TAKE k \in 1..l + 1
        <5>1. k \in 1..l \/ k = l + 1
          OBVIOUS
        <5>2. CASE k \in 1..l
          <6>1. batch[k] = list[k]
            BY <1>10, <5>2
          <6>2. list[k] \in 1..s /\ binOf[queries[list[k]]] = b
            BY <1>11, <5>2
          <6>3. list[k] \in 1..s + 1
            BY <6>2
          <6>4. QED
            BY <6>1, <6>2, <6>3
        <5>3. CASE k = l + 1
          BY <1>2, <1>4, <1>5, <1>10, <5>3
        <5>4. QED
          BY <5>1, <5>2, <5>3
      <4>3. \A j, k \in 1..l + 1 : batch[j] = batch[k] => j = k
        BY <1>2, <1>4, <1>10, <1>11
      <4>4. QED
        <5>1. keyIndices'[c] = batch /\ sorted' = s + 1 /\ queries' = queries /\ binOf' = binOf /\ DecodeSize' = d
          BY <1>1, <1>2, <2>3, <3>1
        <5>2. QED
          BY <1>10, <3>1, <4>1, <4>2, <4>3, <5>1 DEF Batch
    <3>2. CASE c # b
      <4>1. keyIndices'[c] = keyIndices[c] /\ Batch(c)
        BY <1>8, <2>1, <3>2
      <4>2. QED
        BY SMTT(30), <1>1, <1>2, <4>1, BatchKept
    <3>3. QED
      BY <3>1, <3>2
  <2>5. ASSUME NEW q \in 1..s + 1
        PROVE  Waits(q)' \/ source'[q] = q
    <3>1. q \in 1..m
      BY <1>2
    <3>2. CASE q = x
      <4>1. binOf'[queries'[q]] = b /\ flushed' = 0 /\ keyIndices'[b] = batch
        BY <1>1, <1>3, <1>5, <2>3, <3>2
      <4>2. l + 1 \in 1..Len(batch) /\ batch[l + 1] = q /\ 0 <= b
        BY <1>10, <3>2
      <4>3. QED
        BY <4>1, <4>2 DEF Waits
    <3>3. CASE q # x
      <4>1. q \in 1..s
        BY <1>4, <3>3
      <4>2. CASE Waits(q) /\ binOf[queries[q]] = b
        <5>1. PICK k \in 1..l : list[k] = q
          BY <1>12, <4>1, <4>2
        <5>2. k \in 1..l + 1 /\ batch[k] = q
          BY <1>10, <5>1
        <5>3. QED
          BY <1>1, <1>3, <1>10, <2>3, <4>2, <5>2 DEF Waits
      <4>3. CASE Waits(q) /\ binOf[queries[q]] # b
        <5>1. binOf[queries[q]] \in 0..B - 1
          BY <1>1, <3>1
        <5>2. keyIndices'[binOf[queries[q]]] = keyIndices[binOf[queries[q]]]
          BY <1>8, <2>1, <4>3, <5>1
        <5>3. QED
          BY <1>1, <1>3, <4>3, <5>2 DEF Waits
      <4>4. QED
        BY <1>8, <2>1, <4>1, <4>2, <4>3
    <3>4. QED
      BY <3>2, <3>3
  <2>6. QED
    BY <1>1, <1>2, <1>3, <1>8, <2>1, <2>2, <2>4, <2>5 DEF Batches
<1>15. QED
  BY <1>13, <1>14

\* The final loop decodes what waits in the next bin.
LEMMA BatchesFlush ==
  ASSUME NEW B \in Nat, NEW m \in Nat, NEW d \in Nat,
         BinNum = B, BatchLen = m, DecodeSize = d, 1 <= d, d < IdxMod,
         queries \in [1..m -> Items], binOf \in [Items -> Bins], Batches, Flush,
         UNCHANGED <<queries, arguments>>
  PROVE  Batches'
<1>1. /\ Queries = 1..m /\ Bins = 0..B - 1
      /\ BatchLen' = m /\ Queries' = 1..m /\ DecodeSize' = d /\ BinNum' = B /\ Bins' = Bins
      /\ queries' = queries /\ binOf' = binOf
  BY ArgumentFacts DEF BatchLen, Queries, DecodeSize, Bins, arguments
<1>2. PICK f \in 0..B - 1 : f = flushed /\ flushed' = f + 1
  BY DEF Flush, Batches
<1>3. sorted = m /\ sorted' = m /\ keyIndices' = keyIndices
  BY DEF Flush
<1>4. /\ \A q \in 1..m : Waits(q) \/ source[q] = q
      /\ \A c \in 0..B - 1 : f <= c => Batch(c)
      /\ valueBuffer \in [1..d -> 0..m] /\ source \in [1..m -> 0..m] /\ keyIndices \in [0..B - 1 -> Seq(1..m)]
  BY <1>1, <1>2, <1>3 DEF Batches
<1>5. PICK batch \in Seq(1..m) : batch = keyIndices[f]
  BY <1>4
<1>6. PICK n \in Nat : n = Len(batch) /\ batch \in [1..n -> 1..m]
  <2>1. Len(batch) \in Nat /\ batch \in [1..Len(batch) -> 1..m]
    OBVIOUS
  <2>2. QED
    BY <2>1
<1>7. n < d
  BY <1>4, <1>5, <1>6 DEF Batch
<1>8. HandedBack(batch, n, m, d)
  <2>1. CASE batch # << >>
    <3>1. DecodeBatch(batch)
      BY <1>2, <1>5, <2>1 DEF Flush
    <3>2. n <= d /\ n < IdxMod
      BY <1>7, DecodeAssumption
    <3>3. QED
      BY <1>4, <1>6, <3>1, <3>2, DecodeBatchFacts
  <2>2. CASE batch = << >>
    <3>1. valueBuffer' = valueBuffer /\ source' = source
      BY <1>2, <1>5, <2>2 DEF Flush
    <3>2. n = 0
      BY <1>6, <2>2
    <3>3. QED
      BY <1>4, <3>1, <3>2 DEF HandedBack
  <2>3. QED
    BY <2>1, <2>2
<1>9. ASSUME NEW c \in 0..B - 1, f + 1 <= c
      PROVE  Batch(c)'
  <2>1. Batch(c)
    BY <1>4, <1>9
  <2>2. QED
    BY <1>1, <1>3, <2>1, BatchKept
<1>10. ASSUME NEW q \in 1..m
       PROVE  Waits(q)' \/ source'[q] = q
  <2>1. CASE \E k \in 1..n : batch[k] = q
    BY <1>8, <2>1 DEF HandedBack
  <2>2. CASE \A k \in 1..n : batch[k] # q
    <3>1. source'[q] = source[q]
      BY <1>8, <2>2 DEF HandedBack
    <3>2. CASE Waits(q)
      <4>1. PICK h \in 0..B - 1 : h = binOf[queries[q]]
        BY <1>1
      <4>2. f <= h /\ \E k \in 1..Len(keyIndices[h]) : keyIndices[h][k] = q
        BY <1>2, <3>2, <4>1 DEF Waits
      <4>3. h # f
        BY <1>5, <1>6, <2>2, <4>2
      <4>4. f + 1 <= h
        BY <4>2, <4>3
      <4>5. QED
        BY <1>1, <1>2, <1>3, <4>1, <4>2, <4>4 DEF Waits
    <3>3. QED
      BY <1>4, <3>1, <3>2
  <2>3. QED
    BY <2>1, <2>2
<1>11. QED
  BY <1>1, <1>2, <1>3, <1>4, <1>8, <1>9, <1>10, SMTT(30) DEF Batches, HandedBack

\* A single OKVS decodes all queries in place.
LEMMA DecodedInPlace ==
  ASSUME NEW m \in Nat, BatchLen = m, m < IdxMod, InPlace, DecodeAll, UNCHANGED queries
  PROVE  InPlace'
<1>1. Queries = 1..m /\ Queries' = 1..m /\ BatchLen' = m
  BY DEF Queries, BatchLen
<1>2. PICK batch, out, w : batch = [q \in 1..m |-> q] /\ out = source /\ w = OkvsDecode(batch, out)
  OBVIOUS
<1>3. batch \in [1..m -> 0..m] /\ Len(batch) = m /\ out \in [1..m -> 0..m]
  BY <1>1, <1>2 DEF InPlace
<1>4. Decodes(batch, m, m, 0..m, OkvsDecode(batch, out))
  BY <1>3, OkvsDecodeFacts
<1>5. w \in [1..m -> 0..m] /\ \A k \in 1..m : w[k] = k
  BY <1>2, <1>4 DEF Decodes
<1>6. source' = w /\ sorted' = m
  BY <1>1, <1>2 DEF DecodeAll
<1>7. QED
  BY <1>1, <1>5, <1>6 DEF InPlace

\* Once all queries are decoded each has the value of its own key.
LEMMA AllDecoded ==
  ASSUME NEW B \in Nat, BinNum = B, B > 1, Batches, Decoded,
         queries \in [Queries -> Items], binOf \in [Items -> Bins]
  PROVE  \A q \in Queries : source[q] = q
<1>1. sorted = BatchLen /\ flushed = B /\ BatchLen \in Int
  BY DEF Decoded, Batches
<1>2. ASSUME NEW q \in Queries
      PROVE  source[q] = q
  <2>1. binOf[queries[q]] \in 0..B - 1
    BY DEF Bins
  <2>2. ~Waits(q)
    BY <1>1, <2>1 DEF Waits
  <2>3. QED
    BY <1>1, <2>2 DEF Batches, Queries
<1>3. QED
  BY <1>2

\* Steps of decode keep its invariant ...
LEMMA DecodingStep ==
  ASSUME BatchesFit, Encoding_OK, Decoding_OK, DecodeStep
  PROVE  Decoding_OK'
<1>1. /\ phase = "query" /\ phase' = "query" /\ answers' = answers /\ UNCHANGED arguments
      /\ Sort \/ Flush \/ DecodeAll
      /\ queries' = queries
  BY DEF DecodeStep, Decode
<1>2. pp \in Parameters /\ Valid /\ binOf \in [Items -> Bins]
  BY <1>1 DEF Encoding_OK
<1>3. queries \in QuerySets /\ queries # << >> /\ answers = << >>
  BY <1>1 DEF Decoding_OK
<1>4. PICK m \in Nat, d \in Nat :
        /\ m = BatchLen /\ d = DecodeSize /\ 1 <= d /\ d <= m
        /\ queries \in [1..m -> Items]
        /\ d < IdxMod /\ (BinNum = 1 => m < IdxMod)
  BY <1>2, <1>3, SizeFacts
<1>5. PICK B \in Nat : B = BinNum
  BY <1>2, ParameterFacts
<1>6. BinNum' = BinNum
  BY <1>1, ArgumentFacts
<1>7. BinNum > 1 => Batches'
  <2> SUFFICES ASSUME BinNum > 1 PROVE Batches'
    OBVIOUS
  <2>1. Batches
    BY <1>1 DEF Decoding_OK
  <2>2. Sort \/ Flush
    BY <1>1, <1>5 DEF DecodeAll
  <2>3. UNCHANGED <<queries, arguments>>
    BY <1>1
  <2>4. QED
    BY <1>2, <1>4, <1>5, <2>1, <2>2, <2>3, BatchesSort, BatchesFlush
<1>8. BinNum = 1 => InPlace'
  <2> SUFFICES ASSUME BinNum = 1 PROVE InPlace'
    OBVIOUS
  <2>1. InPlace
    BY <1>1 DEF Decoding_OK
  <2>2. DecodeAll
    BY <1>1 DEF Sort, Flush
  <2>3. QED
    BY <1>1, <1>4, <2>1, <2>2, DecodedInPlace
<1>9. QED
  BY <1>1, <1>3, <1>6, <1>7, <1>8 DEF Decoding_OK

\* ... and what decode returns is what was stored.
LEMMA DecodingReturns ==
  ASSUME Encoding_OK, Decoding_OK, DecodeReturns
  PROVE  Decoding_OK'
<1>1. /\ phase = "query" /\ phase' = "returned" /\ Decoded
      /\ queries' = queries /\ given' = given /\ fitted' = fitted
      /\ answers' = [q \in Queries |-> IF source[q] = None THEN Zero ELSE Lookup(queries[source[q]])]
  BY DEF DecodeReturns
<1>2. pp \in Parameters /\ Valid /\ binOf \in [Items -> Bins] /\ given \in Seq(Items) /\ (fitted => Stored)
  BY <1>1 DEF Encoding_OK
<1>3. queries \in Seq(Items)
  BY <1>1, ApiAssumption DEF Decoding_OK
<1>4. Queries = 1..Len(queries) /\ queries \in [Queries -> Items] /\ Queries \subseteq Nat \ {0}
  <2>1. Len(queries) \in Nat /\ queries \in [1..Len(queries) -> Items]
    BY <1>3
  <2>2. QED
    BY <2>1 DEF Queries, BatchLen
<1>5. \A q \in Queries : source[q] = q
  <2>1. PICK B \in Nat \ {0} : B = BinNum
    BY <1>2, ParameterFacts
  <2>2. CASE B = 1
    BY <1>1, <2>1, <2>2 DEF Decoding_OK, InPlace, Decoded
  <2>3. CASE B > 1
    <3>1. Batches
      BY <1>1, <2>1, <2>3 DEF Decoding_OK
    <3>2. B \in Nat /\ BinNum = B
      BY <2>1
    <3>3. QED
      BY <1>1, <1>2, <1>4, <2>3, <3>1, <3>2, AllDecoded
  <2>4. QED
    BY <2>1, <2>2, <2>3
<1>6. answers' = [q \in Queries |-> Lookup(queries[q])]
  <2>1. \A q \in Queries : (IF source[q] = None THEN Zero ELSE Lookup(queries[source[q]])) = Lookup(queries[q])
    BY <1>4, <1>5 DEF None
  <2>2. QED
    BY <1>1, <2>1
<1>7. ASSUME fitted, NEW q \in Queries, queries[q] \in ToSet(given)
      PROVE  answers'[q] = Value(queries[q])
  <2>1. DOMAIN given = 1..Len(given)
    BY <1>2
  <2>2. PICK k \in 1..Len(given) : given[k] = queries[q]
    BY <1>7, <2>1 DEF ToSet
  <2>3. Lookup(given[k]) = Value(given[k])
    BY <1>2, <1>7, Zenon DEF Stored
  <2>4. QED
    BY <1>6, <2>2, <2>3
<1>8. RoundTrip'
  <2>1. DOMAIN answers' = Queries
    BY <1>6
  <2>2. QED
    BY <1>1, <1>7, <2>1, Zenon DEF RoundTrip
<1>9. QED
  BY <1>1, <1>8 DEF Decoding_OK

\* In every reachable state each query sorted waits in its bin or has its own
\* value, and what was returned is right, if no batch has 2^w keys or more, for
\* the w bits of idx_type (run narrow shows what happens otherwise).
THEOREM DecodingInvariant ==
  ASSUME BatchesFit
  PROVE  Spec => []Decoding_OK
<1>1. Init => Decoding_OK
  BY DEF Init, Decoding_OK
<1>2. Encoding_OK /\ Decoding_OK /\ [Next]_vars => Decoding_OK'
  <2> SUFFICES ASSUME Encoding_OK, Decoding_OK, [Next]_vars
               PROVE  Decoding_OK'
    OBVIOUS
  <2>1. CASE phase # "returned" /\ phase' \notin {"query", "returned"} /\ answers' = answers
    BY <2>1 DEF Decoding_OK
  <2>2. CASE Setup
    BY <2>1, <2>2 DEF Setup, Throw
  <2>3. ASSUME NEW request \in Requests, EncodeCall(request)
        PROVE  Decoding_OK'
    BY <2>1, <2>3 DEF EncodeCall, Throw
  <2>4. CASE SolveStep
    BY <2>1, <2>4 DEF SolveStep, SingleStep, BarrierStep, ThreadStep, Solving
  <2>5. CASE EncodeFails
    BY <2>1, <2>5 DEF EncodeFails, Throw
  <2>6. CASE EncodeReturns
    BY <2>1, <2>6 DEF EncodeReturns
  <2>7. ASSUME NEW asked \in QuerySets, NEW extra \in Storages, DecodeCall(asked, extra)
        PROVE  Decoding_OK'
    <3>1. phase = "decode" /\ answers' = answers /\ answers = << >>
      BY <2>7 DEF DecodeCall, Throw, Decoding_OK
    <3>2. CASE phase' = "threw"
      BY <2>1, <3>1, <3>2
    <3>3. CASE phase' = "returned"
      <4>1. answers' = << >> /\ DOMAIN answers' = {}
        BY <3>1
      <4>2. RoundTrip'
        BY <4>1 DEF RoundTrip
      <4>3. QED
        BY <3>3, <4>2 DEF Decoding_OK
    <3>4. CASE phase' = "query"
      <4>1. asked # << >> /\ DecodeStart(asked) /\ UNCHANGED arguments
        BY <2>7, <3>4 DEF DecodeCall, Throw
      <4>2. BinNum \in Nat
        BY <3>1, ParameterFacts DEF Encoding_OK
      <4>3. asked \in Seq(Items)
        BY ApiAssumption
      <4>4. Batches' /\ InPlace'
        BY <4>1, <4>2, <4>3, BatchesBegin DEF arguments
      <4>5. queries' = asked
        BY <4>1 DEF DecodeStart
      <4>6. QED
        BY <3>1, <3>4, <4>1, <4>4, <4>5 DEF Decoding_OK
    <3>5. QED
      BY <2>7, <3>2, <3>3, <3>4 DEF DecodeCall, Throw
  <2>8. CASE DecodeStep
    BY <2>8, DecodingStep
  <2>9. CASE DecodeReturns
    BY <2>9, DecodingReturns
  <2>10. CASE UNCHANGED vars
    <3>1. /\ phase' = phase /\ answers' = answers /\ queries' = queries /\ given' = given /\ fitted' = fitted
          /\ UNCHANGED <<arguments, decoding>>
      BY <2>10 DEF vars
    <3>2. /\ BinNum' = BinNum /\ BatchLen' = BatchLen /\ Queries' = Queries /\ Bins' = Bins
          /\ DecodeSize' = DecodeSize /\ binOf' = binOf
          /\ UNCHANGED <<sorted, keyIndices, valueBuffer, source, flushed>>
      BY <3>1, ArgumentFacts DEF BatchLen, Queries, DecodeSize, arguments, decoding
    <3>3. Batches => Batches'
      <4>1. \A b : Batch(b) => Batch(b)'
        BY <3>1, <3>2 DEF Batch
      <4>2. \A q : Waits(q) => Waits(q)'
        BY <3>1, <3>2 DEF Waits
      <4>3. QED
        BY <3>2, <4>1, <4>2 DEF Batches
    <3>4. InPlace => InPlace'
      BY <3>2 DEF InPlace
    <3>5. RoundTrip => RoundTrip'
      BY <3>1 DEF RoundTrip
    <3>6. QED
      BY <3>1, <3>2, <3>3, <3>4, <3>5 DEF Decoding_OK
  <2>11. QED
    BY <2>2, <2>3, <2>4, <2>5, <2>6, <2>7, <2>8, <2>9, <2>10 DEF Next, Finished
<1>3. QED
  BY <1>1, <1>2, EncodingInvariant, PTL DEF Spec

\* Each query sorted waits once, in a batch that fits value_buffer, or has its
\* own value, however buffers and batches are reused (impl_decode_batch,
\* baxos.cpp 333-429).
THEOREM BatchesAreKept ==
  ASSUME BatchesFit
  PROVE  Spec => []QueriesKept
<1>1. Encoding_OK /\ Decoding_OK => QueriesKept
  <2> SUFFICES ASSUME Encoding_OK, Decoding_OK, phase = "query", BinNum > 1, NEW q \in 1..sorted
               PROVE  LET b == binOf[queries[q]]
                          waiting == flushed <= b /\ q \in ToSet(keyIndices[b]) IN
                      /\ waiting => Cardinality({k \in DOMAIN keyIndices[b] : keyIndices[b][k] = q}) = 1
                      /\ waiting => Len(keyIndices[b]) < DecodeSize
                      /\ ~waiting => source[q] = q
    BY DEF QueriesKept
  <2>1. Batches /\ queries \in Seq(Items) /\ binOf \in [Items -> Bins]
    BY ApiAssumption DEF Decoding_OK, Encoding_OK
  <2>2. PICK b \in Bins : b = binOf[queries[q]]
    <3>1. q \in 1..Len(queries)
      BY <2>1 DEF Batches, BatchLen
    <3>2. queries[q] \in Items
      BY <2>1, <3>1
    <3>3. QED
      BY <2>1, <3>2
  <2>3. PICK list \in Seq(Queries) : list = keyIndices[b]
    BY <2>1, <2>2 DEF Batches
  <2>4. DOMAIN list = 1..Len(list) /\ Len(list) \in Nat
    BY <2>3
  <2>5. q \in ToSet(list) <=> \E k \in 1..Len(list) : list[k] = q
    BY <2>4 DEF ToSet
  <2>6. ASSUME flushed <= b, q \in ToSet(list)
        PROVE  Cardinality({k \in DOMAIN list : list[k] = q}) = 1 /\ Len(list) < DecodeSize
    <3>1. Batch(b)
      BY <2>1, <2>6 DEF Batches
    <3>2. Len(list) < DecodeSize /\ \A j, k \in 1..Len(list) : list[j] = list[k] => j = k
      BY <2>3, <3>1 DEF Batch
    <3>3. PICK j \in 1..Len(list) : list[j] = q
      BY <2>5, <2>6
    <3>4. {k \in DOMAIN list : list[k] = q} = {j}
      BY <2>4, <3>2, <3>3
    <3>5. QED
      BY <3>2, <3>4, FS_Singleton
  <2>7. ASSUME ~(flushed <= b /\ q \in ToSet(list))
        PROVE  source[q] = q
    <3>1. ~Waits(q)
      BY <2>2, <2>3, <2>5, <2>7 DEF Waits
    <3>2. QED
      BY <2>1, <3>1 DEF Batches
  <2>8. QED
    BY <2>2, <2>3, <2>6, <2>7
<1>2. QED
  BY <1>1, EncodingInvariant, DecodingInvariant, PTL

\* From any vector that encode returned, whatever it padded, a key decodes to
\* its value wherever and however often it is asked for (okvs.hpp 116).
THEOREM ValuesComeBack ==
  ASSUME BatchesFit
  PROVE  Spec => []RoundTrip
<1>1. Decoding_OK => RoundTrip
  BY DEF Decoding_OK, RoundTrip
<1>2. QED
  BY <1>1, DecodingInvariant, PTL
=============================================================================
