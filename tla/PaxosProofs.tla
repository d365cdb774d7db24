------------------------------ MODULE PaxosProofs ------------------------------
(***************************************************************************)
(* What is proved of Paxos for every size and every input: the lists of    *)
(* columns, the triangular form, termination, and that decode gives every  *)
(* key its value.  And of OkvsArithmetic: that inversion is exact.         *)
(***************************************************************************)
EXTENDS Paxos, OkvsArithmetic, DataLemmas

\* The smallest number of a set is in it.
LEMMA MinPicks ==
  ASSUME NEW n \in Nat, NEW U \in SUBSET (0..n), U # {}
  PROVE  Min(U) \in U /\ \A x \in U : Min(U) <= x
<1>1. IsFiniteSet(U)
  <2>1. IsFiniteSet(0..n)
    BY FS_Interval
  <2>2. QED
    BY <2>1, FS_Subset
<1> DEFINE f == [x \in U |-> n - x]
<1>2. PICK x \in U : \A y \in U : f[y] <= f[x]
  <2>1. \A x \in U : f[x] \in Nat
    OBVIOUS
  <2> HIDE DEF f
  <2>2. QED
    BY <1>1, <2>1, Greatest
<1>3. \A y \in U : x <= y
  <2> TAKE y \in U
  <2>1. n - y <= n - x
    BY <1>2
  <2>2. QED
    BY <2>1
<1>4. QED
  BY <1>3 DEF Min

-----------------------------------------------------------------------------
(***************************************************************************)
(* The lists of columns.                                                   *)
(***************************************************************************)
ListStates == [weight : [Cols -> 0..N], lists : [0..N -> Seq(Cols)]]

\* Every column that is not out is in the list of its number of rows left,
\* once, and the lists hold no other.
Listed(s, out, left) ==
  /\ \A c \in Cols : s.weight[c] = IF c \in out THEN 0 ELSE left[c]
  /\ \A w \in 0..N : /\ IsInjective(s.lists[w])
                     /\ ToSet(s.lists[w]) = {c \in Cols \ out : left[c] = w}

\* Taking an element out of a list and putting one at its head.
LEMMA RemoveOne ==
  ASSUME NEW A, NEW s \in Seq(A), IsInjective(s), NEW c \in ToSet(s)
  PROVE  /\ RemoveFirst(s, c) \in Seq(A) /\ IsInjective(RemoveFirst(s, c))
         /\ ToSet(RemoveFirst(s, c)) = ToSet(s) \ {c}
<1>1. PICK n \in Nat : n = Len(s) /\ DOMAIN s = 1..n /\ s \in [1..n -> A]
  BY Len(s) \in Nat, DOMAIN s = 1..Len(s), s \in [1..Len(s) -> A]
<1>2. PICK k \in 1..n : s[k] = c
  BY <1>1 DEF ToSet
<1>3. \A i \in 1..n : s[i] = c => i = k
  BY <1>1, <1>2 DEF IsInjective
<1>4. {i \in 1..n : s[i] = c} = {k}
  BY <1>2, <1>3
<1>5. Min({k}) = k
  BY DEF Min
<1>6. SelectInSeq(s, LAMBDA v : v = c) = k
  BY <1>1, <1>4, <1>5 DEF SelectInSeq
<1>7. RemoveFirst(s, c) = RemoveAt(s, k)
  BY <1>1, <1>2, <1>6 DEF RemoveFirst
<1>8. PICK u : u = RemoveAt(s, k)
  OBVIOUS
<1>9. u \in Seq(A) /\ Len(u) = n - 1 /\ \A i \in 1..n - 1 : u[i] = IF i < k THEN s[i] ELSE s[i + 1]
  <2>1. PICK a \in Seq(A) : a = SubSeq(s, 1, k - 1) /\ Len(a) = k - 1 /\ \A i \in 1..k - 1 : a[i] = s[i]
    <3>1. \A i \in 1..k - 1 : s[i] \in A
      BY <1>1
    <3>2. /\ SubSeq(s, 1, k - 1) \in Seq(A)
          /\ Len(SubSeq(s, 1, k - 1)) = IF 1 <= k - 1 THEN k - 1 - 1 + 1 ELSE 0
          /\ \A i \in 1..k - 1 - 1 + 1 : SubSeq(s, 1, k - 1)[i] = s[1 + i - 1]
      BY <3>1, SubSeqProperties, 1 \in Int, k - 1 \in Int
    <3>3. Len(SubSeq(s, 1, k - 1)) = k - 1
      BY <3>2
    <3>4. \A i \in 1..k - 1 : SubSeq(s, 1, k - 1)[i] = s[i]
      <4> TAKE i \in 1..k - 1
      <4>1. i \in 1..k - 1 - 1 + 1 /\ 1 + i - 1 = i
        OBVIOUS
      <4>2. QED
        BY <3>2, <4>1
    <3>5. QED
      BY <3>2, <3>3, <3>4
  <2>2. PICK b \in Seq(A) : b = SubSeq(s, k + 1, Len(s)) /\ Len(b) = n - k /\ \A i \in 1..n - k : b[i] = s[k + i]
    <3>1. \A i \in k + 1..n : s[i] \in A
      BY <1>1
    <3>2. /\ SubSeq(s, k + 1, n) \in Seq(A)
          /\ Len(SubSeq(s, k + 1, n)) = IF k + 1 <= n THEN n - (k + 1) + 1 ELSE 0
          /\ \A i \in 1..n - (k + 1) + 1 : SubSeq(s, k + 1, n)[i] = s[(k + 1) + i - 1]
      BY <3>1, SubSeqProperties, k + 1 \in Int, n \in Int
    <3>3. Len(SubSeq(s, k + 1, n)) = n - k
      BY <3>2
    <3>4. \A i \in 1..n - k : SubSeq(s, k + 1, n)[i] = s[k + i]
      <4> TAKE i \in 1..n - k
      <4>1. i \in 1..n - (k + 1) + 1 /\ (k + 1) + i - 1 = k + i
        OBVIOUS
      <4>2. QED
        BY <3>2, <4>1
    <3>5. QED
      BY <1>1, <3>2, <3>3, <3>4
  <2>3. u = a \o b
    BY <1>8, <2>1, <2>2 DEF RemoveAt
  <2>4. /\ u \in Seq(A) /\ Len(u) = (k - 1) + (n - k)
        /\ \A i \in 1..(k - 1) + (n - k) : u[i] = IF i <= k - 1 THEN a[i] ELSE b[i - (k - 1)]
    <3>1. /\ a \o b \in Seq(A) /\ Len(a \o b) = Len(a) + Len(b)
          /\ \A i \in 1..Len(a) + Len(b) : (a \o b)[i] = IF i <= Len(a) THEN a[i] ELSE b[i - Len(a)]
      BY ConcatProperties
    <3>2. QED
      BY <2>1, <2>2, <2>3, <3>1
  <2>5. ASSUME NEW i \in 1..n - 1
        PROVE  u[i] = IF i < k THEN s[i] ELSE s[i + 1]
    <3>1. i \in 1..(k - 1) + (n - k)
      OBVIOUS
    <3>2. CASE i < k
      BY <2>1, <2>4, <3>1, <3>2
    <3>3. CASE ~(i < k)
      <4>1. u[i] = b[i - (k - 1)]
        BY <2>4, <3>1, <3>3
      <4>2. i - (k - 1) \in 1..n - k /\ k + (i - (k - 1)) = i + 1
        BY <3>3
      <4>3. b[i - (k - 1)] = s[k + (i - (k - 1))]
        BY <2>2, <4>2
      <4>4. QED
        BY <3>3, <4>1, <4>2, <4>3
    <3>4. QED
      BY <3>2, <3>3
  <2>6. QED
    BY <2>4, <2>5
<1>10. DOMAIN u = 1..n - 1
  BY <1>9
<1>11. IsInjective(u)
  BY <1>1, <1>9, <1>10 DEF IsInjective
<1>12. ToSet(u) = ToSet(s) \ {c}
  <2>1. ToSet(u) = {u[i] : i \in 1..n - 1} /\ ToSet(s) = {s[i] : i \in 1..n}
    BY <1>1, <1>10 DEF ToSet
  <2>2. \A i \in 1..n - 1 : u[i] \in ToSet(s) \ {c}
    <3> TAKE i \in 1..n - 1
    <3>1. PICK j \in 1..n : j # k /\ u[i] = s[j]
      BY <1>9
    <3>2. QED
      BY <1>3, <2>1, <3>1
  <2>3. \A j \in 1..n : s[j] # c => \E i \in 1..n - 1 : u[i] = s[j]
    <3> TAKE j \in 1..n
    <3> HAVE s[j] # c
    <3>1. CASE j < k
      BY <1>9, <3>1
    <3>2. CASE j > k
      <4>1. j - 1 \in 1..n - 1 /\ ~(j - 1 < k) /\ (j - 1) + 1 = j
        BY <3>2
      <4>2. u[j - 1] = s[j]
        BY <1>9, <4>1
      <4>3. QED
        BY <4>1, <4>2
    <3>3. QED
      BY <1>2, <3>1, <3>2
  <2>4. QED
    BY <2>1, <2>2, <2>3
<1>13. QED
  BY <1>7, <1>8, <1>9, <1>11, <1>12

\* Putting a new column at the head of one list keeps the lists apart.
LEMMA PutFirst ==
  ASSUME NEW A, NEW s \in Seq(A), NEW c \in A
  PROVE  /\ Cons(c, s) \in Seq(A) /\ ToSet(Cons(c, s)) = ToSet(s) \cup {c}
         /\ IsInjective(s) /\ c \notin ToSet(s) => IsInjective(Cons(c, s))
<1>1. PICK n \in Nat : n = Len(s) /\ DOMAIN s = 1..n
  BY Len(s) \in Nat, DOMAIN s = 1..Len(s)
<1>2. PICK u : u = Cons(c, s)
  OBVIOUS
<1>3. /\ u \in Seq(A) /\ Len(u) = n + 1
      /\ \A i \in 1..n + 1 : u[i] = IF i = 1 THEN c ELSE s[i - 1]
  <2>1. u = <<c>> \o s
    BY <1>2 DEF Cons
  <2>2. u \in Seq(A) /\ Len(u) = n + 1
    BY <1>1, <2>1
  <2>3. ASSUME NEW i \in 1..n + 1
        PROVE  u[i] = IF i = 1 THEN c ELSE s[i - 1]
    <3>1. CASE i = 1
      BY <1>1, <2>1, <3>1
    <3>2. CASE i # 1
      <4>1. u[i] = s[i - 1]
        BY <1>1, <2>1, <3>2
      <4>2. QED
        BY <3>2, <4>1
    <3>3. QED
      BY <3>1, <3>2
  <2>4. QED
    BY <2>2, <2>3
<1>4. DOMAIN u = 1..n + 1
  BY <1>3
<1>5. ToSet(u) = {u[i] : i \in 1..n + 1} /\ ToSet(s) = {s[i] : i \in 1..n}
  BY <1>1, <1>4 DEF ToSet
<1>6. \A i \in 1..n : u[i + 1] = s[i]
  <2> TAKE i \in 1..n
  <2>1. i + 1 \in 1..n + 1 /\ i + 1 # 1 /\ (i + 1) - 1 = i
    OBVIOUS
  <2>2. QED
    BY <1>3, <2>1
<1>7. ToSet(u) = ToSet(s) \cup {c}
  <2>1. \A i \in 1..n + 1 : u[i] \in ToSet(s) \cup {c}
    <3> TAKE i \in 1..n + 1
    <3>1. CASE i = 1
      BY <1>3, <3>1
    <3>2. CASE i # 1
      <4>1. i - 1 \in 1..n /\ u[i] = s[i - 1]
        BY <1>3, <3>2
      <4>2. QED
        BY <1>5, <4>1
    <3>3. QED
      BY <3>1, <3>2
  <2>2. c \in ToSet(u)
    BY <1>3, <1>5
  <2>3. \A i \in 1..n : s[i] \in ToSet(u)
    BY <1>5, <1>6
  <2>4. QED
    BY <1>5, <2>1, <2>2, <2>3
<1>8. ASSUME IsInjective(s), c \notin ToSet(s) PROVE IsInjective(u)
  <2> SUFFICES ASSUME NEW i \in 1..n + 1, NEW j \in 1..n + 1, u[i] = u[j]
               PROVE  i = j
    BY <1>4 DEF IsInjective
  <2>1. \A k \in 1..n : s[k] # c
    BY <1>5, <1>8
  <2>2. CASE i = 1 \/ j = 1
    BY <1>3, <2>1, <2>2
  <2>3. CASE i # 1 /\ j # 1
    <3>1. i - 1 \in 1..n /\ j - 1 \in 1..n /\ s[i - 1] = s[j - 1]
      BY <1>3, <2>3
    <3>2. i - 1 = j - 1
      BY <1>1, <1>8, <3>1 DEF IsInjective
    <3>3. QED
      BY <3>2
  <2>4. QED
    BY <2>2, <2>3
<1>9. QED
  BY <1>2, <1>3, <1>7, <1>8

\* What is left of a list is a list.
LEMMA RemoveTyped ==
  ASSUME NEW A, NEW s \in Seq(A), NEW c
  PROVE  RemoveFirst(s, c) \in Seq(A)
<1>1. PICK n \in Nat : n = Len(s) /\ DOMAIN s = 1..n /\ s \in [1..n -> A]
  BY Len(s) \in Nat, DOMAIN s = 1..Len(s), s \in [1..Len(s) -> A]
<1>2. CASE ~(\E i \in 1..n : s[i] = c)
  BY <1>1, <1>2 DEF RemoveFirst
<1>3. CASE \E i \in 1..n : s[i] = c
  <2>1. PICK I : I = {i \in 1..n : s[i] = c}
    OBVIOUS
  <2>2. I \in SUBSET (0..n) /\ I # {}
    BY <1>3, <2>1
  <2>3. PICK k \in 1..n : k = Min(I)
    <3>1. Min(I) \in I
      BY <2>2, MinPicks
    <3>2. QED
      BY <2>1, <3>1
  <2>4. SelectInSeq(s, LAMBDA v : v = c) = k
    BY <1>1, <2>1, <2>2, <2>3 DEF SelectInSeq
  <2>5. RemoveFirst(s, c) = SubSeq(s, 1, k - 1) \o SubSeq(s, k + 1, Len(s))
    BY <1>1, <1>3, <2>4 DEF RemoveFirst, RemoveAt
  <2>6. SubSeq(s, 1, k - 1) \in Seq(A)
    <3>1. \A i \in 1..k - 1 : s[i] \in A
      BY <1>1
    <3>2. QED
      BY <3>1, SubSeqProperties, 1 \in Int, k - 1 \in Int
  <2>7. SubSeq(s, k + 1, n) \in Seq(A)
    <3>1. \A i \in k + 1..n : s[i] \in A
      BY <1>1
    <3>2. QED
      BY <3>1, SubSeqProperties, k + 1 \in Int, n \in Int
  <2>8. SubSeq(s, 1, k - 1) \o SubSeq(s, k + 1, n) \in Seq(A)
    BY <2>6, <2>7, ConcatProperties
  <2>9. QED
    BY <1>1, <2>5, <2>8
<1>4. QED
  BY <1>2, <1>3

\* Lowering a column keeps the lists within their types.
LEMMA LowerTyped ==
  ASSUME NEW s \in ListStates, NEW c \in Cols
  PROVE  Lower(s, c) \in ListStates
<1>1. PICK w \in 0..N : w = s.weight[c]
  BY DEF ListStates
<1>2. CASE w = 0
  BY <1>1, <1>2 DEF Lower
<1>3. CASE w # 0
  <2>1. w - 1 \in 0..N /\ w - 1 # w
    BY <1>3, SizeAssumption
  <2>2. PICK a \in Seq(Cols) : a = RemoveFirst(s.lists[w], c)
    <3>1. s.lists[w] \in Seq(Cols)
      BY DEF ListStates
    <3>2. QED
      BY <3>1, RemoveTyped
  <2>3. PICK b \in Seq(Cols) : b = Cons(c, s.lists[w - 1])
    <3>1. s.lists[w - 1] \in Seq(Cols)
      BY <2>1 DEF ListStates
    <3>2. QED
      BY <3>1, PutFirst
  <2>4. Lower(s, c) = [weight |-> [s.weight EXCEPT ![c] = w - 1],
                       lists |-> [s.lists EXCEPT ![w] = a, ![w - 1] = b]]
    BY <1>1, <1>3, <2>1, <2>2, <2>3 DEF Lower, ListStates
  <2>5. [s.weight EXCEPT ![c] = w - 1] \in [Cols -> 0..N]
    BY <2>1 DEF ListStates
  <2>6. [s.lists EXCEPT ![w] = a, ![w - 1] = b] \in [0..N -> Seq(Cols)]
    <3>1. s.lists \in [0..N -> Seq(Cols)]
      BY DEF ListStates
    <3>2. QED
      BY <2>1, <3>1
  <2>7. QED
    <3>1. PICK u \in [Cols -> 0..N] : u = [s.weight EXCEPT ![c] = w - 1]
      BY <2>5
    <3>2. PICK v \in [0..N -> Seq(Cols)] : v = [s.lists EXCEPT ![w] = a, ![w - 1] = b]
      BY <2>6
    <3>3. [weight |-> u, lists |-> v] \in ListStates
      BY DEF ListStates
    <3>4. QED
      BY <2>4, <3>1, <3>2, <3>3
<1>4. QED
  BY <1>2, <1>3

\* One column has one row less, in its weight and in the lists.
LEMMA LowerListed ==
  ASSUME NEW s \in ListStates, NEW c \in Cols, NEW out,
         NEW left \in [Cols -> 0..N], NEW less \in [Cols -> 0..N], Listed(s, out, left),
         \A d \in Cols \ out : less[d] = IF d = c THEN left[d] - 1 ELSE left[d]
  PROVE  Listed(Lower(s, c), out, less)
<1>1. PICK w \in 0..N : w = s.weight[c]
  BY DEF ListStates
<1>2. CASE c \in out
  <2>1. Lower(s, c) = s
    BY <1>2 DEF Listed, Lower
  <2>2. \A d \in Cols \ out : less[d] = left[d]
    BY <1>2
  <2>3. \A v \in 0..N : {d \in Cols \ out : less[d] = v} = {d \in Cols \ out : left[d] = v}
    BY <2>2
  <2>4. QED
    BY <2>1, <2>2, <2>3 DEF Listed
<1>3. CASE c \notin out
  <2>1. w = left[c] /\ w # 0 /\ w - 1 \in 0..N
    <3>1. w = left[c]
      BY <1>1, <1>3 DEF Listed
    <3>2. less[c] = w - 1 /\ less[c] \in 0..N
      BY <1>3, <3>1
    <3>3. QED
      BY <3>1, <3>2
  <2>2. PICK l0 \in Seq(Cols) : /\ l0 = s.lists[w] /\ IsInjective(l0)
                                /\ ToSet(l0) = {d \in Cols \ out : left[d] = w}
    BY DEF Listed, ListStates
  <2>3. PICK l1 \in Seq(Cols) : /\ l1 = s.lists[w - 1] /\ IsInjective(l1)
                                /\ ToSet(l1) = {d \in Cols \ out : left[d] = w - 1}
    BY <2>1 DEF Listed, ListStates
  <2>4. PICK a \in Seq(Cols) : a = RemoveFirst(l0, c) /\ IsInjective(a) /\ ToSet(a) = ToSet(l0) \ {c}
    <3>1. c \in ToSet(l0)
      BY <1>3, <2>1, <2>2
    <3>2. QED
      BY <2>2, <3>1, RemoveOne
  <2>5. PICK b \in Seq(Cols) : b = Cons(c, l1) /\ IsInjective(b) /\ ToSet(b) = ToSet(l1) \cup {c}
    <3>1. c \notin ToSet(l1)
      BY <2>1, <2>3
    <3>2. Cons(c, l1) \in Seq(Cols) /\ ToSet(Cons(c, l1)) = ToSet(l1) \cup {c}
      BY PutFirst
    <3>3. IsInjective(Cons(c, l1))
      BY <2>3, <3>1, PutFirst
    <3>4. QED
      BY <3>2, <3>3
  <2>6. PICK t : t = [weight |-> [s.weight EXCEPT ![c] = w - 1],
                      lists |-> [s.lists EXCEPT ![w] = a, ![w - 1] = b]]
    OBVIOUS
  <2>7. Lower(s, c) = t
    BY <1>1, <2>1, <2>2, <2>3, <2>4, <2>5, <2>6 DEF Lower, ListStates
  <2> DEFINE lists == t.lists
  <2>11. /\ lists[w] = a /\ lists[w - 1] = b
         /\ \A v \in 0..N : v # w /\ v # w - 1 => lists[v] = s.lists[v]
    <3>1. s.lists \in [0..N -> Seq(Cols)] /\ lists = [s.lists EXCEPT ![w] = a, ![w - 1] = b]
      BY <2>6 DEF ListStates
    <3>2. w # w - 1
      BY <2>1
    <3>3. QED
      BY <2>1, <3>1, <3>2
  <2>8. \A d \in Cols : t.weight[d] = IF d \in out THEN 0 ELSE less[d]
    <3> TAKE d \in Cols
    <3>1. CASE d = c
      BY <1>3, <2>1, <2>6, <3>1 DEF ListStates
    <3>2. CASE d # c
      BY <2>6, <3>2 DEF ListStates, Listed
    <3>3. QED
      BY <3>1, <3>2
  <2>9. ASSUME NEW v \in 0..N
        PROVE  /\ IsInjective(t.lists[v])
               /\ ToSet(t.lists[v]) = {d \in Cols \ out : less[d] = v}
    <3>1. \A d \in Cols \ out : less[d] = IF d = c THEN w - 1 ELSE left[d]
      BY <2>1
    <3>2. CASE v = w
      <4>1. t.lists[v] = a
        BY <2>11, <3>2
      <4>2. {d \in Cols \ out : less[d] = v} = {d \in Cols \ out : left[d] = w} \ {c}
        BY <2>1, <3>1, <3>2
      <4>3. QED
        BY <2>2, <2>4, <4>1, <4>2
    <3>3. CASE v = w - 1
      <4>1. t.lists[v] = b
        BY <2>11, <3>3
      <4>2. {d \in Cols \ out : less[d] = v} = {d \in Cols \ out : left[d] = w - 1} \cup {c}
        BY <1>3, <2>1, <3>1, <3>3
      <4>3. QED
        BY <2>3, <2>5, <4>1, <4>2
    <3>4. CASE v # w /\ v # w - 1
      <4>1. t.lists[v] = s.lists[v]
        BY <2>11, <3>4
      <4>2. {d \in Cols \ out : less[d] = v} = {d \in Cols \ out : left[d] = v}
        BY <2>1, <3>1, <3>4
      <4>3. QED
        BY <4>1, <4>2 DEF Listed
    <3>5. QED
      BY <3>2, <3>3, <3>4
  <2>10. QED
    BY <2>7, <2>8, <2>9 DEF Listed
<1>4. QED
  BY <1>2, <1>3

\* Lowering the columns of a row, one after the other.
Lowered(s, q) == FoldLeft(Lower, s, q)
LoweringRun(s, q, n, g) ==
  /\ g \in [0..n -> ListStates] /\ g[0] = s
  /\ \A i \in 1..n : g[i] = Lower(g[i - 1], q[i])
  /\ Lowered(s, q) = g[n]

\* The columns of a row are lowered one after the other: the fold as a run.
LEMMA LowerRun ==
  ASSUME NEW s \in ListStates, NEW q \in Seq(Cols), NEW n \in Nat, n = Len(q)
  PROVE  \E g : LoweringRun(s, q, n, g)
<1> DEFINE S == DOMAIN q
           W == ListStates
           Is(f) == f = [U \in SUBSET S |-> IF U = {} THEN s ELSE LET x == Max(U) IN Lower(f[U \ {x}], q[x])]
           step == [p \in (1..n) \X W |-> Lower(p[2], q[p[1]])]
<1>1. S = 1..n /\ \A i \in 1..n : q[i] \in Cols
  OBVIOUS
<1>2. \A i \in 1..n : \A v \in W : step[<<i, v>>] = Lower(v, q[i]) /\ Lower(v, q[i]) \in W
  BY <1>1, LowerTyped
<1> HIDE DEF step, W
<1>3. PICK h \in [SUBSET (1..n) -> W] :
        /\ h[{}] = s
        /\ \A U \in SUBSET (1..n) : U # {} => h[U] = step[<<Max(U), h[U \ {Max(U)}]>>]
  <2>1. s \in W
    BY DEF W
  <2>2. \A i \in 1..n : \A v \in W : step[<<i, v>>] \in W
    BY <1>2
  <2>3. PICK h : IsRun(n, W, s, step, h)
    BY <2>1, <2>2, RunExists
  <2>4. QED
    BY <2>3 DEF IsRun
<1>4. Is(h)
  <2>1. ASSUME NEW U \in SUBSET (1..n), U # {}
        PROVE  h[U] = Lower(h[U \ {Max(U)}], q[Max(U)])
    <3>1. Max(U) \in 1..n /\ h[U \ {Max(U)}] \in W
      BY <1>3, <2>1, MaxPicks
    <3>2. QED
      BY <1>2, <1>3, <2>1, <3>1
  <2>2. QED
    BY <1>1, <1>3, <2>1
<1>5. FoldLeft(Lower, s, q) = (CHOOSE f : Is(f))[S]
  BY DEF FoldLeft, MapThenFoldSet
<1>6. PICK k : Is(k) /\ FoldLeft(Lower, s, q) = k[1..n]
  <2>1. Is(CHOOSE f : Is(f))
    <3> HIDE DEF Is
    <3> QED BY <1>4
  <2> HIDE DEF Is
  <2>2. QED
    BY <1>1, <1>5, <2>1
<1> DEFINE g == [i \in 0..n |-> k[1..i]]
<1>7. g[0] = s
  BY <1>6
<1>8. ASSUME NEW i \in 1..n
      PROVE  g[i] = Lower(g[i - 1], q[i])
  <2>1. 1..i \in SUBSET S /\ 1..i # {}
    <3>1. 1..i \subseteq 1..n /\ 1 \in 1..i
      OBVIOUS
    <3>2. QED
      BY <1>1, <3>1
  <2>2. k[1..i] = Lower(k[(1..i) \ {Max(1..i)}], q[Max(1..i)])
    BY <1>6, <2>1
  <2>3. Max(1..i) = i /\ (1..i) \ {i} = 1..i - 1
    BY PrefixMax, i \in Nat, i # 0
  <2>4. g[i] = k[1..i] /\ g[i - 1] = k[1..i - 1]
    OBVIOUS
  <2>5. QED
    BY <2>2, <2>3, <2>4
<1> HIDE DEF g
<1>9. \A i \in 0..n : g[i] \in W
  <2> DEFINE T == {i \in Nat : i <= n => g[i] \in W}
  <2>1. 0 \in T
    BY <1>7 DEF W
  <2>2. ASSUME NEW i \in Nat, i \in T
        PROVE  i + 1 \in T
    <3> SUFFICES ASSUME i + 1 <= n PROVE g[i + 1] \in W
      OBVIOUS
    <3>1. i + 1 \in 1..n /\ (i + 1) - 1 = i
      OBVIOUS
    <3>2. g[i + 1] = Lower(g[i], q[i + 1]) /\ g[i] \in W
      BY <1>8, <2>2, <3>1
    <3>3. QED
      BY <1>2, <3>1, <3>2
  <2>3. Nat \subseteq T
    <3> HIDE DEF T
    <3> QED BY <2>1, <2>2, NatInductionSet
  <2>4. QED
    BY <2>3
<1>10. g \in [0..n -> ListStates]
  <2>1. g = [i \in 0..n |-> g[i]]
    BY DEF g
  <2>2. QED
    BY <1>9, <2>1 DEF W
<1>11. FoldLeft(Lower, s, q) = g[n]
  BY <1>6 DEF g
<1>12. QED
  BY <1>7, <1>8, <1>10, <1>11 DEF LoweringRun, Lowered

\* All columns of a row have one row less.
LEMMA LowerColumns ==
  ASSUME NEW s \in ListStates, NEW q \in Seq(Cols), IsInjective(q), NEW out,
         NEW left \in [Cols -> 0..N], NEW less \in [Cols -> 0..N], Listed(s, out, left),
         \A d \in Cols \ out : less[d] = IF d \in ToSet(q) THEN left[d] - 1 ELSE left[d]
  PROVE  Lowered(s, q) \in ListStates /\ Listed(Lowered(s, q), out, less)
<1>1. PICK n \in Nat : n = Len(q) /\ DOMAIN q = 1..n
  BY Len(q) \in Nat, DOMAIN q = 1..Len(q)
<1>2. PICK g \in [0..n -> ListStates] :
        /\ g[0] = s /\ \A i \in 1..n : g[i] = Lower(g[i - 1], q[i])
        /\ Lowered(s, q) = g[n]
  <2>1. PICK g : LoweringRun(s, q, n, g)
    BY <1>1, LowerRun
  <2>2. QED
    BY <2>1 DEF LoweringRun
<1> DEFINE Part(i) == {q[j] : j \in 1..i}
           mid(i) == [d \in Cols |-> IF d \notin out /\ d \in Part(i) THEN left[d] - 1 ELSE left[d]]
           T == {i \in Nat : i <= n => Listed(g[i], out, mid(i))}
<1>3. Part(n) = ToSet(q) /\ Part(0) = {}
  BY <1>1 DEF ToSet
<1>4. ASSUME NEW i \in 0..n
      PROVE  mid(i) \in [Cols -> 0..N]
  <2>1. \A d \in Part(i) : d \in ToSet(q)
    BY <1>1 DEF ToSet
  <2>2. ASSUME NEW d \in Cols, d \notin out, d \in Part(i)
        PROVE  left[d] - 1 \in 0..N
    <3>1. less[d] = left[d] - 1 /\ less[d] \in 0..N
      BY <2>1, <2>2
    <3>2. QED
      BY <3>1
  <2>3. \A d \in Cols : left[d] \in 0..N
    OBVIOUS
  <2> HIDE DEF Part
  <2>4. QED
    BY <2>2, <2>3
<1>5. 0 \in T
  <2>1. mid(0) = left
    BY <1>3
  <2>2. QED
    BY <1>2, <2>1
<1>6. ASSUME NEW i \in Nat, i \in T
      PROVE  i + 1 \in T
  <2> SUFFICES ASSUME i + 1 <= n PROVE Listed(g[i + 1], out, mid(i + 1))
    <3> HIDE DEF mid
    <3>1. i + 1 \in Nat
      OBVIOUS
    <3>2. QED
      BY <3>1
  <2>1. i + 1 \in 1..n /\ (i + 1) - 1 = i /\ i \in 0..n /\ i + 1 \in 0..n
    OBVIOUS
  <2>2. PICK c \in Cols : c = q[i + 1]
    BY <1>1, <2>1
  <2>3. c \notin Part(i) /\ Part(i + 1) = Part(i) \cup {c}
    <3>1. \A j \in 1..i : j \in 1..n /\ j # i + 1
      BY <2>1
    <3>2. \A j \in 1..i : q[j] # c
      BY <1>1, <2>1, <2>2, <3>1 DEF IsInjective
    <3>3. 1..i + 1 = (1..i) \cup {i + 1}
      OBVIOUS
    <3>4. QED
      BY <2>2, <3>2, <3>3
  <2>4. PICK a \in [Cols -> 0..N] : a = mid(i)
    BY <1>4, <2>1
  <2>5. PICK b \in [Cols -> 0..N] : b = mid(i + 1)
    BY <1>4, <2>1
  <2>6. \A d \in Cols \ out : b[d] = IF d = c THEN a[d] - 1 ELSE a[d]
    <3> HIDE DEF Part
    <3> QED BY <2>3, <2>4, <2>5
  <2>7. g[i] \in ListStates /\ Listed(g[i], out, a)
    BY <1>6, <2>1, <2>4
  <2>8. Listed(Lower(g[i], c), out, b)
    BY <2>6, <2>7, LowerListed
  <2>9. QED
    BY <1>2, <2>1, <2>2, <2>5, <2>8
<1>7. n \in T
  <2>1. Nat \subseteq T
    <3> HIDE DEF T
    <3> QED BY <1>5, <1>6, NatInductionSet
  <2>2. QED
    BY <2>1
<1>8. Listed(g[n], out, mid(n))
  BY <1>7
<1>9. \A d \in Cols \ out : mid(n)[d] = less[d]
  BY <1>3
<1>10. Listed(g[n], out, less)
  <2>1. PICK m : m = mid(n)
    OBVIOUS
  <2>2. \A d \in Cols \ out : m[d] = less[d]
    BY <1>9, <2>1
  <2>3. \A w \in 0..N : {d \in Cols \ out : m[d] = w} = {d \in Cols \ out : less[d] = w}
    BY <2>2
  <2>4. Listed(g[n], out, m)
    BY <1>8, <2>1
  <2>5. QED
    BY <2>2, <2>3, <2>4 DEF Listed
<1>11. QED
  BY <1>2, <1>10
-----------------------------------------------------------------------------
\* How many rows of each column are still to be eliminated.
LeftOf(rows) == [c \in Cols |-> Cardinality(ColRows(c) \ rows)]

\* What the assumption on the inputs says of one of them.
LEMMA InputTypes ==
  ASSUME input \in Inputs
  PROVE  /\ \E n \in 0..N : Rows = 1..n
         /\ \A r \in Rows : H(r) \in Seq(Cols) /\ IsInjective(H(r)) /\ H(r) # << >>
         /\ DOMAIN input.dense = Rows
         /\ \A r, s \in Rows : input.dense[r] = input.dense[s] => H(r) = H(s)
         /\ kind \in {"Binary", "Gf128"} /\ random \in BOOLEAN
         /\ \A r \in Rows : input.dense[r] \in (IF kind = "Gf128" THEN Field ELSE SUBSET (0..BlockBits-1))
<1>1. PICK in \in Inputs : in = input
  OBVIOUS
<1>2. /\ in.kind \in {"Binary", "Gf128"} /\ in.random \in BOOLEAN
      /\ DOMAIN in.h \in {1..n : n \in 0..N} /\ DOMAIN in.dense = DOMAIN in.h
      /\ \A r \in DOMAIN in.h :
           /\ in.h[r] \in Seq(Cols) /\ IsInjective(in.h[r]) /\ in.h[r] # << >>
           /\ in.dense[r] \in (IF in.kind = "Gf128" THEN Field ELSE SUBSET (0..BlockBits-1))
      /\ \A r, s \in DOMAIN in.h : in.dense[r] = in.dense[s] => in.h[r] = in.h[s]
  BY InputAssumption
<1>3. PICK n \in 0..N : DOMAIN in.h = 1..n
  BY <1>2
<1>4. QED
  BY <1>1, <1>2, <1>3 DEF Rows, H, kind, random

\* A column has at most N rows left.
LEMMA LeftTyped ==
  ASSUME input \in Inputs, NEW rows
  PROVE  LeftOf(rows) \in [Cols -> 0..N]
<1>1. PICK n \in 0..N : Rows = 1..n
  BY InputTypes
<1>2. ASSUME NEW c \in Cols
      PROVE  Cardinality(ColRows(c) \ rows) \in 0..N
  <2>1. n \in Nat /\ n <= N
    BY SizeAssumption
  <2>2. IsFiniteSet(1..n) /\ Cardinality(1..n) = n
    BY <2>1, FS_Interval
  <2>3. ColRows(c) \ rows \subseteq 1..n
    BY <1>1 DEF ColRows
  <2>4. Cardinality(ColRows(c) \ rows) \in Nat /\ Cardinality(ColRows(c) \ rows) <= n
    BY <2>2, <2>3, FS_Subset, FS_CardinalityType
  <2>5. QED
    BY <2>1, <2>4, SizeAssumption
<1>3. QED
  BY <1>2 DEF LeftOf

\* A row that is eliminated is one less in each of its columns.
LEMMA LeftLess ==
  ASSUME input \in Inputs, NEW rows, NEW r \in Rows \ rows, NEW c \in Cols
  PROVE  LeftOf(rows \cup {r})[c] =
           IF c \in ToSet(H(r)) THEN LeftOf(rows)[c] - 1 ELSE LeftOf(rows)[c]
<1>1. PICK n \in 0..N : Rows = 1..n
  BY InputTypes
<1>2. PICK S : S = ColRows(c) \ rows
  OBVIOUS
<1>3. IsFiniteSet(S)
  <2>1. n \in Nat
    BY SizeAssumption
  <2>2. IsFiniteSet(1..n)
    BY <2>1, FS_Interval
  <2>3. S \subseteq 1..n
    BY <1>1, <1>2 DEF ColRows
  <2>4. QED
    BY <2>2, <2>3, FS_Subset
<1>4. ColRows(c) \ (rows \cup {r}) = S \ {r}
  BY <1>2
<1>5. CASE c \in ToSet(H(r))
  <2>1. r \in S
    BY <1>2, <1>5 DEF ColRows
  <2>2. Cardinality(S \ {r}) = Cardinality(S) - 1
    BY <1>3, <2>1, FS_RemoveElement
  <2>3. QED
    BY <1>2, <1>4, <1>5, <2>2 DEF LeftOf
<1>6. CASE c \notin ToSet(H(r))
  <2>1. S \ {r} = S
    BY <1>2, <1>6 DEF ColRows
  <2>2. QED
    BY <1>2, <1>4, <1>6, <2>1 DEF LeftOf
<1>7. QED
  BY <1>5, <1>6

\* Lowering all columns of a row keeps the lists within their types.
LEMMA LowerRowTyped ==
  ASSUME input \in Inputs, NEW s \in ListStates, NEW r \in Rows
  PROVE  LowerRow(s, r) \in ListStates
<1>1. PICK q \in Seq(Cols) : q = H(r)
  BY InputTypes
<1>2. PICK n \in Nat : n = Len(q)
  BY Len(q) \in Nat
<1>3. PICK g : LoweringRun(s, q, n, g)
  BY <1>2, LowerRun
<1>4. Lowered(s, q) \in ListStates
  BY <1>3 DEF LoweringRun
<1>5. QED
  BY <1>1, <1>4 DEF LowerRow, Lowered

\* The same for the rows of a list.
RowsLowered(s, q) == FoldLeft(LowerRow, s, q)
RowsRun(s, q, n, g) ==
  /\ g \in [0..n -> ListStates] /\ g[0] = s
  /\ \A i \in 1..n : g[i] = LowerRow(g[i - 1], q[i])
  /\ RowsLowered(s, q) = g[n]

\* The rows of a column are lowered one after the other: the fold as a run.
LEMMA RowsRunExists ==
  ASSUME input \in Inputs, NEW s \in ListStates, NEW q \in Seq(Rows), NEW n \in Nat, n = Len(q)
  PROVE  \E g : RowsRun(s, q, n, g)
<1> DEFINE S == DOMAIN q
           W == ListStates
           Is(f) == f = [U \in SUBSET S |-> IF U = {} THEN s ELSE LET x == Max(U) IN LowerRow(f[U \ {x}], q[x])]
           step == [p \in (1..n) \X W |-> LowerRow(p[2], q[p[1]])]
<1>1. S = 1..n /\ \A i \in 1..n : q[i] \in Rows
  OBVIOUS
<1>2. \A i \in 1..n : \A v \in W : step[<<i, v>>] = LowerRow(v, q[i]) /\ LowerRow(v, q[i]) \in W
  BY <1>1, LowerRowTyped
<1> HIDE DEF step, W
<1>3. PICK h \in [SUBSET (1..n) -> W] :
        /\ h[{}] = s
        /\ \A U \in SUBSET (1..n) : U # {} => h[U] = step[<<Max(U), h[U \ {Max(U)}]>>]
  <2>1. s \in W
    BY DEF W
  <2>2. \A i \in 1..n : \A v \in W : step[<<i, v>>] \in W
    BY <1>2
  <2>3. PICK h : IsRun(n, W, s, step, h)
    BY <2>1, <2>2, RunExists
  <2>4. QED
    BY <2>3 DEF IsRun
<1>4. Is(h)
  <2>1. ASSUME NEW U \in SUBSET (1..n), U # {}
        PROVE  h[U] = LowerRow(h[U \ {Max(U)}], q[Max(U)])
    <3>1. Max(U) \in 1..n /\ h[U \ {Max(U)}] \in W
      BY <1>3, <2>1, MaxPicks
    <3>2. QED
      BY <1>2, <1>3, <2>1, <3>1
  <2>2. QED
    BY <1>1, <1>3, <2>1
<1>5. FoldLeft(LowerRow, s, q) = (CHOOSE f : Is(f))[S]
  BY DEF FoldLeft, MapThenFoldSet
<1>6. PICK k : Is(k) /\ FoldLeft(LowerRow, s, q) = k[1..n]
  <2>1. Is(CHOOSE f : Is(f))
    <3> HIDE DEF Is
    <3> QED BY <1>4
  <2> HIDE DEF Is
  <2>2. QED
    BY <1>1, <1>5, <2>1
<1> DEFINE g == [i \in 0..n |-> k[1..i]]
<1>7. g[0] = s
  BY <1>6
<1>8. ASSUME NEW i \in 1..n
      PROVE  g[i] = LowerRow(g[i - 1], q[i])
  <2>1. 1..i \in SUBSET S /\ 1..i # {}
    <3>1. 1..i \subseteq 1..n /\ 1 \in 1..i
      OBVIOUS
    <3>2. QED
      BY <1>1, <3>1
  <2>2. k[1..i] = LowerRow(k[(1..i) \ {Max(1..i)}], q[Max(1..i)])
    BY <1>6, <2>1
  <2>3. Max(1..i) = i /\ (1..i) \ {i} = 1..i - 1
    BY PrefixMax, i \in Nat, i # 0
  <2>4. g[i] = k[1..i] /\ g[i - 1] = k[1..i - 1]
    OBVIOUS
  <2>5. QED
    BY <2>2, <2>3, <2>4
<1> HIDE DEF g
<1>9. \A i \in 0..n : g[i] \in W
  <2> DEFINE T == {i \in Nat : i <= n => g[i] \in W}
  <2>1. 0 \in T
    BY <1>7 DEF W
  <2>2. ASSUME NEW i \in Nat, i \in T
        PROVE  i + 1 \in T
    <3> SUFFICES ASSUME i + 1 <= n PROVE g[i + 1] \in W
      OBVIOUS
    <3>1. i + 1 \in 1..n /\ (i + 1) - 1 = i
      OBVIOUS
    <3>2. g[i + 1] = LowerRow(g[i], q[i + 1]) /\ g[i] \in W
      BY <1>8, <2>2, <3>1
    <3>3. QED
      BY <1>2, <3>1, <3>2
  <2>3. Nat \subseteq T
    <3> HIDE DEF T
    <3> QED BY <2>1, <2>2, NatInductionSet
  <2>4. QED
    BY <2>3
<1>10. g \in [0..n -> ListStates]
  <2>1. g = [i \in 0..n |-> g[i]]
    BY DEF g
  <2>2. QED
    BY <1>9, <2>1 DEF W
<1>11. FoldLeft(LowerRow, s, q) = g[n]
  BY <1>6 DEF g
<1>12. QED
  BY <1>7, <1>8, <1>10, <1>11 DEF RowsRun, RowsLowered


\* Every row takes one from each of its columns.
LEMMA LowerRows ==
  ASSUME input \in Inputs, NEW s \in ListStates, NEW q \in Seq(Rows), IsInjective(q),
         NEW rows, ToSet(q) \cap rows = {}, NEW out, Listed(s, out, LeftOf(rows))
  PROVE  /\ RowsLowered(s, q) \in ListStates
         /\ Listed(RowsLowered(s, q), out, LeftOf(rows \cup ToSet(q)))
<1>1. PICK n \in Nat : n = Len(q) /\ DOMAIN q = 1..n
  BY Len(q) \in Nat, DOMAIN q = 1..Len(q)
<1>2. PICK g \in [0..n -> ListStates] :
        /\ g[0] = s /\ \A i \in 1..n : g[i] = LowerRow(g[i - 1], q[i])
        /\ RowsLowered(s, q) = g[n]
  <2>1. PICK g : RowsRun(s, q, n, g)
    BY <1>1, RowsRunExists
  <2>2. QED
    BY <2>1 DEF RowsRun
<1> DEFINE Part(i) == {q[j] : j \in 1..i}
           T == {i \in Nat : i <= n => Listed(g[i], out, LeftOf(rows \cup Part(i)))}
<1>3. Part(n) = ToSet(q) /\ Part(0) = {}
  BY <1>1 DEF ToSet
<1>4. 0 \in T
  <2>1. rows \cup Part(0) = rows
    BY <1>3
  <2> HIDE DEF Part
  <2>2. QED
    BY <1>2, <2>1
<1>5. ASSUME NEW i \in Nat, i \in T
      PROVE  i + 1 \in T
  <2> SUFFICES ASSUME i + 1 <= n PROVE Listed(g[i + 1], out, LeftOf(rows \cup Part(i + 1)))
    OBVIOUS
  <2>1. i + 1 \in 1..n /\ (i + 1) - 1 = i /\ i \in 0..n
    OBVIOUS
  <2>2. PICK r \in Rows : r = q[i + 1]
    BY <1>1, <2>1
  <2>3. r \notin Part(i) /\ Part(i + 1) = Part(i) \cup {r}
    <3>1. \A j \in 1..i : j \in 1..n /\ j # i + 1
      BY <2>1
    <3>2. \A j \in 1..i : q[j] # r
      BY <1>1, <2>1, <2>2, <3>1 DEF IsInjective
    <3>3. 1..i + 1 = (1..i) \cup {i + 1}
      OBVIOUS
    <3>4. QED
      BY <2>2, <3>2, <3>3
  <2>4. r \notin rows
    BY <1>1, <2>1, <2>2 DEF ToSet
  <2>5. PICK before : before = rows \cup Part(i)
    OBVIOUS
  <2>6. r \in Rows \ before /\ rows \cup Part(i + 1) = before \cup {r}
    <3> HIDE DEF Part
    <3> QED BY <2>3, <2>4, <2>5
  <2>7. PICK a \in [Cols -> 0..N] : a = LeftOf(before)
    BY LeftTyped
  <2>8. PICK b \in [Cols -> 0..N] : b = LeftOf(before \cup {r})
    BY LeftTyped
  <2>9. \A c \in Cols : b[c] = IF c \in ToSet(H(r)) THEN a[c] - 1 ELSE a[c]
    BY <2>6, <2>7, <2>8, LeftLess
  <2>10. PICK p \in Seq(Cols) : p = H(r) /\ IsInjective(p)
    BY InputTypes
  <2>11. g[i] \in ListStates /\ Listed(g[i], out, a)
    BY <1>5, <2>1, <2>5, <2>7
  <2>12. \A c \in Cols \ out : b[c] = IF c \in ToSet(p) THEN a[c] - 1 ELSE a[c]
    BY <2>9, <2>10
  <2>13. Listed(Lowered(g[i], p), out, b)
    BY <2>10, <2>11, <2>12, LowerColumns
  <2>14. g[i + 1] = Lowered(g[i], p)
    BY <1>2, <2>1, <2>2, <2>10 DEF LowerRow, Lowered
  <2>15. QED
    BY <2>6, <2>8, <2>13, <2>14
<1>6. n \in T
  <2>1. Nat \subseteq T
    <3> HIDE DEF T
    <3> QED BY <1>4, <1>5, NatInductionSet
  <2>2. QED
    BY <2>1
<1>7. Listed(g[n], out, LeftOf(rows \cup Part(n)))
  BY <1>6
<1>8. QED
  <2> HIDE DEF Part
  <2> QED BY <1>2, <1>3, <1>7

-----------------------------------------------------------------------------
(***************************************************************************)
(* The invariant of triangulate.                                           *)
(***************************************************************************)
Stages   == {"triangulate", "gaps", "backfill"} \cup Threw \cup {"encoded", "undefined"}
TriRows  == [row : Rows, col : Cols]
GapRows  == [row : Rows, first : Rows]
TheLists == [weight |-> weight, lists |-> weightSet]

Solver_Types ==
  /\ input \in Inputs /\ status \in Stages
  /\ TheLists \in ListStates /\ rowSign \in SUBSET Rows
  /\ tri \in Seq(TriRows) /\ gap \in Seq(GapRows)
  /\ todo \in 0..Len(tri)

Solver_Lists ==
  /\ Listed(TheLists, Chosen, LeftOf(rowSign))
  /\ \A c \in Chosen : ColRows(c) \subseteq rowSign

\* The rows of a list of triangular or gap rows.
RowsOf(s) == {x.row : x \in ToSet(s)}

Solver_Counts ==
  /\ rowSign = RowsOf(tri) \cup RowsOf(gap)
  /\ Cardinality(rowSign) = Len(tri) + Len(gap)
  /\ Cardinality(Chosen) = Len(tri)

Solver_Triangle ==
  /\ \A i, j \in DOMAIN tri : tri[i].row = tri[j].row => i = j
  /\ \A i \in DOMAIN tri : tri[i].col \in ToSet(H(tri[i].row))
  /\ \A i, j \in DOMAIN tri : tri[i].col \in ToSet(H(tri[j].row)) => i >= j
  /\ \A k \in DOMAIN gap : \E i \in DOMAIN tri : tri[i].row = gap[k].first

\* Equal keys are eliminated together, as gap rows of the same triangular row.
Solver_Twins ==
  \A r, s \in Rows :
    r # s /\ r \in rowSign /\ input.dense[r] = input.dense[s] =>
      \E i, j \in DOMAIN gap :
        gap[i].row = r /\ gap[j].row = s /\ gap[i].first = gap[j].first

Solver_Stages == status \in {"gaps", "backfill", "encoded"} => Heavy = {}

Solver_OK ==
  Solver_Types /\ Solver_Lists /\ Solver_Counts /\ Solver_Triangle /\ Solver_Twins /\ Solver_Stages

\* What Listed says of the state.
LEMMA ListsAre ==
  ASSUME Solver_Types, Solver_Lists
  PROVE  /\ weight \in [Cols -> 0..N] /\ weightSet \in [0..N -> Seq(Cols)]
         /\ \A c \in Cols \ Chosen : weight[c] = Cardinality(ColRows(c) \ rowSign)
         /\ \A w \in 0..N : IsInjective(weightSet[w])
         /\ \A w \in 0..N :
              ToSet(weightSet[w]) = {c \in Cols \ Chosen : Cardinality(ColRows(c) \ rowSign) = w}
<1>1. weight \in [Cols -> 0..N] /\ weightSet \in [0..N -> Seq(Cols)]
  BY DEF Solver_Types, TheLists, ListStates
<1>2. \A c \in Cols : LeftOf(rowSign)[c] = Cardinality(ColRows(c) \ rowSign)
  BY DEF LeftOf
<1>3. \A c \in Cols : weight[c] = IF c \in Chosen THEN 0 ELSE LeftOf(rowSign)[c]
  BY DEF Solver_Lists, Listed, TheLists
<1>4. \A w \in 0..N : /\ IsInjective(weightSet[w])
                      /\ ToSet(weightSet[w]) = {c \in Cols \ Chosen : LeftOf(rowSign)[c] = w}
  BY DEF Solver_Lists, Listed, TheLists
<1>5. \A w \in 0..N :
        {c \in Cols \ Chosen : LeftOf(rowSign)[c] = w}
          = {c \in Cols \ Chosen : Cardinality(ColRows(c) \ rowSign) = w}
  BY <1>2
<1>6. QED
  BY <1>1, <1>2, <1>3, <1>4, <1>5

\* When no list of a positive weight holds a column, all rows are eliminated.
LEMMA NoneHeavy ==
  ASSUME Solver_Types, Solver_Lists, Heavy = {}
  PROVE  rowSign = Rows
<1> SUFFICES ASSUME NEW r \in Rows
             PROVE  r \in rowSign
  BY DEF Solver_Types
<1>1. PICK q \in Seq(Cols) : q = H(r) /\ q # << >>
  BY InputTypes DEF Solver_Types
<1>2. PICK c \in Cols : c \in ToSet(q)
  <2>1. Len(q) \in Nat /\ Len(q) # 0 /\ DOMAIN q = 1..Len(q)
    BY <1>1, EmptySeq
  <2>2. 1 \in DOMAIN q
    BY <2>1
  <2>3. QED
    BY <2>2 DEF ToSet
<1>3. r \in ColRows(c)
  BY <1>1, <1>2 DEF ColRows
<1>4. CASE c \in Chosen
  BY <1>3, <1>4 DEF Solver_Lists
<1>5. CASE c \notin Chosen
  <2>1. PICK w \in 0..N : w = Cardinality(ColRows(c) \ rowSign)
    <3>1. LeftOf(rowSign) \in [Cols -> 0..N]
      BY LeftTyped DEF Solver_Types
    <3>2. LeftOf(rowSign)[c] = Cardinality(ColRows(c) \ rowSign)
      BY DEF LeftOf
    <3>3. QED
      BY <3>1, <3>2
  <2>2. c \in ToSet(weightSet[w])
    BY <1>5, <2>1, ListsAre
  <2>3. w = 0
    <3> SUFFICES ASSUME w # 0 PROVE FALSE
      OBVIOUS
    <3>1. w \in 1..N
      OBVIOUS
    <3>2. weightSet[w] = << >>
      BY <3>1 DEF Heavy
    <3>3. QED
      BY <2>2, <3>2 DEF ToSet
  <2>4. IsFiniteSet(ColRows(c) \ rowSign)
    <3>1. PICK n \in 0..N : Rows = 1..n
      BY InputTypes DEF Solver_Types
    <3>2. n \in Nat
      BY SizeAssumption
    <3>3. IsFiniteSet(1..n) /\ ColRows(c) \ rowSign \subseteq 1..n
      BY <3>1, <3>2, FS_Interval DEF ColRows
    <3>4. QED
      BY <3>3, FS_Subset
  <2>5. ColRows(c) \ rowSign = {}
    BY <2>1, <2>3, <2>4, FS_EmptySet
  <2>6. QED
    BY <1>3, <2>5
<1>6. QED
  BY <1>4, <1>5

-----------------------------------------------------------------------------
\* A set of numbers as an ascending list.
LEMMA AscendingList ==
  ASSUME NEW n \in Nat, NEW S \in SUBSET (0..n)
  PROVE  /\ Ascending(S) \in Seq(S) /\ IsInjective(Ascending(S))
         /\ ToSet(Ascending(S)) = S /\ Len(Ascending(S)) = Cardinality(S)
<1> DEFINE a == Ascending(S)
<1>0. PICK m \in Nat :
        /\ m = Cardinality(S) /\ a \in [1..m -> S]
        /\ \A i, j \in 1..m : i < j => a[i] < a[j]
        /\ \A x \in S : \E i \in 1..m : a[i] = x
  BY AscendingFromZero
<1>1. PICK s \in [1..m -> S] :
        /\ s = Ascending(S)
        /\ \A i, j \in 1..m : i < j => s[i] < s[j]
        /\ \A x \in S : \E i \in 1..m : s[i] = x
  BY <1>0
<1> HIDE DEF a
<1>2. s \in Seq(S) /\ Len(s) = m /\ DOMAIN s = 1..m
  OBVIOUS
<1>3. IsInjective(s)
  <2> SUFFICES ASSUME NEW i \in 1..m, NEW j \in 1..m, s[i] = s[j]
               PROVE  i = j
    BY <1>2 DEF IsInjective
  <2>1. s[i] \in Int /\ s[j] \in Int
    <3>1. s[i] \in S /\ s[j] \in S
      BY <1>1
    <3>2. \A x \in S : x \in 0..n
      OBVIOUS
    <3>3. \A x \in 0..n : x \in Int
      OBVIOUS
    <3>4. QED
      BY <3>1, <3>2, <3>3
  <2>2. ~(i < j) /\ ~(j < i)
    BY <1>1, <2>1
  <2>3. QED
    BY <2>2
<1>4. ToSet(s) = S
  BY <1>1, <1>2 DEF ToSet
<1>5. QED
  BY <1>0, <1>1, <1>2, <1>3, <1>4

\* Without its head a list without repetition holds all but the head.
LEMMA TailRest ==
  ASSUME NEW A, NEW s \in Seq(A), IsInjective(s), s # << >>
  PROVE  /\ Head(s) \in ToSet(s) /\ Tail(s) \in Seq(A) /\ IsInjective(Tail(s))
         /\ ToSet(Tail(s)) = ToSet(s) \ {Head(s)}
<1>1. PICK n \in Nat : n = Len(s) /\ DOMAIN s = 1..n /\ n # 0
  BY EmptySeq, Len(s) \in Nat, DOMAIN s = 1..Len(s)
<1>2. Head(s) = s[1] /\ 1 \in 1..n
  BY <1>1
<1>3. PICK u \in Seq(A) : u = Tail(s) /\ Len(u) = n - 1 /\ \A i \in 1..n - 1 : u[i] = s[i + 1]
  <2>1. /\ Tail(s) \in Seq(A) /\ Len(Tail(s)) = Len(s) - 1
        /\ \A i \in 1..Len(Tail(s)) : Tail(s)[i] = s[i + 1]
    BY HeadTailProperties
  <2>2. QED
    BY <1>1, <2>1
<1>4. DOMAIN u = 1..n - 1
  BY <1>3
<1>5. ToSet(u) = {u[i] : i \in 1..n - 1} /\ ToSet(s) = {s[i] : i \in 1..n}
  BY <1>1, <1>4 DEF ToSet
<1>6. \A i, j \in 1..n : s[i] = s[j] => i = j
  BY <1>1 DEF IsInjective
<1>7. IsInjective(u)
  <2> SUFFICES ASSUME NEW i \in 1..n - 1, NEW j \in 1..n - 1, u[i] = u[j]
               PROVE  i = j
    BY <1>4 DEF IsInjective
  <2>1. i + 1 \in 1..n /\ j + 1 \in 1..n /\ s[i + 1] = s[j + 1]
    BY <1>3
  <2>2. i + 1 = j + 1
    BY <1>6, <2>1
  <2>3. QED
    BY <2>2
<1>8. ToSet(u) = ToSet(s) \ {s[1]}
  <2>1. \A i \in 1..n - 1 : u[i] \in ToSet(s) /\ u[i] # s[1]
    <3> TAKE i \in 1..n - 1
    <3>1. i + 1 \in 1..n /\ i + 1 # 1 /\ u[i] = s[i + 1]
      BY <1>3
    <3>2. QED
      BY <1>2, <1>5, <1>6, <3>1
  <2>2. \A j \in 1..n : s[j] # s[1] => s[j] \in ToSet(u)
    <3> TAKE j \in 1..n
    <3> HAVE s[j] # s[1]
    <3>1. j # 1
      OBVIOUS
    <3>2. j - 1 \in 1..n - 1 /\ (j - 1) + 1 = j
      BY <3>1
    <3>3. u[j - 1] = s[j]
      BY <1>3, <3>2
    <3>4. QED
      BY <1>5, <3>2, <3>3
  <2>3. QED
    BY <1>5, <2>1, <2>2
<1>9. QED
  BY <1>2, <1>3, <1>5, <1>7, <1>8

\* What set_keys leaves (paxos.cpp 539-651) satisfies the invariant.
LEMMA SolverInit == Init => Solver_OK
<1> SUFFICES ASSUME Init PROVE Solver_OK
  OBVIOUS
<1>1. input \in Inputs /\ rowSign = {} /\ tri = << >> /\ gap = << >> /\ status = "triangulate" /\ todo = 0
  BY DEF Init
<1>2. ToSet(tri) = {} /\ ToSet(gap) = {} /\ Chosen = {} /\ Len(tri) = 0 /\ Len(gap) = 0
      /\ DOMAIN tri = {} /\ DOMAIN gap = {}
  BY <1>1 DEF ToSet, Chosen
<1>3. PICK left \in [Cols -> 0..N] : left = LeftOf(rowSign)
  BY <1>1, LeftTyped
<1>4. weight = left
  BY <1>1, <1>3 DEF Init, LeftOf
<1>5. weightSet = [w \in 0..N |-> Reverse(Ascending({c \in Cols : left[c] = w}))]
  BY <1>4 DEF Init
<1>6. ASSUME NEW w \in 0..N
      PROVE  /\ weightSet[w] \in Seq(Cols) /\ IsInjective(weightSet[w])
             /\ ToSet(weightSet[w]) = {c \in Cols : left[c] = w}
  <2>1. PICK S : S = {c \in Cols : left[c] = w}
    OBVIOUS
  <2>2. S \in SUBSET (0..M - 1) /\ M - 1 \in Nat
    BY <2>1, SizeAssumption DEF Cols
  <2>3. PICK a \in Seq(S) : a = Ascending(S) /\ IsInjective(a) /\ ToSet(a) = S
    BY <2>2, AscendingList
  <2>4. a \in Seq(Cols)
    <3>1. \A i \in 1..Len(a) : a[i] \in Cols
      BY <2>1
    <3>2. QED
      BY <3>1
  <2>5. ToSet(Reverse(a)) = ToSet(a) /\ IsInjective(Reverse(a))
    BY <2>3, <2>4, Reversed
  <2>6. Reverse(a) \in Seq(Cols)
    <3>1. PICK n \in Nat : n = Len(a)
      BY Len(a) \in Nat
    <3>2. \A i \in 1..n : a[(n - i) + 1] \in Cols
      BY <2>4, <3>1
    <3>3. Reverse(a) = [i \in 1..n |-> a[(n - i) + 1]]
      BY <3>1 DEF Reverse
    <3>4. QED
      BY <3>2, <3>3
  <2>7. weightSet[w] = Reverse(a)
    BY <1>5, <2>1, <2>3
  <2>8. QED
    BY <2>1, <2>3, <2>5, <2>6, <2>7
<1>7. TheLists \in ListStates
  <2>1. weightSet \in [0..N -> Seq(Cols)]
    BY <1>5, <1>6
  <2>2. QED
    BY <1>4, <2>1 DEF TheLists, ListStates
<1>8. Listed(TheLists, {}, left)
  <2>1. \A w \in 0..N : {c \in Cols \ {} : left[c] = w} = {c \in Cols : left[c] = w}
    OBVIOUS
  <2>2. QED
    BY <1>4, <1>6, <2>1 DEF Listed, TheLists
<1>9. Solver_Lists
  BY <1>2, <1>3, <1>8 DEF Solver_Lists
<1>10. Solver_Types
  BY <1>1, <1>2, <1>7 DEF Solver_Types, Stages
<1>11. Solver_Counts
  <2>1. Cardinality({}) = 0
    BY FS_EmptySet
  <2>2. QED
    BY <1>1, <1>2, <2>1 DEF Solver_Counts, RowsOf
<1>12. Solver_Triangle /\ Solver_Twins /\ Solver_Stages
  BY <1>1, <1>2 DEF Solver_Triangle, Solver_Twins, Solver_Stages
<1>13. QED
  BY <1>9, <1>10, <1>11, <1>12 DEF Solver_OK

\* One iteration of triangulate that does not throw: the column it pops, the
\* rows it eliminates, and the lists after it.
Round(w, col, fresh) ==
  /\ w \in 1..N /\ col \in Cols /\ col \notin Chosen
  /\ fresh \in Seq(Rows) /\ Len(fresh) = w /\ IsInjective(fresh)
  /\ ToSet(fresh) = ColRows(col) \ rowSign /\ Cardinality(ToSet(fresh)) = w
  /\ \A k \in 2..w : input.dense[fresh[k]] # input.dense[fresh[1]]
  /\ TheLists' \in ListStates
  /\ Listed(TheLists', Chosen \cup {col}, LeftOf(rowSign \cup ToSet(fresh)))
  /\ rowSign' = rowSign \cup ToSet(fresh)
  /\ tri' = Append(tri, [row |-> fresh[1], col |-> col])
  /\ gap' = gap \o [k \in 1..w - 1 |-> [row |-> fresh[k + 1], first |-> fresh[1]]]
  /\ UNCHANGED <<input, status, todo, output, gapCols>>

\* The rows a column still eliminates, in ascending order and once each.
LEMMA FreshRows ==
  ASSUME input \in Inputs, NEW col
  PROVE  /\ Fresh(col) \in Seq(Rows) /\ IsInjective(Fresh(col))
         /\ ToSet(Fresh(col)) = ColRows(col) \ rowSign
         /\ Len(Fresh(col)) = Cardinality(ColRows(col) \ rowSign)
<1>1. PICK n \in 0..N : Rows = 1..n
  BY InputTypes
<1>2. PICK S : S = ColRows(col) \ rowSign
  OBVIOUS
<1>3. n \in Nat /\ S \in SUBSET (0..n) /\ S \subseteq Rows
  BY <1>1, <1>2, SizeAssumption DEF ColRows
<1>4. PICK a \in Seq(S) : a = Ascending(S) /\ IsInjective(a) /\ ToSet(a) = S /\ Len(a) = Cardinality(S)
  BY <1>3, AscendingList
<1>5. a \in Seq(Rows)
  <2>1. \A i \in 1..Len(a) : a[i] \in Rows
    <3> TAKE i \in 1..Len(a)
    <3>1. a[i] \in S
      OBVIOUS
    <3>2. QED
      BY <1>3, <3>1
  <2>2. QED
    BY <2>1
<1>6. Fresh(col) = a
  BY <1>2, <1>4 DEF Fresh
<1>7. QED
  BY <1>2, <1>4, <1>5, <1>6

\* An iteration of triangulate is a round, or finds duplicate keys and throws.
LEMMA TriangulateRound ==
  ASSUME Solver_Types, Solver_Lists, Triangulate
  PROVE  \/ \E w, col, fresh : Round(w, col, fresh)
         \/ /\ status' = "duplicate keys"
            /\ UNCHANGED <<input, weight, weightSet, rowSign, tri, gap, todo, output, gapCols>>
<1>1. PICK w \in 1..N : w = Min(Heavy) /\ weightSet[w] # << >>
  <2>1. Heavy \in SUBSET (0..N) /\ Heavy # {} /\ N \in Nat
    <3>1. Heavy # {} /\ N \in Nat
      BY SizeAssumption DEF Triangulate
    <3>2. \A v \in Heavy : v \in 0..N
      BY <3>1 DEF Heavy
    <3>3. QED
      BY <3>1, <3>2
  <2>2. Min(Heavy) \in Heavy
    BY <2>1, MinPicks
  <2>3. QED
    BY <2>2 DEF Heavy
<1>2. w \in 0..N /\ w \in Nat /\ w # 0
  BY SizeAssumption
<1>3. PICK list \in Seq(Cols) :
        /\ list = weightSet[w] /\ IsInjective(list) /\ list # << >>
        /\ ToSet(list) = {c \in Cols \ Chosen : Cardinality(ColRows(c) \ rowSign) = w}
  <2>1. weightSet[w] \in Seq(Cols)
    BY <1>2, ListsAre
  <2>2. QED
    BY <1>1, <1>2, <2>1, ListsAre
<1>4. PICK tail \in Seq(Cols) : tail = Tail(list) /\ IsInjective(tail) /\ ToSet(tail) = ToSet(list) \ {Head(list)}
  BY <1>3, TailRest
<1>5. PICK col \in Cols : col = Head(list) /\ col \notin Chosen /\ Cardinality(ColRows(col) \ rowSign) = w
  <2>1. Head(list) \in ToSet(list)
    BY <1>3, TailRest
  <2>2. QED
    BY <1>3, <2>1
<1>6. PICK fresh \in Seq(Rows) :
        /\ fresh = Fresh(col) /\ IsInjective(fresh) /\ Len(fresh) = w
        /\ ToSet(fresh) = ColRows(col) \ rowSign
  <2>1. input \in Inputs
    BY DEF Solver_Types
  <2>2. QED
    BY <1>5, <2>1, FreshRows
<1>7. fresh # << >> /\ Head(fresh) = fresh[1] /\ DOMAIN fresh = 1..w
  BY <1>2, <1>6
<1>8. PICK wt \in [Cols -> 0..N] : wt = [weight EXCEPT ![col] = 0]
  <2>1. 0 \in 0..N /\ weight \in [Cols -> 0..N]
    BY ListsAre, SizeAssumption
  <2>2. QED
    BY <2>1
<1>9. PICK ls \in [0..N -> Seq(Cols)] : ls = [weightSet EXCEPT ![w] = tail]
  BY <1>2, ListsAre
<1>10. PICK popped \in ListStates : popped = [weight |-> wt, lists |-> ls]
  BY DEF ListStates
<1>11. PICK left \in [Cols -> 0..N] : left = LeftOf(rowSign)
  BY LeftTyped DEF Solver_Types
<1>12. \A c \in Cols : left[c] = Cardinality(ColRows(c) \ rowSign)
  BY <1>11 DEF LeftOf
<1>13. PICK out : out = Chosen \cup {col}
  OBVIOUS
<1>14. Listed(popped, out, left)
  <2>1. \A c \in Cols : popped.weight[c] = IF c \in out THEN 0 ELSE left[c]
    <3>1. \A c \in Cols : weight[c] = IF c \in Chosen THEN 0 ELSE left[c]
      BY <1>11 DEF Solver_Lists, Listed, TheLists
    <3>2. weight \in [Cols -> 0..N]
      BY ListsAre
    <3>3. QED
      BY <1>8, <1>10, <1>13, <3>1, <3>2
  <2>2. ASSUME NEW v \in 0..N
        PROVE  IsInjective(ls[v]) /\ ToSet(ls[v]) = {c \in Cols \ out : left[c] = v}
    <3>1. weightSet \in [0..N -> Seq(Cols)]
      BY ListsAre
    <3>2. CASE v = w
      <4>1. ls[v] = tail
        BY <1>9, <3>1, <3>2
      <4>2. ToSet(list) = {c \in Cols \ Chosen : left[c] = w}
        BY <1>3, <1>12
      <4>3. {c \in Cols \ out : left[c] = v} = {c \in Cols \ Chosen : left[c] = w} \ {col}
        BY <1>13, <3>2
      <4>4. QED
        BY <1>4, <1>5, <4>1, <4>2, <4>3
    <3>3. CASE v # w
      <4>1. ls[v] = weightSet[v]
        BY <1>9, <3>1, <3>3
      <4>2. ToSet(weightSet[v]) = {c \in Cols \ Chosen : left[c] = v} /\ IsInjective(weightSet[v])
        BY <1>11 DEF Solver_Lists, Listed, TheLists
      <4>3. {c \in Cols \ out : left[c] = v} = {c \in Cols \ Chosen : left[c] = v}
        BY <1>5, <1>12, <1>13, <3>3
      <4>4. QED
        BY <4>1, <4>2, <4>3
    <3>4. QED
      BY <3>2, <3>3
  <2>3. QED
    BY <1>10, <2>1, <2>2 DEF Listed
<1>15. PICK after \in ListStates :
         after = RowsLowered(popped, fresh) /\ Listed(after, out, LeftOf(rowSign \cup ToSet(fresh)))
  <2>1. ToSet(fresh) \cap rowSign = {} /\ input \in Inputs
    BY <1>6 DEF Solver_Types
  <2>2. Listed(popped, out, LeftOf(rowSign))
    BY <1>11, <1>14
  <2>3. QED
    BY <1>6, <2>1, <2>2, LowerRows
<1>16. after = FoldLeft(LowerRow, [weight |-> [weight EXCEPT ![col] = 0],
                                   lists |-> [weightSet EXCEPT ![w] = Tail(@)]], fresh)
  <2>1. [weightSet EXCEPT ![w] = Tail(@)] = ls
    BY <1>2, <1>3, <1>4, <1>9, ListsAre
  <2>2. QED
    BY <1>8, <1>10, <1>15, <2>1 DEF RowsLowered
<1>17. col = Head(weightSet[Min(Heavy)]) /\ Fresh(col) = fresh
  BY <1>1, <1>3, <1>5, <1>6
<1>18. CASE \E r \in ToSet(Tail(fresh)) : input.dense[r] = input.dense[Head(fresh)]
  BY <1>17, <1>18 DEF Triangulate
<1>19. CASE ~ \E r \in ToSet(Tail(fresh)) : input.dense[r] = input.dense[Head(fresh)]
  <2>1. /\ weight' = after.weight /\ weightSet' = after.lists
        /\ rowSign' = rowSign \cup ToSet(fresh)
        /\ tri' = Append(tri, [row |-> fresh[1], col |-> col])
        /\ gap' = gap \o [k \in 1..w - 1 |-> [row |-> fresh[k + 1], first |-> fresh[1]]]
        /\ UNCHANGED <<input, status, todo, output, gapCols>>
    BY <1>1, <1>6, <1>7, <1>16, <1>17, <1>19 DEF Triangulate
  <2>2. TheLists' = after
    BY <2>1 DEF TheLists, ListStates
  <2>3. \A k \in 2..w : input.dense[fresh[k]] # input.dense[fresh[1]]
    <3> TAKE k \in 2..w
    <3>1. fresh[k] \in ToSet(fresh) /\ fresh[k] # fresh[1]
      <4>1. k \in 1..w /\ 1 \in 1..w /\ k # 1
        BY <1>2
      <4>2. QED
        BY <1>6, <1>7, <4>1 DEF ToSet, IsInjective
    <3>2. ToSet(Tail(fresh)) = ToSet(fresh) \ {fresh[1]}
      BY <1>6, <1>7, TailRest
    <3>3. QED
      BY <1>7, <1>19, <3>1, <3>2
  <2>4. Round(w, col, fresh)
    BY <1>5, <1>6, <1>13, <1>15, <2>1, <2>2, <2>3 DEF Round
  <2>5. QED
    BY <2>4
<1>20. QED
  BY <1>18, <1>19

\* The triangular and the gap rows after it.
RoundTriIs(n, w, col, fresh) ==
  /\ n = Len(tri) /\ DOMAIN tri = 1..n
  /\ tri' \in Seq(TriRows) /\ Len(tri') = n + 1 /\ DOMAIN tri' = 1..n + 1
  /\ \A i \in 1..n : tri'[i] = tri[i] /\ tri[i] \in TriRows
  /\ tri'[n + 1] = [row |-> fresh[1], col |-> col]
RoundGapIs(m, w, fresh) ==
  /\ m = Len(gap) /\ DOMAIN gap = 1..m
  /\ gap' \in Seq(GapRows) /\ Len(gap') = m + (w - 1) /\ DOMAIN gap' = 1..m + (w - 1)
  /\ \A i \in 1..m : gap'[i] = gap[i] /\ gap[i] \in GapRows
  /\ \A j \in 1..w - 1 : gap'[m + j] = [row |-> fresh[j + 1], first |-> fresh[1]]

\* A round appends one triangular row.
LEMMA RoundTri ==
  ASSUME Solver_Types, NEW w, NEW col, NEW fresh, Round(w, col, fresh)
  PROVE  \E n \in Nat : RoundTriIs(n, w, col, fresh)
<1>1. w \in 1..N /\ fresh \in Seq(Rows) /\ Len(fresh) = w /\ col \in Cols
  BY DEF Round
<1>2. PICK t \in TriRows : t = [row |-> fresh[1], col |-> col]
  <2>1. 1 \in 1..w
    BY <1>1, SizeAssumption
  <2>2. fresh[1] \in Rows
    BY <1>1, <2>1
  <2>3. QED
    BY <1>1, <2>2 DEF TriRows
<1>3. PICK s \in Seq(TriRows) : s = tri
  BY DEF Solver_Types
<1>4. PICK n \in Nat : n = Len(s) /\ DOMAIN s = 1..n
  BY Len(s) \in Nat, DOMAIN s = 1..Len(s)
<1>5. PICK u \in Seq(TriRows) : u = Append(s, t) /\ Len(u) = n + 1 /\ u[n + 1] = t /\ \A i \in 1..n : u[i] = s[i]
  <2>1. /\ Append(s, t) \in Seq(TriRows) /\ Len(Append(s, t)) = Len(s) + 1
        /\ \A i \in 1..Len(s) : Append(s, t)[i] = s[i]
        /\ Append(s, t)[Len(s) + 1] = t
    BY AppendProperties
  <2>2. QED
    BY <1>4, <2>1
<1>6. tri' = u
  BY <1>2, <1>3, <1>5 DEF Round
<1>7. QED
  BY <1>2, <1>3, <1>4, <1>5, <1>6 DEF RoundTriIs

\* A round appends its other rows as gap rows of the first.
LEMMA RoundGap ==
  ASSUME Solver_Types, NEW w, NEW col, NEW fresh, Round(w, col, fresh)
  PROVE  \E m \in Nat : RoundGapIs(m, w, fresh)
<1>1. w \in Nat /\ w # 0 /\ fresh \in Seq(Rows) /\ Len(fresh) = w
  BY SizeAssumption DEF Round
<1>2. PICK b : b = [k \in 1..w - 1 |-> [row |-> fresh[k + 1], first |-> fresh[1]]]
  OBVIOUS
<1>3. b \in Seq(GapRows) /\ Len(b) = w - 1 /\ DOMAIN b = 1..w - 1
  <2>1. ASSUME NEW k \in 1..w - 1
        PROVE  [row |-> fresh[k + 1], first |-> fresh[1]] \in GapRows
    <3>1. k + 1 \in 1..w /\ 1 \in 1..w
      BY <1>1
    <3>2. fresh[k + 1] \in Rows /\ fresh[1] \in Rows
      BY <1>1, <3>1
    <3>3. QED
      BY <3>2 DEF GapRows
  <2>2. w - 1 \in Nat
    BY <1>1
  <2>3. QED
    BY <1>2, <2>1, <2>2
<1>4. PICK s \in Seq(GapRows) : s = gap
  BY DEF Solver_Types
<1>5. PICK m \in Nat : m = Len(s) /\ DOMAIN s = 1..m
  BY Len(s) \in Nat, DOMAIN s = 1..Len(s)
<1>6. PICK u : u = s \o b
  OBVIOUS
<1>7. /\ u \in Seq(GapRows) /\ Len(u) = m + (w - 1)
      /\ \A i \in 1..m + (w - 1) : u[i] = IF i <= m THEN s[i] ELSE b[i - m]
  <2>1. /\ s \o b \in Seq(GapRows) /\ Len(s \o b) = Len(s) + Len(b)
        /\ \A i \in 1..Len(s) + Len(b) : (s \o b)[i] = IF i <= Len(s) THEN s[i] ELSE b[i - Len(s)]
    BY <1>3, ConcatProperties
  <2>2. QED
    BY <1>3, <1>5, <1>6, <2>1
<1>8. DOMAIN u = 1..m + (w - 1)
  BY <1>7
<1>9. \A i \in 1..m : u[i] = s[i] /\ s[i] \in GapRows
  <2> TAKE i \in 1..m
  <2>1. i \in 1..m + (w - 1) /\ i <= m
    BY <1>1
  <2>2. QED
    BY <1>5, <1>7, <2>1
<1>10. \A j \in 1..w - 1 : u[m + j] = [row |-> fresh[j + 1], first |-> fresh[1]]
  <2> TAKE j \in 1..w - 1
  <2>1. m + j \in 1..m + (w - 1) /\ ~(m + j <= m) /\ (m + j) - m = j
    BY <1>1
  <2>2. u[m + j] = b[j]
    BY <1>7, <2>1
  <2>3. QED
    BY <1>2, <2>2
<1>11. gap' = u
  BY <1>2, <1>4, <1>6 DEF Round
<1>12. QED
  BY <1>4, <1>5, <1>7, <1>8, <1>9, <1>10, <1>11 DEF RoundGapIs

\* A round keeps the types.
LEMMA RoundTypes ==
  ASSUME Solver_Types, NEW w, NEW col, NEW fresh, Round(w, col, fresh)
  PROVE  Solver_Types'
<1>1. PICK n \in Nat : RoundTriIs(n, w, col, fresh)
  BY RoundTri
<1>2. PICK m \in Nat : RoundGapIs(m, w, fresh)
  BY RoundGap
<1>3. TriRows' = TriRows /\ GapRows' = GapRows /\ Rows' = Rows
  BY DEF Round, TriRows, GapRows, Rows
<1>4. tri' \in Seq(TriRows) /\ gap' \in Seq(GapRows) /\ Len(tri') = Len(tri) + 1 /\ Len(tri) \in Nat
  BY <1>1, <1>2 DEF RoundTriIs, RoundGapIs
<1>5. todo' \in 0..Len(tri')
  BY <1>4 DEF Solver_Types, Round
<1>6. rowSign' \in SUBSET Rows
  BY DEF Solver_Types, Round, ColRows
<1>7. QED
  BY <1>3, <1>4, <1>5, <1>6 DEF Solver_Types, Round, Stages, Threw

\* A round makes its column a pivot.
LEMMA RoundChosen ==
  ASSUME Solver_Types, NEW w, NEW col, NEW fresh, Round(w, col, fresh)
  PROVE  Chosen' = Chosen \cup {col}
<1>1. PICK n \in Nat : RoundTriIs(n, w, col, fresh)
  BY RoundTri
<1>2. 1..n + 1 = (1..n) \cup {n + 1}
  OBVIOUS
<1>3. Chosen = {tri[i].col : i \in 1..n}
  BY <1>1 DEF RoundTriIs, Chosen, ToSet
<1>4. Chosen' = {tri'[i].col : i \in 1..n + 1}
  BY <1>1 DEF RoundTriIs, Chosen, ToSet
<1>5. tri'[n + 1].col = col /\ \A i \in 1..n : tri'[i] = tri[i]
  BY <1>1 DEF RoundTriIs
<1>6. QED
  BY <1>2, <1>3, <1>4, <1>5

\* A round leaves the lists exact.
LEMMA RoundLists ==
  ASSUME Solver_Types, Solver_Lists, NEW w, NEW col, NEW fresh, Round(w, col, fresh)
  PROVE  Solver_Lists'
<1>1. Chosen' = Chosen \cup {col}
  BY RoundChosen
<1>2. \A c : ColRows(c)' = ColRows(c)
  BY DEF Round, ColRows, Rows, H
<1>3. LeftOf(rowSign)' = LeftOf(rowSign \cup ToSet(fresh))
  BY <1>2 DEF Round, LeftOf
<1>4. Listed(TheLists, Chosen, LeftOf(rowSign))'
  BY <1>1, <1>3 DEF Round, Listed
<1>5. \A c \in Chosen \cup {col} : ColRows(c) \subseteq rowSign'
  BY DEF Round, Solver_Lists
<1>6. QED
  BY <1>1, <1>2, <1>4, <1>5 DEF Solver_Lists

\* The rows of a list are those of its elements.
LEMMA RowsAre ==
  ASSUME NEW s, NEW x
  PROVE  x \in RowsOf(s) <=> \E i \in DOMAIN s : s[i].row = x
BY DEF RowsOf, ToSet

\* Appending an element appends its row.
LEMMA RowsAppended ==
  ASSUME NEW n \in Nat, NEW s, NEW u, NEW r, DOMAIN s = 1..n, DOMAIN u = 1..n + 1,
         \A i \in 1..n : u[i] = s[i], u[n + 1].row = r
  PROVE  RowsOf(u) = RowsOf(s) \cup {r}
<1>1. ASSUME NEW x
      PROVE  (\E i \in 1..n + 1 : u[i].row = x) <=> (\E i \in 1..n : s[i].row = x) \/ x = r
  <2>1. \A i \in 1..n + 1 : i \in 1..n \/ i = n + 1
    OBVIOUS
  <2>2. \A i \in 1..n : i \in 1..n + 1
    OBVIOUS
  <2>3. n + 1 \in 1..n + 1
    OBVIOUS
  <2>4. QED
    BY <2>1, <2>2, <2>3
<1>2. \A x : x \in RowsOf(u) <=> x \in RowsOf(s) \cup {r}
  <2> TAKE x
  <2>1. x \in RowsOf(u) <=> \E i \in 1..n + 1 : u[i].row = x
    BY RowsAre
  <2>2. x \in RowsOf(s) <=> \E i \in 1..n : s[i].row = x
    BY RowsAre
  <2>3. QED
    BY <1>1, <2>1, <2>2
<1>3. QED
  BY <1>2

Others(fresh, w) == {fresh[k] : k \in 2..w}

JoinedBy(m, w, s, u, fresh) ==
  /\ w \in Nat /\ w # 0 /\ DOMAIN s = 1..m /\ DOMAIN u = 1..m + (w - 1)
  /\ \A i \in 1..m : u[i] = s[i]
  /\ \A j \in 1..w - 1 : u[m + j].row = fresh[j + 1]

\* Appending the rest of a round's rows adds exactly those rows.
LEMMA RowsJoined ==
  ASSUME NEW w, NEW s, NEW u, NEW fresh, \E m \in Nat : JoinedBy(m, w, s, u, fresh)
  PROVE  RowsOf(u) = RowsOf(s) \cup Others(fresh, w)
<1> PICK m \in Nat : JoinedBy(m, w, s, u, fresh)
  OBVIOUS
<1>0. /\ w \in Nat /\ w # 0 /\ DOMAIN s = 1..m /\ DOMAIN u = 1..m + (w - 1)
      /\ \A i \in 1..m : u[i] = s[i]
      /\ \A j \in 1..w - 1 : u[m + j].row = fresh[j + 1]
  BY DEF JoinedBy
<1> USE <1>0
<1>1. ASSUME NEW i \in 1..m + (w - 1)
      PROVE  u[i].row \in RowsOf(s) \cup Others(fresh, w)
  <2>1. CASE i \in 1..m
    BY <2>1, RowsAre
  <2>2. CASE i \notin 1..m
    <3>1. PICK j \in 1..w - 1 : m + j = i
      <4>1. i - m \in 1..w - 1 /\ m + (i - m) = i
        BY <2>2
      <4>2. QED
        BY <4>1
    <3>2. u[i].row = fresh[j + 1] /\ j + 1 \in 2..w
      BY <3>1
    <3>3. QED
      BY <3>2 DEF Others
  <2>3. QED
    BY <2>1, <2>2
<1>2. ASSUME NEW i \in 1..m
      PROVE  s[i].row \in RowsOf(u)
  <2>1. i \in 1..m + (w - 1) /\ u[i] = s[i]
    OBVIOUS
  <2>2. QED
    BY <2>1, RowsAre
<1>3. ASSUME NEW k \in 2..w
      PROVE  fresh[k] \in RowsOf(u)
  <2>1. PICK j \in 1..w - 1 : j + 1 = k
    <3>1. k - 1 \in 1..w - 1 /\ (k - 1) + 1 = k
      OBVIOUS
    <3>2. QED
      BY <3>1
  <2>2. m + j \in 1..m + (w - 1) /\ u[m + j].row = fresh[k]
    BY <2>1
  <2>3. QED
    BY <2>2, RowsAre
<1>4. PICK F : F = Others(fresh, w)
  OBVIOUS
<1>5. \A x \in RowsOf(u) : x \in RowsOf(s) \cup F
  BY <1>1, <1>4, RowsAre
<1>6. \A x \in RowsOf(s) : x \in RowsOf(u)
  BY <1>2, RowsAre
<1>7. \A x \in F : x \in RowsOf(u)
  BY <1>3, <1>4 DEF Others
<1>8. RowsOf(u) = RowsOf(s) \cup F
  BY <1>5, <1>6, <1>7
<1>9. QED
  BY <1>4, <1>8

\* A round splits its rows between the triangular and the gap rows.
LEMMA RoundRows ==
  ASSUME Solver_Types, NEW w, NEW col, NEW fresh, Round(w, col, fresh)
  PROVE  /\ RowsOf(tri') = RowsOf(tri) \cup {fresh[1]}
         /\ RowsOf(gap') = RowsOf(gap) \cup Others(fresh, w)
<1>1. PICK n \in Nat : RoundTriIs(n, w, col, fresh)
  BY RoundTri
<1>2. PICK m \in Nat : RoundGapIs(m, w, fresh)
  BY RoundGap
<1>3. w \in Nat /\ w # 0
  BY SizeAssumption DEF Round
<1>4. PICK s, u : s = tri /\ u = tri' /\ RowsOf(u) = RowsOf(s) \cup {fresh[1]}
  <2>1. PICK s, u : s = tri /\ u = tri'
    OBVIOUS
  <2>2. DOMAIN s = 1..n /\ DOMAIN u = 1..n + 1 /\ (\A i \in 1..n : u[i] = s[i]) /\ u[n + 1].row = fresh[1]
    BY <1>1, <2>1 DEF RoundTriIs
  <2>3. RowsOf(u) = RowsOf(s) \cup {fresh[1]}
    <3>1. \A i \in 1..n : u[i] = s[i]
      BY <2>2
    <3>2. DOMAIN s = 1..n /\ DOMAIN u = 1..n + 1
      BY <2>2
    <3>3. RowsOf(u) = RowsOf(s) \cup {u[n + 1].row}
      BY <3>1, <3>2, RowsAppended
    <3>4. QED
      BY <2>2, <3>3
  <2>4. QED
    BY <2>1, <2>3
<1>5. PICK o, v : o = gap /\ v = gap' /\ RowsOf(v) = RowsOf(o) \cup Others(fresh, w)
  <2>1. PICK o, v : o = gap /\ v = gap'
    OBVIOUS
  <2>2. /\ DOMAIN o = 1..m /\ DOMAIN v = 1..m + (w - 1) /\ \A i \in 1..m : v[i] = o[i]
        /\ \A j \in 1..w - 1 : v[m + j] = [row |-> fresh[j + 1], first |-> fresh[1]]
    BY <1>2, <2>1 DEF RoundGapIs
  <2>3. \A j \in 1..w - 1 : v[m + j].row = fresh[j + 1]
    <3> TAKE j \in 1..w - 1
    <3>1. v[m + j] = [row |-> fresh[j + 1], first |-> fresh[1]]
      BY <2>2
    <3>2. QED
      BY <3>1
  <2>4. RowsOf(v) = RowsOf(o) \cup Others(fresh, w)
    <3>1. DOMAIN o = 1..m /\ DOMAIN v = 1..m + (w - 1)
      BY <2>2
    <3>2. \A i \in 1..m : v[i] = o[i]
      BY <2>2
    <3>3. QED
      <4>1. JoinedBy(m, w, o, v, fresh)
        BY <1>3, <2>3, <3>1, <3>2 DEF JoinedBy
      <4>2. QED
        BY <4>1, RowsJoined
  <2>5. QED
    BY <2>1, <2>4
<1>6. QED
  BY <1>4, <1>5

\* A round keeps the rows split between the two lists, without repetition.
LEMMA RoundCounts ==
  ASSUME Solver_Types, Solver_Counts, NEW w, NEW col, NEW fresh, Round(w, col, fresh)
  PROVE  Solver_Counts'
<1>1. PICK n \in Nat : RoundTriIs(n, w, col, fresh)
  BY RoundTri
<1>2. PICK m \in Nat : RoundGapIs(m, w, fresh)
  BY RoundGap
<1>3. w \in Nat /\ w # 0 /\ Len(tri) = n /\ Len(gap) = m /\ Len(tri') = n + 1 /\ Len(gap') = m + (w - 1)
  BY <1>1, <1>2, SizeAssumption DEF Round, RoundTriIs, RoundGapIs
<1>4. rowSign' = RowsOf(tri') \cup RowsOf(gap')
  <2>1. fresh \in Seq(Rows) /\ Len(fresh) = w
    BY DEF Round
  <2>2. ToSet(fresh) = {fresh[k] : k \in 1..w}
    BY <2>1 DEF ToSet
  <2>3. 1..w = {1} \cup (2..w)
    BY <1>3
  <2>4. ToSet(fresh) = {fresh[1]} \cup Others(fresh, w)
    BY <2>2, <2>3 DEF Others
  <2>5. rowSign' = rowSign \cup ToSet(fresh)
    BY DEF Round
  <2>6. QED
    <3>1. rowSign = RowsOf(tri) \cup RowsOf(gap)
      BY DEF Solver_Counts
    <3>2. RowsOf(tri') = RowsOf(tri) \cup {fresh[1]} /\ RowsOf(gap') = RowsOf(gap) \cup Others(fresh, w)
      BY RoundRows
    <3>3. rowSign' = rowSign \cup ({fresh[1]} \cup Others(fresh, w))
      BY <2>4, <2>5
    <3>4. QED
      BY <3>1, <3>2, <3>3
<1>5. IsFiniteSet(rowSign) /\ IsFiniteSet(ToSet(fresh)) /\ IsFiniteSet(Chosen)
  <2>1. PICK k \in 0..N : Rows = 1..k
    BY InputTypes DEF Solver_Types
  <2>2. k \in Nat
    BY SizeAssumption
  <2>3. IsFiniteSet(1..k) /\ rowSign \subseteq 1..k /\ ToSet(fresh) \subseteq 1..k
    <3>1. rowSign \subseteq Rows /\ ToSet(fresh) \subseteq Rows
      BY DEF Solver_Types, Round, ColRows
    <3>2. IsFiniteSet(1..k)
      BY <2>2, FS_Interval
    <3>3. QED
      BY <2>1, <3>1, <3>2
  <2>4. IsFiniteSet(Cols) /\ Chosen \subseteq Cols
    <3>1. IsFiniteSet(Cols)
      BY FS_Interval, SizeAssumption DEF Cols
    <3>2. Chosen = {tri[i].col : i \in 1..n}
      BY <1>1 DEF RoundTriIs, Chosen, ToSet
    <3>3. \A i \in 1..n : tri[i].col \in Cols
      BY <1>1 DEF RoundTriIs, TriRows
    <3>4. QED
      BY <3>1, <3>2, <3>3
  <2>5. QED
    BY <2>3, <2>4, FS_Subset
<1>6. Cardinality(rowSign') = Len(tri') + Len(gap')
  <2>1. rowSign \cap ToSet(fresh) = {} /\ rowSign' = rowSign \cup ToSet(fresh) /\ Cardinality(ToSet(fresh)) = w
    BY DEF Round
  <2>2. Cardinality(rowSign \cup ToSet(fresh)) =
          Cardinality(rowSign) + Cardinality(ToSet(fresh)) - Cardinality(rowSign \cap ToSet(fresh))
    BY <1>5, FS_Union
  <2>3. Cardinality(rowSign \cap ToSet(fresh)) = 0
    BY <2>1, FS_EmptySet
  <2>4. Cardinality(rowSign) = n + m
    BY <1>3 DEF Solver_Counts
  <2>5. QED
    BY <1>3, <2>1, <2>2, <2>3, <2>4
<1>7. Cardinality(Chosen') = Len(tri')
  <2>1. col \notin Chosen /\ Chosen' = Chosen \cup {col}
    BY RoundChosen DEF Round
  <2>2. Cardinality(Chosen) = n
    BY <1>3 DEF Solver_Counts
  <2>3. Cardinality(Chosen \cup {col}) = n + 1
    BY <1>5, <2>1, <2>2, FS_AddElement
  <2>4. QED
    BY <1>3, <2>1, <2>3
<1>8. QED
  BY <1>4, <1>6, <1>7 DEF Solver_Counts

\* A round keeps C triangular: a later row has no earlier pivot.
LEMMA RoundTriangle ==
  ASSUME Solver_Types, Solver_Lists, Solver_Counts, Solver_Triangle,
         NEW w, NEW col, NEW fresh, Round(w, col, fresh)
  PROVE  Solver_Triangle'
<1>1. PICK n \in Nat : RoundTriIs(n, w, col, fresh)
  BY RoundTri
<1>2. PICK m \in Nat : RoundGapIs(m, w, fresh)
  BY RoundGap
<1>3. w \in Nat /\ w # 0
  BY SizeAssumption DEF Round
<1>4. PICK r \in Rows : r = fresh[1] /\ r \notin rowSign /\ col \in ToSet(H(r))
  <2>1. fresh \in Seq(Rows) /\ Len(fresh) = w /\ ToSet(fresh) = ColRows(col) \ rowSign
    BY DEF Round
  <2>2. 1 \in 1..w
    BY <1>3
  <2>3. fresh[1] \in ToSet(fresh)
    BY <2>1, <2>2 DEF ToSet
  <2>4. QED
    BY <2>1, <2>3 DEF ColRows
<1>5. PICK u : u = tri' /\ DOMAIN u = 1..n + 1 /\ (\A i \in 1..n : u[i] = tri[i] /\ tri[i] \in TriRows)
               /\ u[n + 1].row = r /\ u[n + 1].col = col
  BY <1>1, <1>4 DEF RoundTriIs
<1>6. DOMAIN tri = 1..n
  BY <1>1 DEF RoundTriIs
<1>7. \A i \in 1..n : tri[i].row \in rowSign /\ tri[i].col \in Chosen
  <2>1. \A i \in 1..n : tri[i].row \in RowsOf(tri)
    BY <1>6, RowsAre
  <2>2. QED
    BY <1>6, <2>1 DEF Solver_Counts, Chosen, ToSet
<1>8. \A i \in 1..n + 1 : i \in 1..n \/ i = n + 1
  OBVIOUS
<1>9. \A i, j \in 1..n + 1 : u[i].row = u[j].row => i = j
  <2>1. \A i, j \in 1..n : tri[i].row = tri[j].row => i = j
    BY <1>6 DEF Solver_Triangle
  <2>2. \A i \in 1..n : u[i].row # u[n + 1].row
    BY <1>4, <1>5, <1>7
  <2>3. QED
    BY <1>5, <1>8, <2>1, <2>2
<1>11. \A x : H(x)' = H(x)
  BY DEF Round, H
<1>12. \A i \in 1..n + 1 : u[i].col \in ToSet(H(u[i].row))
  <2>1. \A i \in 1..n : tri[i].col \in ToSet(H(tri[i].row))
    BY <1>6 DEF Solver_Triangle
  <2>2. QED
    BY <1>4, <1>5, <1>8, <2>1
<1>13. \A i, j \in 1..n + 1 : u[i].col \in ToSet(H(u[j].row)) => i >= j
  <2>1. \A i, j \in 1..n : tri[i].col \in ToSet(H(tri[j].row)) => i >= j
    BY <1>6 DEF Solver_Triangle
  <2>2. \A i \in 1..n : u[i].col \notin ToSet(H(r))
    <3> TAKE i \in 1..n
    <3>1. ColRows(u[i].col) \subseteq rowSign
      BY <1>5, <1>7 DEF Solver_Lists
    <3>2. QED
      BY <1>4, <3>1 DEF ColRows
  <2>3. ASSUME NEW i \in 1..n + 1, NEW j \in 1..n + 1, u[i].col \in ToSet(H(u[j].row))
        PROVE  i >= j
    <3>1. CASE i = n + 1
      BY <3>1
    <3>2. CASE i \in 1..n /\ j \in 1..n
      BY <1>5, <2>1, <2>3, <3>2
    <3>3. CASE i \in 1..n /\ j = n + 1
      BY <1>5, <2>2, <2>3, <3>3
    <3>4. QED
      BY <1>8, <3>1, <3>2, <3>3
  <2>4. QED
    BY <2>3
<1>14. \A k \in DOMAIN gap' : \E i \in 1..n + 1 : u[i].row = gap'[k].first
  <2>1. DOMAIN gap = 1..m /\ DOMAIN gap' = 1..m + (w - 1)
    BY <1>2 DEF RoundGapIs
  <2> TAKE k \in DOMAIN gap'
  <2>2. CASE k \in 1..m
    <3>1. gap'[k] = gap[k]
      BY <1>2, <2>2 DEF RoundGapIs
    <3>2. PICK i \in 1..n : tri[i].row = gap[k].first
      BY <1>6, <2>1, <2>2 DEF Solver_Triangle
    <3>3. u[i].row = gap'[k].first /\ i \in 1..n + 1
      BY <1>5, <3>1, <3>2
    <3>4. QED
      BY <3>3
  <2>3. CASE k \notin 1..m
    <3>1. PICK j \in 1..w - 1 : m + j = k
      <4>1. k - m \in 1..w - 1 /\ m + (k - m) = k
        BY <1>3, <2>1, <2>3
      <4>2. QED
        BY <4>1
    <3>2. gap'[k].first = r
      <4>1. gap'[m + j] = [row |-> fresh[j + 1], first |-> fresh[1]]
        BY <1>2 DEF RoundGapIs
      <4>2. QED
        BY <1>4, <3>1, <4>1
    <3>3. QED
      BY <1>5, <3>2
  <2>4. QED
    BY <2>2, <2>3
<1>15. QED
  BY <1>5, <1>9, <1>11, <1>12, <1>13, <1>14 DEF Solver_Triangle

\* Equal keys hash to the same columns.
LEMMA TwinColumns ==
  ASSUME input \in Inputs, NEW r \in Rows, NEW s \in Rows, input.dense[r] = input.dense[s]
  PROVE  H(r) = H(s)
<1>1. PICK in \in Inputs : in = input
  OBVIOUS
<1>2. r \in DOMAIN in.h /\ s \in DOMAIN in.h /\ in.dense[r] = in.dense[s]
  BY <1>1 DEF Rows
<1>3. in.h[r] = in.h[s]
  BY <1>2, InputAssumption
<1>4. QED
  BY <1>1, <1>3 DEF H

\* A round eliminates equal keys together, and neither is its first row.
LEMMA RoundTwins ==
  ASSUME Solver_Types, Solver_Counts, Solver_Twins, NEW w, NEW col, NEW fresh, Round(w, col, fresh)
  PROVE  Solver_Twins'
<1>1. PICK m \in Nat : RoundGapIs(m, w, fresh)
  BY RoundGap
<1>2. w \in Nat /\ w # 0 /\ DOMAIN gap = 1..m /\ DOMAIN gap' = 1..m + (w - 1)
  BY <1>1, SizeAssumption DEF Round, RoundGapIs
<1>3. PICK v : v = gap' /\ (\A i \in 1..m : v[i] = gap[i]) /\ DOMAIN v = 1..m + (w - 1)
               /\ \A j \in 1..w - 1 : v[m + j] = [row |-> fresh[j + 1], first |-> fresh[1]]
  BY <1>1 DEF RoundGapIs
<1>4. PICK d : d = input.dense /\ input'.dense = d
  BY DEF Round
<1>5. fresh \in Seq(Rows) /\ Len(fresh) = w /\ ToSet(fresh) = ColRows(col) \ rowSign
      /\ \A k \in 2..w : d[fresh[k]] # d[fresh[1]]
  BY <1>4 DEF Round
<1>6. ASSUME NEW r \in Rows, NEW s \in Rows, r # s, r \in rowSign', d[r] = d[s]
      PROVE  \E i, j \in DOMAIN v : v[i].row = r /\ v[j].row = s /\ v[i].first = v[j].first
  <2>1. CASE r \in rowSign
    <3>1. PICK i, j \in DOMAIN gap : gap[i].row = r /\ gap[j].row = s /\ gap[i].first = gap[j].first
      BY <1>4, <1>6, <2>1 DEF Solver_Twins
    <3>2. i \in DOMAIN v /\ j \in DOMAIN v /\ v[i] = gap[i] /\ v[j] = gap[j]
      BY <1>2, <1>3
    <3>3. QED
      BY <3>1, <3>2
  <2>2. CASE r \notin rowSign
    <3>1. r \in ToSet(fresh)
      BY <1>6, <2>2 DEF Round
    <3>2. s \notin rowSign
      <4>1. SUFFICES ASSUME s \in rowSign PROVE FALSE
        OBVIOUS
      <4>2. PICK i, j \in DOMAIN gap : gap[i].row = s /\ gap[j].row = r
        BY <1>4, <1>6, <4>1 DEF Solver_Twins
      <4>3. r \in RowsOf(gap)
        BY <4>2, RowsAre
      <4>4. QED
        BY <2>2, <4>3 DEF Solver_Counts
    <3>3. H(r) = H(s)
      BY <1>4, <1>6, TwinColumns DEF Solver_Types
    <3>4. s \in ToSet(fresh)
      BY <1>5, <3>1, <3>2, <3>3 DEF ColRows
    <3>5. PICK k \in 1..w : fresh[k] = r
      BY <1>5, <3>1 DEF ToSet
    <3>6. PICK l \in 1..w : fresh[l] = s
      BY <1>5, <3>4 DEF ToSet
    <3>7. k # 1
      <4>1. SUFFICES ASSUME k = 1 PROVE FALSE
        OBVIOUS
      <4>2. l \in 2..w
        BY <1>6, <3>5, <3>6, <4>1
      <4>3. QED
        BY <1>5, <1>6, <3>5, <3>6, <4>1, <4>2
    <3>8. l # 1
      <4>1. SUFFICES ASSUME l = 1 PROVE FALSE
        OBVIOUS
      <4>2. k \in 2..w
        BY <1>6, <3>5, <3>6, <4>1
      <4>3. QED
        BY <1>5, <1>6, <3>5, <3>6, <4>1, <4>2
    <3>0. PICK i \in 1..w - 1 : i + 1 = k
      <4>1. k - 1 \in 1..w - 1 /\ (k - 1) + 1 = k
        BY <1>2, <3>7
      <4>2. QED
        BY <4>1
    <3>9. PICK j \in 1..w - 1 : j + 1 = l
      <4>1. l - 1 \in 1..w - 1 /\ (l - 1) + 1 = l
        BY <1>2, <3>8
      <4>2. QED
        BY <4>1
    <3>10. m + i \in DOMAIN v /\ m + j \in DOMAIN v
      BY <1>2, <1>3
    <3>11. /\ v[m + i] = [row |-> fresh[i + 1], first |-> fresh[1]]
           /\ v[m + j] = [row |-> fresh[j + 1], first |-> fresh[1]]
      BY <1>3
    <3>12. v[m + i].row = r /\ v[m + j].row = s /\ v[m + i].first = v[m + j].first
      BY <3>5, <3>6, <3>0, <3>9, <3>11
    <3>13. QED
      BY <3>10, <3>12
  <2>3. QED
    BY <2>1, <2>2
<1>7. Rows' = Rows
  BY DEF Round, Rows
<1>8. QED
  BY <1>3, <1>4, <1>6, <1>7 DEF Solver_Twins

-----------------------------------------------------------------------------
(***************************************************************************)
(* Every step preserves the invariant and takes the call nearer its end.   *)
(***************************************************************************)
\* There are no more triangular rows, and no more eliminated ones, than N.
LEMMA AtMostN ==
  ASSUME Solver_Types, Solver_Counts
  PROVE  /\ Cardinality(rowSign) \in 0..N /\ Len(tri) \in 0..N /\ Len(gap) \in Nat
         /\ IsFiniteSet(rowSign)
<1>1. PICK k \in 0..N : Rows = 1..k
  BY InputTypes DEF Solver_Types
<1>2. k \in Nat /\ N \in Nat /\ k <= N
  BY SizeAssumption
<1>3. IsFiniteSet(1..k) /\ Cardinality(1..k) = k
  BY <1>2, FS_Interval
<1>4. rowSign \subseteq 1..k
  BY <1>1 DEF Solver_Types
<1>5. IsFiniteSet(rowSign) /\ Cardinality(rowSign) <= k /\ Cardinality(rowSign) \in Nat
  BY <1>3, <1>4, FS_Subset, FS_CardinalityType
<1>6. Len(tri) \in Nat /\ Len(gap) \in Nat
  BY DEF Solver_Types
<1>7. Cardinality(rowSign) = Len(tri) + Len(gap)
  BY DEF Solver_Counts
<1>8. QED
  BY <1>2, <1>5, <1>6, <1>7

\* A step that leaves the lists and the rows alone preserves the invariant.
LEMMA SolverKept ==
  ASSUME Solver_OK, UNCHANGED <<input, weight, weightSet, rowSign, tri, gap>>,
         status' \in Stages, todo' \in 0..Len(tri),
         status' \in {"gaps", "backfill", "encoded"} => Heavy = {}
  PROVE  Solver_OK'
<1>1. Solver_Types'
  BY DEF Solver_OK, Solver_Types, Stages, Threw, TriRows, GapRows, TheLists, Rows
<1>2. Solver_Lists'
  <2>1. TheLists' = TheLists /\ Chosen' = Chosen
    BY DEF TheLists, Chosen
  <2>2. \A c : ColRows(c)' = ColRows(c)
    BY DEF ColRows, H, Rows
  <2>3. LeftOf(rowSign)' = LeftOf(rowSign)
    BY <2>2 DEF LeftOf
  <2>4. Solver_Lists
    BY DEF Solver_OK
  <2>5. QED
    BY <2>1, <2>2, <2>3, <2>4 DEF Solver_Lists
<1>3. Solver_Counts'
  BY DEF Solver_OK, Solver_Counts, RowsOf, Chosen
<1>4. Solver_Triangle'
  BY DEF Solver_OK, Solver_Triangle, H
<1>5. Solver_Twins'
  BY DEF Solver_OK, Solver_Twins, Rows
<1>6. Solver_Stages'
  <2>1. Heavy' = Heavy
    BY DEF Heavy
  <2>2. QED
    BY <2>1 DEF Solver_Stages
<1>7. QED
  BY <1>1, <1>2, <1>3, <1>4, <1>5, <1>6 DEF Solver_OK

\* triangulate, paxos.cpp 1267-1350: an iteration that does not throw eliminates
\* the rows of its column.
LEMMA RoundStep ==
  ASSUME Solver_OK, status = "triangulate", NEW w, NEW col, NEW fresh, Round(w, col, fresh)
  PROVE  Solver_OK' /\ status' = status
         /\ Cardinality(rowSign') = Cardinality(rowSign) + w /\ w \in 1..N
<1> USE DEF Solver_OK
<1>1. Solver_Types'
  BY RoundTypes
<1>2. Solver_Lists'
  BY RoundLists
<1>3. Solver_Counts'
  BY RoundCounts
<1>4. Solver_Triangle'
  BY RoundTriangle
<1>5. Solver_Twins'
  BY RoundTwins
<1>6. status' = status /\ w \in 1..N
  BY DEF Round
<1>7. Solver_Stages'
  BY <1>6 DEF Solver_Stages
<1>8. Cardinality(rowSign') = Cardinality(rowSign) + w
  <2>1. PICK n \in Nat : RoundTriIs(n, w, col, fresh)
    BY RoundTri
  <2>2. PICK m \in Nat : RoundGapIs(m, w, fresh)
    BY RoundGap
  <2>3. Len(tri) = n /\ Len(gap) = m /\ Len(tri') = n + 1 /\ Len(gap') = m + (w - 1)
    BY <2>1, <2>2 DEF RoundTriIs, RoundGapIs
  <2>4. w \in Nat
    BY <1>6, SizeAssumption
  <2>5. Cardinality(rowSign) = n + m /\ Cardinality(rowSign') = (n + 1) + (m + (w - 1))
    BY <1>3, <2>3 DEF Solver_Counts
  <2>6. QED
    BY <2>4, <2>5
<1>9. QED
  BY <1>1, <1>2, <1>3, <1>4, <1>5, <1>6, <1>7, <1>8

\* What a step does to the stage, besides the rounds of triangulate.
Onward ==
  /\ UNCHANGED <<input, weight, weightSet, rowSign, tri, gap>>
  /\ \/ status' \in Threw /\ status \in {"triangulate", "gaps"} /\ todo' \in {todo, Len(tri)}
     \/ status' = "undefined" /\ status \in {"triangulate", "gaps", "backfill"} /\ todo' = todo
     \/ status = "triangulate" /\ status' = "gaps" /\ todo' = Len(tri) /\ Heavy = {}
     \/ status = "gaps" /\ status' = "backfill" /\ todo' = todo
     \/ status = "backfill" /\ status' = "backfill" /\ todo > 0 /\ todo' = todo - 1
     \/ status = "backfill" /\ status' = "encoded" /\ todo = 0 /\ todo' = 0

\* Every step is a round of triangulate, goes on to the next stage, or
\* stutters after the end.
LEMMA StepKinds ==
  ASSUME Solver_OK, [Next]_vars
  PROVE  \/ status = "triangulate" /\ \E w, col, fresh : Round(w, col, fresh)
         \/ Onward
         \/ UNCHANGED vars
<1>1. CASE Triangulate
  <2>1. Solver_Types /\ Solver_Lists
    BY DEF Solver_OK
  <2>2. CASE \E w, col, fresh : Round(w, col, fresh)
    BY <1>1, <2>2 DEF Triangulate
  <2>3. CASE /\ status' = "duplicate keys"
             /\ UNCHANGED <<input, weight, weightSet, rowSign, tri, gap, todo, output, gapCols>>
    BY <1>1, <2>3 DEF Triangulate, Onward, Threw
  <2>4. QED
    BY <1>1, <2>1, <2>2, <2>3, TriangulateRound
<1>2. CASE Randomize
  BY <1>2 DEF Randomize, Onward, Threw
<1>3. CASE NoGaps
  BY <1>3 DEF NoGaps, Onward
<1>4. CASE TooManyGaps
  BY <1>4 DEF TooManyGaps, Onward, Threw
<1>5. CASE GapsGf128
  <2>1. status = "gaps" /\ UNCHANGED <<input, weight, weightSet, rowSign, tri, gap, todo>>
    BY <1>5 DEF GapsGf128
  <2>2. status' = "backfill" \/ status' = "dense matrix is not invertible"
    BY <1>5 DEF GapsGf128
  <2>3. QED
    BY <2>1, <2>2 DEF Onward, Threw
<1>6. CASE GapsBinary
  <2>1. status = "gaps" /\ UNCHANGED <<input, weight, weightSet, rowSign, tri, gap, todo>>
    BY <1>6 DEF GapsBinary
  <2>2. status' = "backfill" \/ status' = "no invertible submatrix"
    BY <1>6 DEF GapsBinary
  <2>3. QED
    BY <2>1, <2>2 DEF Onward, Threw
<1>7. CASE Backfill
  BY <1>7 DEF Backfill, Onward
<1>8. CASE Return
  BY <1>8 DEF Return, Onward
<1>9. CASE Finished \/ UNCHANGED vars
  BY <1>9 DEF Finished
<1>10. CASE Overrun
  BY <1>10 DEF Overrun, Overruns, Onward
<1>11. QED
  BY <1>1, <1>2, <1>3, <1>4, <1>5, <1>6, <1>7, <1>8, <1>9, <1>10 DEF Next

\* Every step preserves the invariant.
LEMMA SolverStep == Solver_OK /\ [Next]_vars => Solver_OK'
<1> SUFFICES ASSUME Solver_OK, [Next]_vars PROVE Solver_OK'
  OBVIOUS
<1>1. CASE status = "triangulate" /\ \E w, col, fresh : Round(w, col, fresh)
  BY <1>1, RoundStep
<1>2. CASE Onward
  <2>1. Len(tri) \in Nat /\ todo \in 0..Len(tri)
    BY DEF Solver_OK, Solver_Types
  <2>2. todo' \in 0..Len(tri)
    BY <1>2, <2>1 DEF Onward
  <2>3. status' \in Stages
    BY <1>2 DEF Onward, Stages
  <2>4. status' \in {"gaps", "backfill", "encoded"} => Heavy = {}
    BY <1>2 DEF Onward, Threw, Solver_OK, Solver_Stages
  <2>5. UNCHANGED <<input, weight, weightSet, rowSign, tri, gap>>
    BY <1>2 DEF Onward
  <2>6. QED
    BY <2>2, <2>3, <2>4, <2>5, SolverKept
<1>3. CASE UNCHANGED vars
  <2>1. Len(tri) \in Nat /\ todo \in 0..Len(tri) /\ status \in Stages
    BY DEF Solver_OK, Solver_Types
  <2>2. UNCHANGED <<input, weight, weightSet, rowSign, tri, gap>> /\ status' = status /\ todo' = todo
    BY <1>3 DEF vars
  <2>3. status \in {"gaps", "backfill", "encoded"} => Heavy = {}
    BY DEF Solver_OK, Solver_Stages
  <2>4. QED
    BY <2>1, <2>2, <2>3, SolverKept
<1>4. QED
  BY <1>1, <1>2, <1>3, StepKinds

\* The invariant of the solver: the weight lists are exact, the rows taken so
\* far are split between tri and gap, C is triangular and equal keys are
\* gap rows of one triangular row (paxos.cpp 1267-1350).
THEOREM SolverInvariant == Spec => []Solver_OK
<1>1. QED
  BY SolverInit, SolverStep, PTL DEF Spec

\* Some column is never a pivot: there are fewer rows than columns.
LEMMA ColumnLeft ==
  ASSUME Solver_OK
  PROVE  \E c \in Cols : c \notin Chosen
<1>1. SUFFICES ASSUME Cols \subseteq Chosen PROVE FALSE
  OBVIOUS
<1>2. IsFiniteSet(Cols) /\ Cardinality(Cols) = M
  <2>1. M - 1 \in Int /\ 0 \in Int /\ M \in Nat
    BY SizeAssumption
  <2>2. IsFiniteSet(0..M-1) /\ Cardinality(0..M-1) = IF 0 > M - 1 THEN 0 ELSE (M - 1) - 0 + 1
    BY <2>1, FS_Interval
  <2>3. QED
    BY <2>1, <2>2 DEF Cols
<1>3. Chosen \subseteq Cols
  <2>1. DOMAIN tri = 1..Len(tri) /\ \A i \in DOMAIN tri : tri[i] \in TriRows
    BY DEF Solver_OK, Solver_Types
  <2>2. QED
    BY <2>1 DEF Chosen, ToSet, TriRows
<1>4. Chosen = Cols
  BY <1>1, <1>3
<1>5. Cardinality(Chosen) = Len(tri) /\ Len(tri) \in 0..N
  BY AtMostN DEF Solver_OK, Solver_Counts
<1>6. QED
  BY <1>2, <1>4, <1>5, SizeAssumption

\* The weight lists hold each column that is not a pivot exactly once, in the
\* list of the number of its rows still to be eliminated, and some list holds
\* a column (paxos.hpp 172-251).
THEOREM ListsStayExact == Spec => []ListsExact
<1>1. Solver_OK => ListsExact
  <2> SUFFICES ASSUME Solver_OK PROVE ListsExact
    OBVIOUS
  <2>1. \A c \in Cols : LeftOf(rowSign)[c] = Cardinality(ColRows(c) \ rowSign)
    BY DEF LeftOf
  <2>2. ASSUME NEW c \in Cols, c \in Chosen
        PROVE  Cardinality(ColRows(c) \ rowSign) = 0
    <3>1. ColRows(c) \ rowSign = {}
      BY <2>2 DEF Solver_OK, Solver_Lists
    <3>2. QED
      BY <3>1, FS_EmptySet
  <2>3. ASSUME NEW c \in Cols, c \notin Chosen
        PROVE  /\ weight[c] = Cardinality(ColRows(c) \ rowSign)
               /\ weight[c] \in 0..N /\ c \in ToSet(weightSet[weight[c]])
    <3>1. Solver_Types /\ Solver_Lists
      BY DEF Solver_OK
    <3>2. weight[c] = Cardinality(ColRows(c) \ rowSign) /\ weight[c] \in 0..N
      BY <2>3, <3>1, ListsAre
    <3>3. ToSet(weightSet[weight[c]]) = {d \in Cols \ Chosen : Cardinality(ColRows(d) \ rowSign) = weight[c]}
      BY <3>1, <3>2, ListsAre
    <3>4. QED
      BY <2>3, <3>2, <3>3
  <2>4. /\ \A w \in 0..N : IsInjective(weightSet[w]) /\ ToSet(weightSet[w]) \cap Chosen = {}
        /\ \A v, w \in 0..N : v # w => ToSet(weightSet[v]) \cap ToSet(weightSet[w]) = {}
    <3>1. Solver_Types /\ Solver_Lists
      BY DEF Solver_OK
    <3>2. \A w \in 0..N :
            /\ IsInjective(weightSet[w])
            /\ ToSet(weightSet[w]) = {c \in Cols \ Chosen : Cardinality(ColRows(c) \ rowSign) = w}
      BY <3>1, ListsAre
    <3>3. \A w \in 0..N : ToSet(weightSet[w]) \cap Chosen = {}
      BY <3>2
    <3>4. \A v, w \in 0..N : v # w => ToSet(weightSet[v]) \cap ToSet(weightSet[w]) = {}
      <4> SUFFICES ASSUME NEW v \in 0..N, NEW w \in 0..N, NEW c,
                          c \in ToSet(weightSet[v]), c \in ToSet(weightSet[w])
                   PROVE  v = w
        OBVIOUS
      <4>1. Cardinality(ColRows(c) \ rowSign) = v
        BY <3>2
      <4>2. Cardinality(ColRows(c) \ rowSign) = w
        BY <3>2
      <4>3. QED
        BY <4>1, <4>2
    <3>5. QED
      BY <3>2, <3>3, <3>4
  <2>5. \E w \in 0..N : weightSet[w] # << >>
    <3>1. PICK c \in Cols : c \notin Chosen
      BY ColumnLeft
    <3>2. weight[c] \in 0..N /\ c \in ToSet(weightSet[weight[c]])
      BY <2>3, <3>1
    <3>3. weightSet[weight[c]] # << >>
      BY <3>2 DEF ToSet
    <3>4. QED
      BY <3>2, <3>3
  <2>6. QED
    BY <2>2, <2>3, <2>4, <2>5 DEF ListsExact
<1>2. QED
  BY <1>1, SolverInvariant, PTL

\* Every row becomes a triangular row or a gap row, once, and C is triangular
\* (paxos.cpp 704, 1267-1350).
THEOREM StaysTriangular == Spec => []Triangular
<1>1. Solver_OK => Triangular
  <2> SUFFICES ASSUME Solver_OK PROVE Triangular
    OBVIOUS
  <2>1. Heavy = {} => rowSign = Rows
    BY NoneHeavy DEF Solver_OK
  <2>2. QED
    BY <2>1 DEF Solver_OK, Solver_Counts, Solver_Triangle, Triangular, RowsOf
<1>2. QED
  BY <1>1, SolverInvariant, PTL

\* The call ends: every step takes it nearer its return or its exception.
THEOREM SolverTerminates == Spec => Terminates
<1>1. Solver_OK /\ [Next]_vars => [Remaining' < Remaining]_vars
  <2> SUFFICES ASSUME Solver_OK, [Next]_vars PROVE [Remaining' < Remaining]_vars
    OBVIOUS
  <2>1. Cardinality(rowSign) \in 0..N /\ Len(tri) \in 0..N /\ N \in Nat
    BY AtMostN, SizeAssumption DEF Solver_OK
  <2>2. todo \in 0..Len(tri)
    BY DEF Solver_OK, Solver_Types
  <2>3. CASE status = "triangulate" /\ \E w, col, fresh : Round(w, col, fresh)
    <3>1. PICK w, col, fresh : Round(w, col, fresh)
      BY <2>3
    <3>2. /\ Solver_OK' /\ status' = "triangulate" /\ w \in 1..N
          /\ Cardinality(rowSign') = Cardinality(rowSign) + w
      BY <2>3, <3>1, RoundStep
    <3>3. Remaining = 2 * N + 3 - Cardinality(rowSign)
      BY <2>3 DEF Remaining
    <3>4. Remaining' = 2 * N + 3 - Cardinality(rowSign')
      BY <3>2 DEF Remaining
    <3>5. QED
      BY <2>1, <3>2, <3>3, <3>4
  <2>4. CASE Onward
    <3>1. Cardinality(rowSign') = Cardinality(rowSign)
      BY <2>4 DEF Onward
    <3>2. status = "triangulate" => Remaining = 2 * N + 3 - Cardinality(rowSign)
      BY DEF Remaining
    <3>3. status = "gaps" => Remaining = N + 2
      BY DEF Remaining
    <3>4. status = "backfill" => Remaining = todo + 1
      BY DEF Remaining
    <3>5. status' = "gaps" => Remaining' = N + 2
      BY DEF Remaining
    <3>6. status' = "backfill" => Remaining' = todo' + 1
      BY DEF Remaining
    <3>7. status' \in Threw \/ status' \in {"encoded", "undefined"} => Remaining' = 0
      BY DEF Remaining, Threw
    <3>8. QED
      BY <2>1, <2>2, <2>4, <3>2, <3>3, <3>4, <3>5, <3>6, <3>7 DEF Onward
  <2>5. QED
    BY <2>3, <2>4, StepKinds
<1>2. QED
  BY <1>1, SolverInvariant, PTL DEF Spec, Terminates

-----------------------------------------------------------------------------
(***************************************************************************)
(* The field of four elements and vectors over it.                         *)
(***************************************************************************)
\* Addition of elements.
LEMMA XorLaws ==
  /\ \A a, b \in Field : Xor(a, b) \in Field /\ Xor(a, b) = Xor(b, a)
  /\ \A a, b, c \in Field : Xor(Xor(a, b), c) = Xor(a, Xor(b, c))
  /\ \A a \in Field : Xor(a, 0) = a /\ Xor(0, a) = a /\ Xor(a, a) = 0
<1>1. \A a \in Field : a = 0 \/ a = 1 \/ a = 2 \/ a = 3
  BY DEF Field
<1>2. /\ Xor(0, 0) = 0 /\ Xor(0, 1) = 1 /\ Xor(0, 2) = 2 /\ Xor(0, 3) = 3
      /\ Xor(1, 0) = 1 /\ Xor(1, 1) = 0 /\ Xor(1, 2) = 3 /\ Xor(1, 3) = 2
      /\ Xor(2, 0) = 2 /\ Xor(2, 1) = 3 /\ Xor(2, 2) = 0 /\ Xor(2, 3) = 1
      /\ Xor(3, 0) = 3 /\ Xor(3, 1) = 2 /\ Xor(3, 2) = 1 /\ Xor(3, 3) = 0
  BY DEF Xor
<1>3. 0 \in Field /\ 1 \in Field /\ 2 \in Field /\ 3 \in Field
  BY DEF Field
<1>4. \A a, b \in Field : Xor(a, b) \in Field /\ Xor(a, b) = Xor(b, a)
  BY <1>1, <1>2, <1>3
<1>5. \A a, b, c \in Field : Xor(Xor(a, b), c) = Xor(a, Xor(b, c))
  BY <1>1, <1>2
<1>6. \A a \in Field : Xor(a, 0) = a /\ Xor(0, a) = a /\ Xor(a, a) = 0
  BY <1>1, <1>2
<1>7. QED
  BY <1>4, <1>5, <1>6

\* Multiplication of elements, and how it distributes over addition.
LEMMA MulLaws ==
  /\ \A a, b \in Field : Mul(a, b) \in Field /\ Mul(a, b) = Mul(b, a)
  /\ \A a, b, c \in Field : Mul(Mul(a, b), c) = Mul(a, Mul(b, c))
  /\ \A a, b, c \in Field : Mul(Xor(a, b), c) = Xor(Mul(a, c), Mul(b, c))
  /\ \A a, b, c \in Field : Mul(c, Xor(a, b)) = Xor(Mul(c, a), Mul(c, b))
  /\ \A a \in Field : Mul(a, 1) = a /\ Mul(1, a) = a /\ Mul(a, 0) = 0 /\ Mul(0, a) = 0
  /\ \A a \in Field \ {0} : Mul(Inv(a), a) = 1 /\ Mul(a, Inv(a)) = 1
  /\ \A a \in Field : Inv(a) \in Field
<1>1. \A a \in Field : a = 0 \/ a = 1 \/ a = 2 \/ a = 3
  BY DEF Field
<1>2. /\ Xor(0, 0) = 0 /\ Xor(0, 1) = 1 /\ Xor(0, 2) = 2 /\ Xor(0, 3) = 3
      /\ Xor(1, 0) = 1 /\ Xor(1, 1) = 0 /\ Xor(1, 2) = 3 /\ Xor(1, 3) = 2
      /\ Xor(2, 0) = 2 /\ Xor(2, 1) = 3 /\ Xor(2, 2) = 0 /\ Xor(2, 3) = 1
      /\ Xor(3, 0) = 3 /\ Xor(3, 1) = 2 /\ Xor(3, 2) = 1 /\ Xor(3, 3) = 0
  BY DEF Xor
<1>3. /\ Mul(0, 0) = 0 /\ Mul(0, 1) = 0 /\ Mul(0, 2) = 0 /\ Mul(0, 3) = 0
      /\ Mul(1, 0) = 0 /\ Mul(1, 1) = 1 /\ Mul(1, 2) = 2 /\ Mul(1, 3) = 3
      /\ Mul(2, 0) = 0 /\ Mul(2, 1) = 2 /\ Mul(2, 2) = 3 /\ Mul(2, 3) = 1
      /\ Mul(3, 0) = 0 /\ Mul(3, 1) = 3 /\ Mul(3, 2) = 1 /\ Mul(3, 3) = 2
  BY DEF Mul
<1>4. Inv(0) = 0 /\ Inv(1) = 1 /\ Inv(2) = 3 /\ Inv(3) = 2
  BY DEF Inv
<1>5. 0 \in Field /\ 1 \in Field /\ 2 \in Field /\ 3 \in Field
  BY DEF Field
<1>6. \A a, b \in Field : Mul(a, b) \in Field /\ Mul(a, b) = Mul(b, a)
  BY <1>1, <1>3, <1>5
<1>7. \A a, b, c \in Field : Mul(Mul(a, b), c) = Mul(a, Mul(b, c))
  BY <1>1, <1>3
<1>8. \A a, b, c \in Field : Mul(Xor(a, b), c) = Xor(Mul(a, c), Mul(b, c))
  BY <1>1, <1>2, <1>3
<1>9. \A a, b, c \in Field : Mul(c, Xor(a, b)) = Xor(Mul(c, a), Mul(c, b))
  BY <1>1, <1>2, <1>3
<1>10. \A a \in Field : Mul(a, 1) = a /\ Mul(1, a) = a /\ Mul(a, 0) = 0 /\ Mul(0, a) = 0
  BY <1>1, <1>3
<1>11. \A a \in Field \ {0} : Mul(Inv(a), a) = 1 /\ Mul(a, Inv(a)) = 1
  BY <1>1, <1>3, <1>4
<1>12. \A a \in Field : Inv(a) \in Field
  BY <1>1, <1>4, <1>5
<1>13. QED
  BY <1>6, <1>7, <1>8, <1>9, <1>10, <1>11, <1>12

Vectors(I) == [I -> Field]
ZeroOn(I)  == [k \in I |-> 0]

\* Vectors form a group in which every vector is its own inverse.
LEMMA AddRowLaws ==
  ASSUME NEW I
  PROVE  /\ ZeroOn(I) \in Vectors(I)
         /\ \A u, v \in Vectors(I) : AddRow(u, v) \in Vectors(I) /\ AddRow(u, v) = AddRow(v, u)
         /\ \A u, v, w \in Vectors(I) : AddRow(AddRow(u, v), w) = AddRow(u, AddRow(v, w))
         /\ \A u \in Vectors(I) :
              /\ AddRow(u, ZeroOn(I)) = u /\ AddRow(ZeroOn(I), u) = u
              /\ AddRow(u, u) = ZeroOn(I)
<1>1. ZeroOn(I) \in Vectors(I)
  BY DEF ZeroOn, Vectors, Field
<1>2. ASSUME NEW u \in Vectors(I), NEW v \in Vectors(I)
      PROVE  /\ AddRow(u, v) = [k \in I |-> Xor(u[k], v[k])]
             /\ AddRow(u, v) \in Vectors(I) /\ \A k \in I : AddRow(u, v)[k] = Xor(u[k], v[k])
  BY XorLaws DEF AddRow, Vectors
<1>3. ASSUME NEW u \in Vectors(I), NEW v \in Vectors(I)
      PROVE  AddRow(u, v) = AddRow(v, u)
  <2>1. \A k \in I : Xor(u[k], v[k]) = Xor(v[k], u[k])
    BY XorLaws DEF Vectors
  <2>2. QED
    BY <1>2, <2>1
<1>4. ASSUME NEW u \in Vectors(I), NEW v \in Vectors(I), NEW w \in Vectors(I)
      PROVE  AddRow(AddRow(u, v), w) = AddRow(u, AddRow(v, w))
  <2>1. \A k \in I : Xor(Xor(u[k], v[k]), w[k]) = Xor(u[k], Xor(v[k], w[k]))
    BY XorLaws DEF Vectors
  <2>2. AddRow(AddRow(u, v), w) = [k \in I |-> Xor(Xor(u[k], v[k]), w[k])]
    <3>1. AddRow(AddRow(u, v), w) = [k \in I |-> Xor(AddRow(u, v)[k], w[k])]
      BY <1>2
    <3>2. QED
      BY <1>2, <3>1
  <2>3. AddRow(u, AddRow(v, w)) = [k \in I |-> Xor(u[k], Xor(v[k], w[k]))]
    <3>1. AddRow(u, AddRow(v, w)) = [k \in I |-> Xor(u[k], AddRow(v, w)[k])]
      BY <1>2
    <3>2. QED
      BY <1>2, <3>1
  <2>4. QED
    BY <2>1, <2>2, <2>3
<1>5. ASSUME NEW u \in Vectors(I)
      PROVE  /\ AddRow(u, ZeroOn(I)) = u /\ AddRow(ZeroOn(I), u) = u
             /\ AddRow(u, u) = ZeroOn(I)
  <2>1. \A k \in I : Xor(u[k], 0) = u[k] /\ Xor(0, u[k]) = u[k] /\ Xor(u[k], u[k]) = 0
    BY XorLaws DEF Vectors
  <2>2. u = [k \in I |-> u[k]] /\ \A k \in I : ZeroOn(I)[k] = 0
    BY DEF Vectors, ZeroOn
  <2>3. AddRow(u, ZeroOn(I)) = [k \in I |-> u[k]]
    BY <1>1, <1>2, <2>1, <2>2
  <2>4. AddRow(ZeroOn(I), u) = [k \in I |-> u[k]]
    BY <1>1, <1>2, <2>1, <2>2
  <2>5. AddRow(u, u) = [k \in I |-> 0]
    BY <1>2, <2>1
  <2>6. QED
    BY <2>2, <2>3, <2>4, <2>5 DEF ZeroOn
<1>6. QED
  BY <1>1, <1>2, <1>3, <1>4, <1>5

\* Rearrangements of sums of vectors.
LEMMA AddRowShuffle ==
  ASSUME NEW I
  PROVE  /\ \A u, v, w \in Vectors(I) : AddRow(u, AddRow(v, w)) = AddRow(v, AddRow(u, w))
         /\ \A a, b, c, d \in Vectors(I) :
              AddRow(AddRow(a, b), AddRow(c, d)) = AddRow(AddRow(a, c), AddRow(b, d))
         /\ \A u, v \in Vectors(I) : AddRow(u, AddRow(u, v)) = v
         /\ \A u, v \in Vectors(I) : AddRow(u, v) = ZeroOn(I) => u = v
<1>1. /\ ZeroOn(I) \in Vectors(I)
      /\ \A u, v \in Vectors(I) : AddRow(u, v) \in Vectors(I)
      /\ \A u, v \in Vectors(I) : AddRow(u, v) = AddRow(v, u)
      /\ \A u, v, w \in Vectors(I) : AddRow(AddRow(u, v), w) = AddRow(u, AddRow(v, w))
      /\ \A u \in Vectors(I) : AddRow(u, ZeroOn(I)) = u
      /\ \A u \in Vectors(I) : AddRow(ZeroOn(I), u) = u
      /\ \A u \in Vectors(I) : AddRow(u, u) = ZeroOn(I)
  BY AddRowLaws
<1>2. ASSUME NEW u \in Vectors(I), NEW v \in Vectors(I), NEW w \in Vectors(I)
      PROVE  AddRow(u, AddRow(v, w)) = AddRow(v, AddRow(u, w))
  <2>1. AddRow(u, AddRow(v, w)) = AddRow(AddRow(u, v), w)
    BY <1>1
  <2>2. AddRow(v, AddRow(u, w)) = AddRow(AddRow(v, u), w)
    BY <1>1
  <2>3. QED
    BY <1>1, <2>1, <2>2
<1>3. ASSUME NEW a \in Vectors(I), NEW b \in Vectors(I), NEW c \in Vectors(I), NEW d \in Vectors(I)
      PROVE  AddRow(AddRow(a, b), AddRow(c, d)) = AddRow(AddRow(a, c), AddRow(b, d))
  <2>1. AddRow(AddRow(a, b), AddRow(c, d)) = AddRow(a, AddRow(b, AddRow(c, d)))
    BY <1>1
  <2>2. AddRow(AddRow(a, c), AddRow(b, d)) = AddRow(a, AddRow(c, AddRow(b, d)))
    BY <1>1
  <2>3. AddRow(b, AddRow(c, d)) = AddRow(c, AddRow(b, d))
    BY <1>2
  <2>4. QED
    BY <2>1, <2>2, <2>3
<1>4. ASSUME NEW u \in Vectors(I), NEW v \in Vectors(I)
      PROVE  AddRow(u, AddRow(u, v)) = v
  <2>1. AddRow(AddRow(u, u), v) = AddRow(u, AddRow(u, v))
    BY <1>1
  <2>2. QED
    BY <1>1, <2>1
<1>5. ASSUME NEW u \in Vectors(I), NEW v \in Vectors(I), AddRow(u, v) = ZeroOn(I)
      PROVE  u = v
  <2>1. AddRow(u, AddRow(u, v)) = v
    BY <1>4
  <2>2. QED
    BY <1>1, <1>5, <2>1
<1>6. QED
  BY <1>2, <1>3, <1>4, <1>5

\* Multiples of vectors.
LEMMA ScaleLaws ==
  ASSUME NEW I
  PROVE  /\ \A u \in Vectors(I), a \in Field : Scale(u, a) \in Vectors(I)
         /\ \A u, v \in Vectors(I), a \in Field : Scale(AddRow(u, v), a) = AddRow(Scale(u, a), Scale(v, a))
         /\ \A u \in Vectors(I), a, b \in Field : Scale(u, Xor(a, b)) = AddRow(Scale(u, a), Scale(u, b))
         /\ \A u \in Vectors(I), a, b \in Field : Scale(Scale(u, a), b) = Scale(u, Mul(a, b))
         /\ \A u \in Vectors(I) : Scale(u, 0) = ZeroOn(I) /\ Scale(u, 1) = u
         /\ \A a \in Field : Scale(ZeroOn(I), a) = ZeroOn(I)
<1>0. 0 \in Field /\ 1 \in Field
  BY DEF Field
<1>1. ASSUME NEW u \in Vectors(I), NEW a \in Field
      PROVE  /\ Scale(u, a) = [k \in I |-> Mul(u[k], a)]
             /\ Scale(u, a) \in Vectors(I) /\ \A k \in I : Scale(u, a)[k] = Mul(u[k], a)
  BY MulLaws DEF Scale, Vectors
<1>2. ASSUME NEW u \in Vectors(I), NEW v \in Vectors(I)
      PROVE  /\ AddRow(u, v) = [k \in I |-> Xor(u[k], v[k])]
             /\ AddRow(u, v) \in Vectors(I) /\ \A k \in I : AddRow(u, v)[k] = Xor(u[k], v[k])
  BY XorLaws DEF AddRow, Vectors
<1>3. ASSUME NEW u \in Vectors(I), NEW v \in Vectors(I), NEW a \in Field
      PROVE  Scale(AddRow(u, v), a) = AddRow(Scale(u, a), Scale(v, a))
  <2>1. \A k \in I : Mul(Xor(u[k], v[k]), a) = Xor(Mul(u[k], a), Mul(v[k], a))
    BY MulLaws DEF Vectors
  <2>2. Scale(AddRow(u, v), a) = [k \in I |-> Mul(Xor(u[k], v[k]), a)]
    <3>1. Scale(AddRow(u, v), a) = [k \in I |-> Mul(AddRow(u, v)[k], a)]
      BY <1>1, <1>2
    <3>2. QED
      BY <1>2, <3>1
  <2>3. AddRow(Scale(u, a), Scale(v, a)) = [k \in I |-> Xor(Mul(u[k], a), Mul(v[k], a))]
    <3>1. AddRow(Scale(u, a), Scale(v, a)) = [k \in I |-> Xor(Scale(u, a)[k], Scale(v, a)[k])]
      BY <1>1, <1>2
    <3>2. QED
      BY <1>1, <3>1
  <2>4. QED
    BY <2>1, <2>2, <2>3
<1>4. ASSUME NEW u \in Vectors(I), NEW a \in Field, NEW b \in Field
      PROVE  Scale(u, Xor(a, b)) = AddRow(Scale(u, a), Scale(u, b))
  <2>1. \A k \in I : Mul(u[k], Xor(a, b)) = Xor(Mul(u[k], a), Mul(u[k], b))
    BY MulLaws DEF Vectors
  <2>2. Scale(u, Xor(a, b)) = [k \in I |-> Mul(u[k], Xor(a, b))]
    BY <1>1, XorLaws
  <2>3. AddRow(Scale(u, a), Scale(u, b)) = [k \in I |-> Xor(Mul(u[k], a), Mul(u[k], b))]
    <3>1. AddRow(Scale(u, a), Scale(u, b)) = [k \in I |-> Xor(Scale(u, a)[k], Scale(u, b)[k])]
      BY <1>1, <1>2
    <3>2. QED
      BY <1>1, <3>1
  <2>4. QED
    BY <2>1, <2>2, <2>3
<1>5. ASSUME NEW u \in Vectors(I), NEW a \in Field, NEW b \in Field
      PROVE  Scale(Scale(u, a), b) = Scale(u, Mul(a, b))
  <2>1. \A k \in I : Mul(Mul(u[k], a), b) = Mul(u[k], Mul(a, b))
    BY MulLaws DEF Vectors
  <2>2. Scale(Scale(u, a), b) = [k \in I |-> Mul(Mul(u[k], a), b)]
    <3>1. Scale(Scale(u, a), b) = [k \in I |-> Mul(Scale(u, a)[k], b)]
      BY <1>1
    <3>2. QED
      BY <1>1, <3>1
  <2>3. Scale(u, Mul(a, b)) = [k \in I |-> Mul(u[k], Mul(a, b))]
    BY <1>1, MulLaws
  <2>4. QED
    BY <2>1, <2>2, <2>3
<1>6. ASSUME NEW u \in Vectors(I)
      PROVE  Scale(u, 0) = ZeroOn(I) /\ Scale(u, 1) = u
  <2>1. \A k \in I : Mul(u[k], 0) = 0 /\ Mul(u[k], 1) = u[k]
    BY MulLaws DEF Vectors
  <2>2. Scale(u, 0) = [k \in I |-> 0] /\ Scale(u, 1) = [k \in I |-> u[k]]
    BY <1>0, <1>1, <2>1
  <2>3. u = [k \in I |-> u[k]]
    BY DEF Vectors
  <2>4. QED
    BY <2>2, <2>3 DEF ZeroOn
<1>7. ASSUME NEW a \in Field
      PROVE  Scale(ZeroOn(I), a) = ZeroOn(I)
  <2>1. Mul(0, a) = 0
    BY MulLaws
  <2>2. QED
    BY <2>1 DEF Scale, ZeroOn
<1>8. QED
  BY <1>1, <1>3, <1>4, <1>5, <1>6, <1>7

-----------------------------------------------------------------------------
(***************************************************************************)
(* Sums of vectors over finite sets.                                       *)
(***************************************************************************)
Total(f, S, I) == XorOver(f, S, ZeroOn(I))
VectorsOver(f, S, I) == IsFiniteSet(S) /\ \A x \in S : f[x] \in Vectors(I)
IsSumFrom(f, S, I, base, iter) ==
  /\ iter \in [SUBSET S -> Vectors(I)]
  /\ iter[{}] = base
  /\ \A U \in SUBSET S : U # {} => iter[U] = AddRow(f[ElementOf(U)], iter[U \ {ElementOf(U)}])

\* A sum, from a first vector on, is computed by some function over the subsets.
LEMMA XorOverIter ==
  ASSUME NEW S, NEW f, NEW I, VectorsOver(f, S, I), NEW base \in Vectors(I)
  PROVE  \E iter : IsSumFrom(f, S, I, base, iter) /\ XorOver(f, S, base) = iter[S]
<1> DEFINE W == Vectors(I)
           zero == base
           pick == [U \in SUBSET S |-> ElementOf(U)]
           step == [p \in S \X W |-> AddRow(f[p[1]], p[2])]
           Is(g) == g = [s \in SUBSET S |-> IF s = {} THEN zero
                                            ELSE LET x == CHOOSE x \in s : TRUE
                                                 IN  AddRow(f[x], g[s \ {x}])]
<1>0. IsFiniteSet(S) /\ \A x \in S : f[x] \in W
  BY DEF VectorsOver
<1>1. \A U \in SUBSET S : U # {} => pick[U] \in U /\ ElementOf(U) \in U
  BY DEF ElementOf
<1>2. \A x \in S, w \in W : step[<<x, w>>] \in W /\ step[<<x, w>>] = AddRow(f[x], w)
  <2> TAKE x \in S, w \in W
  <2>1. <<x, w>> \in S \X W
    OBVIOUS
  <2>2. step[<<x, w>>] = AddRow(f[x], w)
    <3> HIDE DEF W
    <3> QED BY <2>1
  <2>3. AddRow(f[x], w) \in W
    BY <1>0, AddRowLaws
  <2>4. QED
    BY <2>2, <2>3
<1>3. zero \in W
  OBVIOUS
<1>4. PICK h : IsFold(S, W, zero, pick, step, h)
  <2> HIDE DEF W, zero
  <2>1. FoldOver(S, W, zero, pick, step)
    <3>1. \A U \in SUBSET S : U # {} => pick[U] \in U
      BY <1>1
    <3>2. \A x \in S : \A w \in W : step[<<x, w>>] \in W
      BY <1>2
    <3> HIDE DEF pick, step
    <3>3. QED
      BY <1>0, <1>3, <3>1, <3>2 DEF FoldOver
  <2> HIDE DEF pick, step, Is
  <2>2. QED
    BY <2>1, FoldExists
<1>5. /\ h \in [SUBSET S -> W] /\ h[{}] = zero
      /\ \A U \in SUBSET S : U # {} => h[U] = step[<<pick[U], h[U \ {pick[U]}]>>]
  <2> HIDE DEF W, zero, pick, step
  <2> QED BY <1>4 DEF IsFold
<1> HIDE DEF W, zero
<1>6. \A U \in SUBSET S : U # {} => h[U] = AddRow(f[ElementOf(U)], h[U \ {ElementOf(U)}])
  <2> TAKE U \in SUBSET S
  <2> HAVE U # {}
  <2>1. pick[U] = ElementOf(U) /\ ElementOf(U) \in S
    BY <1>1
  <2>2. h[U \ {ElementOf(U)}] \in W
    BY <1>5
  <2> HIDE DEF pick, step
  <2>3. QED
    BY <1>2, <1>5, <2>1, <2>2
<1>7. h = [s \in SUBSET S |-> IF s = {} THEN zero ELSE AddRow(f[ElementOf(s)], h[s \ {ElementOf(s)}])]
  BY <1>5, <1>6
<1>8. Is(h)
  BY <1>7 DEF ElementOf
<1>9. XorOver(f, S, base) = (CHOOSE g : Is(g))[S]
  BY DEF XorOver, FoldFunctionOnSet, MapThenFoldSet, zero
<1>10. Is(CHOOSE g : Is(g))
  <2> HIDE DEF Is
  <2>1. QED
    BY <1>8
<1>11. PICK k : Is(k) /\ XorOver(f, S, base) = k[S]
  BY <1>9, <1>10
<1>12. \A U \in SUBSET S : k[U] = h[U]
  <2> DEFINE T == {U \in SUBSET S : k[U] = h[U]}
  <2>1. ASSUME NEW U \in SUBSET S, \A V \in SUBSET U : V # U => V \in T
        PROVE  U \in T
    <3>1. CASE U = {}
      <4>1. k[{}] = zero
        BY <1>11
      <4>2. QED
        BY <1>5, <3>1, <4>1
    <3>2. CASE U # {}
      <4>1. ElementOf(U) \in U
        BY <1>1, <3>2
      <4>2. k[U \ {ElementOf(U)}] = h[U \ {ElementOf(U)}]
        BY <2>1, <4>1
      <4>3. k[U] = AddRow(f[ElementOf(U)], k[U \ {ElementOf(U)}])
        BY <1>11, <3>2 DEF ElementOf
      <4>4. QED
        BY <1>6, <3>2, <4>2, <4>3
    <3>3. QED
      BY <3>1, <3>2
  <2>2. SUBSET S \subseteq T
    <3>1. \A U \in SUBSET S : (\A V \in SUBSET U : V # U => V \in T) => U \in T
      BY <2>1
    <3> HIDE DEF T
    <3>2. QED
      BY <1>0, <3>1, SubsetInduction
  <2>3. QED
    BY <2>2
<1>13. XorOver(f, S, base) = h[S]
  BY <1>11, <1>12
<1>14. IsSumFrom(f, S, I, base, h)
  BY <1>5, <1>6 DEF IsSumFrom, W, zero
<1>15. QED
  BY <1>13, <1>14

IsTotal(f, S, I, iter) == IsSumFrom(f, S, I, ZeroOn(I), iter)

\* The sum from zero on.
LEMMA TotalIter ==
  ASSUME NEW S, NEW f, NEW I, VectorsOver(f, S, I)
  PROVE  \E iter : IsTotal(f, S, I, iter) /\ Total(f, S, I) = iter[S]
<1>1. ZeroOn(I) \in Vectors(I)
  BY AddRowLaws
<1>2. PICK iter : IsSumFrom(f, S, I, ZeroOn(I), iter) /\ XorOver(f, S, ZeroOn(I)) = iter[S]
  BY <1>1, XorOverIter
<1>3. QED
  BY <1>2 DEF IsTotal, Total

\* A sum of vectors is one.
LEMMA SumTyped ==
  ASSUME NEW S, NEW f, NEW I, VectorsOver(f, S, I), NEW base \in Vectors(I)
  PROVE  XorOver(f, S, base) \in Vectors(I)
<1>1. PICK iter : IsSumFrom(f, S, I, base, iter) /\ XorOver(f, S, base) = iter[S]
  BY XorOverIter
<1>2. iter[S] \in Vectors(I)
  BY <1>1 DEF IsSumFrom
<1>3. QED
  BY <1>1, <1>2

\* The sum of a part of S is the same, taken alone or on the way to the sum of S.
LEMMA TotalPartial ==
  ASSUME NEW S, NEW f, NEW I, VectorsOver(f, S, I), NEW iter, IsTotal(f, S, I, iter)
  PROVE  \A U \in SUBSET S : Total(f, U, I) = iter[U]
<1> SUFFICES ASSUME NEW R \in SUBSET S
             PROVE  Total(f, R, I) = iter[R]
  OBVIOUS
<1>1. IsFiniteSet(R) /\ VectorsOver(f, R, I)
  BY FS_Subset DEF VectorsOver
<1>2. PICK part : IsTotal(f, R, I, part) /\ Total(f, R, I) = part[R]
  BY <1>1, TotalIter
<1> DEFINE G == {U \in SUBSET R : part[U] = iter[U]}
<1>3. ASSUME NEW U \in SUBSET R, \A V \in SUBSET U : V # U => V \in G
      PROVE  U \in G
  <2>1. CASE U = {}
    BY <1>2, <2>1 DEF IsTotal, IsSumFrom
  <2>2. CASE U # {}
    <3>1. ElementOf(U) \in U
      BY <2>2 DEF ElementOf
    <3>2. part[U \ {ElementOf(U)}] = iter[U \ {ElementOf(U)}]
      BY <1>3, <3>1
    <3>3. QED
      BY <1>2, <2>2, <3>2 DEF IsTotal, IsSumFrom
  <2>3. QED
    BY <2>1, <2>2
<1>4. SUBSET R \subseteq G
  <2>1. \A U \in SUBSET R : (\A V \in SUBSET U : V # U => V \in G) => U \in G
    BY <1>3
  <2> HIDE DEF G
  <2>2. QED
    BY <1>1, <2>1, SubsetInduction
<1>5. QED
  BY <1>2, <1>4

\* The empty sum.
LEMMA TotalEmpty ==
  ASSUME NEW f, NEW I
  PROVE  Total(f, {}, I) = ZeroOn(I)
<1>1. VectorsOver(f, {}, I)
  BY FS_EmptySet DEF VectorsOver
<1>2. PICK iter : IsTotal(f, {}, I, iter) /\ Total(f, {}, I) = iter[{}]
  BY <1>1, TotalIter
<1>3. QED
  BY <1>2 DEF IsTotal, IsSumFrom

\* A sum does not depend on the order it is taken in.
LEMMA TotalTake ==
  ASSUME NEW S, NEW f, NEW I, VectorsOver(f, S, I)
  PROVE  /\ Total(f, S, I) \in Vectors(I)
         /\ \A x \in S : Total(f, S, I) = AddRow(f[x], Total(f, S \ {x}, I))
<1>0. IsFiniteSet(S) /\ \A x \in S : f[x] \in Vectors(I)
  BY DEF VectorsOver
<1>1. PICK iter : IsTotal(f, S, I, iter)
  BY TotalIter
<1>2. \A U \in SUBSET S : Total(f, U, I) = iter[U]
  BY <1>1, TotalPartial
<1> DEFINE G == {U \in SUBSET S : \A x \in U : iter[U] = AddRow(f[x], iter[U \ {x}])}
<1>3. ASSUME NEW U \in SUBSET S, \A V \in SUBSET U : V # U => V \in G
      PROVE  U \in G
  <2> SUFFICES ASSUME NEW x \in U
               PROVE  iter[U] = AddRow(f[x], iter[U \ {x}])
    OBVIOUS
  <2> DEFINE c == ElementOf(U)
  <2>1. c \in U
    BY DEF ElementOf
  <2>2. iter[U] = AddRow(f[c], iter[U \ {c}])
    BY <1>1 DEF IsTotal, IsSumFrom
  <2>3. CASE x = c
    BY <2>2, <2>3
  <2>4. CASE x # c
    <3> DEFINE V == (U \ {c}) \ {x}
    <3>1. V = (U \ {x}) \ {c}
      OBVIOUS
    <3>2. iter[U \ {c}] = AddRow(f[x], iter[V])
      <4>1. U \ {c} \in G /\ x \in U \ {c}
        BY <1>3, <2>1, <2>4
      <4>2. QED
        BY <4>1
    <3>3. iter[U \ {x}] = AddRow(f[c], iter[V])
      <4>1. U \ {x} \in G /\ c \in U \ {x}
        BY <1>3, <2>1, <2>4
      <4>2. QED
        BY <3>1, <4>1
    <3>4. f[x] \in Vectors(I) /\ f[c] \in Vectors(I) /\ iter[V] \in Vectors(I)
      BY <1>0, <1>1, <2>1 DEF IsTotal, IsSumFrom
    <3> HIDE DEF V, c
    <3>5. AddRow(f[c], AddRow(f[x], iter[V])) = AddRow(f[x], AddRow(f[c], iter[V]))
      BY <3>4, AddRowShuffle
    <3>6. QED
      BY <2>2, <3>2, <3>3, <3>5
  <2>5. QED
    BY <2>3, <2>4
<1>4. SUBSET S \subseteq G
  <2>1. \A U \in SUBSET S : (\A V \in SUBSET U : V # U => V \in G) => U \in G
    BY <1>3
  <2> HIDE DEF G
  <2>2. QED
    BY <1>0, <2>1, SubsetInduction
<1>5. S \in G
  BY <1>4
<1>6. \A x \in S : iter[S] = AddRow(f[x], iter[S \ {x}])
  BY <1>5
<1>7. iter[S] \in Vectors(I)
  BY <1>1 DEF IsTotal, IsSumFrom
<1>8. QED
  BY <1>2, <1>6, <1>7

\* The sum with one element more.
LEMMA TotalWith ==
  ASSUME NEW S, NEW x, x \notin S, NEW f, NEW I, VectorsOver(f, S \cup {x}, I)
  PROVE  Total(f, S \cup {x}, I) = AddRow(f[x], Total(f, S, I))
<1>1. Total(f, S \cup {x}, I) = AddRow(f[x], Total(f, (S \cup {x}) \ {x}, I))
  BY TotalTake
<1>2. (S \cup {x}) \ {x} = S
  OBVIOUS
<1>3. QED
  BY <1>1, <1>2

\* f, g and h are such that h is their sum on S.
Plus(S, I, f, g, h) ==
  VectorsOver(f, S, I) /\ VectorsOver(g, S, I) /\ \A x \in S : h[x] = AddRow(f[x], g[x])

\* The sum of sums.
LEMMA TotalPlus ==
  ASSUME NEW S, NEW I, NEW f, NEW g, NEW h, Plus(S, I, f, g, h)
  PROVE  Total(h, S, I) = AddRow(Total(f, S, I), Total(g, S, I)) /\ VectorsOver(h, S, I)
<1>0. /\ IsFiniteSet(S) /\ \A x \in S : h[x] = AddRow(f[x], g[x])
      /\ \A x \in S : f[x] \in Vectors(I) /\ g[x] \in Vectors(I)
  BY DEF Plus, VectorsOver
<1>1. \A x \in S : h[x] \in Vectors(I)
  BY <1>0, AddRowLaws
<1>2. \A U \in SUBSET S : VectorsOver(f, U, I) /\ VectorsOver(g, U, I) /\ VectorsOver(h, U, I)
  BY <1>0, <1>1, FS_Subset DEF VectorsOver
<1> DEFINE T == {U \in SUBSET S : Total(h, U, I) = AddRow(Total(f, U, I), Total(g, U, I))}
<1>3. ASSUME NEW U \in SUBSET S, \A V \in SUBSET U : V # U => V \in T
      PROVE  U \in T
  <2>1. CASE U = {}
    <3>1. Total(h, U, I) = ZeroOn(I) /\ Total(f, U, I) = ZeroOn(I) /\ Total(g, U, I) = ZeroOn(I)
      BY <2>1, TotalEmpty
    <3>2. AddRow(ZeroOn(I), ZeroOn(I)) = ZeroOn(I)
      BY AddRowLaws
    <3>3. QED
      BY <3>1, <3>2
  <2>2. CASE U # {}
    <3>1. PICK x : x \in U
      BY <2>2
    <3>2. PICK V : V = U \ {x} /\ V \in SUBSET U /\ V # U /\ V \in SUBSET S
      <4>1. U \ {x} \in SUBSET U /\ U \ {x} # U /\ U \ {x} \in SUBSET S
        BY <3>1
      <4>2. QED
        BY <4>1
    <3>3. Total(h, V, I) = AddRow(Total(f, V, I), Total(g, V, I))
      BY <1>3, <3>2
    <3>4. /\ Total(f, U, I) = AddRow(f[x], Total(f, V, I))
          /\ Total(g, U, I) = AddRow(g[x], Total(g, V, I))
          /\ Total(h, U, I) = AddRow(h[x], Total(h, V, I))
      BY <1>2, <3>1, <3>2, TotalTake
    <3>5. Total(f, V, I) \in Vectors(I) /\ Total(g, V, I) \in Vectors(I)
      BY <1>2, <3>2, TotalTake
    <3>6. f[x] \in Vectors(I) /\ g[x] \in Vectors(I) /\ h[x] = AddRow(f[x], g[x])
      BY <1>0, <3>1
    <3>7. AddRow(AddRow(f[x], g[x]), AddRow(Total(f, V, I), Total(g, V, I)))
            = AddRow(AddRow(f[x], Total(f, V, I)), AddRow(g[x], Total(g, V, I)))
      BY <3>5, <3>6, AddRowShuffle
    <3>8. QED
      BY <3>3, <3>4, <3>6, <3>7
  <2>3. QED
    BY <2>1, <2>2
<1>4. SUBSET S \subseteq T
  <2>1. \A U \in SUBSET S : (\A V \in SUBSET U : V # U => V \in T) => U \in T
    BY <1>3
  <2> HIDE DEF T
  <2>2. QED
    BY <1>0, <2>1, SubsetInduction
<1>5. S \in T
  BY <1>4
<1>6. QED
  BY <1>2, <1>5

\* Members that are zero may be left out, and where g is f, g's sum is f's.
Within(S, I, f, R, g) ==
  /\ VectorsOver(f, S, I) /\ R \in SUBSET S
  /\ \A x \in R : g[x] = f[x]
  /\ \A x \in S \ R : f[x] = ZeroOn(I)

\* A sum is that of its members that are not zero.
LEMMA TotalWithin ==
  ASSUME NEW S, NEW I, NEW f, NEW R, NEW g, Within(S, I, f, R, g)
  PROVE  Total(f, S, I) = Total(g, R, I) /\ VectorsOver(g, R, I)
<1>0. /\ IsFiniteSet(S) /\ R \subseteq S /\ \A x \in S : f[x] \in Vectors(I)
      /\ \A x \in R : g[x] = f[x]
      /\ \A x \in S \ R : f[x] = ZeroOn(I)
  BY DEF Within, VectorsOver
<1>1. \A U \in SUBSET S : VectorsOver(f, U, I)
  BY <1>0, FS_Subset DEF VectorsOver
<1>2. \A U \in SUBSET R : VectorsOver(g, U, I)
  <2>1. ASSUME NEW U \in SUBSET R
        PROVE  VectorsOver(g, U, I)
    <3>1. IsFiniteSet(U)
      <4>1. U \subseteq S
        BY <1>0
      <4>2. QED
        BY <1>0, <4>1, FS_Subset
    <3>2. \A x \in U : g[x] \in Vectors(I)
      BY <1>0
    <3>3. QED
      BY <3>1, <3>2 DEF VectorsOver
  <2>2. QED
    BY <2>1
<1> DEFINE T == {U \in SUBSET S : Total(f, U, I) = Total(g, U \cap R, I)}
<1>3. ASSUME NEW U \in SUBSET S, \A V \in SUBSET U : V # U => V \in T
      PROVE  U \in T
  <2>1. CASE U = {}
    <3>1. U \cap R = {}
      BY <2>1
    <3>2. Total(f, {}, I) = ZeroOn(I) /\ Total(g, {}, I) = ZeroOn(I)
      BY TotalEmpty
    <3>3. QED
      BY <2>1, <3>1, <3>2
  <2>2. CASE U # {}
    <3>1. PICK x : x \in U
      BY <2>2
    <3>2. PICK V : V = U \ {x} /\ V \in SUBSET U /\ V # U /\ V \in SUBSET S
      <4>1. U \ {x} \in SUBSET U /\ U \ {x} # U /\ U \ {x} \in SUBSET S
        BY <3>1
      <4>2. QED
        BY <4>1
    <3>3. Total(f, V, I) = Total(g, V \cap R, I)
      BY <1>3, <3>2
    <3>4. Total(f, U, I) = AddRow(f[x], Total(f, V, I))
      BY <1>1, <3>1, <3>2, TotalTake
    <3>5. Total(f, V, I) \in Vectors(I)
      BY <1>1, <3>2, TotalTake
    <3>6. CASE x \in R
      <4>1. x \in U \cap R /\ (U \cap R) \ {x} = V \cap R /\ U \cap R \in SUBSET R
        BY <3>1, <3>2, <3>6
      <4>2. Total(g, U \cap R, I) = AddRow(g[x], Total(g, V \cap R, I))
        BY <1>2, <4>1, TotalTake
      <4>3. g[x] = f[x]
        BY <1>0, <3>6
      <4>4. QED
        BY <3>3, <3>4, <4>2, <4>3
    <3>7. CASE x \notin R
      <4>1. U \cap R = V \cap R
        BY <3>1, <3>2, <3>7
      <4>2. f[x] = ZeroOn(I)
        BY <1>0, <3>1, <3>7
      <4>3. AddRow(ZeroOn(I), Total(f, V, I)) = Total(f, V, I)
        BY <3>5, AddRowLaws
      <4>4. QED
        BY <3>3, <3>4, <4>1, <4>2, <4>3
    <3>8. QED
      BY <3>6, <3>7
  <2>3. QED
    BY <2>1, <2>2
<1>4. SUBSET S \subseteq T
  <2>1. \A U \in SUBSET S : (\A V \in SUBSET U : V # U => V \in T) => U \in T
    BY <1>3
  <2> HIDE DEF T
  <2>2. QED
    BY <1>0, <2>1, SubsetInduction
<1>5. S \in T /\ S \cap R = R
  BY <1>0, <1>4
<1>6. Total(f, S, I) = Total(g, S \cap R, I)
  BY <1>5
<1>7. QED
  BY <1>2, <1>5, <1>6

\* Functions that agree on S have the same sum.
LEMMA TotalSame ==
  ASSUME NEW S, NEW I, NEW f, NEW g, VectorsOver(f, S, I), \A x \in S : g[x] = f[x]
  PROVE  Total(g, S, I) = Total(f, S, I) /\ VectorsOver(g, S, I)
<1>1. Within(S, I, f, S, g)
  BY DEF Within
<1>2. QED
  BY <1>1, TotalWithin

\* A sum of which only one member is not zero.
LEMMA TotalOne ==
  ASSUME NEW S, NEW I, NEW f, NEW x \in S, VectorsOver(f, S, I), \A y \in S \ {x} : f[y] = ZeroOn(I)
  PROVE  Total(f, S, I) = f[x]
<1>1. Within(S, I, f, {x}, f)
  BY DEF Within
<1>2. Total(f, S, I) = Total(f, {x}, I) /\ VectorsOver(f, {x}, I)
  BY <1>1, TotalWithin
<1>3. Total(f, {x}, I) = AddRow(f[x], Total(f, {x} \ {x}, I))
  BY <1>2, TotalTake
<1>4. {x} \ {x} = {} /\ f[x] \in Vectors(I)
  BY DEF VectorsOver
<1>5. AddRow(f[x], ZeroOn(I)) = f[x]
  BY <1>4, AddRowLaws
<1>6. QED
  BY <1>2, <1>3, <1>4, <1>5, TotalEmpty

\* Sums over two sets cancel where both have the element.
LEMMA TotalDelta ==
  ASSUME NEW S, NEW I, NEW f, VectorsOver(f, S, I), NEW A \in SUBSET S, NEW B \in SUBSET S
  PROVE  Total(f, SymDiff(A, B), I) = AddRow(Total(f, A, I), Total(f, B, I))
<1> DEFINE C == SymDiff(A, B)
           fa == [x \in S |-> IF x \in A THEN f[x] ELSE ZeroOn(I)]
           fb == [x \in S |-> IF x \in B THEN f[x] ELSE ZeroOn(I)]
           fc == [x \in S |-> IF x \in C THEN f[x] ELSE ZeroOn(I)]
<1>0. IsFiniteSet(S) /\ (\A x \in S : f[x] \in Vectors(I)) /\ ZeroOn(I) \in Vectors(I)
  BY AddRowLaws DEF VectorsOver
<1>1. C \in SUBSET S /\ \A x \in S : x \in C <=> ~(x \in A <=> x \in B)
  BY DEF SymDiff
<1>2. Within(S, I, fa, A, f) /\ Within(S, I, fb, B, f)
  BY <1>0 DEF Within, VectorsOver
<1>3. Within(S, I, fc, C, f)
  <2> HIDE DEF C
  <2> QED BY <1>0, <1>1 DEF Within, VectorsOver
<1>4. Plus(S, I, fa, fb, fc)
  <2>1. VectorsOver(fa, S, I) /\ VectorsOver(fb, S, I)
    BY <1>2 DEF Within
  <2>2. ASSUME NEW x \in S
        PROVE  fc[x] = AddRow(fa[x], fb[x])
    <3>1. /\ AddRow(f[x], f[x]) = ZeroOn(I) /\ AddRow(f[x], ZeroOn(I)) = f[x]
          /\ AddRow(ZeroOn(I), f[x]) = f[x] /\ AddRow(ZeroOn(I), ZeroOn(I)) = ZeroOn(I)
      BY <1>0, AddRowLaws
    <3> HIDE DEF C
    <3>2. QED
      BY <1>1, <3>1
  <2> HIDE DEF fa, fb, fc
  <2>3. QED
    BY <2>1, <2>2 DEF Plus
<1> HIDE DEF fa, fb, fc, C
<1>5. Total(fc, S, I) = AddRow(Total(fa, S, I), Total(fb, S, I))
  BY <1>4, TotalPlus
<1>6. /\ Total(fa, S, I) = Total(f, A, I) /\ Total(fb, S, I) = Total(f, B, I)
      /\ Total(fc, S, I) = Total(f, C, I)
  BY <1>2, <1>3, TotalWithin
<1>7. QED
  BY <1>5, <1>6 DEF C

\* g is what an additive map L makes of f.
Mapped(S, I, J, f, L, g) ==
  /\ VectorsOver(f, S, I)
  /\ \A u \in Vectors(I) : L[u] \in Vectors(J)
  /\ \A u, v \in Vectors(I) : L[AddRow(u, v)] = AddRow(L[u], L[v])
  /\ \A x \in S : g[x] = L[f[x]]

\* An additive map takes a sum to the sum of what it takes the members to.
LEMMA TotalMapped ==
  ASSUME NEW S, NEW J, NEW g, NEW f, NEW L, NEW I, Mapped(S, I, J, f, L, g)
  PROVE  Total(g, S, J) = L[Total(f, S, I)] /\ VectorsOver(g, S, J)
<1>0. /\ IsFiniteSet(S)
      /\ \A x \in S : f[x] \in Vectors(I) /\ g[x] = L[f[x]]
      /\ \A u \in Vectors(I) : L[u] \in Vectors(J)
      /\ \A u, v \in Vectors(I) : L[AddRow(u, v)] = AddRow(L[u], L[v])
  BY DEF Mapped, VectorsOver
<1>1. \A U \in SUBSET S : VectorsOver(f, U, I) /\ VectorsOver(g, U, J)
  BY <1>0, FS_Subset DEF VectorsOver
<1>2. L[ZeroOn(I)] = ZeroOn(J)
  <2>1. ZeroOn(I) \in Vectors(I) /\ AddRow(ZeroOn(I), ZeroOn(I)) = ZeroOn(I)
    BY AddRowLaws
  <2>2. L[ZeroOn(I)] \in Vectors(J) /\ L[ZeroOn(I)] = AddRow(L[ZeroOn(I)], L[ZeroOn(I)])
    BY <1>0, <2>1
  <2>3. AddRow(L[ZeroOn(I)], L[ZeroOn(I)]) = ZeroOn(J)
    BY <2>2, AddRowLaws
  <2>4. QED
    BY <2>2, <2>3
<1> DEFINE T == {U \in SUBSET S : Total(g, U, J) = L[Total(f, U, I)]}
<1>3. ASSUME NEW U \in SUBSET S, \A V \in SUBSET U : V # U => V \in T
      PROVE  U \in T
  <2>1. CASE U = {}
    BY <1>2, <2>1, TotalEmpty
  <2>2. CASE U # {}
    <3>1. PICK x : x \in U
      BY <2>2
    <3>2. PICK V : V = U \ {x} /\ V \in SUBSET U /\ V # U /\ V \in SUBSET S
      <4>1. U \ {x} \in SUBSET U /\ U \ {x} # U /\ U \ {x} \in SUBSET S
        BY <3>1
      <4>2. QED
        BY <4>1
    <3>3. Total(g, V, J) = L[Total(f, V, I)]
      BY <1>3, <3>2
    <3>4. /\ Total(f, U, I) = AddRow(f[x], Total(f, V, I))
          /\ Total(g, U, J) = AddRow(g[x], Total(g, V, J))
      BY <1>1, <3>1, <3>2, TotalTake
    <3>5. Total(f, V, I) \in Vectors(I) /\ f[x] \in Vectors(I) /\ g[x] = L[f[x]]
      BY <1>0, <1>1, <3>1, <3>2, TotalTake
    <3>6. L[AddRow(f[x], Total(f, V, I))] = AddRow(L[f[x]], L[Total(f, V, I)])
      BY <1>0, <3>5
    <3>7. QED
      BY <3>3, <3>4, <3>5, <3>6
  <2>3. QED
    BY <2>1, <2>2
<1>4. SUBSET S \subseteq T
  <2>1. \A U \in SUBSET S : (\A V \in SUBSET U : V # U => V \in T) => U \in T
    BY <1>3
  <2> HIDE DEF T
  <2>2. QED
    BY <1>0, <2>1, SubsetInduction
<1>5. S \in T
  BY <1>4
<1>6. QED
  BY <1>1, <1>5

\* g lists the members of f under other names.
Renamed(S, R, I, f, p, g) ==
  /\ VectorsOver(f, R, I) /\ IsFiniteSet(S)
  /\ R = {p[x] : x \in S} /\ \A x, y \in S : p[x] = p[y] => x = y
  /\ \A x \in S : g[x] = f[p[x]]

\* A sum does not depend on the names of its members.
LEMMA TotalRenamed ==
  ASSUME NEW S, NEW I, NEW g, NEW R, NEW f, \E p : Renamed(S, R, I, f, p, g)
  PROVE  Total(g, S, I) = Total(f, R, I) /\ VectorsOver(g, S, I)
<1>p. PICK p : Renamed(S, R, I, f, p, g)
  OBVIOUS
<1>0. /\ IsFiniteSet(S) /\ IsFiniteSet(R) /\ R = {p[x] : x \in S}
      /\ \A y \in R : f[y] \in Vectors(I)
      /\ \A x, y \in S : p[x] = p[y] => x = y
      /\ \A x \in S : g[x] = f[p[x]]
  BY <1>p DEF Renamed, VectorsOver
<1>1. \A x \in S : p[x] \in R /\ g[x] \in Vectors(I)
  BY <1>0
<1>2. \A U \in SUBSET S : VectorsOver(g, U, I)
  BY <1>0, <1>1, FS_Subset DEF VectorsOver
<1>3. \A U \in SUBSET R : VectorsOver(f, U, I)
  BY <1>0, FS_Subset DEF VectorsOver
<1> DEFINE Image(U) == {p[x] : x \in U}
           T == {U \in SUBSET S : Total(g, U, I) = Total(f, Image(U), I)}
<1>4. ASSUME NEW U \in SUBSET S, \A V \in SUBSET U : V # U => V \in T
      PROVE  U \in T
  <2>1. CASE U = {}
    <3>1. Image(U) = {}
      BY <2>1
    <3>2. QED
      BY <2>1, <3>1, TotalEmpty
  <2>2. CASE U # {}
    <3>1. PICK x : x \in U
      BY <2>2
    <3>2. PICK V : V = U \ {x} /\ V \in SUBSET U /\ V # U /\ V \in SUBSET S
      <4>1. U \ {x} \in SUBSET U /\ U \ {x} # U /\ U \ {x} \in SUBSET S
        BY <3>1
      <4>2. QED
        BY <4>1
    <3>3. Total(g, V, I) = Total(f, Image(V), I)
      BY <1>4, <3>2
    <3>4. Image(U) \in SUBSET R /\ p[x] \in Image(U) /\ Image(U) \ {p[x]} = Image(V)
      <4>1. Image(U) \in SUBSET R /\ p[x] \in Image(U)
        BY <1>0, <3>1
      <4>2. \A y \in U : p[y] # p[x] <=> y # x
        BY <1>0, <3>1
      <4>3. \A z : z \in Image(U) \ {p[x]} <=> z \in Image(V)
        BY <3>2, <4>2
      <4>4. QED
        BY <4>1, <4>3
    <3> HIDE DEF Image
    <3>5. Total(g, U, I) = AddRow(g[x], Total(g, V, I))
      BY <1>2, <3>1, <3>2, TotalTake
    <3>6. Total(f, Image(U), I) = AddRow(f[p[x]], Total(f, Image(V), I))
      BY <1>3, <3>4, TotalTake
    <3>7. g[x] = f[p[x]]
      BY <1>0, <3>1
    <3>8. QED
      BY <3>3, <3>5, <3>6, <3>7
  <2>3. QED
    BY <2>1, <2>2
<1>5. SUBSET S \subseteq T
  <2>1. \A U \in SUBSET S : (\A V \in SUBSET U : V # U => V \in T) => U \in T
    BY <1>4
  <2> HIDE DEF T
  <2>2. QED
    BY <1>0, <2>1, SubsetInduction
<1>6. S \in T /\ Image(S) = R
  BY <1>0, <1>5
<1>7. Total(g, S, I) = Total(f, Image(S), I)
  BY <1>6
<1>8. QED
  BY <1>2, <1>6, <1>7

\* A row of coefficients times a column of vectors.
Combine(row, x, J, I) == Total([j \in J |-> Scale(x[j], row[j])], J, I)

\* It is a vector, and so is each of its terms.
LEMMA CombineTyped ==
  ASSUME NEW J, NEW I, NEW x, VectorsOver(x, J, I), NEW row \in Vectors(J)
  PROVE  VectorsOver([j \in J |-> Scale(x[j], row[j])], J, I) /\ Combine(row, x, J, I) \in Vectors(I)
<1>1. \A j \in J : Scale(x[j], row[j]) \in Vectors(I)
  <2>1. \A j \in J : x[j] \in Vectors(I) /\ row[j] \in Field
    BY DEF VectorsOver, Vectors
  <2>2. QED
    BY <2>1, ScaleLaws
<1>2. VectorsOver([j \in J |-> Scale(x[j], row[j])], J, I)
  BY <1>1 DEF VectorsOver
<1>3. QED
  BY <1>2, TotalTake DEF Combine

\* It is additive in the row.
LEMMA CombinePlus ==
  ASSUME NEW J, NEW I, NEW x, VectorsOver(x, J, I), NEW u \in Vectors(J), NEW v \in Vectors(J)
  PROVE  Combine(AddRow(u, v), x, J, I) = AddRow(Combine(u, x, J, I), Combine(v, x, J, I))
<1> DEFINE f == [j \in J |-> Scale(x[j], u[j])]
           g == [j \in J |-> Scale(x[j], v[j])]
           h == [j \in J |-> Scale(x[j], AddRow(u, v)[j])]
<1>1. VectorsOver(f, J, I) /\ VectorsOver(g, J, I)
  BY CombineTyped
<1>2. \A j \in J : h[j] = AddRow(f[j], g[j])
  <2> TAKE j \in J
  <2>1. AddRow(u, v)[j] = Xor(u[j], v[j])
    BY DEF AddRow, Vectors
  <2>2. x[j] \in Vectors(I) /\ u[j] \in Field /\ v[j] \in Field
    BY DEF VectorsOver, Vectors
  <2>3. Scale(x[j], Xor(u[j], v[j])) = AddRow(Scale(x[j], u[j]), Scale(x[j], v[j]))
    BY <2>2, ScaleLaws
  <2>4. QED
    BY <2>1, <2>3
<1>3. Combine(u, x, J, I) = Total(f, J, I) /\ Combine(v, x, J, I) = Total(g, J, I)
      /\ Combine(AddRow(u, v), x, J, I) = Total(h, J, I)
  BY DEF Combine
<1> HIDE DEF f, g, h
<1>4. Plus(J, I, f, g, h)
  BY <1>1, <1>2 DEF Plus
<1>5. QED
  BY <1>3, <1>4, TotalPlus

\* A multiple of the row gives the multiple.
LEMMA CombineScale ==
  ASSUME NEW J, NEW I, NEW x, VectorsOver(x, J, I), NEW u \in Vectors(J), NEW a \in Field
  PROVE  Combine(Scale(u, a), x, J, I) = Scale(Combine(u, x, J, I), a)
<1> DEFINE f == [j \in J |-> Scale(x[j], u[j])]
           g == [j \in J |-> Scale(x[j], Scale(u, a)[j])]
           L == [w \in Vectors(I) |-> Scale(w, a)]
<1>1. VectorsOver(f, J, I)
  BY CombineTyped
<1>2. \A w \in Vectors(I) : L[w] = Scale(w, a) /\ L[w] \in Vectors(I)
  BY ScaleLaws
<1>3. \A w, z \in Vectors(I) : L[AddRow(w, z)] = AddRow(L[w], L[z])
  <2> TAKE w, z \in Vectors(I)
  <2>1. AddRow(w, z) \in Vectors(I)
    BY AddRowLaws
  <2>2. Scale(AddRow(w, z), a) = AddRow(Scale(w, a), Scale(z, a))
    BY ScaleLaws
  <2> HIDE DEF L
  <2>3. QED
    BY <1>2, <2>1, <2>2
<1>4. \A j \in J : g[j] = L[f[j]]
  <2> TAKE j \in J
  <2>1. Scale(u, a)[j] = Mul(u[j], a)
    BY DEF Scale, Vectors
  <2>2. x[j] \in Vectors(I) /\ u[j] \in Field
    BY DEF VectorsOver, Vectors
  <2>3. Scale(Scale(x[j], u[j]), a) = Scale(x[j], Mul(u[j], a)) /\ Scale(x[j], u[j]) \in Vectors(I)
    BY <2>2, ScaleLaws
  <2>4. g[j] = Scale(x[j], Mul(u[j], a)) /\ f[j] = Scale(x[j], u[j])
    BY <2>1
  <2> HIDE DEF L, f, g
  <2>5. QED
    BY <1>2, <2>3, <2>4
<1>5. Combine(u, x, J, I) = Total(f, J, I) /\ Combine(Scale(u, a), x, J, I) = Total(g, J, I)
  BY DEF Combine
<1>6. Total(f, J, I) \in Vectors(I)
  BY <1>1, TotalTake
<1> HIDE DEF f, g, L
<1>7. Mapped(J, I, I, f, L, g)
  BY <1>1, <1>2, <1>3, <1>4 DEF Mapped
<1>8. Total(g, J, I) = L[Total(f, J, I)]
  BY <1>7, TotalMapped
<1>9. QED
  BY <1>2, <1>5, <1>6, <1>8

\* A unit row picks a vector out of the column.
LEMMA CombineUnit ==
  ASSUME NEW J, NEW I, NEW x, VectorsOver(x, J, I), NEW i \in J,
         NEW u \in Vectors(J), u[i] = 1, \A j \in J \ {i} : u[j] = 0
  PROVE  Combine(u, x, J, I) = x[i]
<1> DEFINE f == [j \in J |-> Scale(x[j], u[j])]
<1>2. VectorsOver(f, J, I)
  BY CombineTyped
<1>3. \A j \in J : x[j] \in Vectors(I)
  BY DEF VectorsOver
<1>4. f[i] = x[i]
  <2>1. f[i] = Scale(x[i], 1)
    OBVIOUS
  <2>2. QED
    BY <1>3, <2>1, ScaleLaws
<1>5. \A j \in J \ {i} : f[j] = ZeroOn(I)
  <2> TAKE j \in J \ {i}
  <2>1. f[j] = Scale(x[j], 0)
    OBVIOUS
  <2>2. QED
    BY <1>3, <2>1, ScaleLaws
<1>6. Combine(u, x, J, I) = Total(f, J, I)
  BY DEF Combine
<1> HIDE DEF f
<1>7. Total(f, J, I) = f[i]
  BY <1>2, <1>5, TotalOne
<1>8. QED
  BY <1>4, <1>6, <1>7

-----------------------------------------------------------------------------
(***************************************************************************)
(* What CheckInvert answers: it solves every system, and refuses a matrix  *)
(* with two equal rows.                                                    *)
(***************************************************************************)
Matrices(n) == [1..n -> Vectors(1..n)]
Elims(n)    == [ok : BOOLEAN, mat : Matrices(n), inv : Matrices(n)]

\* Rows are swapped.
LEMMA SwapRows ==
  ASSUME NEW n \in Nat, NEW m \in Matrices(n), NEW i \in 1..n, NEW p \in 1..n
  PROVE  /\ Swap(m, i, p) \in Matrices(n)
         /\ Swap(m, i, p)[i] = m[p] /\ Swap(m, i, p)[p] = m[i]
         /\ \A j \in 1..n : j # i /\ j # p => Swap(m, i, p)[j] = m[j]
<1>1. m = [j \in 1..n |-> m[j]] /\ \A j \in 1..n : m[j] \in Vectors(1..n)
  BY DEF Matrices
<1>2. Swap(m, i, p) = [j \in 1..n |-> IF j = p THEN m[i] ELSE IF j = i THEN m[p] ELSE m[j]]
  BY <1>1 DEF Swap
<1>3. QED
  BY <1>1, <1>2 DEF Matrices

\* The pivot's row is row i or one below.
LEMMA PivotRowIs ==
  ASSUME NEW n \in Nat, NEW m \in Matrices(n), NEW i \in 1..n
  PROVE  PivotRow(m, i) \in i..n
<1> DEFINE below == {j \in DOMAIN m : j > i /\ m[j][i] = 1}
<1>1. \A j \in below : j \in 0..n /\ j \in i..n
  BY DEF Matrices
<1>2. below \in SUBSET (0..n)
  BY <1>1
<1>3. CASE below = {}
  BY <1>3 DEF PivotRow
<1>4. CASE below # {}
  <2>1. Min(below) \in below
    <3> HIDE DEF below
    <3> QED BY <1>2, <1>4, MinPicks
  <2>2. Min(below) \in i..n
    BY <1>1, <2>1
  <2>3. PivotRow(m, i) = i \/ PivotRow(m, i) = Min(below)
    BY DEF PivotRow
  <2> HIDE DEF below
  <2>4. QED
    BY <2>2, <2>3
<1>5. QED
  BY <1>3, <1>4

\* One round of the elimination, with the pivot in place: row i is divided by
\* the pivot, and takes what the other rows have in column i.
Cleared(n, i, m, w, t) ==
  /\ t \in Elims(n) /\ t.ok
  /\ \E a \in Field \ {0} :
       /\ m[i] = Scale(t.mat[i], a) /\ w[i] = Scale(t.inv[i], a)
       /\ t.mat[i] = Scale(m[i], Inv(a)) /\ a = m[i][i]
  /\ \A j \in 1..n : j # i =>
       \E a \in Field :
         /\ t.mat[j] = AddRow(m[j], Scale(t.mat[i], a)) /\ a = m[j][i]
         /\ t.inv[j] = AddRow(w[j], Scale(t.inv[i], a))

\* What one round of elimination makes of the matrices, row by row.
LEMMA ClearColumnIs ==
  ASSUME NEW n \in Nat, NEW m \in Matrices(n), NEW w \in Matrices(n), NEW i \in 1..n, m[i][i] # 0
  PROVE  Cleared(n, i, m, w, ClearColumn(i, m, w))
<1>1. PICK a \in Field \ {0} : a = m[i][i]
  BY DEF Matrices, Vectors
<1>2. PICK b \in Field : b = Inv(a) /\ Mul(a, b) = 1 /\ Mul(b, a) = 1
  BY MulLaws
<1>3. PICK x \in Vectors(1..n) : x = Scale(m[i], b)
  BY ScaleLaws DEF Matrices
<1>4. PICK y \in Vectors(1..n) : y = Scale(w[i], b)
  BY ScaleLaws DEF Matrices
<1>5. DOMAIN m = 1..n /\ DOMAIN w = 1..n /\ \A j \in 1..n : m[j] \in Vectors(1..n) /\ w[j] \in Vectors(1..n)
  BY DEF Matrices
<1>6. PICK u : u = [j \in 1..n |-> IF j = i THEN x ELSE AddRow(m[j], Scale(x, m[j][i]))]
  OBVIOUS
<1>7. PICK v : v = [j \in 1..n |-> IF j = i THEN y ELSE AddRow(w[j], Scale(y, m[j][i]))]
  OBVIOUS
<1>8. ClearColumn(i, m, w) = [ok |-> TRUE, mat |-> u, inv |-> v]
  BY <1>1, <1>2, <1>3, <1>4, <1>5, <1>6, <1>7 DEF ClearColumn
<1>9. \A j \in 1..n : m[j][i] \in Field
  BY <1>5 DEF Vectors
<1>10. \A j \in 1..n : AddRow(m[j], Scale(x, m[j][i])) \in Vectors(1..n) /\ AddRow(w[j], Scale(y, m[j][i])) \in Vectors(1..n)
  <2> TAKE j \in 1..n
  <2>1. Scale(x, m[j][i]) \in Vectors(1..n) /\ Scale(y, m[j][i]) \in Vectors(1..n)
    BY <1>9, ScaleLaws
  <2>2. QED
    BY <1>5, <2>1, AddRowLaws
<1>11. u \in Matrices(n) /\ v \in Matrices(n)
  BY <1>6, <1>7, <1>10 DEF Matrices
<1>12. PICK t \in Elims(n) : t = ClearColumn(i, m, w) /\ t.ok /\ t.mat = u /\ t.inv = v
  <2>1. [ok |-> TRUE, mat |-> u, inv |-> v] \in Elims(n)
    BY <1>11 DEF Elims
  <2>2. QED
    BY <1>8, <2>1
<1>13. m[i] = Scale(x, a) /\ w[i] = Scale(y, a)
  <2>1. Scale(Scale(m[i], b), a) = Scale(m[i], Mul(b, a)) /\ Scale(Scale(w[i], b), a) = Scale(w[i], Mul(b, a))
    BY <1>5, ScaleLaws
  <2>2. Scale(m[i], 1) = m[i] /\ Scale(w[i], 1) = w[i]
    BY <1>5, ScaleLaws
  <2>3. QED
    BY <1>2, <1>3, <1>4, <2>1, <2>2
<1>14. u[i] = x /\ v[i] = y
  BY <1>6, <1>7
<1>15. ASSUME NEW j \in 1..n, j # i
       PROVE  \E c \in Field :
                /\ t.mat[j] = AddRow(m[j], Scale(t.mat[i], c)) /\ c = m[j][i]
                /\ t.inv[j] = AddRow(w[j], Scale(t.inv[i], c))
  <2>1. u[j] = AddRow(m[j], Scale(x, m[j][i])) /\ v[j] = AddRow(w[j], Scale(y, m[j][i]))
    BY <1>6, <1>7, <1>15
  <2>2. QED
    BY <1>9, <1>12, <1>14, <2>1
<1>16. QED
  <2>1. m[i] = Scale(t.mat[i], a) /\ w[i] = Scale(t.inv[i], a) /\ t.mat[i] = Scale(m[i], Inv(a)) /\ a = m[i][i]
    BY <1>1, <1>2, <1>3, <1>12, <1>13, <1>14
  <2>2. QED
    BY <1>12, <1>15, <2>1 DEF Cleared

\* A round fails, or swaps the pivot's row in and clears the column.
EliminatedTo(n, i, s, t) ==
  \/ ~t.ok /\ t \in Elims(n)
  \/ /\ s.ok
     /\ \E p \in i..n : Cleared(n, i, Swap(s.mat, i, p), Swap(s.inv, i, p), t)

\* What Eliminate makes of a state, whether a pivot is found or not.
LEMMA EliminateIs ==
  ASSUME NEW n \in Nat, NEW s \in Elims(n), NEW i \in 1..n
  PROVE  EliminatedTo(n, i, s, Eliminate(s, i)) /\ Eliminate(s, i) \in Elims(n)
<1>1. PICK m \in Matrices(n) : m = s.mat
  BY DEF Elims
<1>2. PICK w \in Matrices(n) : w = s.inv
  BY DEF Elims
<1>3. PICK p \in i..n : p = PivotRow(m, i)
  BY PivotRowIs
<1>4. p \in 1..n
  BY <1>3
<1>5. PICK u \in Matrices(n) : u = Swap(m, i, p)
  BY <1>4, SwapRows
<1>6. PICK v \in Matrices(n) : v = Swap(w, i, p)
  BY <1>4, SwapRows
<1>7. Eliminate(s, i) = IF ~s.ok \/ u[i][i] = 0 THEN [s EXCEPT !.ok = FALSE] ELSE ClearColumn(i, u, v)
  BY <1>1, <1>2, <1>3, <1>5, <1>6 DEF Eliminate
<1>8. CASE ~s.ok \/ u[i][i] = 0
  <2>1. [s EXCEPT !.ok = FALSE] \in Elims(n) /\ ~[s EXCEPT !.ok = FALSE].ok
    BY DEF Elims
  <2>2. QED
    BY <1>7, <1>8, <2>1 DEF EliminatedTo
<1>9. CASE s.ok /\ u[i][i] # 0
  <2>1. Cleared(n, i, u, v, ClearColumn(i, u, v))
    BY <1>9, ClearColumnIs
  <2>2. Eliminate(s, i) = ClearColumn(i, u, v)
    BY <1>7, <1>9
  <2>3. Cleared(n, i, Swap(s.mat, i, p), Swap(s.inv, i, p), Eliminate(s, i))
    BY <1>1, <1>2, <1>5, <1>6, <2>1, <2>2
  <2>4. Eliminate(s, i) \in Elims(n)
    BY <2>3 DEF Cleared
  <2>5. QED
    BY <1>9, <2>3, <2>4 DEF EliminatedTo
<1>10. s.ok \in BOOLEAN
  BY DEF Elims
<1>11. QED
  BY <1>8, <1>9, <1>10

\* Eliminate keeps the types.
LEMMA EliminateTyped ==
  ASSUME NEW n \in Nat, NEW s \in Elims(n), NEW i \in 1..n
  PROVE  Eliminate(s, i) \in Elims(n)
BY EliminateIs

Eliminated(s, q) == FoldLeft(Eliminate, s, q)
EliminatingRun(s, q, n, g) ==
  /\ g \in [0..n -> Elims(n)] /\ g[0] = s
  /\ \A i \in 1..n : g[i] = Eliminate(g[i - 1], q[i])
  /\ Eliminated(s, q) = g[n]

\* The columns are eliminated one after the other: the fold as a run.
LEMMA EliminationRun ==
  ASSUME NEW n \in Nat, NEW s \in Elims(n), NEW q \in Seq(1..n), n = Len(q)
  PROVE  \E g : EliminatingRun(s, q, n, g)
<1> DEFINE S == DOMAIN q
           W == Elims(n)
           Is(f) == f = [U \in SUBSET S |-> IF U = {} THEN s ELSE LET x == Max(U) IN Eliminate(f[U \ {x}], q[x])]
           step == [p \in (1..n) \X W |-> Eliminate(p[2], q[p[1]])]
<1>1. S = 1..n /\ \A i \in 1..n : q[i] \in 1..n
  OBVIOUS
<1>2. \A i \in 1..n : \A v \in W : step[<<i, v>>] = Eliminate(v, q[i]) /\ Eliminate(v, q[i]) \in W
  BY <1>1, EliminateTyped
<1> HIDE DEF step, W
<1>3. PICK h \in [SUBSET (1..n) -> W] :
        /\ h[{}] = s
        /\ \A U \in SUBSET (1..n) : U # {} => h[U] = step[<<Max(U), h[U \ {Max(U)}]>>]
  <2>1. s \in W
    BY DEF W
  <2>2. \A i \in 1..n : \A v \in W : step[<<i, v>>] \in W
    BY <1>2
  <2>3. PICK h : IsRun(n, W, s, step, h)
    BY <2>1, <2>2, RunExists
  <2>4. QED
    BY <2>3 DEF IsRun
<1>4. Is(h)
  <2>1. ASSUME NEW U \in SUBSET (1..n), U # {}
        PROVE  h[U] = Eliminate(h[U \ {Max(U)}], q[Max(U)])
    <3>1. Max(U) \in 1..n /\ h[U \ {Max(U)}] \in W
      BY <1>3, <2>1, MaxPicks
    <3>2. QED
      BY <1>2, <1>3, <2>1, <3>1
  <2>2. QED
    BY <1>1, <1>3, <2>1
<1>5. FoldLeft(Eliminate, s, q) = (CHOOSE f : Is(f))[S]
  BY DEF FoldLeft, MapThenFoldSet
<1>6. PICK k : Is(k) /\ FoldLeft(Eliminate, s, q) = k[1..n]
  <2>1. Is(CHOOSE f : Is(f))
    <3> HIDE DEF Is
    <3> QED BY <1>4
  <2> HIDE DEF Is
  <2>2. QED
    BY <1>1, <1>5, <2>1
<1> DEFINE g == [i \in 0..n |-> k[1..i]]
<1>7. g[0] = s
  BY <1>6
<1>8. ASSUME NEW i \in 1..n
      PROVE  g[i] = Eliminate(g[i - 1], q[i])
  <2>1. 1..i \in SUBSET S /\ 1..i # {}
    <3>1. 1..i \subseteq 1..n /\ 1 \in 1..i
      OBVIOUS
    <3>2. QED
      BY <1>1, <3>1
  <2>2. k[1..i] = Eliminate(k[(1..i) \ {Max(1..i)}], q[Max(1..i)])
    BY <1>6, <2>1
  <2>3. Max(1..i) = i /\ (1..i) \ {i} = 1..i - 1
    BY PrefixMax, i \in Nat, i # 0
  <2>4. g[i] = k[1..i] /\ g[i - 1] = k[1..i - 1]
    OBVIOUS
  <2>5. QED
    BY <2>2, <2>3, <2>4
<1> HIDE DEF g
<1>9. \A i \in 0..n : g[i] \in W
  <2> DEFINE T == {i \in Nat : i <= n => g[i] \in W}
  <2>1. 0 \in T
    BY <1>7 DEF W
  <2>2. ASSUME NEW i \in Nat, i \in T
        PROVE  i + 1 \in T
    <3> SUFFICES ASSUME i + 1 <= n PROVE g[i + 1] \in W
      OBVIOUS
    <3>1. i + 1 \in 1..n /\ (i + 1) - 1 = i
      OBVIOUS
    <3>2. g[i + 1] = Eliminate(g[i], q[i + 1]) /\ g[i] \in W
      BY <1>8, <2>2, <3>1
    <3>3. QED
      BY <1>2, <3>1, <3>2
  <2>3. Nat \subseteq T
    <3> HIDE DEF T
    <3> QED BY <2>1, <2>2, NatInductionSet
  <2>4. QED
    BY <2>3
<1>10. g \in [0..n -> Elims(n)]
  <2>1. g = [i \in 0..n |-> g[i]]
    BY DEF g
  <2>2. QED
    BY <1>9, <2>1 DEF W
<1>11. FoldLeft(Eliminate, s, q) = g[n]
  BY <1>6 DEF g
<1>12. QED
  BY <1>7, <1>8, <1>10, <1>11 DEF EliminatingRun, Eliminated

\* x solves the system of a state of the elimination with right sides b.
Solves(n, I, m, w, x, b) == \A j \in 1..n : Combine(m[j], x, 1..n, I) = Combine(w[j], b, 1..n, I)

\* The first k columns are those of the identity.
ColumnsDone(n, k, m) == \A j \in 1..n : \A c \in 1..k : m[j][c] = IF j = c THEN 1 ELSE 0

\* What solves the system after a round solves it before.
LEMMA ClearedSolves ==
  ASSUME NEW n \in Nat, NEW m \in Matrices(n), NEW w \in Matrices(n), NEW i \in 1..n, NEW t,
         Cleared(n, i, m, w, t), NEW I, NEW x, NEW b, VectorsOver(x, 1..n, I), VectorsOver(b, 1..n, I),
         Solves(n, I, t.mat, t.inv, x, b)
  PROVE  Solves(n, I, m, w, x, b)
<1>1. \A j \in 1..n : /\ m[j] \in Vectors(1..n) /\ w[j] \in Vectors(1..n)
                      /\ t.mat[j] \in Vectors(1..n) /\ t.inv[j] \in Vectors(1..n)
  BY DEF Cleared, Elims, Matrices
<1>2. PICK P : P = [u \in Vectors(1..n) |-> Combine(u, x, 1..n, I)]
  OBVIOUS
<1>3. PICK Q : Q = [u \in Vectors(1..n) |-> Combine(u, b, 1..n, I)]
  OBVIOUS
<1>4. \A u \in Vectors(1..n) : P[u] = Combine(u, x, 1..n, I) /\ Q[u] = Combine(u, b, 1..n, I)
  BY <1>2, <1>3
<1>5. \A u, v \in Vectors(1..n) : P[AddRow(u, v)] = AddRow(P[u], P[v]) /\ Q[AddRow(u, v)] = AddRow(Q[u], Q[v])
  <2> TAKE u, v \in Vectors(1..n)
  <2>1. AddRow(u, v) \in Vectors(1..n)
    BY AddRowLaws
  <2>2. Combine(AddRow(u, v), x, 1..n, I) = AddRow(Combine(u, x, 1..n, I), Combine(v, x, 1..n, I))
    BY CombinePlus
  <2>3. Combine(AddRow(u, v), b, 1..n, I) = AddRow(Combine(u, b, 1..n, I), Combine(v, b, 1..n, I))
    BY CombinePlus
  <2>4. QED
    BY <1>4, <2>1, <2>2, <2>3
<1>6. \A u \in Vectors(1..n), a \in Field : P[Scale(u, a)] = Scale(P[u], a) /\ Q[Scale(u, a)] = Scale(Q[u], a)
  <2> TAKE u \in Vectors(1..n), a \in Field
  <2>1. Scale(u, a) \in Vectors(1..n)
    BY ScaleLaws
  <2>2. Combine(Scale(u, a), x, 1..n, I) = Scale(Combine(u, x, 1..n, I), a)
    BY CombineScale
  <2>3. Combine(Scale(u, a), b, 1..n, I) = Scale(Combine(u, b, 1..n, I), a)
    BY CombineScale
  <2>4. QED
    BY <1>4, <2>1, <2>2, <2>3
<1>7. \A j \in 1..n : P[t.mat[j]] = Q[t.inv[j]]
  BY <1>1, <1>4 DEF Solves
<1>8. P[m[i]] = Q[w[i]]
  <2>1. PICK a \in Field : m[i] = Scale(t.mat[i], a) /\ w[i] = Scale(t.inv[i], a)
    BY DEF Cleared
  <2>2. P[Scale(t.mat[i], a)] = Scale(P[t.mat[i]], a) /\ Q[Scale(t.inv[i], a)] = Scale(Q[t.inv[i]], a)
    BY <1>1, <1>6
  <2>3. QED
    BY <1>7, <2>1, <2>2
<1>9. ASSUME NEW j \in 1..n, j # i
      PROVE  P[m[j]] = Q[w[j]]
  <2>1. PICK a \in Field :
          t.mat[j] = AddRow(m[j], Scale(t.mat[i], a)) /\ t.inv[j] = AddRow(w[j], Scale(t.inv[i], a))
    BY <1>9 DEF Cleared
  <2>2. Scale(t.mat[i], a) \in Vectors(1..n) /\ Scale(t.inv[i], a) \in Vectors(1..n)
    BY <1>1, ScaleLaws
  <2>3. P[Scale(t.mat[i], a)] = Q[Scale(t.inv[i], a)]
    BY <1>1, <1>6, <1>7
  <2>4. P[t.mat[j]] = AddRow(P[m[j]], P[Scale(t.mat[i], a)])
    BY <1>1, <1>5, <2>1, <2>2
  <2>5. Q[t.inv[j]] = AddRow(Q[w[j]], Q[Scale(t.inv[i], a)])
    BY <1>1, <1>5, <2>1, <2>2
  <2>6. P[m[j]] \in Vectors(I) /\ Q[w[j]] \in Vectors(I) /\ P[Scale(t.mat[i], a)] \in Vectors(I)
    <3>1. \A u \in Vectors(1..n) : Combine(u, x, 1..n, I) \in Vectors(I)
      BY CombineTyped
    <3>2. \A u \in Vectors(1..n) : Combine(u, b, 1..n, I) \in Vectors(I)
      BY CombineTyped
    <3>3. QED
      BY <1>1, <1>4, <2>2, <3>1, <3>2
  <2>7. AddRow(P[m[j]], P[Scale(t.mat[i], a)]) = AddRow(Q[w[j]], P[Scale(t.mat[i], a)])
    BY <1>7, <2>3, <2>4, <2>5
  <2>8. \A p, q, d \in Vectors(I) : AddRow(p, d) = AddRow(q, d) => p = q
    <3> TAKE p, q, d \in Vectors(I)
    <3>1. AddRow(AddRow(p, d), d) = AddRow(p, AddRow(d, d)) /\ AddRow(AddRow(q, d), d) = AddRow(q, AddRow(d, d))
      BY AddRowLaws
    <3>2. AddRow(d, d) = ZeroOn(I) /\ AddRow(p, ZeroOn(I)) = p /\ AddRow(q, ZeroOn(I)) = q
      BY AddRowLaws
    <3>3. QED
      BY <3>1, <3>2
  <2>9. QED
    BY <2>6, <2>7, <2>8
<1>10. \A j \in 1..n : P[m[j]] = Q[w[j]]
  BY <1>8, <1>9
<1>11. QED
  BY <1>1, <1>4, <1>10 DEF Solves

\* A round makes one more column one of the identity.
LEMMA ClearedColumns ==
  ASSUME NEW n \in Nat, NEW m \in Matrices(n), NEW w \in Matrices(n), NEW i \in 1..n, NEW t,
         Cleared(n, i, m, w, t), ColumnsDone(n, i - 1, m)
  PROVE  ColumnsDone(n, i, t.mat)
<1>1. \A j, c \in 1..n : m[j][c] \in Field
  BY DEF Matrices, Vectors
<1>2. \A j \in 1..n : m[j] \in Vectors(1..n) /\ t.mat[j] \in Vectors(1..n)
  BY DEF Cleared, Elims, Matrices
<1>3. PICK a \in Field \ {0} : t.mat[i] = Scale(m[i], Inv(a)) /\ a = m[i][i]
  BY DEF Cleared
<1>4. Inv(a) \in Field /\ Mul(a, Inv(a)) = 1
  BY MulLaws
<1>5. \A c \in 1..n : t.mat[i][c] = Mul(m[i][c], Inv(a))
  BY <1>2, <1>3 DEF Scale, Vectors
<1>6. t.mat[i][i] = 1
  BY <1>3, <1>4, <1>5
<1>7. \A c \in 1..i - 1 : t.mat[i][c] = 0
  <2> TAKE c \in 1..i - 1
  <2>1. m[i][c] = 0 /\ c \in 1..n
    BY DEF ColumnsDone
  <2>2. QED
    BY <1>4, <1>5, <2>1, MulLaws
<1>8. \A c \in 1..i : c = i \/ c \in 1..i - 1
  OBVIOUS
<1>9. ASSUME NEW j \in 1..n, NEW c \in 1..i
      PROVE  t.mat[j][c] = IF j = c THEN 1 ELSE 0
  <2>1. CASE j = i
    BY <1>6, <1>7, <1>8, <2>1
  <2>2. CASE j # i
    <3>1. PICK d \in Field : t.mat[j] = AddRow(m[j], Scale(t.mat[i], d)) /\ d = m[j][i]
      BY <2>2 DEF Cleared
    <3>2. c \in 1..n
      OBVIOUS
    <3>3. t.mat[j][c] = Xor(m[j][c], Mul(t.mat[i][c], d))
      BY <1>2, <3>1, <3>2 DEF AddRow, Scale, Vectors
    <3>4. CASE c = i
      <4>1. Mul(1, d) = d /\ Xor(d, d) = 0
        BY MulLaws, XorLaws
      <4>2. QED
        BY <1>6, <2>2, <3>1, <3>3, <3>4, <4>1
    <3>5. CASE c \in 1..i - 1
      <4>1. m[j][c] = (IF j = c THEN 1 ELSE 0) /\ t.mat[i][c] = 0
        BY <1>7, <3>5 DEF ColumnsDone
      <4>2. Mul(0, d) = 0 /\ Xor(m[j][c], 0) = m[j][c]
        BY <1>1, <3>2, MulLaws, XorLaws
      <4>3. QED
        BY <3>3, <4>1, <4>2
    <3>6. QED
      BY <1>8, <3>4, <3>5
  <2>3. QED
    BY <2>1, <2>2
<1>10. QED
  BY <1>9 DEF ColumnsDone

\* The same for a whole round, with the swap that comes first.
LEMMA EliminatedSolves ==
  ASSUME NEW n \in Nat, NEW s \in Elims(n), NEW i \in 1..n, NEW t, EliminatedTo(n, i, s, t), t.ok
  PROVE  /\ s.ok
         /\ ColumnsDone(n, i - 1, s.mat) => ColumnsDone(n, i, t.mat)
         /\ \A I, x, b : VectorsOver(x, 1..n, I) /\ VectorsOver(b, 1..n, I)
                           /\ Solves(n, I, t.mat, t.inv, x, b) => Solves(n, I, s.mat, s.inv, x, b)
<1>1. s.ok /\ \E p \in i..n : Cleared(n, i, Swap(s.mat, i, p), Swap(s.inv, i, p), t)
  BY DEF EliminatedTo
<1>2. PICK p \in i..n : Cleared(n, i, Swap(s.mat, i, p), Swap(s.inv, i, p), t)
  BY <1>1
<1>3. p \in 1..n
  OBVIOUS
<1>4. PICK m \in Matrices(n) : m = s.mat
  BY DEF Elims
<1>5. PICK w \in Matrices(n) : w = s.inv
  BY DEF Elims
<1>6. PICK u \in Matrices(n) : /\ u = Swap(m, i, p) /\ u[i] = m[p] /\ u[p] = m[i]
                               /\ \A j \in 1..n : j # i /\ j # p => u[j] = m[j]
  BY <1>3, SwapRows
<1>7. PICK v \in Matrices(n) : /\ v = Swap(w, i, p) /\ v[i] = w[p] /\ v[p] = w[i]
                               /\ \A j \in 1..n : j # i /\ j # p => v[j] = w[j]
  BY <1>3, SwapRows
<1>8. Cleared(n, i, u, v, t)
  BY <1>2, <1>4, <1>5, <1>6, <1>7
<1>9. ASSUME ColumnsDone(n, i - 1, s.mat)
      PROVE  ColumnsDone(n, i, t.mat)
  <2>1. ColumnsDone(n, i - 1, u)
    <3>1. \A j \in 1..n : \A c \in 1..i - 1 : m[j][c] = IF j = c THEN 1 ELSE 0
      BY <1>4, <1>9 DEF ColumnsDone
    <3>2. \A c \in 1..i - 1 : m[i][c] = 0 /\ m[p][c] = 0
      BY <1>3, <3>1
    <3>3. \A j \in 1..n : \A c \in 1..i - 1 : u[j][c] = IF j = c THEN 1 ELSE 0
      <4> TAKE j \in 1..n
      <4> TAKE c \in 1..i - 1
      <4>1. CASE j = i
        BY <1>6, <3>2, <4>1
      <4>2. CASE j = p
        BY <1>6, <3>2, <4>2
      <4>3. CASE j # i /\ j # p
        BY <1>6, <3>1, <4>3
      <4>4. QED
        BY <4>1, <4>2, <4>3
    <3>4. QED
      BY <3>3 DEF ColumnsDone
  <2>2. QED
    BY <1>8, <2>1, ClearedColumns
<1>10. ASSUME NEW I, NEW x, NEW b, VectorsOver(x, 1..n, I), VectorsOver(b, 1..n, I),
              Solves(n, I, t.mat, t.inv, x, b)
       PROVE  Solves(n, I, s.mat, s.inv, x, b)
  <2>1. Solves(n, I, u, v, x, b)
    BY <1>8, <1>10, ClearedSolves
  <2>2. \A j \in 1..n : Combine(u[j], x, 1..n, I) = Combine(v[j], b, 1..n, I)
    BY <2>1 DEF Solves
  <2>3. \A j \in 1..n : Combine(m[j], x, 1..n, I) = Combine(w[j], b, 1..n, I)
    <3> TAKE j \in 1..n
    <3>1. PICK k \in 1..n : m[j] = u[k] /\ w[j] = v[k]
      <4>1. CASE j = i
        BY <1>3, <1>6, <1>7, <4>1
      <4>2. CASE j = p
        BY <1>6, <1>7, <4>2
      <4>3. CASE j # i /\ j # p
        BY <1>6, <1>7, <4>3
      <4>4. QED
        BY <4>1, <4>2, <4>3
    <3>2. Combine(u[k], x, 1..n, I) = Combine(v[k], b, 1..n, I)
      BY <2>2
    <3>3. QED
      BY <3>1, <3>2
  <2>4. QED
    BY <1>4, <1>5, <2>3 DEF Solves
<1>11. QED
  BY <1>1, <1>9, <1>10

\* The identity applied to a column.
LEMMA IdentityTyped ==
  ASSUME NEW n \in Nat
  PROVE  /\ Identity(n) \in Matrices(n)
         /\ \A j, c \in 1..n : Identity(n)[j][c] = IF j = c THEN 1 ELSE 0
<1>1. 0 \in Field /\ 1 \in Field
  BY DEF Field
<1>2. QED
  BY <1>1 DEF Identity, Matrices, Vectors

\* With every column done the matrix is the identity: a row picks one solution.
LEMMA CombineIdentity ==
  ASSUME NEW n \in Nat, NEW m \in Matrices(n), ColumnsDone(n, n, m),
         NEW I, NEW x, VectorsOver(x, 1..n, I), NEW i \in 1..n
  PROVE  Combine(m[i], x, 1..n, I) = x[i]
<1>1. m[i] \in Vectors(1..n)
  BY DEF Matrices
<1>2. m[i][i] = 1 /\ \A c \in (1..n) \ {i} : m[i][c] = 0
  BY DEF ColumnsDone
<1>3. QED
  BY <1>1, <1>2, CombineUnit

Solution(n, inv, b, I) == [j \in 1..n |-> Combine(inv[j], b, 1..n, I)]

\* check_invert and check_invert_gf128, okvs.cpp, eliminate column by column.
LEMMA CheckInvertRun ==
  ASSUME NEW n \in Nat, NEW mat \in Matrices(n)
  PROVE  \E g : /\ g \in [0..n -> Elims(n)] /\ CheckInvert(mat) = g[n]
                /\ g[0] = [ok |-> TRUE, mat |-> mat, inv |-> Identity(n)]
                /\ \A i \in 1..n : EliminatedTo(n, i, g[i - 1], g[i])
<1>1. DOMAIN mat = 1..n /\ mat \in Seq(Vectors(1..n)) /\ Len(mat) = n
  BY DEF Matrices
<1>2. PICK q : q = [i \in 1..n |-> i]
  OBVIOUS
<1>3. q \in Seq(1..n) /\ n = Len(q) /\ \A i \in 1..n : q[i] = i
  BY <1>2
<1>4. PICK s \in Elims(n) : s = [ok |-> TRUE, mat |-> mat, inv |-> Identity(n)]
  BY IdentityTyped DEF Elims
<1>5. CheckInvert(mat) = Eliminated(s, q)
  BY <1>1, <1>2, <1>4 DEF CheckInvert, Eliminated
<1>6. PICK g : EliminatingRun(s, q, n, g)
  BY <1>3, EliminationRun
<1>7. /\ g \in [0..n -> Elims(n)] /\ g[0] = s
      /\ \A i \in 1..n : g[i] = Eliminate(g[i - 1], q[i])
      /\ Eliminated(s, q) = g[n]
  BY <1>6 DEF EliminatingRun
<1>8. \A i \in 1..n : EliminatedTo(n, i, g[i - 1], g[i])
  <2> TAKE i \in 1..n
  <2>1. i - 1 \in 0..n
    OBVIOUS
  <2>2. g[i - 1] \in Elims(n) /\ g[i] = Eliminate(g[i - 1], i)
    BY <1>3, <1>7, <2>1
  <2>3. QED
    BY <2>2, EliminateIs
<1>9. QED
  BY <1>4, <1>5, <1>7, <1>8

\* When the answer is yes, the matrix written back solves every system.
LEMMA CheckInvertSolves ==
  ASSUME NEW n \in Nat, NEW mat \in Matrices(n), CheckInvert(mat).ok
  PROVE  /\ CheckInvert(mat).inv \in Matrices(n)
         /\ \A I, b : VectorsOver(b, 1..n, I) =>
              /\ VectorsOver(Solution(n, CheckInvert(mat).inv, b, I), 1..n, I)
              /\ \A j \in 1..n :
                   Combine(mat[j], Solution(n, CheckInvert(mat).inv, b, I), 1..n, I) = b[j]
<1>1. PICK g : /\ g \in [0..n -> Elims(n)] /\ CheckInvert(mat) = g[n]
               /\ g[0] = [ok |-> TRUE, mat |-> mat, inv |-> Identity(n)]
               /\ \A i \in 1..n : EliminatedTo(n, i, g[i - 1], g[i])
  BY CheckInvertRun
<1>2. PICK end \in Elims(n) : end = CheckInvert(mat) /\ end = g[n] /\ end.ok
  BY <1>1
<1>3. end.inv \in Matrices(n) /\ end.mat \in Matrices(n)
  BY DEF Elims
<1>4. \A k \in 0..n : g[k].ok
  <2> DEFINE T == {d \in Nat : \A k \in 0..n : k + d = n => g[k].ok}
  <2>1. 0 \in T
    BY <1>2
  <2>2. ASSUME NEW d \in Nat, d \in T
        PROVE  d + 1 \in T
    <3> SUFFICES ASSUME NEW k \in 0..n, k + (d + 1) = n PROVE g[k].ok
      OBVIOUS
    <3>1. k + 1 \in 1..n /\ (k + 1) - 1 = k /\ k + 1 \in 0..n /\ (k + 1) + d = n
      OBVIOUS
    <3>2. g[k + 1].ok
      BY <2>2, <3>1
    <3>3. EliminatedTo(n, k + 1, g[k], g[k + 1]) /\ g[k] \in Elims(n)
      BY <1>1, <3>1
    <3>4. QED
      BY <3>1, <3>2, <3>3, EliminatedSolves
  <2>3. Nat \subseteq T
    <3> HIDE DEF T
    <3> QED BY <2>1, <2>2, NatInductionSet
  <2>4. \A k \in 0..n : n - k \in Nat /\ k + (n - k) = n
    OBVIOUS
  <2>5. QED
    BY <2>3, <2>4
<1>5. ColumnsDone(n, n, end.mat)
  <2> DEFINE T == {k \in Nat : k <= n => ColumnsDone(n, k, g[k].mat)}
  <2>1. 0 \in T
    BY DEF ColumnsDone
  <2>2. ASSUME NEW k \in Nat, k \in T
        PROVE  k + 1 \in T
    <3> SUFFICES ASSUME k + 1 <= n PROVE ColumnsDone(n, k + 1, g[k + 1].mat)
      OBVIOUS
    <3>1. k + 1 \in 1..n /\ (k + 1) - 1 = k /\ k + 1 \in 0..n /\ k \in 0..n
      OBVIOUS
    <3>2. EliminatedTo(n, k + 1, g[k], g[k + 1]) /\ g[k] \in Elims(n) /\ g[k + 1].ok
      BY <1>1, <1>4, <3>1
    <3>3. ColumnsDone(n, (k + 1) - 1, g[k].mat)
      BY <2>2, <3>1
    <3>4. QED
      BY <3>1, <3>2, <3>3, EliminatedSolves
  <2>3. Nat \subseteq T
    <3> HIDE DEF T
    <3> QED BY <2>1, <2>2, NatInductionSet
  <2>4. QED
    BY <1>2, <2>3
<1>6. ASSUME NEW I, NEW b, VectorsOver(b, 1..n, I)
      PROVE  /\ VectorsOver(Solution(n, end.inv, b, I), 1..n, I)
             /\ \A j \in 1..n : Combine(mat[j], Solution(n, end.inv, b, I), 1..n, I) = b[j]
  <2>1. PICK x : x = Solution(n, end.inv, b, I)
    OBVIOUS
  <2>2. \A j \in 1..n : x[j] = Combine(end.inv[j], b, 1..n, I)
    BY <2>1 DEF Solution
  <2>3. VectorsOver(x, 1..n, I)
    <3>1. \A j \in 1..n : end.inv[j] \in Vectors(1..n)
      BY <1>3 DEF Matrices
    <3>2. \A j \in 1..n : Combine(end.inv[j], b, 1..n, I) \in Vectors(I)
      BY <1>6, <3>1, CombineTyped
    <3>3. QED
      BY <1>6, <2>2, <3>2 DEF VectorsOver
  <2>4. Solves(n, I, end.mat, end.inv, x, b)
    <3>1. \A j \in 1..n : Combine(end.mat[j], x, 1..n, I) = x[j]
      BY <1>3, <1>5, <2>3, CombineIdentity
    <3>2. QED
      BY <2>2, <3>1 DEF Solves
  <2> DEFINE T == {d \in Nat : \A k \in 0..n : k + d = n => Solves(n, I, g[k].mat, g[k].inv, x, b)}
  <2>5. 0 \in T
    BY <1>2, <2>4
  <2>6. ASSUME NEW d \in Nat, d \in T
        PROVE  d + 1 \in T
    <3> SUFFICES ASSUME NEW k \in 0..n, k + (d + 1) = n PROVE Solves(n, I, g[k].mat, g[k].inv, x, b)
      OBVIOUS
    <3>1. k + 1 \in 1..n /\ (k + 1) - 1 = k /\ k + 1 \in 0..n /\ (k + 1) + d = n
      OBVIOUS
    <3>2. Solves(n, I, g[k + 1].mat, g[k + 1].inv, x, b)
      BY <2>6, <3>1
    <3>3. EliminatedTo(n, k + 1, g[k], g[k + 1]) /\ g[k] \in Elims(n) /\ g[k + 1].ok
      BY <1>1, <1>4, <3>1
    <3>4. QED
      BY <1>6, <2>3, <3>1, <3>2, <3>3, EliminatedSolves
  <2>7. Nat \subseteq T
    <3> HIDE DEF T
    <3> QED BY <2>5, <2>6, NatInductionSet
  <2>8. Solves(n, I, g[0].mat, g[0].inv, x, b)
    BY <2>7
  <2>9. \A j \in 1..n : Combine(mat[j], x, 1..n, I) = Combine(Identity(n)[j], b, 1..n, I)
    BY <1>1, <2>8 DEF Solves
  <2>10. \A j \in 1..n : Combine(Identity(n)[j], b, 1..n, I) = b[j]
    <3>1. Identity(n) \in Matrices(n) /\ ColumnsDone(n, n, Identity(n))
      BY IdentityTyped DEF ColumnsDone
    <3>2. QED
      BY <1>6, <3>1, CombineIdentity
  <2>11. QED
    BY <2>1, <2>3, <2>9, <2>10
<1>7. QED
  BY <1>2, <1>3, <1>6

\* It refuses a matrix of which two rows are equal.
LEMMA CheckInvertDistinct ==
  ASSUME NEW n \in Nat, NEW mat \in Matrices(n), CheckInvert(mat).ok,
         NEW i \in 1..n, NEW j \in 1..n, mat[i] = mat[j]
  PROVE  i = j
<1> SUFFICES ASSUME i # j PROVE FALSE
  OBVIOUS
<1>1. PICK one : one = [k \in {0} |-> 1]
  OBVIOUS
<1>2. one \in Vectors({0}) /\ ZeroOn({0}) \in Vectors({0}) /\ one # ZeroOn({0})
  <2>1. one[0] = 1 /\ ZeroOn({0})[0] = 0
    BY <1>1 DEF ZeroOn
  <2>2. QED
    BY <1>1, <2>1, AddRowLaws DEF Vectors, Field
<1>3. PICK b : b = [k \in 1..n |-> IF k = i THEN one ELSE ZeroOn({0})]
  OBVIOUS
<1>4. VectorsOver(b, 1..n, {0})
  BY <1>2, <1>3, FS_Interval DEF VectorsOver
<1>5. \A k \in 1..n : Combine(mat[k], Solution(n, CheckInvert(mat).inv, b, {0}), 1..n, {0}) = b[k]
  BY <1>4, CheckInvertSolves
<1>6. b[i] = b[j]
  BY <1>5
<1>7. QED
  BY <1>2, <1>3, <1>6

-----------------------------------------------------------------------------
(***************************************************************************)
(* The rows that cancel the pivots of a gap row.                           *)
(***************************************************************************)
CancelStates == [cols : SUBSET Cols, rows : SUBSET Rows]

\* The pivots of a row are columns of it.
LEMMA PivotsAre ==
  ASSUME input \in Inputs, NEW r \in Rows
  PROVE  Pivots(r) \subseteq Cols /\ Pivots(r) = Chosen \cap ToSet(H(r)) /\ ToSet(H(r)) \subseteq Cols
<1>1. H(r) \in Seq(Cols)
  BY InputTypes
<1>2. ToSet(H(r)) \subseteq Cols
  BY <1>1 DEF ToSet
<1>3. QED
  BY <1>2 DEF Pivots, Chosen

\* One triangular row more keeps the types.
LEMMA CancelTyped ==
  ASSUME input \in Inputs, NEW f \in CancelStates, NEW t \in TriRows
  PROVE  Cancel(f, t) \in CancelStates
<1>1. PICK r \in Rows : r = t.row
  BY DEF TriRows
<1>2. PICK P : P = Pivots(r) /\ P \subseteq Cols
  BY PivotsAre
<1>3. PICK c, d : c = f.cols /\ d = f.rows /\ c \subseteq Cols /\ d \subseteq Rows
  BY DEF CancelStates
<1>4. SymDiff(c, P) \subseteq Cols
  BY <1>2, <1>3 DEF SymDiff
<1>5. [cols |-> SymDiff(c, P), rows |-> d \cup {r}] \in CancelStates
  BY <1>3, <1>4 DEF CancelStates
<1>6. Cancel(f, t) = f \/ Cancel(f, t) = [cols |-> SymDiff(c, P), rows |-> d \cup {r}]
  BY <1>1, <1>2, <1>3 DEF Cancel
<1>7. QED
  BY <1>5, <1>6

Cancelled(s, q) == FoldLeft(Cancel, s, q)
CancellingRun(s, q, n, g) ==
  /\ g \in [0..n -> CancelStates] /\ g[0] = s
  /\ \A i \in 1..n : g[i] = Cancel(g[i - 1], q[i])
  /\ Cancelled(s, q) = g[n]

\* get_FC_1 goes through the triangular rows: the fold as a run.
LEMMA CancelRun ==
  ASSUME input \in Inputs, NEW s \in CancelStates, NEW q \in Seq(TriRows), NEW n \in Nat, n = Len(q)
  PROVE  \E g : CancellingRun(s, q, n, g)
<1> DEFINE S == DOMAIN q
           W == CancelStates
           Is(f) == f = [U \in SUBSET S |-> IF U = {} THEN s ELSE LET x == Max(U) IN Cancel(f[U \ {x}], q[x])]
           step == [p \in (1..n) \X W |-> Cancel(p[2], q[p[1]])]
<1>1. S = 1..n /\ \A i \in 1..n : q[i] \in TriRows
  OBVIOUS
<1>2. \A i \in 1..n : \A v \in W : step[<<i, v>>] = Cancel(v, q[i]) /\ Cancel(v, q[i]) \in W
  BY <1>1, CancelTyped
<1> HIDE DEF step, W
<1>3. PICK h \in [SUBSET (1..n) -> W] :
        /\ h[{}] = s
        /\ \A U \in SUBSET (1..n) : U # {} => h[U] = step[<<Max(U), h[U \ {Max(U)}]>>]
  <2>1. s \in W
    BY DEF W
  <2>2. \A i \in 1..n : \A v \in W : step[<<i, v>>] \in W
    BY <1>2
  <2>3. PICK h : IsRun(n, W, s, step, h)
    BY <2>1, <2>2, RunExists
  <2>4. QED
    BY <2>3 DEF IsRun
<1>4. Is(h)
  <2>1. ASSUME NEW U \in SUBSET (1..n), U # {}
        PROVE  h[U] = Cancel(h[U \ {Max(U)}], q[Max(U)])
    <3>1. Max(U) \in 1..n /\ h[U \ {Max(U)}] \in W
      BY <1>3, <2>1, MaxPicks
    <3>2. QED
      BY <1>2, <1>3, <2>1, <3>1
  <2>2. QED
    BY <1>1, <1>3, <2>1
<1>5. FoldLeft(Cancel, s, q) = (CHOOSE f : Is(f))[S]
  BY DEF FoldLeft, MapThenFoldSet
<1>6. PICK k : Is(k) /\ FoldLeft(Cancel, s, q) = k[1..n]
  <2>1. Is(CHOOSE f : Is(f))
    <3> HIDE DEF Is
    <3> QED BY <1>4
  <2> HIDE DEF Is
  <2>2. QED
    BY <1>1, <1>5, <2>1
<1> DEFINE g == [i \in 0..n |-> k[1..i]]
<1>7. g[0] = s
  BY <1>6
<1>8. ASSUME NEW i \in 1..n
      PROVE  g[i] = Cancel(g[i - 1], q[i])
  <2>1. 1..i \in SUBSET S /\ 1..i # {}
    <3>1. 1..i \subseteq 1..n /\ 1 \in 1..i
      OBVIOUS
    <3>2. QED
      BY <1>1, <3>1
  <2>2. k[1..i] = Cancel(k[(1..i) \ {Max(1..i)}], q[Max(1..i)])
    BY <1>6, <2>1
  <2>3. Max(1..i) = i /\ (1..i) \ {i} = 1..i - 1
    BY PrefixMax, i \in Nat, i # 0
  <2>4. g[i] = k[1..i] /\ g[i - 1] = k[1..i - 1]
    OBVIOUS
  <2>5. QED
    BY <2>2, <2>3, <2>4
<1> HIDE DEF g
<1>9. \A i \in 0..n : g[i] \in W
  <2> DEFINE T == {i \in Nat : i <= n => g[i] \in W}
  <2>1. 0 \in T
    BY <1>7 DEF W
  <2>2. ASSUME NEW i \in Nat, i \in T
        PROVE  i + 1 \in T
    <3> SUFFICES ASSUME i + 1 <= n PROVE g[i + 1] \in W
      OBVIOUS
    <3>1. i + 1 \in 1..n /\ (i + 1) - 1 = i
      OBVIOUS
    <3>2. g[i + 1] = Cancel(g[i], q[i + 1]) /\ g[i] \in W
      BY <1>8, <2>2, <3>1
    <3>3. QED
      BY <1>2, <3>1, <3>2
  <2>3. Nat \subseteq T
    <3> HIDE DEF T
    <3> QED BY <2>1, <2>2, NatInductionSet
  <2>4. QED
    BY <2>3
<1>10. g \in [0..n -> CancelStates]
  <2>1. g = [i \in 0..n |-> g[i]]
    BY DEF g
  <2>2. QED
    BY <1>9, <2>1 DEF W
<1>11. FoldLeft(Cancel, s, q) = g[n]
  BY <1>6 DEF g
<1>12. QED
  BY <1>7, <1>8, <1>10, <1>11 DEF CancellingRun, Cancelled

PivotSum(out, I)  == [r \in Rows |-> Total(out, Pivots(r), I)]
SparseSum(out, I) == [r \in Rows |-> Total(out, ToSet(H(r)), I)]

\* There are finitely many columns.
LEMMA ColsFinite == IsFiniteSet(Cols)
  BY FS_Interval, SizeAssumption DEF Cols

\* Every row's sum is a vector.
LEMMA PivotSumTyped ==
  ASSUME input \in Inputs, NEW I, NEW out, VectorsOver(out, Cols, I)
  PROVE  /\ VectorsOver(PivotSum(out, I), Rows, I) /\ VectorsOver(SparseSum(out, I), Rows, I)
         /\ \A r \in Rows : PivotSum(out, I)[r] = Total(out, Pivots(r), I)
                            /\ SparseSum(out, I)[r] = Total(out, ToSet(H(r)), I)
<1>1. IsFiniteSet(Rows)
  <2>1. PICK n \in 0..N : Rows = 1..n
    BY InputTypes
  <2>2. QED
    BY <2>1, FS_Interval, SizeAssumption
<1>2. \A S \in SUBSET Cols : Total(out, S, I) \in Vectors(I)
  <2> TAKE S \in SUBSET Cols
  <2>1. VectorsOver(out, S, I)
    BY FS_Subset DEF VectorsOver
  <2>2. QED
    BY <2>1, TotalTake
<1>3. \A r \in Rows : Pivots(r) \subseteq Cols /\ ToSet(H(r)) \subseteq Cols
  BY PivotsAre
<1>4. \A r \in Rows : PivotSum(out, I)[r] = Total(out, Pivots(r), I)
                      /\ SparseSum(out, I)[r] = Total(out, ToSet(H(r)), I)
  BY DEF PivotSum, SparseSum
<1>5. \A r \in Rows : PivotSum(out, I)[r] \in Vectors(I) /\ SparseSum(out, I)[r] \in Vectors(I)
  BY <1>2, <1>3, <1>4
<1>6. QED
  BY <1>1, <1>4, <1>5 DEF VectorsOver

\* After i triangular rows: what is left are pivots of later ones, and its sum
\* is that of the gap row and of the rows taken.
CancelledTo(i, n, f, out, I, r) ==
  /\ f \in CancelStates
  /\ \A c \in f.cols : \E j \in i + 1..n : tri[j].col = c
  /\ \A s \in f.rows : \E j \in 1..i : tri[j].row = s
  /\ Total(out, f.cols, I) = AddRow(PivotSum(out, I)[r], Total(PivotSum(out, I), f.rows, I))

\* One triangular row: its pivot is cancelled, and later ones may appear.
LEMMA CancelsOne ==
  ASSUME Solver_Types, Solver_Triangle, NEW n \in Nat, n = Len(tri),
         NEW I, NEW out, VectorsOver(out, Cols, I), NEW r \in Rows,
         NEW i \in Nat, i + 1 <= n, NEW f, CancelledTo(i, n, f, out, I, r)
  PROVE  CancelledTo(i + 1, n, Cancel(f, tri[i + 1]), out, I, r)
<1>1. DOMAIN tri = 1..n /\ \A j \in 1..n : tri[j] \in TriRows
  BY DEF Solver_Types
<1>2. i + 1 \in 1..n
  OBVIOUS
<1>3. PICK t \in TriRows : t = tri[i + 1]
  BY <1>1, <1>2
<1>4. PICK s \in Rows : s = t.row
  BY DEF TriRows
<1>5. PICK c \in Cols : c = t.col
  BY DEF TriRows
<1>6. PICK U \in SUBSET Cols : U = f.cols
  BY DEF CancelledTo, CancelStates
<1>7. PICK V \in SUBSET Rows : V = f.rows
  BY DEF CancelledTo, CancelStates
<1>8. PICK P : P = PivotSum(out, I) /\ VectorsOver(P, Rows, I)
               /\ \A x \in Rows : P[x] = Total(out, Pivots(x), I)
  BY PivotSumTyped DEF Solver_Types
<1>9. Total(out, U, I) = AddRow(P[r], Total(P, V, I))
  BY <1>6, <1>7, <1>8 DEF CancelledTo
<1>10. Cancel(f, tri[i + 1]) \in CancelStates
  BY <1>3, CancelTyped DEF CancelledTo, Solver_Types
<1>11. \A j \in i + 1..n : j = i + 1 \/ j \in i + 2..n
  OBVIOUS
<1>12. \A x \in U : \E j \in i + 1..n : tri[j].col = x
  BY <1>6 DEF CancelledTo
<1>13. \A x \in V : \E j \in 1..i : tri[j].row = x
  BY <1>7 DEF CancelledTo
<1>14. CASE c \notin U
  <2>1. Cancel(f, tri[i + 1]) = f
    BY <1>3, <1>5, <1>6, <1>14 DEF Cancel
  <2>2. \A x \in U : \E j \in i + 2..n : tri[j].col = x
    <3> TAKE x \in U
    <3>1. PICK j \in i + 1..n : tri[j].col = x
      BY <1>12
    <3>2. j # i + 1
      BY <1>3, <1>5, <1>14, <3>1
    <3>3. j \in i + 2..n
      BY <1>11, <3>2
    <3>4. QED
      BY <3>1, <3>3
  <2>3. \A x \in V : \E j \in 1..i + 1 : tri[j].row = x
    <3> TAKE x \in V
    <3>1. PICK j \in 1..i : tri[j].row = x
      BY <1>13
    <3>2. j \in 1..i + 1
      OBVIOUS
    <3>3. QED
      BY <3>1, <3>2
  <2>4. (i + 1) + 1 = i + 2
    OBVIOUS
  <2>5. QED
    BY <1>6, <1>7, <1>8, <1>9, <1>10, <2>1, <2>2, <2>3, <2>4 DEF CancelledTo
<1>15. CASE c \in U
  <2>1. PICK Q \in SUBSET Cols : Q = Pivots(s)
    BY PivotsAre DEF Solver_Types
  <2>2. \A x : x \in Q <=> x \in ToSet(H(s)) /\ \E j \in 1..n : tri[j].col = x
    <3>1. Q = {w.col : w \in ToSet(tri)} \cap ToSet(H(s))
      BY <2>1 DEF Pivots
    <3>2. ToSet(tri) = {tri[j] : j \in 1..n}
      BY <1>1 DEF ToSet
    <3>3. QED
      BY <3>1, <3>2
  <2>3. PICK d \in SUBSET Cols : d = SymDiff(U, Q)
    BY DEF SymDiff
  <2>4. Cancel(f, tri[i + 1]) = [cols |-> d, rows |-> V \cup {s}]
    BY <1>3, <1>4, <1>5, <1>6, <1>7, <1>15, <2>1, <2>3 DEF Cancel
  <2>5. c \in Q
    <3>1. tri[i + 1].col \in ToSet(H(tri[i + 1].row))
      BY <1>1, <1>2 DEF Solver_Triangle
    <3>2. QED
      BY <1>2, <1>3, <1>4, <1>5, <2>2, <3>1
  <2>6. \A x \in d : \E j \in i + 2..n : tri[j].col = x
    <3> TAKE x \in d
    <3>1. x # c /\ (x \in U \/ x \in Q)
      BY <1>15, <2>3, <2>5 DEF SymDiff
    <3>2. PICK j \in i + 1..n : tri[j].col = x
      <4>1. CASE x \in U
        BY <1>12, <4>1
      <4>2. CASE x \in Q
        <5>1. PICK j \in 1..n : tri[j].col = x
          BY <2>2, <4>2
        <5>2. x \in ToSet(H(tri[i + 1].row))
          BY <1>3, <1>4, <2>2, <4>2
        <5>3. j >= i + 1
          BY <1>1, <1>2, <5>1, <5>2 DEF Solver_Triangle
        <5>4. j \in i + 1..n
          BY <5>3
        <5>5. QED
          BY <5>1, <5>4
      <4>3. QED
        BY <3>1, <4>1, <4>2
    <3>3. j # i + 1
      BY <1>3, <1>5, <3>1, <3>2
    <3>4. j \in i + 2..n
      BY <1>11, <3>3
    <3>5. QED
      BY <3>2, <3>4
  <2>7. s \notin V
    <3>1. SUFFICES ASSUME s \in V PROVE FALSE
      OBVIOUS
    <3>2. PICK j \in 1..i : tri[j].row = s
      BY <1>13, <3>1
    <3>3. j \in 1..n /\ j # i + 1
      OBVIOUS
    <3>4. tri[j].row = tri[i + 1].row
      BY <1>3, <1>4, <3>2
    <3>5. QED
      BY <1>1, <1>2, <3>3, <3>4 DEF Solver_Triangle
  <2>8. \A x \in V \cup {s} : \E j \in 1..i + 1 : tri[j].row = x
    <3> TAKE x \in V \cup {s}
    <3>1. CASE x = s
      <4>1. i + 1 \in 1..i + 1
        OBVIOUS
      <4>2. QED
        BY <1>3, <1>4, <3>1, <4>1
    <3>2. CASE x \in V
      <4>1. PICK j \in 1..i : tri[j].row = x
        BY <1>13, <3>2
      <4>2. j \in 1..i + 1
        OBVIOUS
      <4>3. QED
        BY <4>1, <4>2
    <3>3. QED
      BY <3>1, <3>2
  <2>9. Total(out, d, I) = AddRow(P[r], Total(P, V \cup {s}, I))
    <3>1. Total(out, d, I) = AddRow(Total(out, U, I), Total(out, Q, I))
      BY <2>3, TotalDelta
    <3>2. Total(out, Q, I) = P[s]
      BY <1>8, <2>1
    <3>3. VectorsOver(P, V \cup {s}, I) /\ VectorsOver(P, V, I)
      <4>1. V \cup {s} \subseteq Rows
        OBVIOUS
      <4>2. IsFiniteSet(V \cup {s}) /\ IsFiniteSet(V)
        BY <1>8, <4>1, FS_Subset DEF VectorsOver
      <4>3. QED
        BY <1>8, <4>2 DEF VectorsOver
    <3>4. Total(P, V \cup {s}, I) = AddRow(P[s], Total(P, V, I)) /\ Total(P, V, I) \in Vectors(I)
      BY <2>7, <3>3, TotalWith, TotalTake
    <3>5. P[r] \in Vectors(I) /\ P[s] \in Vectors(I)
      BY <1>8 DEF VectorsOver
    <3>6. AddRow(AddRow(P[r], Total(P, V, I)), P[s]) = AddRow(P[r], AddRow(P[s], Total(P, V, I)))
      <4>1. AddRow(AddRow(P[r], Total(P, V, I)), P[s]) = AddRow(P[r], AddRow(Total(P, V, I), P[s]))
        BY <3>4, <3>5, AddRowLaws
      <4>2. AddRow(Total(P, V, I), P[s]) = AddRow(P[s], Total(P, V, I))
        BY <3>4, <3>5, AddRowLaws
      <4>3. QED
        BY <4>1, <4>2
    <3>7. QED
      BY <1>9, <3>1, <3>2, <3>4, <3>6
  <2>10. PICK e \in CancelStates : e = Cancel(f, tri[i + 1]) /\ e.cols = d /\ e.rows = V \cup {s}
    BY <1>10, <2>4
  <2>11. (i + 1) + 1 = i + 2
    OBVIOUS
  <2>12. CancelledTo(i + 1, n, e, out, I, r)
    BY <1>8, <2>6, <2>8, <2>9, <2>10, <2>11 DEF CancelledTo
  <2>13. QED
    BY <2>10, <2>12
<1>16. QED
  BY <1>14, <1>15

\* get_FC_1 takes triangular rows whose pivots sum up to the gap row's.
LEMMA CancelsAll ==
  ASSUME Solver_Types, Solver_Triangle, NEW g \in GapRows, H(g.row) # H(g.first),
         NEW I, NEW out, VectorsOver(out, Cols, I)
  PROVE  /\ FC_1(g) \in SUBSET Rows /\ \A x \in FC_1(g) : x \in RowsOf(tri)
         /\ Total(PivotSum(out, I), FC_1(g), I) = PivotSum(out, I)[g.row]
<1>1. PICK n \in Nat : n = Len(tri)
  BY DEF Solver_Types
<1>2. DOMAIN tri = 1..n /\ tri \in Seq(TriRows) /\ input \in Inputs
  BY <1>1 DEF Solver_Types
<1>3. PICK r \in Rows : r = g.row
  BY DEF GapRows
<1>4. PICK s \in CancelStates : s = [cols |-> Pivots(r), rows |-> {}]
  BY <1>2, PivotsAre DEF CancelStates
<1>5. PICK h : CancellingRun(s, tri, n, h)
  BY <1>1, <1>2, CancelRun
<1>6. /\ h \in [0..n -> CancelStates] /\ h[0] = s
      /\ \A i \in 1..n : h[i] = Cancel(h[i - 1], tri[i])
      /\ FoldLeft(Cancel, s, tri) = h[n]
  BY <1>5 DEF CancellingRun, Cancelled
<1>7. FC_1(g) = h[n].rows
  BY <1>3, <1>4, <1>6 DEF FC_1
<1>8. PICK P : P = PivotSum(out, I) /\ VectorsOver(P, Rows, I)
               /\ \A x \in Rows : P[x] = Total(out, Pivots(x), I)
  BY <1>2, PivotSumTyped
<1> DEFINE T == {i \in Nat : i <= n => CancelledTo(i, n, h[i], out, I, r)}
<1>9. 0 \in T
  <2>1. \A c \in Pivots(r) : \E j \in 0 + 1..n : tri[j].col = c
    <3>1. ToSet(tri) = {tri[j] : j \in 1..n} /\ 0 + 1 = 1
      BY <1>2 DEF ToSet
    <3>2. QED
      BY <3>1 DEF Pivots
  <2>2. Total(out, Pivots(r), I) = AddRow(P[r], Total(P, {}, I))
    <3>1. P[r] \in Vectors(I)
      BY <1>8 DEF VectorsOver
    <3>2. AddRow(P[r], ZeroOn(I)) = P[r]
      BY <3>1, AddRowLaws
    <3>3. QED
      BY <1>8, <3>2, TotalEmpty
  <2>3. s.cols = Pivots(r) /\ s.rows = {}
    BY <1>4
  <2>4. CancelledTo(0, n, s, out, I, r)
    BY <1>8, <2>1, <2>2, <2>3 DEF CancelledTo
  <2>5. QED
    BY <1>6, <2>4
<1>10. ASSUME NEW i \in Nat, i \in T
       PROVE  i + 1 \in T
  <2> SUFFICES ASSUME i + 1 <= n PROVE CancelledTo(i + 1, n, h[i + 1], out, I, r)
    OBVIOUS
  <2>1. i + 1 \in 1..n /\ (i + 1) - 1 = i /\ i <= n
    OBVIOUS
  <2>2. CancelledTo(i, n, h[i], out, I, r)
    BY <1>10, <2>1
  <2>3. h[i + 1] = Cancel(h[i], tri[i + 1])
    BY <1>6, <2>1
  <2>4. QED
    BY <1>1, <2>2, <2>3, CancelsOne
<1>11. Nat \subseteq T
  <2> HIDE DEF T
  <2> QED BY <1>9, <1>10, NatInductionSet
<1>12. CancelledTo(n, n, h[n], out, I, r)
  BY <1>11
<1>13. PICK U \in SUBSET Cols : U = h[n].cols
  BY <1>12 DEF CancelledTo, CancelStates
<1>14. PICK V \in SUBSET Rows : V = h[n].rows
  BY <1>12 DEF CancelledTo, CancelStates
<1>15. U = {}
  <2>1. \A c \in U : \E j \in n + 1..n : tri[j].col = c
    BY <1>12, <1>13 DEF CancelledTo
  <2>2. n + 1..n = {}
    OBVIOUS
  <2>3. QED
    BY <2>1, <2>2
<1>16. \A x \in V : x \in RowsOf(tri)
  <2>1. \A x \in V : \E j \in 1..n : tri[j].row = x
    BY <1>12, <1>14 DEF CancelledTo
  <2>2. QED
    BY <1>2, <2>1, RowsAre
<1>17. Total(P, V, I) = P[r]
  <2>1. Total(out, {}, I) = AddRow(P[r], Total(P, V, I))
    BY <1>8, <1>12, <1>13, <1>14, <1>15 DEF CancelledTo
  <2>2. VectorsOver(P, V, I)
    BY <1>8, FS_Subset DEF VectorsOver
  <2>3. Total(P, V, I) \in Vectors(I) /\ P[r] \in Vectors(I)
    BY <1>8, <2>2, TotalTake DEF VectorsOver
  <2>4. AddRow(P[r], Total(P, V, I)) = ZeroOn(I)
    BY <2>1, TotalEmpty
  <2>5. QED
    BY <2>3, <2>4, AddRowShuffle
<1>18. QED
  BY <1>3, <1>7, <1>8, <1>14, <1>16, <1>17

\* Where only pivots are not zero, the rows of get_FC_1 sum up to the gap row
\* over all sparse columns.
LEMMA CancelsColumns ==
  ASSUME Solver_Types, Solver_Triangle, NEW k \in DOMAIN gap, NEW I, NEW out, VectorsOver(out, Cols, I),
         \A c \in Cols \ Chosen : out[c] = ZeroOn(I)
  PROVE  /\ FC_1(gap[k]) \in SUBSET Rows /\ \A x \in FC_1(gap[k]) : x \in RowsOf(tri)
         /\ Total(SparseSum(out, I), FC_1(gap[k]), I) = SparseSum(out, I)[gap[k].row]
<1>1. PICK g \in GapRows : g = gap[k]
  BY DEF Solver_Types
<1>2. PICK r \in Rows : r = g.row
  BY DEF GapRows
<1>3. PICK f \in Rows : f = g.first
  BY DEF GapRows
<1>4. input \in Inputs
  BY DEF Solver_Types
<1>5. PICK S : /\ S = SparseSum(out, I) /\ VectorsOver(S, Rows, I)
               /\ \A x \in Rows : S[x] = Total(out, ToSet(H(x)), I)
  BY <1>4, PivotSumTyped
<1>6. CASE H(r) = H(f)
  <2>1. FC_1(g) = {f}
    BY <1>2, <1>3, <1>6 DEF FC_1
  <2>2. f \in RowsOf(tri)
    <3>1. PICK i \in DOMAIN tri : tri[i].row = gap[k].first
      BY DEF Solver_Triangle
    <3>2. QED
      BY <1>1, <1>3, <3>1, RowsAre
  <2>3. VectorsOver(S, {f}, I)
    BY <1>5, FS_Singleton DEF VectorsOver
  <2>4. Total(S, {f}, I) = S[f]
    BY <2>3, TotalOne
  <2>5. S[f] = S[r]
    BY <1>5, <1>6
  <2>6. QED
    BY <1>1, <1>2, <1>5, <2>1, <2>2, <2>4, <2>5
<1>7. CASE H(r) # H(f)
  <2>1. PICK P : /\ P = PivotSum(out, I) /\ VectorsOver(P, Rows, I)
                 /\ \A x \in Rows : P[x] = Total(out, Pivots(x), I)
    BY <1>4, PivotSumTyped
  <2>2. PICK F \in SUBSET Rows : F = FC_1(g) /\ (\A x \in F : x \in RowsOf(tri)) /\ Total(P, F, I) = P[r]
    BY <1>2, <1>3, <1>7, <2>1, CancelsAll
  <2>3. \A x \in Rows : S[x] = P[x]
    <3> TAKE x \in Rows
    <3>1. Pivots(x) \subseteq Cols /\ Pivots(x) = Chosen \cap ToSet(H(x)) /\ ToSet(H(x)) \subseteq Cols
      BY <1>4, PivotsAre
    <3>2. Within(ToSet(H(x)), I, out, Pivots(x), out)
      <4>1. VectorsOver(out, ToSet(H(x)), I)
        BY <3>1, FS_Subset DEF VectorsOver
      <4>2. \A c \in ToSet(H(x)) \ Pivots(x) : out[c] = ZeroOn(I)
        BY <3>1
      <4>3. QED
        BY <3>1, <4>1, <4>2 DEF Within
    <3>3. Total(out, ToSet(H(x)), I) = Total(out, Pivots(x), I)
      BY <3>2, TotalWithin
    <3>4. QED
      BY <1>5, <2>1, <3>3
  <2>4. VectorsOver(P, F, I)
    BY <2>1, FS_Subset DEF VectorsOver
  <2>5. Total(S, F, I) = Total(P, F, I)
    BY <2>3, <2>4, TotalSame
  <2>6. QED
    BY <1>1, <1>2, <1>5, <2>2, <2>3, <2>5
<1>8. QED
  BY <1>6, <1>7

-----------------------------------------------------------------------------
(***************************************************************************)
(* The dense part of a row.                                                *)
(***************************************************************************)
PowerLists      == {s \in Seq(Field) : s # << >>}
NextPower(s, a) == Append(s, Mul(Last(s), a))
Powered(s, a, q) == FoldLeft(LAMBDA v, k : Append(v, Mul(Last(v), a)), s, q)

\* One power more.
LEMMA NextPowerTyped ==
  ASSUME NEW s \in PowerLists, NEW a \in Field
  PROVE  NextPower(s, a) \in PowerLists /\ Len(NextPower(s, a)) = Len(s) + 1
<1>1. s \in Seq(Field) /\ Len(s) \in Nat /\ Len(s) # 0
  BY DEF PowerLists
<1>2. Last(s) \in Field
  BY <1>1 DEF Last
<1>3. Mul(Last(s), a) \in Field
  BY <1>2, MulLaws
<1>4. QED
  BY <1>1, <1>3 DEF NextPower, PowerLists

PowersGoing(s, a, q, n, g) ==
  /\ g \in [0..n -> PowerLists] /\ g[0] = s
  /\ \A i \in 1..n : g[i] = NextPower(g[i - 1], a)
  /\ Powered(s, a, q) = g[n]

\* The powers are multiplied up one after the other: the fold as a run.
LEMMA PowersRun ==
  ASSUME NEW n \in Nat, NEW s \in PowerLists, NEW a \in Field, NEW q \in Seq(1..n), n = Len(q)
  PROVE  \E g : PowersGoing(s, a, q, n, g)
<1> DEFINE S == DOMAIN q
           W == PowerLists
           Is(f) == f = [U \in SUBSET S |-> IF U = {} THEN s ELSE LET x == Max(U) IN NextPower(f[U \ {x}], a)]
           step == [p \in (1..n) \X W |-> NextPower(p[2], a)]
<1>1. S = 1..n /\ \A i \in 1..n : q[i] \in 1..n
  OBVIOUS
<1>2. \A i \in 1..n : \A v \in W : step[<<i, v>>] = NextPower(v, a) /\ NextPower(v, a) \in W
  BY <1>1, NextPowerTyped
<1> HIDE DEF step, W
<1>3. PICK h \in [SUBSET (1..n) -> W] :
        /\ h[{}] = s
        /\ \A U \in SUBSET (1..n) : U # {} => h[U] = step[<<Max(U), h[U \ {Max(U)}]>>]
  <2>1. s \in W
    BY DEF W
  <2>2. \A i \in 1..n : \A v \in W : step[<<i, v>>] \in W
    BY <1>2
  <2>3. PICK h : IsRun(n, W, s, step, h)
    BY <2>1, <2>2, RunExists
  <2>4. QED
    BY <2>3 DEF IsRun
<1>4. Is(h)
  <2>1. ASSUME NEW U \in SUBSET (1..n), U # {}
        PROVE  h[U] = NextPower(h[U \ {Max(U)}], a)
    <3>1. Max(U) \in 1..n /\ h[U \ {Max(U)}] \in W
      BY <1>3, <2>1, MaxPicks
    <3>2. QED
      BY <1>2, <1>3, <2>1, <3>1
  <2>2. QED
    BY <1>1, <1>3, <2>1
<1>5. Powered(s, a, q) = (CHOOSE f : Is(f))[S]
  BY DEF Powered, NextPower, FoldLeft, MapThenFoldSet
<1>6. PICK k : Is(k) /\ Powered(s, a, q) = k[1..n]
  <2>1. Is(CHOOSE f : Is(f))
    <3> HIDE DEF Is
    <3> QED BY <1>4
  <2> HIDE DEF Is
  <2>2. QED
    BY <1>1, <1>5, <2>1
<1> DEFINE g == [i \in 0..n |-> k[1..i]]
<1>7. g[0] = s
  BY <1>6
<1>8. ASSUME NEW i \in 1..n
      PROVE  g[i] = NextPower(g[i - 1], a)
  <2>1. 1..i \in SUBSET S /\ 1..i # {}
    <3>1. 1..i \subseteq 1..n /\ 1 \in 1..i
      OBVIOUS
    <3>2. QED
      BY <1>1, <3>1
  <2>2. k[1..i] = NextPower(k[(1..i) \ {Max(1..i)}], a)
    BY <1>6, <2>1
  <2>3. Max(1..i) = i /\ (1..i) \ {i} = 1..i - 1
    BY PrefixMax, i \in Nat, i # 0
  <2>4. g[i] = k[1..i] /\ g[i - 1] = k[1..i - 1]
    OBVIOUS
  <2>5. QED
    BY <2>2, <2>3, <2>4
<1> HIDE DEF g
<1>9. \A i \in 0..n : g[i] \in W
  <2> DEFINE T == {i \in Nat : i <= n => g[i] \in W}
  <2>1. 0 \in T
    BY <1>7 DEF W
  <2>2. ASSUME NEW i \in Nat, i \in T
        PROVE  i + 1 \in T
    <3> SUFFICES ASSUME i + 1 <= n PROVE g[i + 1] \in W
      OBVIOUS
    <3>1. i + 1 \in 1..n /\ (i + 1) - 1 = i
      OBVIOUS
    <3>2. g[i + 1] = NextPower(g[i], a) /\ g[i] \in W
      BY <1>8, <2>2, <3>1
    <3>3. QED
      BY <1>2, <3>1, <3>2
  <2>3. Nat \subseteq T
    <3> HIDE DEF T
    <3> QED BY <2>1, <2>2, NatInductionSet
  <2>4. QED
    BY <2>3
<1>10. g \in [0..n -> PowerLists]
  <2>1. g = [i \in 0..n |-> g[i]]
    BY DEF g
  <2>2. QED
    BY <1>9, <2>1 DEF W
<1>11. Powered(s, a, q) = g[n]
  BY <1>6 DEF g
<1>12. QED
  BY <1>7, <1>8, <1>10, <1>11 DEF PowersGoing

\* The powers of a block are as many as asked for, and elements of the field.
LEMMA PowersTyped ==
  ASSUME NEW a \in Field, NEW n \in Nat, n # 0
  PROVE  Powers(a, n) \in Vectors(1..n)
<1>1. PICK m \in Nat : m = n - 1
  OBVIOUS
<1>2. PICK q : q = [k \in 1..m |-> k]
  OBVIOUS
<1>3. q \in Seq(1..m) /\ m = Len(q)
  BY <1>2
<1>4. PICK s \in PowerLists : s = <<a>>
  <2>1. <<a>> \in Seq(Field) /\ Len(<<a>>) = 1 /\ Len(<< >>) = 0
    OBVIOUS
  <2>2. <<a>> \in PowerLists
    BY <2>1 DEF PowerLists
  <2>3. QED
    BY <2>2
<1>5. Powers(a, n) = Powered(s, a, q)
  BY <1>1, <1>2, <1>4 DEF Powers, Powered
<1>6. PICK g : PowersGoing(s, a, q, m, g)
  BY <1>3, PowersRun
<1>7. /\ g \in [0..m -> PowerLists] /\ g[0] = s
      /\ \A i \in 1..m : g[i] = NextPower(g[i - 1], a)
      /\ Powered(s, a, q) = g[m]
  BY <1>6 DEF PowersGoing
<1> DEFINE T == {i \in Nat : i <= m => Len(g[i]) = i + 1}
<1>8. 0 \in T
  BY <1>4, <1>7
<1>9. ASSUME NEW i \in Nat, i \in T
      PROVE  i + 1 \in T
  <2> SUFFICES ASSUME i + 1 <= m PROVE Len(g[i + 1]) = (i + 1) + 1
    OBVIOUS
  <2>1. i + 1 \in 1..m /\ (i + 1) - 1 = i /\ i \in 0..m
    OBVIOUS
  <2>2. g[i + 1] = NextPower(g[i], a) /\ g[i] \in PowerLists /\ Len(g[i]) = i + 1
    BY <1>7, <1>9, <2>1
  <2>3. QED
    BY <2>2, NextPowerTyped
<1>10. Nat \subseteq T
  <2> HIDE DEF T
  <2> QED BY <1>8, <1>9, NatInductionSet
<1>11. Len(g[m]) = n /\ g[m] \in Seq(Field)
  BY <1>1, <1>7, <1>10 DEF PowerLists
<1>12. QED
  BY <1>5, <1>7, <1>11 DEF Vectors

\* g_limit and dense_size are bytes, and dense_size is g_limit over the field.
LEMMA SizesAre ==
  ASSUME input \in Inputs
  PROVE  /\ GLimit \in 0..ByteMax /\ D \in 0..ByteMax /\ D \in Nat /\ M \in Nat /\ N \in Nat
         /\ kind \in {"Binary", "Gf128"} /\ (kind = "Gf128" => D = GLimit)
<1>1. PICK in \in Inputs : in = input
  OBVIOUS
<1>2. /\ in.kind \in {"Binary", "Gf128"} /\ in.g_limit \in 0..ByteMax /\ in.lambda \in 0..ByteMax
  BY InputAssumption
<1>3. GLimit \in 0..255 /\ kind \in {"Binary", "Gf128"} /\ input.lambda \in 0..255
  BY <1>1, <1>2 DEF GLimit, kind, ByteMax
<1>4. CASE kind = "Binary"
  <2>1. D = (GLimit + input.lambda) % 256
    BY <1>4 DEF D, ByteMax
  <2>2. \A x \in Nat : x % 256 \in 0..255
    OBVIOUS
  <2>3. GLimit + input.lambda \in Nat
    BY <1>3
  <2>4. D \in 0..255
    BY <2>1, <2>2, <2>3
  <2>5. QED
    BY <1>3, <1>4, <2>4, SizeAssumption DEF ByteMax
<1>5. CASE kind = "Gf128"
  <2>1. D = (GLimit + 0) % 256
    BY <1>5 DEF D, ByteMax
  <2>2. D = GLimit
    BY <1>3, <2>1
  <2>3. QED
    BY <1>3, <1>5, <2>2, SizeAssumption DEF ByteMax
<1>6. QED
  BY <1>3, <1>4, <1>5

\* Every entry of a dense part is an element of the field, and there are D.
LEMMA DenseRowTyped ==
  ASSUME input \in Inputs, NEW r \in Rows
  PROVE  D \in Nat /\ (D # 0 => DenseRow(r) \in Vectors(1..D))
<1>1. PICK in \in Inputs : in = input
  OBVIOUS
<1>2. r \in DOMAIN in.dense /\ in.kind \in {"Binary", "Gf128"}
      /\ in.dense[r] \in (IF in.kind = "Gf128" THEN Field ELSE SUBSET (0..BlockBits-1))
  BY <1>1, InputAssumption DEF Rows
<1>3. D \in Nat
  BY SizesAre
<1>4. CASE kind = "Binary"
  <2>1. DenseRow(r) = [j \in 1..D |-> IF j - 1 \in input.dense[r] THEN 1 ELSE 0]
    BY <1>4 DEF DenseRow
  <2>2. 0 \in Field /\ 1 \in Field
    BY DEF Field
  <2>3. DenseRow(r) \in Vectors(1..D)
    BY <2>1, <2>2 DEF Vectors
  <2>4. QED
    BY <1>3, <2>3
<1>5. CASE kind # "Binary" /\ D # 0
  <2>1. input.dense[r] \in Field
    BY <1>1, <1>2, <1>5 DEF kind
  <2>2. DenseRow(r) = Powers(input.dense[r], D)
    BY <1>5 DEF DenseRow
  <2>3. QED
    BY <1>3, <1>5, <2>1, <2>2, PowersTyped
<1>6. QED
  BY <1>3, <1>4, <1>5

Outputs          == [Positions -> Vectors(Symbols)]
DenseColumn(out) == [j \in 1..D |-> out[M + (j - 1)]]
DenseSum(out)    == [r \in Rows |-> Dense(r, out, 0..D-1)]

\* The sizes and the positions.
LEMMA PositionsAre ==
  ASSUME input \in Inputs
  PROVE  /\ D \in Nat /\ M \in Nat /\ N \in Nat /\ Cols \subseteq Positions
         /\ \A j \in 0..D-1 : M + j \in Positions /\ M + j \notin Cols
         /\ Positions = Cols \cup {M + j : j \in 0..D-1}
         /\ IsFiniteSet(0..D-1) /\ IsFiniteSet(1..D) /\ IsFiniteSet(Rows)
         /\ Rows \subseteq Symbols
<1>1. D \in Nat /\ M \in Nat /\ N \in Nat
  BY SizesAre
<1>2. PICK d \in Nat : d = D
  BY <1>1
<1>3. /\ \A j \in 0..d-1 : M + j \in 0..M+d-1 /\ M + j \notin 0..M-1
      /\ 0..M-1 \subseteq 0..M+d-1
  BY <1>1
<1>4. 0..M+d-1 = 0..M-1 \cup {M + j : j \in 0..d-1}
  <2>1. ASSUME NEW p \in 0..M+d-1, p \notin 0..M-1
        PROVE  p \in {M + j : j \in 0..d-1}
    <3>1. p - M \in 0..d-1 /\ p = M + (p - M)
      BY <1>1, <2>1
    <3>2. QED
      BY <3>1
  <2>2. QED
    BY <1>3, <2>1
<1>5. IsFiniteSet(0..d-1) /\ IsFiniteSet(1..d)
  BY FS_Interval
<1>6. IsFiniteSet(Rows) /\ Rows \subseteq Symbols
  <2>1. PICK in \in Inputs : in = input
    OBVIOUS
  <2>2. PICK n \in 0..N : Rows = 1..n
    BY <2>1, InputAssumption DEF Rows
  <2>3. 1..n \subseteq 1..N+M+d
    BY <1>1
  <2>4. QED
    BY <1>1, <1>2, <2>2, <2>3, FS_Interval DEF Symbols
<1>7. QED
  BY <1>1, <1>2, <1>3, <1>4, <1>5, <1>6 DEF Cols, Positions

\* The symbolic values are vectors over the symbols.
LEMMA ValuesTyped ==
  ASSUME input \in Inputs
  PROVE  /\ \A r \in Rows : Value(r) \in Vectors(Symbols)
         /\ \A p \in Positions : Draw(p) \in Vectors(Symbols)
         /\ Zero \in Vectors(Symbols) /\ Zero = ZeroOn(Symbols)
<1>1. \A i : Symbol(i) \in Vectors(Symbols)
  BY DEF Symbol, Vectors, Field
<1>2. QED
  BY <1>1 DEF Value, Draw, Zero, ZeroOn, Vectors, Field

\* The dense part of a row times the dense positions, and which of them it may
\* leave out.
LEMMA DenseIs ==
  ASSUME input \in Inputs, NEW r \in Rows, NEW out, out \in Outputs
  PROVE  /\ VectorsOver(DenseColumn(out), 1..D, Symbols)
         /\ Dense(r, out, 0..D-1) \in Vectors(Symbols)
         /\ \A used \in SUBSET (0..D-1) :
              (\A j \in (0..D-1) \ used : out[M + j] = Zero) =>
                Dense(r, out, used) = Dense(r, out, 0..D-1)
         /\ D # 0 => Dense(r, out, 0..D-1) = Combine(DenseRow(r), DenseColumn(out), 1..D, Symbols)
<1>1. PICK d \in Nat : d = D /\ M \in Nat /\ IsFiniteSet(0..d-1) /\ IsFiniteSet(1..d)
                         /\ \A j \in 0..d-1 : out[M + j] \in Vectors(Symbols)
  <2>1. D \in Nat /\ \A j \in 0..D-1 : M + j \in Positions
    BY PositionsAre
  <2>2. \A p \in Positions : out[p] \in Vectors(Symbols)
    BY DEF Outputs
  <2>3. QED
    BY <2>1, <2>2, PositionsAre
<1>2. d # 0 => DenseRow(r) \in Vectors(1..d)
  BY <1>1, DenseRowTyped
<1>3. \A j \in 0..d-1 : d # 0 /\ j + 1 \in 1..d /\ DenseRow(r)[j + 1] \in Field
  BY <1>2 DEF Vectors
<1> DEFINE f == [j \in 0..d-1 |-> Scale(out[M + j], DenseRow(r)[j + 1])]
<1>4. \A j \in 0..d-1 : f[j] = Scale(out[M + j], DenseRow(r)[j + 1]) /\ f[j] \in Vectors(Symbols)
  BY <1>1, <1>3, ScaleLaws
<1>5. Dense(r, out, 0..D-1) = Total(f, 0..d-1, Symbols)
  BY <1>1 DEF Dense, Total, Zero, ZeroOn
<1> HIDE DEF f
<1>6. VectorsOver(f, 0..d-1, Symbols)
  BY <1>1, <1>4 DEF VectorsOver
<1>7. VectorsOver(DenseColumn(out), 1..d, Symbols)
      /\ \A j \in 1..d : DenseColumn(out)[j] = out[M + (j - 1)]
  <2>1. \A j \in 1..d : j - 1 \in 0..d-1
    OBVIOUS
  <2>2. DenseColumn(out) = [j \in 1..d |-> out[M + (j - 1)]]
    BY <1>1 DEF DenseColumn
  <2>3. \A j \in 1..d : DenseColumn(out)[j] = out[M + (j - 1)] /\ DenseColumn(out)[j] \in Vectors(Symbols)
    BY <1>1, <2>1, <2>2
  <2>4. QED
    BY <1>1, <2>3 DEF VectorsOver
<1>8. ASSUME NEW used \in SUBSET (0..d-1), \A j \in (0..d-1) \ used : out[M + j] = Zero
      PROVE  Dense(r, out, used) = Total(f, 0..d-1, Symbols)
  <2> DEFINE g == [j \in used |-> Scale(out[M + j], DenseRow(r)[j + 1])]
  <2>1. Dense(r, out, used) = Total(g, used, Symbols)
    BY DEF Dense, Total, Zero, ZeroOn
  <2>2. \A j \in used : g[j] = f[j]
    BY <1>4
  <2>3. \A j \in (0..d-1) \ used : f[j] = ZeroOn(Symbols)
    <3> TAKE j \in (0..d-1) \ used
    <3>1. f[j] = Scale(ZeroOn(Symbols), DenseRow(r)[j + 1])
      BY <1>4, <1>8 DEF Zero, ZeroOn
    <3>2. QED
      BY <1>3, <3>1, ScaleLaws
  <2> HIDE DEF g
  <2>4. Within(0..d-1, Symbols, f, used, g)
    BY <1>6, <2>2, <2>3 DEF Within
  <2>5. QED
    BY <2>1, <2>4, TotalWithin
<1>9. ASSUME d # 0
      PROVE  Combine(DenseRow(r), DenseColumn(out), 1..d, Symbols) = Total(f, 0..d-1, Symbols)
  <2> DEFINE g == [j \in 1..d |-> Scale(DenseColumn(out)[j], DenseRow(r)[j])]
             p == [j \in 1..d |-> j - 1]
  <2>1. Combine(DenseRow(r), DenseColumn(out), 1..d, Symbols) = Total(g, 1..d, Symbols)
    BY DEF Combine
  <2>2. \A j \in 1..d : p[j] = j - 1 /\ p[j] \in 0..d-1
    OBVIOUS
  <2>3. \A j \in 1..d : g[j] = f[p[j]]
    <3> TAKE j \in 1..d
    <3>1. g[j] = Scale(out[M + (j - 1)], DenseRow(r)[j])
      BY <1>7
    <3>2. j - 1 \in 0..d-1 /\ (j - 1) + 1 = j
      OBVIOUS
    <3>3. f[j - 1] = Scale(out[M + (j - 1)], DenseRow(r)[j])
      BY <1>4, <3>2
    <3>4. QED
      BY <2>2, <3>1, <3>3
  <2>4. 0..d-1 = {p[j] : j \in 1..d} /\ \A i, j \in 1..d : p[i] = p[j] => i = j
    <3>1. ASSUME NEW j \in 0..d-1
          PROVE  j \in {p[i] : i \in 1..d}
      <4>1. j + 1 \in 1..d /\ (j + 1) - 1 = j
        OBVIOUS
      <4>2. p[j + 1] = j
        BY <2>2, <4>1
      <4>3. QED
        BY <4>1, <4>2
    <3>2. QED
      BY <2>2, <3>1
  <2> HIDE DEF g, p
  <2>5. Renamed(1..d, 0..d-1, Symbols, f, p, g)
    BY <1>1, <1>6, <2>3, <2>4 DEF Renamed
  <2>6. QED
    BY <2>1, <2>5, TotalRenamed
<1>10. Total(f, 0..d-1, Symbols) \in Vectors(Symbols)
  BY <1>6, TotalTake
<1>11. QED
  BY <1>1, <1>5, <1>7, <1>8, <1>9, <1>10

Values == [r \in Rows |-> Value(r)]

\* The dense positions hold a solution of a gap row: with the triangular rows
\* that cancel its pivots, it decodes.
GapSolved(out, g) ==
  \E F \in SUBSET Rows :
    /\ \A x \in F : x \in RowsOf(tri)
    /\ \A o : VectorsOver(o, Cols, Symbols) /\ (\A c \in Cols \ Chosen : o[c] = ZeroOn(Symbols)) =>
                Total(SparseSum(o, Symbols), F, Symbols) = SparseSum(o, Symbols)[g.row]
    /\ AddRow(DenseSum(out)[g.row], Total(DenseSum(out), F, Symbols))
         = AddRow(Value(g.row), Total(Values, F, Symbols))

\* What is known of the rows that cancel a gap row, whatever the output.
LEMMA CancelledBy ==
  ASSUME Solver_Types, Solver_Triangle, NEW k \in DOMAIN gap
  PROVE  /\ FC_1(gap[k]) \in SUBSET Rows /\ gap[k].row \in Rows
         /\ \A x \in FC_1(gap[k]) : x \in RowsOf(tri)
         /\ \A o : VectorsOver(o, Cols, Symbols) /\ (\A c \in Cols \ Chosen : o[c] = ZeroOn(Symbols)) =>
              Total(SparseSum(o, Symbols), FC_1(gap[k]), Symbols) = SparseSum(o, Symbols)[gap[k].row]
<1>1. PICK z : z = [c \in Cols |-> ZeroOn(Symbols)]
  OBVIOUS
<1>2. VectorsOver(z, Cols, Symbols) /\ \A c \in Cols \ Chosen : z[c] = ZeroOn(Symbols)
  BY <1>1, ColsFinite DEF VectorsOver, Vectors, ZeroOn, Field
<1>3. FC_1(gap[k]) \in SUBSET Rows /\ \A x \in FC_1(gap[k]) : x \in RowsOf(tri)
  BY <1>2, CancelsColumns
<1>4. gap[k].row \in Rows
  <2>1. gap[k] \in GapRows
    BY DEF Solver_Types
  <2>2. QED
    BY <2>1 DEF GapRows
<1>5. ASSUME NEW o, VectorsOver(o, Cols, Symbols), \A c \in Cols \ Chosen : o[c] = ZeroOn(Symbols)
      PROVE  Total(SparseSum(o, Symbols), FC_1(gap[k]), Symbols) = SparseSum(o, Symbols)[gap[k].row]
  BY <1>5, CancelsColumns
<1>6. QED
  BY <1>3, <1>4, <1>5

\* A gap row after the elimination is the sum of its dense part and those of
\* the rows that cancel it.
LEMMA EIs ==
  ASSUME Solver_Types, Solver_Triangle, D # 0, NEW k \in DOMAIN gap
  PROVE  /\ E(gap[k]) \in Vectors(1..D) /\ XPrime(gap[k]) \in Vectors(Symbols)
         /\ \A out \in Outputs :
              Combine(E(gap[k]), DenseColumn(out), 1..D, Symbols) = XPrime(gap[k]) => GapSolved(out, gap[k])
<1> DEFINE DR == [r \in Rows |-> DenseRow(r)]
<1>1. PICK F \in SUBSET Rows : F = FC_1(gap[k])
  BY CancelledBy
<1>2. PICK r \in Rows : r = gap[k].row
  BY CancelledBy
<1>3. input \in Inputs
  BY DEF Solver_Types
<1>4. IsFiniteSet(F) /\ IsFiniteSet(Rows)
  BY <1>3, PositionsAre, FS_Subset
<1>5. VectorsOver(DR, F, 1..D) /\ DenseRow(r) \in Vectors(1..D) /\ \A x \in F : DR[x] = DenseRow(x)
  BY <1>3, <1>4, DenseRowTyped DEF VectorsOver
<1>6. VectorsOver(Values, F, Symbols) /\ Value(r) \in Vectors(Symbols)
  BY <1>3, <1>4, ValuesTyped DEF VectorsOver, Values
<1>7. E(gap[k]) = AddRow(DenseRow(r), Total(DR, F, 1..D))
  BY <1>1, <1>2 DEF E, Total, ZeroOn
<1>8. XPrime(gap[k]) = AddRow(Value(r), Total(Values, F, Symbols))
  BY <1>1, <1>2 DEF XPrime, Total, ZeroOn, Zero, Values
<1> HIDE DEF DR
<1>9. PICK T : T = Total(DR, F, 1..D) /\ T \in Vectors(1..D)
  BY <1>5, TotalTake
<1>10. E(gap[k]) \in Vectors(1..D)
  BY <1>5, <1>7, <1>9, AddRowLaws
<1>11. XPrime(gap[k]) \in Vectors(Symbols)
  BY <1>6, <1>8, TotalTake, AddRowLaws
<1>12. ASSUME NEW out \in Outputs,
              Combine(E(gap[k]), DenseColumn(out), 1..D, Symbols) = XPrime(gap[k])
       PROVE  GapSolved(out, gap[k])
  <2> DEFINE col == DenseColumn(out)
             L == [u \in Vectors(1..D) |-> Combine(u, col, 1..D, Symbols)]
  <2>1. VectorsOver(col, 1..D, Symbols)
    BY <1>3, DenseIs
  <2>2. \A x \in Rows : DenseSum(out)[x] = Dense(x, out, 0..D-1)
                        /\ Dense(x, out, 0..D-1) = Combine(DenseRow(x), col, 1..D, Symbols)
    BY <1>3, DenseIs DEF DenseSum
  <2> HIDE DEF col
  <2>3. \A u \in Vectors(1..D) : L[u] = Combine(u, col, 1..D, Symbols) /\ L[u] \in Vectors(Symbols)
    BY <2>1, CombineTyped
  <2>4. \A u, v \in Vectors(1..D) :
          AddRow(u, v) \in Vectors(1..D)
          /\ Combine(AddRow(u, v), col, 1..D, Symbols)
               = AddRow(Combine(u, col, 1..D, Symbols), Combine(v, col, 1..D, Symbols))
    BY <2>1, CombinePlus, AddRowLaws
  <2> HIDE DEF L
  <2>5. \A u, v \in Vectors(1..D) : L[AddRow(u, v)] = AddRow(L[u], L[v])
    BY <2>3, <2>4
  <2>6. \A x \in F : DenseSum(out)[x] = L[DR[x]]
    BY <1>5, <2>2, <2>3 DEF VectorsOver
  <2>7. Mapped(F, 1..D, Symbols, DR, L, DenseSum(out))
    BY <1>5, <2>3, <2>5, <2>6 DEF Mapped
  <2>8. Total(DenseSum(out), F, Symbols) = Combine(T, col, 1..D, Symbols)
    BY <1>9, <2>3, <2>7, TotalMapped
  <2>9. Combine(E(gap[k]), col, 1..D, Symbols)
          = AddRow(Combine(DenseRow(r), col, 1..D, Symbols), Combine(T, col, 1..D, Symbols))
    BY <1>5, <1>7, <1>9, <2>4
  <2>10. AddRow(DenseSum(out)[r], Total(DenseSum(out), F, Symbols)) = AddRow(Value(r), Total(Values, F, Symbols))
    BY <1>8, <1>12, <2>2, <2>8, <2>9 DEF col
  <2>11. /\ \A x \in F : x \in RowsOf(tri)
         /\ \A o : VectorsOver(o, Cols, Symbols) /\ (\A c \in Cols \ Chosen : o[c] = ZeroOn(Symbols)) =>
              Total(SparseSum(o, Symbols), F, Symbols) = SparseSum(o, Symbols)[r]
    BY <1>1, <1>2, CancelledBy
  <2>12. QED
    BY <1>2, <2>10, <2>11 DEF GapSolved
<1>13. QED
  BY <1>10, <1>11, <1>12

\* Equal keys are gap rows that are equal after the elimination.
LEMMA TwinsSame ==
  ASSUME Solver_Types, Solver_Twins, rowSign = Rows, ~IsInjective(input.dense)
  PROVE  \E i, j \in DOMAIN gap : i # j /\ E(gap[i]) = E(gap[j])
<1>1. PICK in \in Inputs : in = input
  BY DEF Solver_Types
<1>2. DOMAIN input.dense = Rows
  BY <1>1, InputAssumption DEF Rows
<1>3. PICK r \in Rows, s \in Rows : r # s /\ input.dense[r] = input.dense[s]
  BY <1>2 DEF IsInjective
<1>4. PICK i \in DOMAIN gap, j \in DOMAIN gap :
        gap[i].row = r /\ gap[j].row = s /\ gap[i].first = gap[j].first
  BY <1>3 DEF Solver_Twins
<1>5. i # j
  BY <1>3, <1>4
<1>6. H(r) = H(s)
  BY <1>1, <1>3, TwinColumns
<1>7. DenseRow(r) = DenseRow(s)
  BY <1>3 DEF DenseRow
<1>8. Pivots(r) = Pivots(s)
  BY <1>6 DEF Pivots
<1>9. FC_1(gap[i]) = FC_1(gap[j])
  BY <1>4, <1>6, <1>8 DEF FC_1
<1>10. E(gap[i]) = E(gap[j])
  BY <1>4, <1>7, <1>9 DEF E
<1>11. QED
  BY <1>5, <1>10

-----------------------------------------------------------------------------
(***************************************************************************)
(* The output: what has been backfilled decodes, and in the end every row. *)
(***************************************************************************)
DecodeIn(r, out) == AddRow(Sparse(r, out), Dense(r, out, 0..D-1))

\* The dense positions are solved and the triangular rows after the n-th are
\* backfilled; backfill reads the dense positions in used.
Backfilled(out, used, n) ==
  /\ out \in Outputs
  /\ used \in SUBSET (0..D-1) /\ \A j \in (0..D-1) \ used : out[M + j] = Zero
  /\ ~random => \A c \in Cols \ Chosen : out[c] = Zero
  /\ ~random => \A k \in DOMAIN gap : GapSolved(out, gap[k])
  /\ \A i \in DOMAIN tri : i <= n => out[tri[i].col] = Zero
  /\ \A i \in DOMAIN tri : i > n => DecodeIn(tri[i].row, out) = Value(tri[i].row)

\* The sparse part of a row.
LEMMA SparseIs ==
  ASSUME input \in Inputs, NEW r \in Rows, NEW out, out \in Outputs
  PROVE  /\ VectorsOver(out, Cols, Symbols) /\ VectorsOver(out, ToSet(H(r)), Symbols)
         /\ ToSet(H(r)) \subseteq Cols
         /\ Sparse(r, out) = Total(out, ToSet(H(r)), Symbols) /\ Sparse(r, out) \in Vectors(Symbols)
<1>1. \A c \in Cols : out[c] \in Vectors(Symbols)
  BY PositionsAre DEF Outputs
<1>2. ToSet(H(r)) \subseteq Cols
  BY PivotsAre
<1>3. VectorsOver(out, Cols, Symbols) /\ VectorsOver(out, ToSet(H(r)), Symbols)
  BY <1>1, <1>2, ColsFinite, FS_Subset DEF VectorsOver
<1>4. Sparse(r, out) = Total(out, ToSet(H(r)), Symbols)
  BY DEF Sparse, Total, Zero, ZeroOn
<1>5. QED
  BY <1>2, <1>3, <1>4, TotalTake

\* new is out with the n-th triangular row backfilled.
RowWritten(n, used, out, new) ==
  new = [out EXCEPT ![tri[n].col] =
           AddRow(Value(tri[n].row), AddRow(Sparse(tri[n].row, out), Dense(tri[n].row, out, used)))]

\* One row is backfilled: its own column takes what is missing, and no later
\* row reads that column.
LEMMA BackfillsOne ==
  ASSUME Solver_Types, Solver_Triangle, NEW n \in DOMAIN tri, NEW out, NEW used, Backfilled(out, used, n),
         NEW new, RowWritten(n, used, out, new)
  PROVE  Backfilled(new, used, n - 1)
<1>1. PICK len \in Nat : DOMAIN tri = 1..len
  BY DEF Solver_Types
<1>2. \A i \in 1..len : tri[i].row \in Rows /\ tri[i].col \in Cols
  <2>1. \A i \in 1..len : tri[i] \in TriRows
    BY <1>1 DEF Solver_Types
  <2>2. QED
    BY <2>1 DEF TriRows
<1>3. PICK r \in Rows, c \in Cols : r = tri[n].row /\ c = tri[n].col
  BY <1>1, <1>2
<1>4. PICK S, T : S = Sparse(r, out) /\ T = Dense(r, out, used)
  OBVIOUS
<1>5. input \in Inputs /\ out \in Outputs /\ used \in SUBSET (0..D-1)
  BY DEF Solver_Types, Backfilled
<1>6. T = Dense(r, out, 0..D-1) /\ T \in Vectors(Symbols) /\ S \in Vectors(Symbols)
  BY <1>4, <1>5, DenseIs, SparseIs DEF Backfilled
<1>7. PICK v \in Vectors(Symbols) : v = AddRow(Value(r), AddRow(S, T))
  BY <1>5, <1>6, ValuesTyped, AddRowLaws
<1>8. /\ new \in Outputs /\ new[c] = v
      /\ \A p \in Positions : p # c => new[p] = out[p]
  <2>1. c \in Positions /\ new = [out EXCEPT ![c] = v]
    BY <1>3, <1>4, <1>5, <1>7, PositionsAre DEF RowWritten
  <2>2. QED
    BY <1>5, <2>1 DEF Outputs
<1>9. \A j \in 0..D-1 : new[M + j] = out[M + j]
  BY <1>3, <1>5, <1>8, PositionsAre
<1>10. \A x \in Rows : Dense(x, new, 0..D-1) = Dense(x, out, 0..D-1)
  <2> TAKE x \in Rows
  <2>1. [j \in 0..D-1 |-> Scale(new[M + j], DenseRow(x)[j + 1])]
          = [j \in 0..D-1 |-> Scale(out[M + j], DenseRow(x)[j + 1])]
    BY <1>9
  <2>2. QED
    BY <2>1 DEF Dense
<1>11. \A j \in (0..D-1) \ used : new[M + j] = Zero
  BY <1>9 DEF Backfilled
<1>12. ASSUME ~random
       PROVE  \A b \in Cols \ Chosen : new[b] = Zero
  <2>1. c \in Chosen
    BY <1>1, <1>3 DEF Chosen, ToSet
  <2>2. \A b \in Cols \ Chosen : new[b] = out[b]
    BY <1>5, <1>8, <2>1, PositionsAre
  <2>3. QED
    BY <1>12, <2>2 DEF Backfilled
<1>13. ASSUME ~random, NEW k \in DOMAIN gap
       PROVE  GapSolved(new, gap[k])
  <2>1. DenseSum(new) = DenseSum(out)
    BY <1>10 DEF DenseSum
  <2>2. GapSolved(out, gap[k])
    BY <1>13 DEF Backfilled
  <2>3. QED
    BY <2>1, <2>2 DEF GapSolved
<1>14. ASSUME NEW i \in DOMAIN tri, i <= n - 1
       PROVE  new[tri[i].col] = Zero
  <2>1. tri[i].col # c
    <3>1. tri[i].col \in ToSet(H(r)) => i >= n
      BY <1>3 DEF Solver_Triangle
    <3>2. c \in ToSet(H(r))
      BY <1>3 DEF Solver_Triangle
    <3>3. QED
      BY <1>1, <1>14, <3>1, <3>2
  <2>2. tri[i].col \in Positions /\ i <= n
    BY <1>1, <1>2, <1>5, <1>14, PositionsAre
  <2>3. out[tri[i].col] = Zero
    BY <2>2 DEF Backfilled
  <2>4. QED
    BY <1>8, <2>1, <2>2, <2>3
<1>15. ASSUME NEW i \in DOMAIN tri, i > n - 1
       PROVE  DecodeIn(tri[i].row, new) = Value(tri[i].row)
  <2>1. CASE i = n
    <3>1. c \in ToSet(H(r)) /\ ToSet(H(r)) \subseteq Cols
      BY <1>3, <1>5, SparseIs DEF Solver_Triangle
    <3>0. PICK Y : Y = ToSet(H(r))
      OBVIOUS
    <3>2. PICK U, R : U = Y \ {c} /\ R = Total(out, U, Symbols)
      OBVIOUS
    <3>3. VectorsOver(out, ToSet(H(r)), Symbols) /\ VectorsOver(new, ToSet(H(r)), Symbols)
      BY <1>5, <1>8, SparseIs
    <3>4. VectorsOver(out, U, Symbols)
      <4>1. U \subseteq Y
        BY <3>2
      <4>2. QED
        BY <3>0, <3>3, <4>1, FS_Subset DEF VectorsOver
    <3>5. R \in Vectors(Symbols)
      BY <3>2, <3>4, TotalTake
    <3>6. Total(new, U, Symbols) = R
      <4>1. \A b \in U : new[b] = out[b]
        BY <1>5, <1>8, <3>0, <3>1, <3>2, PositionsAre
      <4>2. QED
        BY <3>2, <3>4, <4>1, TotalSame
    <3>7. Sparse(r, new) = AddRow(v, R)
      <4>1. Total(new, Y, Symbols) = AddRow(new[c], Total(new, U, Symbols))
        BY <3>0, <3>1, <3>2, <3>3, TotalTake
      <4>2. QED
        BY <1>5, <1>8, <3>0, <3>6, <4>1, SparseIs
    <3>8. S = R
      <4>1. out[c] = ZeroOn(Symbols)
        <5>1. n <= n
          BY <1>1
        <5>2. out[c] = Zero
          BY <1>3, <5>1 DEF Backfilled
        <5>3. QED
          BY <5>2 DEF Zero, ZeroOn
      <4>2. S = AddRow(ZeroOn(Symbols), R)
        <5>1. Total(out, Y, Symbols) = AddRow(out[c], R)
          BY <3>0, <3>1, <3>2, <3>3, TotalTake
        <5>2. QED
          BY <1>4, <1>5, <3>0, <4>1, <5>1, SparseIs
      <4>3. QED
        BY <3>5, <4>2, AddRowLaws
    <3>9. DecodeIn(r, new) = AddRow(AddRow(v, R), T)
      BY <1>6, <1>10, <3>7 DEF DecodeIn
    <3>10. AddRow(AddRow(v, R), T) = AddRow(v, AddRow(S, T))
      BY <1>6, <3>5, <3>8, AddRowLaws
    <3>11. AddRow(v, AddRow(S, T)) = Value(r)
      <4>1. PICK z \in Vectors(Symbols) : z = AddRow(S, T)
        BY <1>6, AddRowLaws
      <4>2. Value(r) \in Vectors(Symbols)
        BY <1>5, ValuesTyped
      <4>3. AddRow(AddRow(Value(r), z), z) = AddRow(Value(r), AddRow(z, z))
        BY <4>1, <4>2, AddRowLaws
      <4>4. QED
        BY <1>7, <4>1, <4>2, <4>3, AddRowLaws
    <3>12. QED
      BY <1>3, <2>1, <3>9, <3>10, <3>11
  <2>2. CASE i # n
    <3>1. i > n
      BY <1>1, <1>15, <2>2
    <3>2. PICK x \in Rows : x = tri[i].row
      BY <1>1, <1>2
    <3>3. c \notin ToSet(H(x))
      <4>1. c \in ToSet(H(x)) => n >= i
        BY <1>3, <3>2 DEF Solver_Triangle
      <4>2. QED
        BY <1>1, <3>1, <4>1
    <3>4. \A b \in ToSet(H(x)) : new[b] = out[b]
      BY <1>5, <1>8, <3>3, SparseIs, PositionsAre
    <3>5. Sparse(x, new) = Sparse(x, out)
      <4>1. PICK Y : Y = ToSet(H(x))
        OBVIOUS
      <4>2. VectorsOver(out, Y, Symbols)
        BY <1>5, <4>1, SparseIs
      <4>3. Total(new, Y, Symbols) = Total(out, Y, Symbols)
        BY <3>4, <4>1, <4>2, TotalSame
      <4>4. Sparse(x, new) = Total(new, Y, Symbols)
        BY <1>8, <1>5, <4>1, SparseIs
      <4>5. Sparse(x, out) = Total(out, Y, Symbols)
        BY <1>5, <4>1, SparseIs
      <4>6. QED
        BY <4>3, <4>4, <4>5
    <3>6. DecodeIn(x, new) = DecodeIn(x, out)
      BY <1>10, <3>5 DEF DecodeIn
    <3>7. DecodeIn(x, out) = Value(x)
      BY <3>1, <3>2 DEF Backfilled
    <3>8. QED
      BY <3>2, <3>6, <3>7
  <2>3. QED
    BY <2>1, <2>2
<1>16. QED
  BY <1>5, <1>8, <1>11, <1>12, <1>13, <1>14, <1>15 DEF Backfilled

\* Once every triangular row is backfilled, every row decodes: a gap row is a
\* sum of triangular rows and of what the dense positions solve.
LEMMA BackfilledDecodes ==
  ASSUME Solver_Types, RowsOf(tri) \cup RowsOf(gap) = Rows, NEW out, NEW used, Backfilled(out, used, 0),
         random => gap = << >>, NEW r \in Rows
  PROVE  DecodeIn(r, out) = Value(r)
<1>1. ASSUME NEW x \in RowsOf(tri)
      PROVE  DecodeIn(x, out) = Value(x)
  <2>1. PICK i \in DOMAIN tri : x = tri[i].row
    BY DEF RowsOf, ToSet
  <2>2. i > 0
    BY DEF Solver_Types
  <2>3. QED
    BY <2>1, <2>2 DEF Backfilled
<1>2. CASE r \in RowsOf(gap)
  <2>1. PICK k \in DOMAIN gap : r = gap[k].row
    BY <1>2 DEF RowsOf, ToSet
  <2>2. ~random
    BY <2>1
  <2>3. input \in Inputs /\ out \in Outputs /\ GapSolved(out, gap[k])
    BY <2>2 DEF Solver_Types, Backfilled
  <2>4. PICK F \in SUBSET Rows :
          /\ \A x \in F : x \in RowsOf(tri)
          /\ \A o : VectorsOver(o, Cols, Symbols) /\ (\A c \in Cols \ Chosen : o[c] = ZeroOn(Symbols)) =>
                      Total(SparseSum(o, Symbols), F, Symbols) = SparseSum(o, Symbols)[r]
          /\ AddRow(DenseSum(out)[r], Total(DenseSum(out), F, Symbols))
               = AddRow(Value(r), Total(Values, F, Symbols))
    BY <2>1, <2>3 DEF GapSolved
  <2>5. \A c \in Cols \ Chosen : out[c] = ZeroOn(Symbols)
    BY <2>2 DEF Backfilled, Zero, ZeroOn
  <2>6. VectorsOver(out, Cols, Symbols)
    BY <2>3, SparseIs
  <2>7. Total(SparseSum(out, Symbols), F, Symbols) = SparseSum(out, Symbols)[r]
    BY <2>4, <2>5, <2>6
  <2>8. IsFiniteSet(F)
    BY <2>3, PositionsAre, FS_Subset
  <2>9. \A x \in Rows : /\ SparseSum(out, Symbols)[x] = Sparse(x, out) /\ Sparse(x, out) \in Vectors(Symbols)
                        /\ DenseSum(out)[x] = Dense(x, out, 0..D-1)
                        /\ Dense(x, out, 0..D-1) \in Vectors(Symbols)
                        /\ Values[x] = Value(x) /\ Value(x) \in Vectors(Symbols)
    BY <2>3, SparseIs, DenseIs, ValuesTyped DEF SparseSum, DenseSum, Values
  <2>10. Plus(F, Symbols, SparseSum(out, Symbols), DenseSum(out), Values)
    <3>1. VectorsOver(SparseSum(out, Symbols), F, Symbols) /\ VectorsOver(DenseSum(out), F, Symbols)
      BY <2>8, <2>9 DEF VectorsOver
    <3>2. \A x \in F : Values[x] = AddRow(SparseSum(out, Symbols)[x], DenseSum(out)[x])
      BY <1>1, <2>4, <2>9 DEF DecodeIn
    <3>3. QED
      BY <3>1, <3>2 DEF Plus
  <2>11. PICK a, b : a = Sparse(r, out) /\ b = Total(DenseSum(out), F, Symbols)
    OBVIOUS
  <2>12. Total(Values, F, Symbols) = AddRow(a, b)
    BY <2>7, <2>9, <2>10, <2>11, TotalPlus
  <2>13. a \in Vectors(Symbols) /\ b \in Vectors(Symbols)
    BY <2>9, <2>10, <2>11, TotalTake DEF Plus
  <2>14. PICK d, v : d = Dense(r, out, 0..D-1) /\ v = Value(r) /\ d \in Vectors(Symbols) /\ v \in Vectors(Symbols)
    BY <2>9
  <2>15. AddRow(d, b) = AddRow(v, AddRow(a, b))
    BY <2>4, <2>9, <2>11, <2>12, <2>14
  <2>16. AddRow(a, d) = v
    <3>1. AddRow(AddRow(d, b), b) = AddRow(d, AddRow(b, b)) /\ AddRow(d, AddRow(b, b)) = d
      BY <2>13, <2>14, AddRowLaws
    <3>2. PICK w \in Vectors(Symbols) : w = AddRow(v, a)
      BY <2>13, <2>14, AddRowLaws
    <3>3. AddRow(v, AddRow(a, b)) = AddRow(w, b)
      BY <2>13, <2>14, <3>2, AddRowLaws
    <3>4. AddRow(AddRow(w, b), b) = AddRow(w, AddRow(b, b)) /\ AddRow(w, AddRow(b, b)) = w
      BY <2>13, <3>2, AddRowLaws
    <3>5. d = AddRow(v, a)
      BY <2>15, <3>1, <3>2, <3>3, <3>4
    <3>6. AddRow(a, AddRow(a, v)) = v /\ AddRow(v, a) = AddRow(a, v)
      BY <2>13, <2>14, AddRowShuffle, AddRowLaws
    <3>7. QED
      BY <3>5, <3>6
  <2>17. QED
    BY <2>11, <2>14, <2>16 DEF DecodeIn
<1>3. QED
  BY <1>1, <1>2

-----------------------------------------------------------------------------
(***************************************************************************)
(* The dense positions.                                                    *)
(***************************************************************************)
\* c comes before, or agrees with, every member of C on the first k places.
FirstOn(k, c, C) ==
  \A d \in C : \/ \A j \in 1..k : d[j] = c[j]
               \/ \E i \in 1..k : c[i] < d[i] /\ \A j \in 1..i-1 : c[j] = d[j]

\* One place more is decided.
LEMMA FirstOnNext ==
  ASSUME NEW n \in Nat, NEW g \in Nat, NEW C \in SUBSET [1..g -> 0..n],
         NEW k \in Nat, k + 1 <= g, NEW b \in C, FirstOn(k, b, C)
  PROVE  \E c \in C : FirstOn(k + 1, c, C)
<1> DEFINE Same == {d \in C : \A j \in 1..k : d[j] = b[j]}
           V == {d[k + 1] : d \in Same}
<1>1. k + 1 \in 1..g /\ b \in Same
  OBVIOUS
<1>2. V \in SUBSET (0..n) /\ V # {}
  BY <1>1
<1>3. Min(V) \in V /\ \A x \in V : Min(V) <= x
  <2> HIDE DEF V
  <2> QED BY <1>2, MinPicks
<1>4. PICK c \in Same : c[k + 1] = Min(V)
  BY <1>3
<1>5. \A d \in Same : c[k + 1] <= d[k + 1]
  <2>1. \A d \in Same : d[k + 1] \in V
    OBVIOUS
  <2> HIDE DEF V
  <2>2. QED
    BY <1>3, <1>4, <2>1
<1> HIDE DEF V
<1>6. c \in C /\ \A j \in 1..k : c[j] = b[j]
  BY <1>4
<1>7. ASSUME NEW d \in C
      PROVE  \/ \A j \in 1..k+1 : d[j] = c[j]
             \/ \E i \in 1..k+1 : c[i] < d[i] /\ \A j \in 1..i-1 : c[j] = d[j]
  <2>1. CASE d \in Same
    <3>1. \A j \in 1..k : d[j] = c[j]
      BY <1>6, <2>1
    <3>2. c[k + 1] <= d[k + 1] /\ c[k + 1] \in 0..n /\ d[k + 1] \in 0..n
      BY <1>1, <1>5, <1>6, <2>1
    <3>3. CASE c[k + 1] = d[k + 1]
      <4>1. \A j \in 1..k+1 : j \in 1..k \/ j = k + 1
        OBVIOUS
      <4>2. QED
        BY <3>1, <3>3, <4>1
    <3>4. CASE c[k + 1] < d[k + 1]
      <4>1. k + 1 \in 1..k+1 /\ (k + 1) - 1 = k
        OBVIOUS
      <4>2. QED
        BY <3>1, <3>4, <4>1
    <3>5. QED
      BY <3>2, <3>3, <3>4
  <2>2. CASE d \notin Same
    <3>1. PICK i \in 1..k : b[i] < d[i] /\ \A j \in 1..i-1 : b[j] = d[j]
      BY <2>2 DEF FirstOn
    <3>2. i \in 1..k+1 /\ \A j \in 1..i-1 : j \in 1..k
      OBVIOUS
    <3>3. c[i] < d[i] /\ \A j \in 1..i-1 : c[j] = d[j]
      BY <1>6, <3>1, <3>2
    <3>4. QED
      BY <3>2, <3>3
  <2>3. QED
    BY <2>1, <2>2
<1>8. QED
  BY <1>6, <1>7 DEF FirstOn

\* Among some choices of columns there is a first one.
LEMMA FirstChoice ==
  ASSUME NEW n \in Nat, NEW g \in Nat, NEW C \in SUBSET [1..g -> 0..n], C # {}
  PROVE  \E c \in C : \A d \in C \ {c} : Before(c, d)
<1> DEFINE T == {k \in Nat : k <= g => \E c \in C : FirstOn(k, c, C)}
<1>1. 0 \in T
  BY DEF FirstOn
<1>2. ASSUME NEW k \in Nat, k \in T
      PROVE  k + 1 \in T
  <2> SUFFICES ASSUME k + 1 <= g PROVE \E c \in C : FirstOn(k + 1, c, C)
    OBVIOUS
  <2>1. PICK b \in C : FirstOn(k, b, C)
    BY <1>2
  <2>2. QED
    BY <2>1, FirstOnNext
<1>3. Nat \subseteq T
  <2> HIDE DEF T
  <2> QED BY <1>1, <1>2, NatInductionSet
<1>4. PICK c \in C : FirstOn(g, c, C)
  BY <1>3
<1>5. ASSUME NEW d \in C \ {c}
      PROVE  Before(c, d)
  <2>1. ~ \A j \in 1..g : d[j] = c[j]
    BY <1>5
  <2>2. PICK i \in 1..g : c[i] < d[i] /\ \A j \in 1..i-1 : c[j] = d[j]
    BY <1>4, <2>1 DEF FirstOn
  <2>3. QED
    BY <2>2 DEF Before
<1>6. QED
  BY <1>5

\* The dense positions that backfill reads when gap_cols is cols.
UsedFrom(cols) ==
  CASE kind = "Binary" /\ ~random -> ToSet(cols)
    [] kind = "Gf128" /\ ~random /\ gap = << >> -> {}
    [] OTHER -> 0..D-1

\* Nothing but columns drawn at random is written yet.
Blank(out) ==
  /\ out \in Outputs
  /\ \A c \in Chosen : out[c] = Zero
  /\ ~random => \A c \in Cols : out[c] = Zero
  /\ \A j \in 0..D-1 : out[M + j] = Zero

\* The dense positions that vals names are set.
DenseWritten(vals, out, new) ==
  new = [p \in Positions |-> IF p - M \in DOMAIN vals THEN vals[p - M] ELSE out[p]]

\* What setting dense positions does, and does not.
LEMMA DenseWrittenIs ==
  ASSUME input \in Inputs, NEW out, out \in Outputs, NEW vals, NEW J \in SUBSET (0..D-1), DOMAIN vals = J,
         \A j \in J : vals[j] \in Vectors(Symbols), NEW new, DenseWritten(vals, out, new)
  PROVE  /\ new \in Outputs /\ \A c \in Cols : new[c] = out[c]
         /\ \A j \in 0..D-1 : new[M + j] = IF j \in J THEN vals[j] ELSE out[M + j]
<1>1. D \in Nat /\ M \in Nat /\ Cols \subseteq Positions /\ \A j \in 0..D-1 : M + j \in Positions
  BY PositionsAre
<1>2. new = [p \in Positions |-> IF p - M \in J THEN vals[p - M] ELSE out[p]]
  BY DEF DenseWritten
<1>3. \A p \in Positions : out[p] \in Vectors(Symbols)
  BY DEF Outputs
<1>4. new \in Outputs
  BY <1>2, <1>3 DEF Outputs
<1>5. \A c \in Cols : new[c] = out[c]
  <2>1. \A c \in Cols : c \in Positions /\ c - M \notin 0..D-1
    BY <1>1 DEF Cols
  <2>2. QED
    BY <1>2, <2>1
<1>6. \A j \in 0..D-1 : new[M + j] = IF j \in J THEN vals[j] ELSE out[M + j]
  <2> TAKE j \in 0..D-1
  <2>1. (M + j) - M = j /\ M + j \in Positions
    BY <1>1
  <2>2. QED
    BY <1>2, <2>1
<1>7. QED
  BY <1>4, <1>5, <1>6

\* With the dense positions solved, backfill may begin.
LEMMA SolvedBackfilled ==
  ASSUME Solver_Types, NEW out, Blank(out), NEW new, new \in Outputs, \A c \in Cols : new[c] = out[c],
         NEW used \in SUBSET (0..D-1), \A j \in (0..D-1) \ used : new[M + j] = Zero,
         ~random => \A k \in DOMAIN gap : GapSolved(new, gap[k])
  PROVE  Backfilled(new, used, Len(tri))
<1>1. ~random => \A c \in Cols \ Chosen : new[c] = Zero
  BY DEF Blank
<1>2. \A i \in DOMAIN tri : i <= Len(tri) /\ tri[i].col \in Chosen /\ tri[i].col \in Cols
  <2>1. DOMAIN tri = 1..Len(tri) /\ Len(tri) \in Nat /\ \A i \in DOMAIN tri : tri[i] \in TriRows
    BY DEF Solver_Types
  <2>2. QED
    BY <2>1 DEF Chosen, ToSet, TriRows
<1>3. \A i \in DOMAIN tri : new[tri[i].col] = Zero
  BY <1>2 DEF Blank
<1>4. \A i \in DOMAIN tri : ~ i > Len(tri)
  BY <1>2 DEF Solver_Types
<1>5. QED
  BY <1>1, <1>3, <1>4 DEF Backfilled

\* No gap rows: the keys are distinct, and the dense positions stay zero or
\* are drawn.
LEMMA NoGapsSolved ==
  ASSUME Solver_OK, status = "gaps", gap = << >>, NEW out, Blank(out), NEW new,
         IF random THEN DenseWritten([j \in 0..D-1 |-> Draw(M + j)], out, new) ELSE new = out
  PROVE  IsInjective(input.dense) /\ Backfilled(new, UsedFrom(<< >>), Len(tri))
<1>1. Solver_Types /\ input \in Inputs /\ out \in Outputs
  BY DEF Solver_OK, Solver_Types, Blank
<1>2. IsInjective(input.dense)
  <2>1. rowSign = Rows
    BY NoneHeavy DEF Solver_OK, Solver_Stages
  <2>2. ~ \E i, j \in DOMAIN gap : i # j /\ E(gap[i]) = E(gap[j])
    OBVIOUS
  <2>3. QED
    BY <2>1, <2>2, TwinsSame DEF Solver_OK
<1>3. \A k \in DOMAIN gap : GapSolved(new, gap[k])
  OBVIOUS
<1>4. kind \in {"Binary", "Gf128"}
  <2>1. PICK in \in Inputs : in = input
    BY <1>1
  <2>2. QED
    BY <2>1, InputAssumption DEF kind
<1>5. CASE random
  <2> DEFINE vals == [j \in 0..D-1 |-> Draw(M + j)]
  <2>1. DOMAIN vals = 0..D-1 /\ \A j \in 0..D-1 : vals[j] \in Vectors(Symbols)
    BY <1>1, PositionsAre, ValuesTyped
  <2>2. DenseWritten(vals, out, new)
    BY <1>5
  <2> HIDE DEF vals
  <2>3. new \in Outputs /\ \A c \in Cols : new[c] = out[c]
    <3>1. PICK J \in SUBSET (0..D-1) : J = 0..D-1
      OBVIOUS
    <3>2. DOMAIN vals = J /\ \A j \in J : vals[j] \in Vectors(Symbols)
      BY <2>1, <3>1
    <3>3. QED
      BY <1>1, <2>2, <3>2, DenseWrittenIs
  <2>4. UsedFrom(<< >>) = 0..D-1
    BY <1>5 DEF UsedFrom
  <2>5. QED
    BY <1>1, <1>2, <1>3, <2>3, <2>4, SolvedBackfilled
<1>6. CASE ~random
  <2>1. UsedFrom(<< >>) = {}
    <3>1. ToSet(<< >>) = {}
      BY DEF ToSet
    <3>2. QED
      BY <1>4, <1>6, <3>1 DEF UsedFrom
  <2>2. new = out /\ \A j \in 0..D-1 : new[M + j] = Zero
    BY <1>6 DEF Blank
  <2>3. QED
    BY <1>1, <1>2, <1>3, <2>1, <2>2, SolvedBackfilled
<1>7. QED
  BY <1>5, <1>6

\* Times is the matrix times the right sides.
LEMMA TimesIs ==
  ASSUME NEW n \in Nat, NEW inv \in Matrices(n), NEW b, DOMAIN b = 1..n
  PROVE  Times(inv, b) = Solution(n, inv, b, Symbols)
<1>1. DOMAIN inv = 1..n
  BY DEF Matrices
<1>2. QED
  BY <1>1 DEF Times, Solution, Combine, Total, Zero, ZeroOn

\* The n solutions x stand at the dense positions p, the others are zero, and
\* row, which is what a gap row g has there, times x is the gap row's value.
SolvedAt(n, p, x, row, new, g) ==
  /\ n \in Nat /\ p \in [1..n -> 0..D-1] /\ \A i, j \in 1..n : p[i] = p[j] => i = j
  /\ VectorsOver(x, 1..n, Symbols) /\ new \in Outputs
  /\ \A i \in 1..n : new[M + p[i]] = x[i]
  /\ \A j \in 0..D-1 : (\A i \in 1..n : p[i] # j) => new[M + j] = Zero
  /\ \A i \in 1..n : row[i] = E(g)[p[i] + 1]
  /\ Combine(row, x, 1..n, Symbols) = XPrime(g)

\* A solution of a part of the dense positions solves the gap row.
LEMMA SolvesGap ==
  ASSUME Solver_Types, Solver_Triangle, D # 0, NEW k \in DOMAIN gap, NEW new,
         \E n, p, x, row : SolvedAt(n, p, x, row, new, gap[k])
  PROVE  GapSolved(new, gap[k])
<1>1. PICK n, p, x, row : SolvedAt(n, p, x, row, new, gap[k])
  OBVIOUS
<1>2. input \in Inputs /\ new \in Outputs /\ n \in Nat
  BY <1>1 DEF Solver_Types, SolvedAt
<1>3. PICK d \in Nat : d = D /\ d # 0 /\ IsFiniteSet(1..d)
  BY <1>2, PositionsAre
<1>4. PICK e \in Vectors(1..d) : e = E(gap[k])
  BY <1>3, EIs
<1>5. PICK r \in Rows : TRUE
  BY CancelledBy
<1>6. PICK col : col = DenseColumn(new) /\ VectorsOver(col, 1..d, Symbols)
                 /\ \A j \in 1..d : col[j] = new[M + (j - 1)]
  <2>1. VectorsOver(DenseColumn(new), 1..d, Symbols)
    BY <1>2, <1>3, <1>5, DenseIs
  <2>2. \A j \in 1..d : DenseColumn(new)[j] = new[M + (j - 1)]
    BY <1>3 DEF DenseColumn
  <2>3. QED
    BY <2>1, <2>2
<1>7. PICK f : f = [j \in 1..d |-> Scale(col[j], e[j])]
  OBVIOUS
<1>8. VectorsOver(f, 1..d, Symbols) /\ Combine(e, col, 1..d, Symbols) = Total(f, 1..d, Symbols)
  <2>1. VectorsOver([j \in 1..d |-> Scale(col[j], e[j])], 1..d, Symbols)
    BY <1>6, CombineTyped
  <2>2. QED
    BY <1>7, <2>1 DEF Combine
<1>9. \A j \in 1..d : f[j] = Scale(col[j], e[j])
  BY <1>7
<1>10. PICK g : g = [i \in 1..n |-> Scale(x[i], row[i])]
  OBVIOUS
<1>11. Combine(row, x, 1..n, Symbols) = Total(g, 1..n, Symbols) /\ \A i \in 1..n : g[i] = Scale(x[i], row[i])
  BY <1>10 DEF Combine
<1>12. PICK q : q = [i \in 1..n |-> p[i] + 1]
  OBVIOUS
<1>13. \A i \in 1..n : q[i] = p[i] + 1 /\ q[i] \in 1..d /\ q[i] - 1 = p[i] /\ p[i] \in 0..d-1
  BY <1>1, <1>3, <1>12 DEF SolvedAt
<1>14. \A i \in 1..n : g[i] = f[q[i]]
  <2> TAKE i \in 1..n
  <2>1. col[q[i]] = x[i]
    <3>1. col[q[i]] = new[M + (q[i] - 1)]
      BY <1>6, <1>13
    <3>2. new[M + p[i]] = x[i]
      BY <1>1 DEF SolvedAt
    <3>3. QED
      BY <1>13, <3>1, <3>2
  <2>2. e[q[i]] = row[i]
    BY <1>1, <1>4, <1>13 DEF SolvedAt
  <2>3. QED
    BY <1>9, <1>11, <1>13, <2>1, <2>2
<1>15. PICK R \in SUBSET (1..d) : R = {q[i] : i \in 1..n}
  BY <1>13
<1>16. Total(g, 1..n, Symbols) = Total(f, R, Symbols)
  <2>1. VectorsOver(f, R, Symbols)
    BY <1>3, <1>8, FS_Subset DEF VectorsOver
  <2>2. \A i, j \in 1..n : q[i] = q[j] => i = j
    <3>1. \A i, j \in 1..n : p[i] = p[j] => i = j
      BY <1>1 DEF SolvedAt
    <3>2. QED
      BY <1>13, <3>1
  <2>3. IsFiniteSet(1..n)
    BY <1>2, FS_Interval
  <2>4. Renamed(1..n, R, Symbols, f, q, g)
    BY <1>14, <1>15, <2>1, <2>2, <2>3 DEF Renamed
  <2>5. QED
    BY <2>4, TotalRenamed
<1>17. \A j \in (1..d) \ R : f[j] = ZeroOn(Symbols)
  <2> TAKE j \in (1..d) \ R
  <2>1. j - 1 \in 0..d-1 /\ \A i \in 1..n : p[i] # j - 1
    <3>1. \A i \in 1..n : q[i] # j
      BY <1>15
    <3>2. QED
      BY <1>13, <3>1
  <2>2. col[j] = ZeroOn(Symbols)
    BY <1>1, <1>3, <1>6, <2>1 DEF SolvedAt, Zero, ZeroOn
  <2>3. e[j] \in Field
    BY DEF Vectors
  <2>4. QED
    BY <1>9, <2>2, <2>3, ScaleLaws
<1>18. Total(f, 1..d, Symbols) = Total(f, R, Symbols)
  <2>1. Within(1..d, Symbols, f, R, f)
    BY <1>8, <1>17 DEF Within
  <2>2. QED
    BY <2>1, TotalWithin
<1>19. Combine(e, col, 1..d, Symbols) = XPrime(gap[k])
  BY <1>1, <1>8, <1>11, <1>16, <1>18 DEF SolvedAt
<1>20. QED
  BY <1>2, <1>3, <1>4, <1>6, <1>19, EIs

\* An invertible matrix has the gap rows as rows, or what they have at some
\* columns: so no two of them are equal, and no two keys.
LEMMA InvertibleDistinct ==
  ASSUME Solver_OK, status = "gaps", NEW n \in Nat, NEW mat \in Matrices(n), CheckInvert(mat).ok,
         Len(gap) <= n,
         \A i, j \in DOMAIN gap : E(gap[i]) = E(gap[j]) => mat[i] = mat[j]
  PROVE  IsInjective(input.dense)
<1>1. rowSign = Rows
  BY NoneHeavy DEF Solver_OK, Solver_Stages
<1>2. DOMAIN gap \subseteq 1..n
  BY DEF Solver_OK, Solver_Types
<1>3. ~ \E i, j \in DOMAIN gap : i # j /\ E(gap[i]) = E(gap[j])
  BY <1>2, CheckInvertDistinct
<1>4. QED
  BY <1>1, <1>3, TwinsSame DEF Solver_OK

GapPart(g, len) == SubSeq(E(g), 1, len)

\* What backfill_gf128 solves: the gap rows, and with a prng random rows below
\* them.
SystemGf128(len, mat, rhs) ==
  /\ len = IF random THEN D ELSE Len(gap)
  /\ \E extra \in [Len(gap)+1..len -> [1..len -> Field]] :
       mat = [i \in 1..len |-> IF i <= Len(gap) THEN GapPart(gap[i], len) ELSE extra[i]]
  /\ rhs = [i \in 1..len |-> IF i <= Len(gap) THEN XPrime(gap[i]) ELSE Draw(M + i - 1)]

\* backfill_gf128: when the matrix is invertible, keys are distinct and the dense
\* positions solve every gap row.
LEMMA Gf128Solved ==
  ASSUME Solver_OK, status = "gaps", kind = "Gf128", Len(gap) \in 1..GLimit, NEW out, Blank(out),
         NEW len, NEW mat, NEW rhs, SystemGf128(len, mat, rhs), CheckInvert(mat).ok, NEW new,
         DenseWritten([j \in 0..len-1 |-> Times(CheckInvert(mat).inv, rhs)[j + 1]], out, new)
  PROVE  IsInjective(input.dense) /\ Backfilled(new, 0..D-1, Len(tri))
<1>1. Solver_Types /\ Solver_Triangle /\ input \in Inputs /\ out \in Outputs
  BY DEF Solver_OK, Solver_Types, Blank
<1>2. PICK g \in Nat : g = Len(gap) /\ g # 0 /\ g <= D /\ D \in Nat /\ D # 0 /\ DOMAIN gap = 1..g
  <2>1. D = GLimit /\ GLimit \in Nat
    BY <1>1, SizesAre
  <2>2. DOMAIN gap = 1..Len(gap) /\ Len(gap) \in Nat
    BY <1>1 DEF Solver_Types
  <2>3. Len(gap) # 0 /\ Len(gap) <= D /\ D # 0 /\ D \in Nat
    BY <2>1, <2>2
  <2>4. QED
    BY <2>2, <2>3
<1>3. len \in Nat /\ g <= len /\ len <= D /\ (~random => len = g)
  BY <1>2 DEF SystemGf128
<1>4. \A i \in 1..g : /\ E(gap[i]) \in Vectors(1..D) /\ XPrime(gap[i]) \in Vectors(Symbols)
  BY <1>1, <1>2, EIs
<1>5. \A i \in 1..g : /\ GapPart(gap[i], len) \in Vectors(1..len)
                      /\ \A j \in 1..len : GapPart(gap[i], len)[j] = E(gap[i])[j]
  <2> TAKE i \in 1..g
  <2>1. PICK e \in Vectors(1..D) : e = E(gap[i])
    BY <1>4
  <2>2. SubSeq(e, 1, len) = [j \in 1..len |-> e[j]]
    <3>1. e \in Seq(Field) /\ Len(e) = D
      BY <1>2, <2>1 DEF Vectors
    <3>2. QED
      BY <1>2, <1>3, <3>1
  <2>3. \A j \in 1..len : e[j] \in Field
    BY <1>2, <1>3, <2>1 DEF Vectors
  <2>4. QED
    BY <2>1, <2>2, <2>3 DEF Vectors, GapPart
<1>6. PICK extra \in [g+1..len -> [1..len -> Field]] :
        mat = [i \in 1..len |-> IF i <= g THEN GapPart(gap[i], len) ELSE extra[i]]
  BY <1>2 DEF SystemGf128
<1>7. \A i \in 1..len : mat[i] = (IF i <= g THEN GapPart(gap[i], len) ELSE extra[i])
                        /\ mat[i] \in Vectors(1..len)
  <2> TAKE i \in 1..len
  <2>1. CASE i <= g
    BY <1>5, <1>6, <2>1
  <2>2. CASE ~ i <= g
    <3>1. i \in g+1..len
      BY <1>2, <1>3, <2>2
    <3>2. QED
      BY <1>6, <2>2, <3>1 DEF Vectors
  <2>3. QED
    BY <2>1, <2>2
<1>8. mat \in Matrices(len)
  BY <1>6, <1>7 DEF Matrices
<1>9. DOMAIN rhs = 1..len /\ VectorsOver(rhs, 1..len, Symbols)
      /\ \A i \in 1..g : rhs[i] = XPrime(gap[i])
  <2>1. rhs = [i \in 1..len |-> IF i <= g THEN XPrime(gap[i]) ELSE Draw(M + i - 1)]
    BY <1>2 DEF SystemGf128
  <2>2. \A i \in 1..len : i > g => Draw(M + i - 1) \in Vectors(Symbols)
    <3> TAKE i \in 1..len
    <3>1. i - 1 \in 0..D-1 /\ M + (i - 1) = M + i - 1
      BY <1>2, <1>3, SizeAssumption
    <3>2. QED
      BY <1>1, <3>1, PositionsAre, ValuesTyped
  <2>3. \A i \in 1..len : rhs[i] \in Vectors(Symbols)
    BY <1>2, <1>3, <1>4, <2>1, <2>2
  <2>4. IsFiniteSet(1..len)
    BY <1>3, FS_Interval
  <2>5. QED
    BY <1>2, <1>3, <2>1, <2>3, <2>4 DEF VectorsOver
<1>10. PICK inv \in Matrices(len) : inv = CheckInvert(mat).inv
  BY <1>3, <1>8, CheckInvertSolves
<1>11. PICK x : x = Solution(len, inv, rhs, Symbols) /\ x = Times(inv, rhs)
  BY <1>3, <1>9, TimesIs
<1>12. /\ VectorsOver(x, 1..len, Symbols)
       /\ \A j \in 1..len : Combine(mat[j], x, 1..len, Symbols) = rhs[j]
  <2>1. \A I, b : VectorsOver(b, 1..len, I) =>
          /\ VectorsOver(Solution(len, CheckInvert(mat).inv, b, I), 1..len, I)
          /\ \A j \in 1..len :
               Combine(mat[j], Solution(len, CheckInvert(mat).inv, b, I), 1..len, I) = b[j]
    BY <1>3, <1>8, CheckInvertSolves
  <2>2. QED
    BY <1>9, <1>10, <1>11, <2>1
<1>13. /\ new \in Outputs /\ \A c \in Cols : new[c] = out[c]
       /\ \A j \in 0..D-1 : new[M + j] = IF j \in 0..len-1 THEN x[j + 1] ELSE out[M + j]
  <2>1. PICK vals : vals = [j \in 0..len-1 |-> x[j + 1]] /\ DenseWritten(vals, out, new)
    BY <1>10, <1>11
  <2>2. PICK J \in SUBSET (0..D-1) : J = 0..len-1
    BY <1>2, <1>3
  <2>3. \A j \in J : j + 1 \in 1..len
    BY <1>3, <2>2
  <2>4. DOMAIN vals = J /\ \A j \in J : vals[j] = x[j + 1] /\ vals[j] \in Vectors(Symbols)
    BY <1>12, <2>1, <2>2, <2>3 DEF VectorsOver
  <2>5. /\ new \in Outputs /\ \A c \in Cols : new[c] = out[c]
        /\ \A j \in 0..D-1 : new[M + j] = IF j \in J THEN vals[j] ELSE out[M + j]
    <3>1. DOMAIN vals = J /\ \A j \in J : vals[j] \in Vectors(Symbols)
      BY <2>4
    <3>2. input \in Inputs /\ out \in Outputs /\ DenseWritten(vals, out, new)
      BY <1>1, <2>1
    <3>3. QED
      BY <3>1, <3>2, DenseWrittenIs
  <2>6. QED
    BY <2>2, <2>4, <2>5
<1>14. ASSUME ~random, NEW k \in DOMAIN gap
       PROVE  GapSolved(new, gap[k])
  <2>1. k \in 1..len /\ k <= g /\ len = g
    BY <1>2, <1>3, <1>14
  <2>2. PICK p : p = [i \in 1..len |-> i - 1]
    OBVIOUS
  <2>3. p \in [1..len -> 0..D-1] /\ \A i \in 1..len : p[i] = i - 1
    BY <1>2, <1>3, <2>2
  <2>4. \A i, j \in 1..len : p[i] = p[j] => i = j
    BY <2>3
  <2>5. \A i \in 1..len : new[M + p[i]] = x[i]
    <3> TAKE i \in 1..len
    <3>1. p[i] \in 0..D-1 /\ p[i] \in 0..len-1 /\ p[i] + 1 = i
      BY <1>3, <2>3
    <3>2. QED
      BY <1>13, <3>1
  <2>6. \A j \in 0..D-1 : (\A i \in 1..len : p[i] # j) => new[M + j] = Zero
    <3> SUFFICES ASSUME NEW j \in 0..D-1, \A i \in 1..len : p[i] # j PROVE new[M + j] = Zero
      OBVIOUS
    <3>1. j \notin 0..len-1
      <4>1. SUFFICES ASSUME j \in 0..len-1 PROVE FALSE
        OBVIOUS
      <4>2. j + 1 \in 1..len /\ (j + 1) - 1 = j
        BY <1>3, <4>1
      <4>3. QED
        BY <2>3, <4>2
    <3>2. QED
      BY <1>13, <3>1 DEF Blank
  <2>7. \A i \in 1..len : mat[k][i] = E(gap[k])[p[i] + 1]
    <3> TAKE i \in 1..len
    <3>1. p[i] + 1 = i
      BY <2>3
    <3>2. QED
      BY <1>2, <1>5, <1>7, <2>1, <3>1
  <2>8. Combine(mat[k], x, 1..len, Symbols) = XPrime(gap[k])
    BY <1>2, <1>9, <1>12, <2>1
  <2>9. SolvedAt(len, p, x, mat[k], new, gap[k])
    BY <1>3, <1>12, <1>13, <2>3, <2>4, <2>5, <2>6, <2>7, <2>8 DEF SolvedAt
  <2>10. QED
    BY <1>1, <1>2, <2>9, SolvesGap
<1>15. IsInjective(input.dense)
  <2>1. \A i, j \in DOMAIN gap : E(gap[i]) = E(gap[j]) => mat[i] = mat[j]
    <3> SUFFICES ASSUME NEW i \in DOMAIN gap, NEW j \in DOMAIN gap, E(gap[i]) = E(gap[j])
                 PROVE  mat[i] = mat[j]
      OBVIOUS
    <3>1. i \in 1..len /\ j \in 1..len /\ i <= g /\ j <= g
      BY <1>2, <1>3
    <3>2. QED
      BY <1>7, <3>1 DEF GapPart
  <2>2. QED
    BY <1>2, <1>3, <1>8, <2>1, InvertibleDistinct
<1>16. QED
  <2>1. Backfilled(new, 0..D-1, Len(tri))
    BY <1>1, <1>13, <1>14, SolvedBackfilled
  <2>2. QED
    BY <1>15, <2>1

\* What backfill_binary solves: what the gap rows have at the chosen columns;
\* with a prng the others are drawn.
Rest(cols) == (0..D-1) \ ToSet(cols)
RestSum(g, cols) == XorOver([j \in Rest(cols) |-> Scale(Draw(M + j), E(g)[j + 1])], Rest(cols), XPrime(g))
SystemBinary(cols, rhs) ==
  rhs = [i \in DOMAIN gap |-> IF random THEN RestSum(gap[i], cols) ELSE XPrime(gap[i])]
BinaryValues(cols, sol) ==
  [j \in ToSet(cols) \cup (IF random THEN Rest(cols) ELSE {}) |->
     IF j \in Rest(cols) THEN Draw(M + j) ELSE sol[CHOOSE i \in DOMAIN cols : cols[i] = j]]

\* A choice is increasing, so its members are distinct.
LEMMA CombinationDistinct ==
  ASSUME NEW n \in Nat, NEW g \in Nat, NEW c \in Combinations(n, g)
  PROVE  \A i, j \in 1..g : i < j => c[i] < c[j]
<1>1. c \in [1..g -> 0..n-1] /\ \A i \in 1..g-1 : c[i] < c[i + 1]
  BY DEF Combinations
<1> DEFINE T == {d \in Nat : \A i \in 1..g : i + (d + 1) <= g => c[i] < c[i + (d + 1)]}
<1>2. 0 \in T
  BY <1>1
<1>3. ASSUME NEW d \in Nat, d \in T
      PROVE  d + 1 \in T
  <2> SUFFICES ASSUME NEW i \in 1..g, i + ((d + 1) + 1) <= g PROVE c[i] < c[i + ((d + 1) + 1)]
    OBVIOUS
  <2>1. PICK k : k = i + (d + 1) /\ k \in 1..g-1 /\ k + 1 = i + ((d + 1) + 1) /\ k \in 1..g /\ k + 1 \in 1..g
    OBVIOUS
  <2>2. c[i] < c[k] /\ c[k] < c[k + 1]
    BY <1>1, <1>3, <2>1
  <2>3. c[i] \in 0..n-1 /\ c[k] \in 0..n-1 /\ c[k + 1] \in 0..n-1
    BY <1>1, <2>1
  <2>4. QED
    BY <2>1, <2>2, <2>3
<1>4. Nat \subseteq T
  <2> HIDE DEF T
  <2> QED BY <1>2, <1>3, NatInductionSet
<1>5. ASSUME NEW i \in 1..g, NEW j \in 1..g, i < j
      PROVE  c[i] < c[j]
  <2>1. PICK d \in Nat : d = j - i - 1 /\ i + (d + 1) = j
    <3>1. j - i - 1 \in Nat /\ i + ((j - i - 1) + 1) = j
      BY <1>5
    <3>2. QED
      BY <3>1
  <2>2. i + (d + 1) <= g => c[i] < c[i + (d + 1)]
    BY <1>4
  <2>3. QED
    BY <2>1, <2>2
<1>6. QED
  BY <1>5

\* The first of the choices is one of them.
LEMMA ChoicePicked ==
  ASSUME Solver_Types, D # 0, D \in Nat, Choices_ # {}
  PROVE  (CHOOSE c \in Choices_ : \A d \in Choices_ \ {c} : Before(c, d)) \in Choices_
<1>1. PICK g \in Nat : g = Len(gap)
  BY DEF Solver_Types
<1>2. PICK n \in Nat : n = D - 1
  OBVIOUS
<1>3. Choices_ \in SUBSET [1..g -> 0..n]
  BY <1>1, <1>2 DEF Choices_, Combinations
<1>4. PICK C : C = Choices_
  OBVIOUS
<1>5. \E c \in C : \A d \in C \ {c} : Before(c, d)
  BY <1>3, <1>4, FirstChoice
<1>6. QED
  BY <1>4, <1>5

\* backfill_binary: the columns found solve every gap row, and keys are distinct.
LEMMA BinarySolved ==
  ASSUME Solver_OK, status = "gaps", kind = "Binary", Len(gap) \in 1..GLimit, Len(gap) <= D, NEW out, Blank(out),
         NEW cols, cols \in Choices_, NEW rhs, SystemBinary(cols, rhs), NEW new,
         DenseWritten(BinaryValues(cols, Times(CheckInvert(SubMatrix(cols)).inv, rhs)), out, new)
  PROVE  IsInjective(input.dense) /\ Backfilled(new, UsedFrom(cols), Len(tri))
<1>1. Solver_Types /\ Solver_Triangle /\ input \in Inputs /\ out \in Outputs
  BY DEF Solver_OK, Solver_Types, Blank
<1>2. PICK g \in Nat : g = Len(gap) /\ g # 0 /\ D \in Nat /\ D # 0 /\ DOMAIN gap = 1..g
  <2>1. D \in Nat
    BY <1>1, SizesAre
  <2>2. DOMAIN gap = 1..Len(gap) /\ Len(gap) \in Nat
    BY <1>1 DEF Solver_Types
  <2>3. Len(gap) # 0 /\ D # 0 /\ D \in Nat
    BY <2>1, <2>2
  <2>4. QED
    BY <2>2, <2>3
<1>3. \A i \in 1..g : /\ E(gap[i]) \in Vectors(1..D) /\ XPrime(gap[i]) \in Vectors(Symbols)
  BY <1>1, <1>2, EIs
<1>4. cols \in [1..g -> 0..D-1] /\ \A i, j \in 1..g : cols[i] = cols[j] => i = j
  <2>1. cols \in Combinations(D, g)
    BY <1>2 DEF Choices_
  <2>2. cols \in [1..g -> 0..D-1]
    BY <2>1 DEF Combinations
  <2>3. \A i, j \in 1..g : i < j => cols[i] < cols[j]
    BY <1>2, <2>1, CombinationDistinct
  <2>4. \A i, j \in 1..g : i # j => cols[i] # cols[j]
    BY <2>2, <2>3
  <2>5. QED
    BY <2>2, <2>4
<1>5. ToSet(cols) = {cols[i] : i \in 1..g} /\ ToSet(cols) \subseteq 0..D-1 /\ Rest(cols) \subseteq 0..D-1
  BY <1>4 DEF ToSet, Rest
<1>6. PICK mat : mat = SubMatrix(cols) /\ CheckInvert(mat).ok
  BY DEF Choices_
<1>7. \A i \in 1..g : mat[i] \in Vectors(1..g) /\ \A j \in 1..g : mat[i][j] = E(gap[i])[cols[j] + 1]
  <2> TAKE i \in 1..g
  <2>1. mat[i] = [j \in 1..g |-> E(gap[i])[cols[j] + 1]]
    BY <1>2, <1>6 DEF SubMatrix
  <2>2. \A j \in 1..g : cols[j] + 1 \in 1..D
    BY <1>2, <1>4
  <2>3. \A j \in 1..g : E(gap[i])[cols[j] + 1] \in Field
    BY <1>3, <2>2 DEF Vectors
  <2>4. QED
    BY <2>1, <2>3 DEF Vectors
<1>8. mat \in Matrices(g)
  <2>1. mat = [i \in 1..g |-> mat[i]]
    BY <1>2, <1>6 DEF SubMatrix
  <2>2. QED
    BY <1>7, <2>1 DEF Matrices
<1>9. DOMAIN rhs = 1..g /\ VectorsOver(rhs, 1..g, Symbols)
      /\ (~random => \A i \in 1..g : rhs[i] = XPrime(gap[i]))
  <2>1. rhs = [i \in 1..g |-> IF random THEN RestSum(gap[i], cols) ELSE XPrime(gap[i])]
    BY <1>2 DEF SystemBinary
  <2>2. \A i \in 1..g : RestSum(gap[i], cols) \in Vectors(Symbols)
    <3> TAKE i \in 1..g
    <3>1. PICK f : f = [j \in Rest(cols) |-> Scale(Draw(M + j), E(gap[i])[j + 1])]
      OBVIOUS
    <3>2. \A j \in Rest(cols) : j \in 0..D-1 /\ j + 1 \in 1..D
      BY <1>2, <1>5
    <3>3. \A j \in Rest(cols) : Draw(M + j) \in Vectors(Symbols) /\ E(gap[i])[j + 1] \in Field
      BY <1>1, <1>3, <3>2, PositionsAre, ValuesTyped DEF Vectors
    <3>4. \A j \in Rest(cols) : f[j] = Scale(Draw(M + j), E(gap[i])[j + 1]) /\ f[j] \in Vectors(Symbols)
      BY <3>1, <3>3, ScaleLaws
    <3>5. VectorsOver(f, Rest(cols), Symbols)
      BY <1>1, <1>5, <3>4, PositionsAre, FS_Subset DEF VectorsOver
    <3>6. XorOver(f, Rest(cols), XPrime(gap[i])) \in Vectors(Symbols)
      BY <1>3, <3>5, SumTyped
    <3>7. QED
      BY <3>1, <3>6 DEF RestSum
  <2>3. \A i \in 1..g : rhs[i] \in Vectors(Symbols)
    BY <1>3, <2>1, <2>2
  <2>4. IsFiniteSet(1..g)
    BY FS_Interval
  <2>5. QED
    BY <2>1, <2>3, <2>4 DEF VectorsOver
<1>10. PICK inv \in Matrices(g) : inv = CheckInvert(mat).inv
  BY <1>6, <1>8, CheckInvertSolves
<1>11. PICK x : x = Solution(g, inv, rhs, Symbols) /\ x = Times(inv, rhs)
  BY <1>9, TimesIs
<1>12. /\ VectorsOver(x, 1..g, Symbols)
       /\ \A j \in 1..g : Combine(mat[j], x, 1..g, Symbols) = rhs[j]
  <2>1. \A I, b : VectorsOver(b, 1..g, I) =>
          /\ VectorsOver(Solution(g, CheckInvert(mat).inv, b, I), 1..g, I)
          /\ \A j \in 1..g :
               Combine(mat[j], Solution(g, CheckInvert(mat).inv, b, I), 1..g, I) = b[j]
    BY <1>6, <1>8, CheckInvertSolves
  <2>2. QED
    BY <1>9, <1>10, <1>11, <2>1
<1>13. PICK J \in SUBSET (0..D-1) : J = ToSet(cols) \cup (IF random THEN Rest(cols) ELSE {})
  BY <1>5
<1>14. \A i \in 1..g : (CHOOSE j \in DOMAIN cols : cols[j] = cols[i]) = i
  BY <1>4
<1>15. PICK vals : vals = BinaryValues(cols, x) /\ DenseWritten(vals, out, new)
  BY <1>6, <1>10, <1>11
<1>16. DOMAIN vals = J /\ (\A i \in 1..g : vals[cols[i]] = x[i]) /\ \A j \in J : vals[j] \in Vectors(Symbols)
  <2>1. vals = [j \in J |-> IF j \in Rest(cols) THEN Draw(M + j)
                                               ELSE x[CHOOSE i \in DOMAIN cols : cols[i] = j]]
    BY <1>13, <1>15 DEF BinaryValues
  <2>2. \A i \in 1..g : cols[i] \in J /\ cols[i] \notin Rest(cols)
    BY <1>5, <1>13 DEF Rest
  <2>3. \A i \in 1..g : vals[cols[i]] = x[i]
    BY <1>14, <2>1, <2>2
  <2>4. \A j \in J : j \in Rest(cols) \/ \E i \in 1..g : j = cols[i]
    BY <1>5 DEF Rest
  <2>5. \A j \in Rest(cols) : Draw(M + j) \in Vectors(Symbols)
    BY <1>1, <1>5, PositionsAre, ValuesTyped
  <2>6. \A i \in 1..g : x[i] \in Vectors(Symbols)
    BY <1>12 DEF VectorsOver
  <2>7. \A j \in J : vals[j] \in Vectors(Symbols)
    <3> TAKE j \in J
    <3>1. CASE j \in Rest(cols)
      BY <2>1, <2>5, <3>1
    <3>2. CASE \E i \in 1..g : j = cols[i]
      BY <2>3, <2>6, <3>2
    <3>3. QED
      BY <2>4, <3>1, <3>2
  <2>8. QED
    BY <2>1, <2>3, <2>7
<1>17. /\ new \in Outputs /\ \A c \in Cols : new[c] = out[c]
       /\ \A j \in 0..D-1 : new[M + j] = IF j \in J THEN vals[j] ELSE out[M + j]
  <2>1. DOMAIN vals = J /\ \A j \in J : vals[j] \in Vectors(Symbols)
    BY <1>16
  <2>2. input \in Inputs /\ out \in Outputs /\ DenseWritten(vals, out, new)
    BY <1>1, <1>15
  <2>3. QED
    BY <2>1, <2>2, DenseWrittenIs
<1>18. \A i \in 1..g : new[M + cols[i]] = x[i]
  <2> TAKE i \in 1..g
  <2>1. cols[i] \in J /\ cols[i] \in 0..D-1
    BY <1>4, <1>5, <1>13
  <2>2. QED
    BY <1>16, <1>17, <2>1
<1>19. \A j \in 0..D-1 : j \notin J => new[M + j] = Zero
  BY <1>17 DEF Blank
<1>20. ASSUME ~random, NEW k \in DOMAIN gap
       PROVE  GapSolved(new, gap[k])
  <2>1. J = ToSet(cols) /\ k \in 1..g
    BY <1>2, <1>13, <1>20
  <2>2. \A j \in 0..D-1 : (\A i \in 1..g : cols[i] # j) => new[M + j] = Zero
    BY <1>5, <1>19, <2>1
  <2>3. Combine(mat[k], x, 1..g, Symbols) = XPrime(gap[k])
    BY <1>9, <1>12, <1>20, <2>1
  <2>4. \A i \in 1..g : mat[k][i] = E(gap[k])[cols[i] + 1]
    BY <1>7, <2>1
  <2>5. SolvedAt(g, cols, x, mat[k], new, gap[k])
    BY <1>4, <1>12, <1>17, <1>18, <2>2, <2>3, <2>4 DEF SolvedAt
  <2>6. QED
    BY <1>1, <1>2, <2>5, SolvesGap
<1>21. IsInjective(input.dense)
  <2>1. \A i, j \in DOMAIN gap : E(gap[i]) = E(gap[j]) => mat[i] = mat[j]
    <3> SUFFICES ASSUME NEW i \in DOMAIN gap, NEW j \in DOMAIN gap, E(gap[i]) = E(gap[j])
                 PROVE  mat[i] = mat[j]
      OBVIOUS
    <3>1. mat[i] = [m \in 1..g |-> E(gap[i])[cols[m] + 1]] /\ mat[j] = [m \in 1..g |-> E(gap[j])[cols[m] + 1]]
      BY <1>2, <1>6 DEF SubMatrix
    <3>2. QED
      BY <3>1
  <2>2. QED
    BY <1>2, <1>6, <1>8, <2>1, InvertibleDistinct
<1>22. PICK used \in SUBSET (0..D-1) : used = UsedFrom(cols) /\ \A j \in (0..D-1) \ used : new[M + j] = Zero
  <2>1. CASE random
    <3>1. UsedFrom(cols) = 0..D-1
      BY <2>1 DEF UsedFrom
    <3>2. QED
      BY <3>1
  <2>2. CASE ~random
    <3>1. UsedFrom(cols) = ToSet(cols)
      BY <2>2 DEF UsedFrom
    <3>2. J = ToSet(cols)
      BY <1>13, <2>2
    <3>3. QED
      BY <1>5, <1>19, <3>1, <3>2
  <2>3. QED
    BY <2>1, <2>2
<1>23. QED
  <2>1. Backfilled(new, used, Len(tri))
    BY <1>1, <1>17, <1>20, <1>22, SolvedBackfilled
  <2>2. QED
    BY <1>21, <1>22, <2>1
-----------------------------------------------------------------------------
(***************************************************************************)
(* The output, stage by stage.                                             *)
(***************************************************************************)
Solver_Output ==
  /\ status = "triangulate" => gapCols = << >> /\ output = [p \in Positions |-> Zero]
  /\ status = "gaps" => gapCols = << >> /\ todo = Len(tri) /\ Blank(output)
  /\ status \in {"backfill", "encoded"} =>
       IsInjective(input.dense) /\ Backfilled(output, DenseUsed, todo)
  /\ status = "encoded" => todo = 0

\* A gap row stays solved while the rows and the output stay.
LEMMA GapSolvedKept ==
  ASSUME UNCHANGED <<input, tri, gap>>, NEW out, out = output', NEW k \in DOMAIN gap, GapSolved(out, gap[k])
  PROVE  GapSolved(output, gap[k])'
<1>1. input' = input /\ tri' = tri /\ gap' = gap
  OBVIOUS
<1>2. Rows' = Rows /\ Symbols' = Symbols /\ Chosen' = Chosen /\ RowsOf(tri)' = RowsOf(tri)
      /\ (gap[k].row)' = gap[k].row
  BY <1>1 DEF Rows, Symbols, D, GLimit, kind, Chosen, RowsOf
<1>3. \A r : Value(r)' = Value(r)
  BY <1>2 DEF Value, Symbol
<1>4. Values' = Values
  BY <1>2, <1>3 DEF Values
<1>5. \A r : H(r)' = H(r)
  BY <1>1 DEF H
<1>6. \A o : SparseSum(o, Symbols)' = SparseSum(o, Symbols)
  BY <1>2, <1>5 DEF SparseSum
<1>7. DenseSum(output)' = DenseSum(out)
  BY <1>1, <1>2 DEF DenseSum, Dense, DenseRow, Zero, Symbols, D, GLimit, kind
<1>8. QED
  BY <1>2, <1>3, <1>4, <1>6, <1>7 DEF GapSolved
\* A row decodes to the same while the output stays.
LEMMA DecodeKept ==
  ASSUME UNCHANGED <<input, tri, gap>>, NEW out, out = output', NEW r
  PROVE  DecodeIn(r, output)' = DecodeIn(r, out) /\ Value(r)' = Value(r)
<1>1. input' = input /\ tri' = tri /\ gap' = gap
  OBVIOUS
<1>2. QED
  BY <1>1 DEF DecodeIn, Sparse, Dense, DenseRow, Value, Symbol, Symbols, Zero, D, GLimit, kind, H, Rows
\* What is backfilled stays so while the rows and the output stay.
LEMMA BackfilledKept ==
  ASSUME UNCHANGED <<input, tri, gap>>, NEW out, out = output', NEW used, used = DenseUsed', NEW n, n = todo',
         Backfilled(out, used, n)
  PROVE  Backfilled(output, DenseUsed, todo)'
<1>1. input' = input /\ tri' = tri /\ gap' = gap
  OBVIOUS
<1>2. \A k \in DOMAIN gap : GapSolved(out, gap[k]) => GapSolved(output, gap[k])'
  BY GapSolvedKept
<1>3. Outputs' = Outputs /\ D' = D /\ Chosen' = Chosen /\ random' = random /\ Zero' = Zero
  BY <1>1 DEF Outputs, D, GLimit, kind, Chosen, random, Zero, Symbols, Positions
<1>4. \A r : DecodeIn(r, output)' = DecodeIn(r, out) /\ Value(r)' = Value(r)
  BY DecodeKept
<1>5. QED
  BY <1>1, <1>2, <1>3, <1>4 DEF Backfilled

\* Nothing is written while the output stays.
LEMMA BlankKept ==
  ASSUME UNCHANGED <<input, tri>>, NEW out, out = output', Blank(out)
  PROVE  Blank(output)'
<1>1. input' = input /\ tri' = tri
  OBVIOUS
<1>2. Outputs' = Outputs /\ D' = D /\ Chosen' = Chosen /\ random' = random /\ Zero' = Zero
  BY <1>1 DEF Outputs, D, GLimit, kind, Chosen, random, Zero, Symbols, Positions
<1>3. QED
  BY <1>2 DEF Blank

\* The dense positions are solved: the next stage begins.
LEMMA BackfillBegins ==
  ASSUME Solver_Types, UNCHANGED <<input, tri, gap, todo>>, status' = "backfill", todo = Len(tri),
         NEW new, new = output', NEW cols, cols = gapCols',
         IsInjective(input.dense), Backfilled(new, UsedFrom(cols), Len(tri))
  PROVE  Solver_Output'
<1>1. PICK used, n : used = UsedFrom(cols) /\ n = Len(tri) /\ Backfilled(new, used, n)
  OBVIOUS
<1>2. used = DenseUsed'
  <2>1. input' = input /\ gap' = gap
    OBVIOUS
  <2>2. QED
    BY <1>1, <2>1 DEF UsedFrom, DenseUsed, kind, random, D, GLimit
<1>3. n = todo'
  BY <1>1
<1>4. Backfilled(output, DenseUsed, todo)'
  BY <1>1, <1>2, <1>3, BackfilledKept
<1>5. QED
  BY <1>4 DEF Solver_Output

\* Before the call of triangulate has ended nothing is written.
LEMMA TriangulateOutput ==
  ASSUME Solver_Output, Triangulate
  PROVE  Solver_Output'
<1>1. /\ status = "triangulate" /\ status' \in {"triangulate", "duplicate keys"}
      /\ input' = input /\ gapCols' = gapCols /\ output' = output
  BY DEF Triangulate
<1>2. Positions' = Positions /\ Zero' = Zero
  BY <1>1 DEF Positions, Zero, Symbols, D, GLimit, kind
<1>3. QED
  BY <1>1, <1>2 DEF Solver_Output

\* Columns that are drawn are no pivots.
LEMMA RandomizeOutput ==
  ASSUME Solver_OK, Solver_Output, Randomize
  PROVE  Solver_Output'
<1>1. /\ status = "triangulate" /\ UNCHANGED <<input, tri, gap, gapCols>> /\ todo' = Len(tri)
      /\ gapCols = << >> /\ output = [p \in Positions |-> Zero]
  BY DEF Randomize, Solver_Output
<1>2. CASE status' = "no weight-zero column"
  BY <1>2 DEF Solver_Output
<1>3. CASE status' # "no weight-zero column"
  <2>1. PICK new : new = output' /\ status' = "gaps"
          /\ new = [p \in Positions |-> IF random /\ p \in ToSet(weightSet[0]) THEN Draw(p) ELSE output[p]]
    BY <1>3 DEF Randomize
  <2>2. input \in Inputs /\ 0 \in 0..N
    BY SizeAssumption DEF Solver_OK, Solver_Types
  <2>3. ToSet(weightSet[0]) \subseteq Cols \ Chosen
    BY <2>2, ListsAre DEF Solver_OK
  <2>4. \A p \in Positions : new[p] = IF random /\ p \in ToSet(weightSet[0]) THEN Draw(p) ELSE Zero
    BY <1>1, <2>1
  <2>5. new \in Outputs
    <3>1. \A p \in Positions : new[p] \in Vectors(Symbols)
      BY <2>2, <2>4, ValuesTyped
    <3>2. QED
      BY <2>1, <3>1 DEF Outputs
  <2>6. \A c \in Chosen : new[c] = Zero
    <3>1. Chosen \subseteq Cols
      <4>1. \A i \in DOMAIN tri : tri[i] \in TriRows
        BY DEF Solver_OK, Solver_Types
      <4>2. QED
        BY <4>1 DEF Chosen, ToSet, TriRows
    <3>2. QED
      BY <2>2, <2>3, <2>4, <3>1, PositionsAre
  <2>7. ~random => \A c \in Cols : new[c] = Zero
    BY <2>2, <2>4, PositionsAre
  <2>8. \A j \in 0..D-1 : new[M + j] = Zero
    BY <2>2, <2>3, <2>4, PositionsAre
  <2>9. Blank(new)
    BY <2>5, <2>6, <2>7, <2>8 DEF Blank
  <2>10. Blank(output)'
    BY <1>1, <2>1, <2>9, BlankKept
  <2>11. QED
    BY <1>1, <2>1, <2>10 DEF Solver_Output
<1>4. QED
  BY <1>2, <1>3

\* Without gap rows backfill begins at once.
LEMMA NoGapsOutput ==
  ASSUME Solver_OK, Solver_Output, NoGaps
  PROVE  Solver_Output'
<1>1. /\ status = "gaps" /\ gap = << >> /\ status' = "backfill" /\ UNCHANGED <<input, tri, gap, todo, gapCols>>
      /\ gapCols = << >> /\ todo = Len(tri) /\ Blank(output)
  BY DEF NoGaps, Solver_Output
<1>2. PICK out, new : out = output /\ new = output' /\ Blank(out)
        /\ IF random THEN DenseWritten([j \in 0..D-1 |-> Draw(M + j)], out, new) ELSE new = out
  BY <1>1 DEF NoGaps, SetDense, DenseWritten
<1>3. IsInjective(input.dense) /\ Backfilled(new, UsedFrom(<< >>), Len(tri))
  BY <1>1, <1>2, NoGapsSolved
<1>4. PICK cols : cols = gapCols' /\ cols = << >>
  BY <1>1
<1>5. Solver_Types
  BY DEF Solver_OK
<1>6. QED
  BY <1>1, <1>2, <1>3, <1>4, <1>5, BackfillBegins

\* backfill_gf128 leaves the dense positions solved, or throws.
LEMMA GapsGf128Output ==
  ASSUME Solver_OK, Solver_Output, GapsGf128
  PROVE  Solver_Output'
<1>1. /\ status = "gaps" /\ kind = "Gf128" /\ Len(gap) \in 1..GLimit /\ UNCHANGED <<input, tri, gap, todo, gapCols>>
      /\ todo = Len(tri) /\ Blank(output)
  BY DEF GapsGf128, Solver_Output
<1>2. PICK len, mat, rhs :
        /\ SystemGf128(len, mat, rhs)
        /\ IF CheckInvert(mat).ok
           THEN /\ DenseWritten([j \in 0..len-1 |-> Times(CheckInvert(mat).inv, rhs)[j + 1]], output, output')
                /\ status' = "backfill"
           ELSE status' = "dense matrix is not invertible"
  <2> DEFINE l == IF random THEN D ELSE Len(gap)
             A(extra) == [i \in 1..l |-> IF i <= Len(gap) THEN GapPart(gap[i], l) ELSE extra[i]]
             b == [i \in 1..l |-> IF i <= Len(gap) THEN XPrime(gap[i]) ELSE Draw(M + i - 1)]
  <2>1. PICK extra \in [Len(gap)+1..l -> [1..l -> Field]] :
          IF CheckInvert(A(extra)).ok
          THEN /\ DenseWritten([j \in 0..l-1 |-> Times(CheckInvert(A(extra)).inv, b)[j + 1]], output, output')
               /\ status' = "backfill"
          ELSE status' = "dense matrix is not invertible"
    BY DEF GapsGf128, DenseWritten, SetDense, GapPart
  <2>2. SystemGf128(l, A(extra), b)
    BY DEF SystemGf128
  <2> HIDE DEF l, A, b
  <2>3. QED
    BY <2>1, <2>2
<1>3. CASE ~CheckInvert(mat).ok
  BY <1>2, <1>3 DEF Solver_Output
<1>4. CASE CheckInvert(mat).ok
  <2>1. PICK out, new : out = output /\ new = output' /\ Blank(out)
          /\ DenseWritten([j \in 0..len-1 |-> Times(CheckInvert(mat).inv, rhs)[j + 1]], out, new)
    BY <1>1, <1>2, <1>4
  <2>2. IsInjective(input.dense) /\ Backfilled(new, 0..D-1, Len(tri))
    BY <1>1, <1>2, <1>4, <2>1, Gf128Solved
  <2>3. PICK cols : cols = gapCols'
    OBVIOUS
  <2>4. UsedFrom(cols) = 0..D-1
    <3>1. gap # << >>
      BY <1>1
    <3>2. QED
      BY <1>1, <3>1 DEF UsedFrom
  <2>5. Solver_Types /\ status' = "backfill"
    BY <1>2, <1>4 DEF Solver_OK
  <2>6. QED
    BY <1>1, <2>1, <2>2, <2>3, <2>4, <2>5, BackfillBegins
<1>5. QED
  BY <1>3, <1>4

\* backfill_binary leaves the dense positions solved, or throws.
LEMMA GapsBinaryOutput ==
  ASSUME Solver_OK, Solver_Output, GapsBinary
  PROVE  Solver_Output'
<1>1. /\ status = "gaps" /\ kind = "Binary" /\ Len(gap) \in 1..GLimit /\ UNCHANGED <<input, tri, gap, todo>>
      /\ todo = Len(tri) /\ Blank(output)
  BY DEF GapsBinary, Solver_Output
<1>g. Len(gap) <= D /\ D # 0 /\ D \in Nat
  <2>1. PICK g \in Nat : g = Len(gap)
    BY DEF Solver_OK, Solver_Types
  <2>2. GLimit \in 0..255 /\ D \in Nat
    BY SizesAre DEF Solver_OK, Solver_Types, ByteMax
  <2>3. ~(g > ByteMax) /\ g <= GLimit /\ g # 0
    BY <1>1, <2>1, <2>2 DEF ByteMax
  <2>4. ~Overruns
    BY DEF GapsBinary
  <2>5. Len(gap) # 0 /\ gap # << >> /\ ~(Len(gap) > ByteMax) /\ Len(gap) <= GLimit
    BY <2>1, <2>3
  <2>6. ~(Len(gap) > D)
    BY <1>1, <2>4, <2>5, Zenon DEF Overruns
  <2>7. QED
    BY <2>1, <2>2, <2>3, <2>6
<1>2. CASE Choices_ = {}
  BY <1>2 DEF GapsBinary, Solver_Output
<1>3. CASE Choices_ # {}
  <2>1. PICK cols : cols = CHOOSE c \in Choices_ : \A d \in Choices_ \ {c} : Before(c, d)
    OBVIOUS
  <2>2. Solver_Types
    BY DEF Solver_OK
  <2>3. cols \in Choices_
    BY <1>3, <1>g, <2>1, <2>2, ChoicePicked
  <2>4. PICK rhs : SystemBinary(cols, rhs) /\ gapCols' = cols /\ status' = "backfill"
          /\ DenseWritten(BinaryValues(cols, Times(CheckInvert(SubMatrix(cols)).inv, rhs)), output, output')
    <3> DEFINE c0 == CHOOSE c \in Choices_ : \A d \in Choices_ \ {c} : Before(c, d)
               b  == [i \in DOMAIN gap |-> IF random THEN RestSum(gap[i], c0) ELSE XPrime(gap[i])]
    <3>1. /\ gapCols' = c0 /\ status' = "backfill"
          /\ DenseWritten(BinaryValues(c0, Times(CheckInvert(SubMatrix(c0)).inv, b)), output, output')
      BY <1>3 DEF GapsBinary, RestSum, Rest, BinaryValues, DenseWritten, SetDense
    <3>2. SystemBinary(c0, b)
      BY DEF SystemBinary
    <3>3. cols = c0
      BY <2>1
    <3> HIDE DEF c0, b
    <3>4. QED
      BY <3>1, <3>2, <3>3
  <2>5. PICK out, new : out = output /\ new = output' /\ Blank(out)
          /\ DenseWritten(BinaryValues(cols, Times(CheckInvert(SubMatrix(cols)).inv, rhs)), out, new)
    BY <1>1, <2>4
  <2>6. IsInjective(input.dense) /\ Backfilled(new, UsedFrom(cols), Len(tri))
    BY <1>1, <1>g, <2>3, <2>4, <2>5, BinarySolved
  <2>7. QED
    BY <1>1, <2>2, <2>4, <2>5, <2>6, BackfillBegins
<1>4. QED
  BY <1>2, <1>3

\* One iteration of the backfill loop.
LEMMA BackfillOutput ==
  ASSUME Solver_OK, Solver_Output, Backfill
  PROVE  Solver_Output'
<1>1. /\ status = "backfill" /\ todo > 0 /\ todo' = todo - 1 /\ status' = status
      /\ UNCHANGED <<input, tri, gap, gapCols>>
      /\ IsInjective(input.dense) /\ Backfilled(output, DenseUsed, todo)
  BY DEF Backfill, Solver_Output
<1>2. Solver_Types /\ Solver_Triangle /\ todo \in DOMAIN tri
  <2>1. DOMAIN tri = 1..Len(tri) /\ todo \in 0..Len(tri) /\ Len(tri) \in Nat
    BY DEF Solver_OK, Solver_Types
  <2>2. QED
    BY <1>1, <2>1 DEF Solver_OK
<1>n. PICK n \in DOMAIN tri : n = todo
  BY <1>2
<1>3. PICK used, out, new :
        /\ n = todo /\ used = DenseUsed /\ out = output /\ new = output'
        /\ RowWritten(n, used, out, new) /\ Backfilled(out, used, n)
  BY <1>1, <1>n DEF Backfill, RowWritten
<1>4. Backfilled(new, used, n - 1)
  BY <1>2, <1>3, BackfillsOne
<1>5. used = DenseUsed'
  <2>1. input' = input /\ gap' = gap /\ gapCols' = gapCols
    BY <1>1
  <2>2. QED
    BY <1>3, <2>1 DEF DenseUsed, kind, random, D, GLimit
<1>6. PICK m : m = n - 1 /\ m = todo'
  BY <1>1, <1>3
<1>7. Backfilled(output, DenseUsed, todo)'
  BY <1>1, <1>3, <1>4, <1>5, <1>6, BackfilledKept
<1>8. QED
  BY <1>1, <1>7 DEF Solver_Output

\* Nothing the invariant speaks of changes.
LEMMA SameOutput ==
  ASSUME Solver_Output, UNCHANGED <<input, tri, gap, gapCols, output, todo>>,
         \/ status' = status \/ status' \in Threw \cup {"undefined"}
         \/ status = "backfill" /\ status' = "encoded" /\ todo = 0
  PROVE  Solver_Output'
<1>1. input' = input /\ gap' = gap /\ gapCols' = gapCols /\ tri' = tri /\ output' = output /\ todo' = todo
  OBVIOUS
<1>2. Positions' = Positions /\ Zero' = Zero
  BY <1>1 DEF Positions, Zero, Symbols, D, GLimit, kind
<1>3. Blank(output) => Blank(output)'
  BY <1>1, BlankKept
<1>4. Backfilled(output, DenseUsed, todo) => Backfilled(output, DenseUsed, todo)'
  <2> SUFFICES ASSUME Backfilled(output, DenseUsed, todo) PROVE Backfilled(output, DenseUsed, todo)'
    OBVIOUS
  <2>1. DenseUsed' = DenseUsed
    BY <1>1 DEF DenseUsed, kind, random, D, GLimit
  <2>2. PICK out, used, n : out = output' /\ used = DenseUsed' /\ n = todo' /\ Backfilled(out, used, n)
    BY <1>1, <2>1
  <2>3. QED
    BY <1>1, <2>2, BackfilledKept
<1>5. CASE status' = status
  BY <1>1, <1>2, <1>3, <1>4, <1>5 DEF Solver_Output
<1>6. CASE status' \in Threw \cup {"undefined"}
  BY <1>6 DEF Solver_Output, Threw
<1>7. CASE status = "backfill" /\ status' = "encoded" /\ todo = 0
  BY <1>1, <1>4, <1>7 DEF Solver_Output
<1>8. QED
  BY <1>5, <1>6, <1>7

\* Every step preserves what is known of the output.
LEMMA OutputStep == Solver_OK /\ Solver_Output /\ [Next]_vars => Solver_Output'
<1> SUFFICES ASSUME Solver_OK, Solver_Output, [Next]_vars PROVE Solver_Output'
  OBVIOUS
<1>1. CASE Triangulate
  BY <1>1, TriangulateOutput
<1>2. CASE Randomize
  BY <1>2, RandomizeOutput
<1>3. CASE NoGaps
  BY <1>3, NoGapsOutput
<1>4. CASE TooManyGaps
  BY <1>4, SameOutput DEF TooManyGaps, Threw
<1>5. CASE GapsGf128
  BY <1>5, GapsGf128Output
<1>6. CASE GapsBinary
  BY <1>6, GapsBinaryOutput
<1>7. CASE Backfill
  BY <1>7, BackfillOutput
<1>8. CASE Return
  BY <1>8, SameOutput DEF Return
<1>9. CASE Finished \/ UNCHANGED vars
  BY <1>9, SameOutput DEF Finished, vars
<1>10. CASE Overrun
  BY <1>10, SameOutput DEF Overrun
<1>11. QED
  BY <1>1, <1>2, <1>3, <1>4, <1>5, <1>6, <1>7, <1>8, <1>9, <1>10 DEF Next

\* After an encode that returned, decode gives every key its value, whatever
\* the values, the blocks and the randomness (paxos.cpp 1219-1411); no two of
\* its keys were equal.
THEOREM EncodedDecodes == Spec => []EncodeDecodes
<1>1. Init => Solver_Output
  BY DEF Init, Solver_Output
<1>2. Solver_OK /\ Solver_Output => EncodeDecodes
  <2> SUFFICES ASSUME Solver_OK, Solver_Output, status = "encoded" PROVE
        /\ IsInjective(input.dense)
        /\ (random => gap = << >>) => \A r \in Rows : Decode(r) = Value(r)
    BY DEF EncodeDecodes
  <2>1. PICK out, used : out = output /\ Backfilled(out, used, 0)
    BY DEF Solver_Output
  <2>2. rowSign = Rows /\ Solver_Types
    BY NoneHeavy DEF Solver_OK, Solver_Stages
  <2>3. RowsOf(tri) \cup RowsOf(gap) = Rows
    BY <2>2 DEF Solver_OK, Solver_Counts
  <2>4. ASSUME random => gap = << >>, NEW r \in Rows
        PROVE  Decode(r) = Value(r)
    <3>1. DecodeIn(r, out) = Value(r)
      BY <2>1, <2>2, <2>3, <2>4, BackfilledDecodes
    <3>2. QED
      BY <2>1, <3>1 DEF Decode, DecodeIn
  <2>5. QED
    BY <2>4 DEF Solver_Output
<1>3. QED
  BY <1>1, <1>2, OutputStep, SolverInit, SolverStep, PTL DEF Spec

-----------------------------------------------------------------------------
(***************************************************************************)
(* What the output tells: positions whose sum is free of randomness.       *)
(***************************************************************************)
\* One member more turns even into odd and odd into even.
LEMMA ParityStep ==
  ASSUME NEW A, IsFiniteSet(A), NEW x, x \notin A
  PROVE  \E a \in {0, 1} : Cardinality(A) % 2 = a /\ Cardinality(A \cup {x}) % 2 = 1 - a
<1>1. PICK n \in Nat : n = Cardinality(A) /\ Cardinality(A \cup {x}) = n + 1
  BY FS_CardinalityType, FS_AddElement
<1>2. PICK a \in {0, 1} : n % 2 = a /\ (n + 1) % 2 = 1 - a
  OBVIOUS
<1>3. QED
  BY <1>1, <1>2

\* A component of a sum of vectors, if it is a bit in each, is the parity of
\* how many vectors have it set.
LEMMA TotalParity ==
  ASSUME NEW S, NEW I, NEW f, VectorsOver(f, S, I), NEW k \in I, \A x \in S : f[x][k] \in {0, 1}
  PROVE  Total(f, S, I)[k] = Cardinality({x \in S : f[x][k] = 1}) % 2
<1> DEFINE Set(U) == {x \in U : f[x][k] = 1}
           T == {U \in SUBSET S : Total(f, U, I)[k] = Cardinality(Set(U)) % 2}
<1>0. IsFiniteSet(S)
  BY DEF VectorsOver
<1>1. \A U \in SUBSET S : VectorsOver(f, U, I) /\ IsFiniteSet(Set(U))
  <2> TAKE U \in SUBSET S
  <2>1. IsFiniteSet(U) /\ Set(U) \in SUBSET U
    BY <1>0, FS_Subset
  <2>2. QED
    BY <2>1, FS_Subset DEF VectorsOver
<1>2. ASSUME NEW U \in SUBSET S, \A V \in SUBSET U : V # U => V \in T
      PROVE  U \in T
  <2>1. CASE U = {}
    <3>1. Set(U) = {}
      BY <2>1
    <3>2. Cardinality(Set(U)) % 2 = 0
      BY <3>1, FS_EmptySet
    <3>3. Total(f, U, I)[k] = 0
      BY <2>1, TotalEmpty DEF ZeroOn
    <3>4. QED
      BY <3>2, <3>3
  <2>2. CASE U # {}
    <3>1. PICK x : x \in U
      BY <2>2
    <3>2. PICK V : V = U \ {x} /\ V \in SUBSET U /\ V # U /\ V \in SUBSET S
      <4>1. U \ {x} \in SUBSET U /\ U \ {x} # U /\ U \ {x} \in SUBSET S
        BY <3>1
      <4>2. QED
        BY <4>1
    <3>3. Total(f, V, I)[k] = Cardinality(Set(V)) % 2
      BY <1>2, <3>2
    <3>4. Total(f, U, I) = AddRow(f[x], Total(f, V, I)) /\ f[x] \in Vectors(I)
      <4>1. VectorsOver(f, U, I) /\ V = U \ {x} /\ x \in U
        BY <1>1, <3>1, <3>2
      <4>2. Total(f, U, I) = AddRow(f[x], Total(f, V, I))
        BY <4>1, TotalTake
      <4>3. QED
        BY <4>1, <4>2 DEF VectorsOver
    <3>5. Total(f, U, I)[k] = Xor(f[x][k], Total(f, V, I)[k])
      <4>1. DOMAIN f[x] = I
        BY <3>4 DEF Vectors
      <4>2. QED
        BY <3>4, <4>1 DEF AddRow
    <3>6. x \notin Set(V) /\ IsFiniteSet(Set(V))
      BY <1>1, <3>2
    <3>7. Set(U) = IF f[x][k] = 1 THEN Set(V) \cup {x} ELSE Set(V)
      BY <3>1, <3>2
    <3> HIDE DEF Set
    <3>a. PICK a : a = f[x][k] /\ a \in {0, 1}
      BY <3>1
    <3>8. PICK b \in {0, 1} : b = Cardinality(Set(V)) % 2 /\ Cardinality(Set(V) \cup {x}) % 2 = 1 - b
      BY <3>6, ParityStep
    <3>9. Cardinality(Set(U)) % 2 = IF a = 1 THEN 1 - b ELSE b
      <4>1. CASE a = 1
        <5>1. Set(U) = Set(V) \cup {x}
          BY <3>7, <3>a, <4>1
        <5>2. QED
          BY <3>8, <4>1, <5>1
      <4>2. CASE a = 0
        <5>1. Set(U) = Set(V)
          BY <3>7, <3>a, <4>2
        <5>2. QED
          BY <3>8, <4>2, <5>1
      <4>3. QED
        BY <3>a, <4>1, <4>2
    <3>10. Xor(a, b) = IF a = 1 THEN 1 - b ELSE b
      <4>1. Xor(0, 0) = 0 /\ Xor(0, 1) = 1 /\ Xor(1, 0) = 1 /\ Xor(1, 1) = 0
        BY DEF Xor
      <4>2. QED
        BY <3>a, <3>8, <4>1
    <3>11. QED
      BY <3>3, <3>5, <3>a, <3>8, <3>9, <3>10
  <2>3. QED
    BY <2>1, <2>2
<1>3. SUBSET S \subseteq T
  <2>1. \A U \in SUBSET S : (\A V \in SUBSET U : V # U => V \in T) => U \in T
    BY <1>2
  <2> HIDE DEF T
  <2>2. QED
    BY <1>0, <2>1, SubsetInduction
<1>4. QED
  BY <1>3

\* The positions that an odd number of rows use, s giving those of each row.
OddIn(P, s, T) == {p \in P : Cardinality({r \in T : p \in s[r]}) % 2 = 1}

\* One row more changes it at the positions of that row.
LEMMA OddWith ==
  ASSUME NEW P, NEW s, NEW T, IsFiniteSet(T), NEW x, x \notin T, s[x] \subseteq P
  PROVE  OddIn(P, s, T \cup {x}) = SymDiff(OddIn(P, s, T), s[x])
<1>1. ASSUME NEW p \in P
      PROVE  p \in OddIn(P, s, T \cup {x}) <=> p \in SymDiff(OddIn(P, s, T), s[x])
  <2> DEFINE A == {r \in T : p \in s[r]}
             B == {r \in T \cup {x} : p \in s[r]}
  <2>1. IsFiniteSet(A) /\ x \notin A
    BY FS_Subset
  <2>2. B = IF p \in s[x] THEN A \cup {x} ELSE A
    OBVIOUS
  <2>3. /\ p \in OddIn(P, s, T \cup {x}) <=> Cardinality(B) % 2 = 1
        /\ p \in OddIn(P, s, T) <=> Cardinality(A) % 2 = 1
    BY DEF OddIn
  <2> HIDE DEF A, B
  <2>4. PICK a \in {0, 1} : Cardinality(A) % 2 = a /\ Cardinality(A \cup {x}) % 2 = 1 - a
    BY <2>1, ParityStep
  <2>5. p \in SymDiff(OddIn(P, s, T), s[x]) <=> ~(p \in OddIn(P, s, T) <=> p \in s[x])
    BY DEF SymDiff
  <2>6. CASE p \in s[x]
    <3>1. Cardinality(B) % 2 = 1 - a
      BY <2>2, <2>4, <2>6
    <3>2. 1 - a = 1 <=> a # 1
      OBVIOUS
    <3>3. QED
      BY <2>3, <2>4, <2>5, <2>6, <3>1, <3>2
  <2>7. CASE p \notin s[x]
    BY <2>2, <2>3, <2>5, <2>7
  <2>8. QED
    BY <2>6, <2>7
<1>2. OddIn(P, s, T \cup {x}) \subseteq P /\ SymDiff(OddIn(P, s, T), s[x]) \subseteq P
  BY DEF OddIn, SymDiff
<1>3. QED
  BY <1>1, <1>2

\* No rows use no position.
LEMMA OddNone ==
  ASSUME NEW P, NEW s
  PROVE  OddIn(P, s, {}) = {}
<1>1. \A p \in P : {r \in {} : p \in s[r]} = {}
  OBVIOUS
<1>2. Cardinality({}) % 2 = 0
  BY FS_EmptySet
<1>3. QED
  BY <1>1, <1>2 DEF OddIn

\* If each row's positions sum to its value, then the positions that an odd
\* number of rows use sum to the rows' values.
LEMMA OddTotal ==
  ASSUME NEW P, NEW R, IsFiniteSet(R), NEW I, NEW out, VectorsOver(out, P, I),
         NEW s, \A r \in R : s[r] \subseteq P, NEW v, VectorsOver(v, R, I),
         \A r \in R : Total(out, s[r], I) = v[r]
  PROVE  \A U \in SUBSET R : Total(out, OddIn(P, s, U), I) = Total(v, U, I)
<1> DEFINE T == {U \in SUBSET R : Total(out, OddIn(P, s, U), I) = Total(v, U, I)}
<1>1. \A U \in SUBSET R : VectorsOver(v, U, I) /\ IsFiniteSet(U)
  BY FS_Subset DEF VectorsOver
<1>2. ASSUME NEW U \in SUBSET R, \A V \in SUBSET U : V # U => V \in T
      PROVE  U \in T
  <2>1. CASE U = {}
    BY <2>1, OddNone, TotalEmpty
  <2>2. CASE U # {}
    <3>1. PICK x : x \in U
      BY <2>2
    <3>2. PICK V : V = U \ {x} /\ V \in SUBSET U /\ V # U /\ V \in SUBSET R /\ x \notin V /\ U = V \cup {x}
      <4>1. U \ {x} \in SUBSET U /\ U \ {x} # U /\ U \ {x} \in SUBSET R /\ U = (U \ {x}) \cup {x}
        BY <3>1
      <4>2. QED
        BY <4>1
    <3>3. Total(out, OddIn(P, s, V), I) = Total(v, V, I)
      BY <1>2, <3>2
    <3>4. OddIn(P, s, U) = SymDiff(OddIn(P, s, V), s[x])
      BY <1>1, <3>1, <3>2, OddWith
    <3>5. Total(out, OddIn(P, s, U), I) = AddRow(Total(out, OddIn(P, s, V), I), Total(out, s[x], I))
      <4>1. OddIn(P, s, V) \in SUBSET P /\ s[x] \in SUBSET P
        BY <3>1 DEF OddIn
      <4>2. QED
        BY <3>4, <4>1, TotalDelta
    <3>6. Total(v, U, I) = AddRow(v[x], Total(v, V, I))
      BY <1>1, <3>1, <3>2, TotalTake
    <3>7. v[x] \in Vectors(I) /\ Total(v, V, I) \in Vectors(I) /\ Total(out, s[x], I) = v[x]
      BY <1>1, <3>1, <3>2, TotalTake DEF VectorsOver
    <3>8. AddRow(Total(v, V, I), v[x]) = AddRow(v[x], Total(v, V, I))
      BY <3>7, AddRowLaws
    <3>9. QED
      BY <3>3, <3>5, <3>6, <3>7, <3>8
  <2>3. QED
    BY <2>1, <2>2
<1>3. SUBSET R \subseteq T
  <2>1. \A U \in SUBSET R : (\A V \in SUBSET U : V # U => V \in T) => U \in T
    BY <1>2
  <2> HIDE DEF T
  <2>2. QED
    BY <2>1, SubsetInduction
<1>4. QED
  BY <1>3

\* Some rows use a pivot an odd number of times exactly where it is in S: the
\* rows are taken first to last, and a row has no pivot of an earlier one.
LEMMA PivotsReached ==
  ASSUME Solver_Types, Solver_Triangle,
         NEW P, NEW s, \A r \in Rows : s[r] \subseteq P,
         \A r \in Rows, c \in Cols : c \in s[r] <=> c \in ToSet(H(r)),
         Cols \subseteq P, NEW S
  PROVE  \E T \in SUBSET Rows : \A c \in Chosen : c \in S <=> c \in OddIn(P, s, T)
<1>1. PICK n \in Nat : n = Len(tri) /\ DOMAIN tri = 1..n
  BY DEF Solver_Types
<1>2. \A i \in 1..n : tri[i].row \in Rows /\ tri[i].col \in Cols
  <2>1. \A i \in 1..n : tri[i] \in TriRows
    BY <1>1 DEF Solver_Types
  <2>2. QED
    BY <2>1 DEF TriRows
<1>3. /\ \A i, j \in 1..n : tri[i].row = tri[j].row => i = j
      /\ \A i \in 1..n : tri[i].col \in ToSet(H(tri[i].row))
      /\ \A i, j \in 1..n : tri[i].col \in ToSet(H(tri[j].row)) => i >= j
  BY <1>1 DEF Solver_Triangle
<1>4. IsFiniteSet(Rows)
  BY PositionsAre DEF Solver_Types
<1> DEFINE Reached(T, i) == \A j \in 1..i : tri[j].col \in S <=> tri[j].col \in OddIn(P, s, T)
           W == {i \in Nat : i <= n => \E T \in SUBSET {tri[j].row : j \in 1..i} : Reached(T, i)}
<1>5. 0 \in W
  <2>1. {} \in SUBSET {tri[j].row : j \in 1..0} /\ 1..0 = {}
    OBVIOUS
  <2>2. Reached({}, 0)
    BY <2>1
  <2> HIDE DEF Reached
  <2>3. QED
    BY <2>1, <2>2
<1>6. ASSUME NEW i \in Nat, i \in W
      PROVE  i + 1 \in W
  <2> SUFFICES ASSUME i + 1 <= n
               PROVE  \E T \in SUBSET {tri[j].row : j \in 1..i + 1} : Reached(T, i + 1)
    OBVIOUS
  <2>0. i <= n
    OBVIOUS
  <2>1. PICK T \in SUBSET {tri[j].row : j \in 1..i} : Reached(T, i)
    <3> HIDE DEF Reached
    <3>1. QED
      BY <1>6, <2>0
  <2>2. PICK x, c : x = tri[i + 1].row /\ c = tri[i + 1].col /\ x \in Rows /\ c \in Cols /\ i + 1 \in 1..n
    BY <1>2
  <2>3. \A j \in 1..i + 1 : j \in 1..i \/ j = i + 1
    OBVIOUS
  <2>4. /\ T \in SUBSET {tri[j].row : j \in 1..i + 1}
        /\ T \cup {x} \in SUBSET {tri[j].row : j \in 1..i + 1}
    <3>1. {tri[j].row : j \in 1..i} \subseteq {tri[j].row : j \in 1..i + 1}
      OBVIOUS
    <3>2. x \in {tri[j].row : j \in 1..i + 1}
      BY <2>2
    <3>3. QED
      BY <3>1, <3>2
  <2>5. CASE c \in S <=> c \in OddIn(P, s, T)
    <3>1. Reached(T, i + 1)
      BY <2>1, <2>2, <2>3, <2>5
    <3>2. QED
      BY <2>4, <3>1
  <2>6. CASE ~(c \in S <=> c \in OddIn(P, s, T))
    <3>1. x \notin T /\ IsFiniteSet(T)
      <4>1. \A j \in 1..i : j \in 1..n /\ j # i + 1
        OBVIOUS
      <4>2. \A j \in 1..i : tri[j].row # x /\ tri[j].row \in Rows
        BY <1>2, <1>3, <2>2, <4>1
      <4>3. T \in SUBSET Rows /\ x \notin T
        BY <4>2
      <4>4. QED
        BY <1>4, <4>3, FS_Subset
    <3>2. OddIn(P, s, T \cup {x}) = SymDiff(OddIn(P, s, T), s[x])
      BY <2>2, <3>1, OddWith
    <3>3. \A p : p \in OddIn(P, s, T \cup {x}) <=> ~(p \in OddIn(P, s, T) <=> p \in s[x])
      BY <3>2 DEF SymDiff
    <3>4. c \in s[x]
      BY <1>3, <2>2
    <3>5. \A j \in 1..i : tri[j].col \notin s[x]
      <4> TAKE j \in 1..i
      <4>1. j \in 1..n /\ ~ j >= i + 1
        OBVIOUS
      <4>2. tri[j].col \notin ToSet(H(tri[i + 1].row)) /\ tri[j].col \in Cols
        BY <1>2, <1>3, <2>2, <4>1
      <4>3. QED
        BY <2>2, <4>2
    <3>6. Reached(T \cup {x}, i + 1)
      BY <2>1, <2>2, <2>3, <2>6, <3>3, <3>4, <3>5
    <3>7. QED
      BY <2>4, <3>6
  <2>7. QED
    BY <2>5, <2>6
<1>7. n \in W
  <2>1. 0 \in W /\ \A i \in Nat : i \in W => i + 1 \in W
    BY <1>5, <1>6
  <2> HIDE DEF W
  <2>2. Nat \subseteq W
    BY <2>1, NatInductionSet
  <2>3. QED
    BY <2>2
<1>8. PICK T \in SUBSET {tri[j].row : j \in 1..n} : Reached(T, n)
  BY <1>7
<1>9. T \in SUBSET Rows
  BY <1>2
<1>10. \A c \in Chosen : \E j \in 1..n : c = tri[j].col
  BY <1>1 DEF Chosen, ToSet
<1>11. QED
  BY <1>8, <1>9, <1>10

\* With the binary type a row decodes to the sum of its positions.
LEMMA SupportSum ==
  ASSUME input \in Inputs, kind = "Binary", NEW r \in Rows, NEW out, out \in Outputs
  PROVE  /\ Support(r) \subseteq Positions
         /\ \A c \in Cols : c \in Support(r) <=> c \in ToSet(H(r))
         /\ VectorsOver(out, Positions, Symbols)
         /\ DecodeIn(r, out) = Total(out, Support(r), Symbols)
<1>1. PICK d \in Nat : d = D /\ M \in Nat /\ IsFiniteSet(0..d-1)
        /\ Positions = Cols \cup {M + j : j \in 0..d-1}
        /\ \A j \in 0..d-1 : M + j \in Positions /\ M + j \notin Cols
  BY PositionsAre
<1>2. /\ VectorsOver(out, Cols, Symbols) /\ VectorsOver(out, ToSet(H(r)), Symbols) /\ ToSet(H(r)) \subseteq Cols
      /\ Sparse(r, out) = Total(out, ToSet(H(r)), Symbols)
  BY SparseIs
<1>3. VectorsOver(out, Positions, Symbols)
  <2>1. IsFiniteSet(Positions)
    <3>1. Positions = 0..M+d-1
      BY <1>1 DEF Positions
    <3>2. 0 \in Int /\ M + d - 1 \in Int
      BY <1>1
    <3>3. QED
      BY <3>1, <3>2, FS_Interval
  <2>2. QED
    BY <2>1 DEF VectorsOver, Outputs
<1>4. \A j \in 1..d : DenseRow(r)[j] \in {0, 1}
  BY <1>1 DEF DenseRow
<1> DEFINE J == {j \in 0..d-1 : DenseRow(r)[j + 1] = 1}
           Q == {M + j : j \in J}
<1>5. Support(r) = ToSet(H(r)) \cup Q
  <2>1. {M + j - 1 : j \in {i \in 1..d : DenseRow(r)[i] = 1}} = Q
    <3>1. ASSUME NEW j \in {i \in 1..d : DenseRow(r)[i] = 1}
          PROVE  M + j - 1 \in Q
      <4>1. j - 1 \in 0..d-1 /\ (j - 1) + 1 = j /\ M + j - 1 = M + (j - 1)
        BY <1>1
      <4>2. j - 1 \in J
        BY <4>1
      <4>3. QED
        BY <4>1, <4>2
    <3>2. ASSUME NEW j \in J
          PROVE  M + j \in {M + i - 1 : i \in {i \in 1..d : DenseRow(r)[i] = 1}}
      <4>1. j + 1 \in 1..d /\ M + j = M + (j + 1) - 1 /\ DenseRow(r)[j + 1] = 1
        BY <1>1
      <4>2. QED
        BY <4>1
    <3>3. QED
      BY <3>1, <3>2
  <2>2. QED
    BY <1>1, <2>1 DEF Support
<1>6. Q \subseteq Positions /\ Q \cap Cols = {}
  BY <1>1
<1>7. /\ Support(r) \subseteq Positions
      /\ \A c \in Cols : c \in Support(r) <=> c \in ToSet(H(r))
  <2> HIDE DEF Q
  <2>1. Cols \subseteq Positions
    BY <1>1
  <2>2. QED
    BY <1>2, <1>5, <1>6, <2>1
<1>8. Dense(r, out, 0..D-1) = Total(out, Q, Symbols)
  <2> DEFINE f == [j \in 0..d-1 |-> Scale(out[M + j], DenseRow(r)[j + 1])]
             g == [j \in J |-> out[M + j]]
             q == [j \in J |-> M + j]
  <2>1. Dense(r, out, 0..D-1) = Total(f, 0..d-1, Symbols)
    BY <1>1 DEF Dense, Total, Zero, ZeroOn
  <2>2. ASSUME NEW j \in 0..d-1
        PROVE  /\ f[j] \in Vectors(Symbols)
               /\ f[j] = IF j \in J THEN out[M + j] ELSE ZeroOn(Symbols)
    <3>1. out[M + j] \in Vectors(Symbols)
      BY <1>1, <1>3 DEF VectorsOver
    <3>2. j + 1 \in 1..d
      OBVIOUS
    <3>3. DenseRow(r)[j + 1] = 0 \/ DenseRow(r)[j + 1] = 1
      BY <1>4, <3>2
    <3>4. Scale(out[M + j], 0) = ZeroOn(Symbols) /\ Scale(out[M + j], 1) = out[M + j]
      BY <3>1, ScaleLaws
    <3>5. ZeroOn(Symbols) \in Vectors(Symbols)
      BY AddRowLaws
    <3>6. QED
      BY <3>1, <3>3, <3>4, <3>5
  <2>3. Within(0..d-1, Symbols, f, J, g)
    <3>1. VectorsOver(f, 0..d-1, Symbols)
      <4> HIDE DEF f, J
      <4> QED BY <1>1, <2>2 DEF VectorsOver
    <3>2. J \in SUBSET (0..d-1) /\ (\A j \in J : g[j] = out[M + j])
      OBVIOUS
    <3>3. \A j \in J : g[j] = f[j]
      <4> HIDE DEF f, g, J
      <4> QED BY <2>2, <3>2
    <3>4. \A j \in (0..d-1) \ J : f[j] = ZeroOn(Symbols)
      <4> HIDE DEF f, J
      <4> QED BY <2>2
    <3> HIDE DEF f, g, J
    <3>5. QED
      BY <3>1, <3>2, <3>3, <3>4 DEF Within
  <2>4. Renamed(J, Q, Symbols, out, q, g)
    <3>1. IsFiniteSet(J) /\ IsFiniteSet(Q)
      <4>1. IsFiniteSet(J)
        BY <1>1, FS_Subset
      <4>2. IsFiniteSet(Positions) /\ Q \in SUBSET Positions
        BY <1>3, <1>6 DEF VectorsOver
      <4> HIDE DEF J, Q
      <4>3. QED
        BY <4>1, <4>2, FS_Subset
    <3>2. VectorsOver(out, Q, Symbols)
      <4> HIDE DEF Q
      <4> QED BY <1>3, <1>6, <3>1 DEF VectorsOver
    <3>3. Q = {q[j] : j \in J}
      OBVIOUS
    <3>4. \A i, j \in J : q[i] = q[j] => i = j
      BY <1>1
    <3>5. \A j \in J : g[j] = out[q[j]]
      OBVIOUS
    <3> HIDE DEF Q, q, g, J
    <3>6. QED
      BY <3>1, <3>2, <3>3, <3>4, <3>5 DEF Renamed
  <2> HIDE DEF f, g, q, J, Q
  <2>5. Total(f, 0..d-1, Symbols) = Total(g, J, Symbols)
    BY <2>3, TotalWithin
  <2>6. Total(g, J, Symbols) = Total(out, Q, Symbols)
    BY <2>4, TotalRenamed
  <2>7. QED
    BY <2>1, <2>5, <2>6
<1>9. Total(out, Support(r), Symbols) = AddRow(Total(out, ToSet(H(r)), Symbols), Total(out, Q, Symbols))
  <2> HIDE DEF Q
  <2>1. SymDiff(ToSet(H(r)), Q) = Support(r)
    BY <1>2, <1>5, <1>6 DEF SymDiff
  <2>2. ToSet(H(r)) \in SUBSET Positions /\ Q \in SUBSET Positions
    BY <1>2, <1>6, <1>1
  <2>3. QED
    BY <1>3, <2>1, <2>2, TotalDelta
<1>10. QED
  BY <1>2, <1>3, <1>7, <1>8, <1>9 DEF DecodeIn

\* The output is made of bits; positions in S are drawn at random.
BitsIn(out)     == \A p \in Positions, k \in Symbols : out[p][k] \in {0, 1}
DrawnOn(out, S) == \A p \in S : out[p] = Draw(p)

\* The two sides of OutputRandom, for any output.
FreeIn(out, S) == \A k \in Symbols \ Rows : Cardinality({p \in S : out[p][k] = 1}) % 2 = 0
SumOfRows(S) ==
  \E T \in SUBSET Rows :
    \A p \in Positions : p \in S <=> Cardinality({r \in T : p \in Support(r)}) % 2 = 1

\* If every row decodes to its value and what is no pivot is drawn at random,
\* then positions whose sum is free of randomness are those of some rows, added
\* up: adding rows to them clears the pivots, and then nothing is left, since
\* every other position has a symbol of its own.
LEMMA OnlySums ==
  ASSUME Solver_Types, Solver_Triangle, kind = "Binary", NEW out, out \in Outputs,
         BitsIn(out), DrawnOn(out, Positions \ Chosen),
         \A r \in Rows : DecodeIn(r, out) = Value(r),
         NEW S \in SUBSET Positions, FreeIn(out, S)
  PROVE  SumOfRows(S)
<1>1. input \in Inputs
  BY DEF Solver_Types
<1>2. PICK s : s = [r \in Rows |-> Support(r)]
  OBVIOUS
<1>3. /\ \A r \in Rows : s[r] = Support(r) /\ s[r] \subseteq Positions
      /\ \A r \in Rows, c \in Cols : c \in s[r] <=> c \in ToSet(H(r))
      /\ \A r \in Rows : Total(out, s[r], Symbols) = Values[r]
  <2>1. ASSUME NEW r \in Rows
        PROVE  /\ s[r] = Support(r) /\ s[r] \subseteq Positions
               /\ \A c \in Cols : c \in s[r] <=> c \in ToSet(H(r))
               /\ Total(out, s[r], Symbols) = Values[r]
    <3>1. /\ Support(r) \subseteq Positions
          /\ \A c \in Cols : c \in Support(r) <=> c \in ToSet(H(r))
          /\ DecodeIn(r, out) = Total(out, Support(r), Symbols)
      BY <1>1, SupportSum
    <3>2. s[r] = Support(r) /\ Values[r] = Value(r)
      BY <1>2 DEF Values
    <3>3. QED
      BY <3>1, <3>2
  <2>2. QED
    BY <2>1
<1>4. VectorsOver(out, Positions, Symbols) /\ VectorsOver(Values, Rows, Symbols) /\ IsFiniteSet(Rows)
  <2>1. IsFiniteSet(Positions)
    <3>1. PICK d \in Nat : d = D /\ M \in Nat
      BY <1>1, PositionsAre
    <3>2. Positions = 0..M+d-1 /\ 0 \in Int /\ M + d - 1 \in Int
      BY <3>1 DEF Positions
    <3>3. QED
      BY <3>2, FS_Interval
  <2>2. IsFiniteSet(Rows) /\ \A r \in Rows : Values[r] \in Vectors(Symbols)
    BY <1>1, PositionsAre, ValuesTyped DEF Values
  <2>3. QED
    BY <2>1, <2>2 DEF VectorsOver, Outputs
<1>5. PICK T \in SUBSET Rows : \A c \in Chosen : c \in S <=> c \in OddIn(Positions, s, T)
  <2>1. Cols \subseteq Positions
    BY <1>1, PositionsAre
  <2>2. QED
    BY <1>3, <2>1, PivotsReached
<1>6. PICK O : O = OddIn(Positions, s, T) /\ O \in SUBSET Positions
  BY DEF OddIn
<1>7. Total(out, O, Symbols) = Total(Values, T, Symbols)
  BY <1>3, <1>4, <1>6, OddTotal
<1>8. PICK R : R = SymDiff(S, O) /\ R \in SUBSET Positions /\ R \cap Chosen = {}
  <2>1. SymDiff(S, O) \in SUBSET Positions
    BY <1>6 DEF SymDiff
  <2>2. SymDiff(S, O) \cap Chosen = {}
    BY <1>5, <1>6 DEF SymDiff
  <2>3. QED
    BY <2>1, <2>2
<1>9. Total(out, R, Symbols) = AddRow(Total(out, S, Symbols), Total(Values, T, Symbols))
  BY <1>4, <1>6, <1>7, <1>8, TotalDelta
<1>10. \A U \in SUBSET Positions : VectorsOver(out, U, Symbols)
  BY <1>4, FS_Subset DEF VectorsOver
<1>11. VectorsOver(Values, T, Symbols)
  BY <1>4, FS_Subset DEF VectorsOver
<1>12. R = {}
  <2> SUFFICES ASSUME NEW p \in R PROVE FALSE
    OBVIOUS
  <2>1. PICK k : k = N + 1 + p /\ k \in Symbols \ Rows /\ p \in Nat
    <3>1. PICK d \in Nat : d = D /\ M \in Nat /\ N \in Nat
      BY <1>1, PositionsAre
    <3>2. p \in 0..M+d-1
      BY <1>8, <3>1 DEF Positions
    <3>3. N + 1 + p \in 1..N+M+d /\ N + 1 + p \notin 1..N
      BY <3>1, <3>2
    <3>4. Rows \subseteq 1..N
      <4>1. PICK n \in 0..N : Rows = 1..n
        BY <1>1, InputTypes
      <4>2. QED
        BY <3>1, <4>1
    <3>5. QED
      BY <3>1, <3>2, <3>3, <3>4 DEF Symbols
  <2>2. Total(out, R, Symbols)[k] = 1
    <3>1. \A q \in R : out[q] = Draw(q)
      BY <1>8 DEF DrawnOn
    <3>2. \A q \in R : out[q][k] = IF q = p THEN 1 ELSE 0
      <4> TAKE q \in R
      <4>1. Draw(q)[k] = IF k = N + 1 + q THEN 1 ELSE 0
        BY <2>1 DEF Draw, Symbol
      <4>2. k = N + 1 + q <=> q = p
        <5>1. q \in Nat
          <6>1. PICK d \in Nat : d = D /\ M \in Nat
            BY <1>1, PositionsAre
          <6>2. q \in 0..M+d-1
            BY <1>8, <6>1 DEF Positions
          <6>3. QED
            BY <6>2
        <5>2. N \in Nat
          BY SizeAssumption
        <5>3. QED
          BY <2>1, <5>1, <5>2
      <4>3. QED
        BY <3>1, <4>1, <4>2
    <3>3. {q \in R : out[q][k] = 1} = {p}
      BY <3>2
    <3>4. Total(out, R, Symbols)[k] = Cardinality({q \in R : out[q][k] = 1}) % 2
      <4>1. \A q \in R : out[q][k] \in {0, 1}
        BY <3>2
      <4>2. VectorsOver(out, R, Symbols) /\ k \in Symbols
        BY <1>8, <1>10, <2>1
      <4>3. QED
        BY <4>1, <4>2, TotalParity
    <3>5. Cardinality({p}) = 1
      BY FS_Singleton
    <3>6. 1 % 2 = 1
      OBVIOUS
    <3>7. QED
      BY <3>3, <3>4, <3>5, <3>6
  <2>3. Total(out, S, Symbols)[k] = 0
    <3>1. \A q \in S : out[q][k] \in {0, 1}
      BY <2>1 DEF BitsIn
    <3>2. Total(out, S, Symbols)[k] = Cardinality({q \in S : out[q][k] = 1}) % 2
      BY <1>10, <2>1, <3>1, TotalParity
    <3>3. QED
      BY <2>1, <3>2 DEF FreeIn
  <2>4. Total(Values, T, Symbols)[k] = 0
    <3>1. \A r \in T : Values[r][k] = 0
      <4> TAKE r \in T
      <4>1. k # r /\ Values[r] = Value(r)
        BY <2>1 DEF Values
      <4>2. QED
        BY <2>1, <4>1 DEF Value, Symbol
    <3>2. {r \in T : Values[r][k] = 1} = {}
      BY <3>1
    <3>3. Total(Values, T, Symbols)[k] = Cardinality({r \in T : Values[r][k] = 1}) % 2
      BY <1>11, <2>1, <3>1, TotalParity
    <3>4. Cardinality({}) % 2 = 0
      BY FS_EmptySet
    <3>5. QED
      BY <3>2, <3>3, <3>4
  <2>5. Total(out, R, Symbols)[k] = Xor(0, 0)
    <3>1. DOMAIN Total(out, S, Symbols) = Symbols
      <4>1. Total(out, S, Symbols) \in Vectors(Symbols)
        BY <1>10, TotalTake
      <4>2. QED
        BY <4>1 DEF Vectors
    <3>2. QED
      BY <1>9, <2>1, <2>3, <2>4, <3>1 DEF AddRow
  <2>6. Xor(0, 0) = 0
    BY DEF Xor
  <2>7. QED
    BY <2>2, <2>5, <2>6
<1>13. S = O
  BY <1>6, <1>8, <1>12 DEF SymDiff
<1>14. ASSUME NEW p \in Positions
       PROVE  p \in S <=> Cardinality({r \in T : p \in Support(r)}) % 2 = 1
  <2>1. {r \in T : p \in s[r]} = {r \in T : p \in Support(r)}
    BY <1>3
  <2>2. QED
    BY <1>6, <1>13, <2>1 DEF OddIn
<1>15. QED
  BY <1>14 DEF SumOfRows

-----------------------------------------------------------------------------
\* With the binary type, a prng and no gap row, the output is made of bits,
\* and what is no pivot is drawn at random.
Solver_Coins ==
  random /\ kind = "Binary" /\ gap = << >> =>
    /\ status \in {"gaps", "backfill", "encoded"} => BitsIn(output)
    /\ status = "gaps" => DrawnOn(output, Cols \ Chosen)
    /\ status \in {"backfill", "encoded"} => DrawnOn(output, Positions \ Chosen)

\* The values are bits.
LEMMA ValuesAreBits ==
  \A k \in Symbols :
    /\ \A r : Value(r)[k] \in {0, 1}
    /\ \A p : Draw(p)[k] \in {0, 1}
    /\ Zero[k] = 0
<1>1. \A i : \A k \in Symbols : Symbol(i)[k] \in {0, 1}
  BY DEF Symbol
<1>2. QED
  BY <1>1 DEF Value, Draw, Zero

\* The columns that no row uses are drawn.
LEMMA RandomizeCoins ==
  ASSUME Solver_OK, Solver_Output, Randomize
  PROVE  Solver_Coins'
<1>1. /\ status = "triangulate" /\ Heavy = {} /\ UNCHANGED <<input, tri, gap>>
      /\ output = [p \in Positions |-> Zero]
  BY DEF Randomize, Solver_Output
<1> SUFFICES ASSUME random', status' \in {"gaps", "backfill", "encoded"}
             PROVE  /\ BitsIn(output)'
                    /\ status' = "gaps" /\ DrawnOn(output, Cols \ Chosen)'
  BY DEF Solver_Coins
<1>2. random /\ Positions' = Positions /\ Symbols' = Symbols /\ Chosen' = Chosen
  BY <1>1 DEF random, Positions, Symbols, D, GLimit, kind, Chosen
<1>3. /\ status' = "gaps"
      /\ output' = [p \in Positions |-> IF random /\ p \in ToSet(weightSet[0]) THEN Draw(p) ELSE output[p]]
  BY DEF Randomize
<1>4. PICK new : new = output' /\ \A p \in Positions : new[p] = IF p \in ToSet(weightSet[0]) THEN Draw(p) ELSE Zero
  BY <1>1, <1>2, <1>3
<1>5. BitsIn(new)
  BY <1>4, ValuesAreBits DEF BitsIn
<1>6. DrawnOn(new, Cols \ Chosen)
  <2>1. rowSign = Rows /\ input \in Inputs
    BY <1>1, NoneHeavy DEF Solver_OK, Solver_Types
  <2>2. \A c \in Cols : Cardinality(ColRows(c) \ rowSign) = 0
    <3> TAKE c \in Cols
    <3>1. ColRows(c) \ rowSign = {}
      BY <2>1 DEF ColRows
    <3>2. QED
      BY <3>1, FS_EmptySet
  <2>3. 0 \in 0..N
    BY SizeAssumption
  <2>4. \A c \in Cols \ Chosen : c \in ToSet(weightSet[0])
    BY <2>2, <2>3, ListsAre DEF Solver_OK
  <2>5. Cols \subseteq Positions
    BY <2>1, PositionsAre
  <2>6. QED
    BY <1>4, <2>4, <2>5 DEF DrawnOn
<1>7. BitsIn(output)' <=> BitsIn(new)
  BY <1>2, <1>4 DEF BitsIn
<1>8. DrawnOn(output, Cols \ Chosen)' <=> DrawnOn(new, Cols \ Chosen)
  BY <1>2, <1>4 DEF DrawnOn, Draw, Symbol
<1>9. QED
  BY <1>3, <1>5, <1>6, <1>7, <1>8

\* And then the dense positions.
LEMMA NoGapsCoins ==
  ASSUME Solver_OK, Solver_Coins, NoGaps
  PROVE  Solver_Coins'
<1>1. /\ status = "gaps" /\ gap = << >> /\ status' = "backfill" /\ UNCHANGED <<input, tri, gap>>
  BY DEF NoGaps
<1> SUFFICES ASSUME random', kind' = "Binary"
             PROVE  BitsIn(output)' /\ DrawnOn(output, Positions \ Chosen)'
  BY <1>1 DEF Solver_Coins
<1>2. random /\ kind = "Binary" /\ Positions' = Positions /\ Symbols' = Symbols /\ Chosen' = Chosen
  BY <1>1 DEF random, Positions, Symbols, D, GLimit, kind, Chosen
<1>3. BitsIn(output) /\ DrawnOn(output, Cols \ Chosen)
  BY <1>1, <1>2 DEF Solver_Coins
<1>4. input \in Inputs /\ \A t \in ToSet(tri) : t.col \in Cols
  <2>1. tri \in Seq(TriRows) /\ input \in Inputs
    BY DEF Solver_OK, Solver_Types
  <2>2. \A i \in DOMAIN tri : tri[i].col \in Cols
    <3>1. \A i \in DOMAIN tri : tri[i] \in TriRows
      BY <2>1
    <3>2. QED
      BY <3>1 DEF TriRows
  <2>3. QED
    BY <2>1, <2>2 DEF ToSet
<1>5. PICK d \in Nat : d = D /\ M \in Nat
        /\ Positions = Cols \cup {M + j : j \in 0..d-1}
        /\ \A j \in 0..d-1 : M + j \in Positions /\ M + j \notin Cols
  BY <1>4, PositionsAre
<1>6. PICK new : new = output'
        /\ new = [p \in Positions |-> IF p - M \in 0..d-1 THEN Draw(M + (p - M)) ELSE output[p]]
  <2> DEFINE vals == [j \in 0..D-1 |-> Draw(M + j)]
  <2>1. output' = [p \in Positions |-> IF p - M \in DOMAIN vals THEN vals[p - M] ELSE output[p]]
    BY <1>2 DEF NoGaps, SetDense
  <2>2. QED
    BY <1>5, <2>1
<1>7. \A p \in Positions : p \in Int /\ M + (p - M) = p /\ (p - M \in 0..d-1 <=> p \notin Cols)
  <2>1. \A p \in Cols : p \in Int /\ ~(p - M \in 0..d-1)
    BY <1>5 DEF Cols
  <2>2. \A j \in 0..d-1 : M + j \in Int /\ (M + j) - M = j
    BY <1>5
  <2>3. QED
    BY <1>5, <2>1, <2>2
<1>8. \A p \in Positions : new[p] = IF p \notin Cols THEN Draw(p) ELSE output[p]
  BY <1>6, <1>7
<1>9. BitsIn(new)
  BY <1>3, <1>8, ValuesAreBits DEF BitsIn
<1>10. DrawnOn(new, Positions \ Chosen)
  BY <1>3, <1>8 DEF DrawnOn
<1>11. BitsIn(output)' <=> BitsIn(new)
  BY <1>2, <1>6 DEF BitsIn
<1>12. DrawnOn(output, Positions \ Chosen)' <=> DrawnOn(new, Positions \ Chosen)
  BY <1>2, <1>6 DEF DrawnOn, Draw, Symbol
<1>13. QED
  BY <1>9, <1>10, <1>11, <1>12

\* Backfill writes pivots only, and sums of bits.
LEMMA BackfillCoins ==
  ASSUME Solver_OK, Solver_Output, Solver_Coins, Backfill
  PROVE  Solver_Coins'
<1>1. /\ status = "backfill" /\ todo > 0 /\ status' = status /\ UNCHANGED <<input, tri, gap>>
      /\ Backfilled(output, DenseUsed, todo)
  BY DEF Backfill, Solver_Output
<1> SUFFICES ASSUME random', kind' = "Binary", gap' = << >>
             PROVE  BitsIn(output)' /\ DrawnOn(output, Positions \ Chosen)'
  BY <1>1 DEF Solver_Coins
<1>2. random /\ kind = "Binary" /\ Positions' = Positions /\ Symbols' = Symbols /\ Chosen' = Chosen
  BY <1>1 DEF random, Positions, Symbols, D, GLimit, kind, Chosen
<1>3. BitsIn(output) /\ DrawnOn(output, Positions \ Chosen) /\ output \in Outputs
  BY <1>1, <1>2 DEF Solver_Coins, Backfilled
<1>4. input \in Inputs /\ todo \in DOMAIN tri /\ tri[todo] \in TriRows
  <2>1. input \in Inputs /\ tri \in Seq(TriRows) /\ todo \in 0..Len(tri) /\ DOMAIN tri = 1..Len(tri) /\ Len(tri) \in Nat
    BY DEF Solver_OK, Solver_Types
  <2>2. QED
    BY <1>1, <2>1
<1>5. PICK r, c : r = tri[todo].row /\ c = tri[todo].col /\ r \in Rows /\ c \in Chosen
  BY <1>4 DEF TriRows, Chosen, ToSet
<1>6. DenseUsed = 0..D-1
  BY <1>2 DEF DenseUsed
<1>7. PICK new : new = output' /\ new = [output EXCEPT ![c] = AddRow(Value(r), DecodeIn(r, output))]
  BY <1>5, <1>6 DEF Backfill, DecodeIn
<1>8. \A k \in Symbols : AddRow(Value(r), DecodeIn(r, output))[k] \in {0, 1}
  <2> TAKE k \in Symbols
  <2>1. /\ Support(r) \subseteq Positions /\ VectorsOver(output, Positions, Symbols)
        /\ DecodeIn(r, output) = Total(output, Support(r), Symbols)
    BY <1>2, <1>3, <1>4, <1>5, SupportSum
  <2>2. VectorsOver(output, Support(r), Symbols) /\ \A p \in Support(r) : output[p][k] \in {0, 1}
    BY <1>3, <2>1, FS_Subset DEF VectorsOver, BitsIn
  <2>3. DecodeIn(r, output)[k] = Cardinality({p \in Support(r) : output[p][k] = 1}) % 2
    BY <2>1, <2>2, TotalParity
  <2>4. DecodeIn(r, output)[k] \in {0, 1}
    <3>1. IsFiniteSet({p \in Support(r) : output[p][k] = 1})
      BY <2>2, FS_Subset DEF VectorsOver
    <3>2. PICK n \in Nat : n = Cardinality({p \in Support(r) : output[p][k] = 1})
      BY <3>1, FS_CardinalityType
    <3>3. QED
      BY <2>3, <3>2
  <2>5. Value(r)[k] \in {0, 1} /\ DOMAIN Value(r) = Symbols
    BY ValuesAreBits DEF Value, Symbol
  <2>6. AddRow(Value(r), DecodeIn(r, output))[k] = Xor(Value(r)[k], DecodeIn(r, output)[k])
    BY <2>5 DEF AddRow
  <2>7. \A a, b \in {0, 1} : Xor(a, b) \in {0, 1}
    BY DEF Xor
  <2>8. QED
    BY <2>4, <2>5, <2>6, <2>7
<1>9. /\ \A p \in Positions : p # c => new[p] = output[p]
      /\ c \in Positions => new[c] = AddRow(Value(r), DecodeIn(r, output))
  BY <1>3, <1>7 DEF Outputs
<1>10. BitsIn(new)
  BY <1>3, <1>8, <1>9 DEF BitsIn
<1>11. DrawnOn(new, Positions \ Chosen)
  BY <1>3, <1>5, <1>9 DEF DrawnOn
<1>12. BitsIn(output)' <=> BitsIn(new)
  BY <1>2, <1>7 DEF BitsIn
<1>13. DrawnOn(output, Positions \ Chosen)' <=> DrawnOn(new, Positions \ Chosen)
  BY <1>2, <1>7 DEF DrawnOn, Draw, Symbol
<1>14. QED
  BY <1>10, <1>11, <1>12, <1>13

\* Nothing the invariant speaks of changes.
LEMMA SameCoins ==
  ASSUME Solver_Coins, UNCHANGED <<input, tri, gap, output>>,
         \/ status' = status \/ status' = "undefined"
         \/ status = "backfill" /\ status' = "encoded"
  PROVE  Solver_Coins'
<1>1. input' = input /\ tri' = tri /\ gap' = gap /\ output' = output
  OBVIOUS
<1>2. /\ random' = random /\ kind' = kind /\ Positions' = Positions /\ Symbols' = Symbols
      /\ Chosen' = Chosen
  BY <1>1 DEF random, Positions, Symbols, D, GLimit, kind, Chosen
<1>3. BitsIn(output)' <=> BitsIn(output)
  BY <1>1, <1>2 DEF BitsIn
<1>4. /\ DrawnOn(output, Cols \ Chosen)' <=> DrawnOn(output, Cols \ Chosen)
      /\ DrawnOn(output, Positions \ Chosen)' <=> DrawnOn(output, Positions \ Chosen)
  BY <1>1, <1>2 DEF DrawnOn, Draw, Symbol
<1>5. QED
  BY <1>1, <1>2, <1>3, <1>4 DEF Solver_Coins

\* Every step keeps what is drawn.
LEMMA CoinsStep == Solver_OK /\ Solver_Output /\ Solver_Coins /\ [Next]_vars => Solver_Coins'
<1> SUFFICES ASSUME Solver_OK, Solver_Output, Solver_Coins, [Next]_vars PROVE Solver_Coins'
  OBVIOUS
<1>1. CASE Triangulate
  BY <1>1 DEF Triangulate, Solver_Coins
<1>2. CASE Randomize
  BY <1>2, RandomizeCoins
<1>3. CASE NoGaps
  BY <1>3, NoGapsCoins
<1>4. CASE TooManyGaps
  BY <1>4 DEF TooManyGaps, Solver_Coins
<1>5. CASE GapsGf128 \/ GapsBinary
  <2>1. gap' = gap /\ Len(gap) \in 1..GLimit
    BY <1>5 DEF GapsGf128, GapsBinary
  <2>2. gap # << >>
    <3>1. Len(<< >>) = 0
      OBVIOUS
    <3>2. QED
      BY <2>1, <3>1
  <2>3. QED
    BY <2>1, <2>2 DEF Solver_Coins
<1>6. CASE Backfill
  BY <1>6, BackfillCoins
<1>7. CASE Return
  BY <1>7, SameCoins DEF Return
<1>8. CASE Finished \/ UNCHANGED vars
  BY <1>8, SameCoins DEF Finished, vars
<1>9. CASE Overrun
  BY <1>9, SameCoins DEF Overrun
<1>10. QED
  BY <1>1, <1>2, <1>3, <1>4, <1>5, <1>6, <1>7, <1>8, <1>9 DEF Next

\* With a prng, no gap row and the binary type, positions of the output whose
\* sum is free of randomness are sums of the keys' rows: what is not drawn is
\* determined by the values (paxos.cpp 1355-1372, 1398-1411).
THEOREM OutputIsRandom == Spec => []OutputRandom
<1>1. Init => Solver_OK /\ Solver_Output /\ Solver_Coins
  <2>1. Init => Solver_OK
    BY SolverInit
  <2>2. Init => Solver_Output
    BY DEF Init, Solver_Output
  <2>3. Init => Solver_Coins
    BY DEF Init, Solver_Coins
  <2>4. QED
    BY <2>1, <2>2, <2>3
<1>2. Solver_OK /\ Solver_Output /\ Solver_Coins /\ [Next]_vars => (Solver_OK /\ Solver_Output /\ Solver_Coins)'
  <2>1. Solver_OK /\ [Next]_vars => Solver_OK'
    BY SolverStep
  <2>2. QED
    BY <2>1, OutputStep, CoinsStep
<1>3. Solver_OK /\ Solver_Output /\ Solver_Coins => OutputRandom
  <2> SUFFICES ASSUME Solver_OK, Solver_Output, Solver_Coins, status = "encoded", random, gap = << >>, kind = "Binary",
                      NEW S \in SUBSET Positions, CoinFree(S)
               PROVE  SumOfRows(S)
    BY DEF OutputRandom, SumOfRows
  <2>1. PICK out, used : out = output /\ Backfilled(out, used, 0)
    BY DEF Solver_Output
  <2>2. rowSign = Rows /\ Solver_Types /\ Solver_Triangle
    BY NoneHeavy DEF Solver_OK, Solver_Stages
  <2>3. RowsOf(tri) \cup RowsOf(gap) = Rows
    BY <2>2 DEF Solver_OK, Solver_Counts
  <2>4. \A r \in Rows : DecodeIn(r, out) = Value(r)
    BY <2>1, <2>2, <2>3, BackfilledDecodes
  <2>5. BitsIn(out) /\ DrawnOn(out, Positions \ Chosen) /\ out \in Outputs
    BY <2>1 DEF Solver_Coins, Backfilled
  <2>6. FreeIn(out, S)
    BY <2>1 DEF CoinFree, FreeIn
  <2>7. QED
    BY <2>2, <2>4, <2>5, <2>6, OnlySums
<1>4. QED
  BY <1>1, <1>2, <1>3, PTL DEF Spec
-----------------------------------------------------------------------------
(***************************************************************************)
(* check_invert and check_invert_gf128 as calls of their own: what is      *)
(* written back is the inverse, and over bits a refusal is justified.      *)
(***************************************************************************)
OneOn(I) == [k \in I |-> 1]

\* The rows of s.inv make those of s.mat out of those of the matrix given.
Built(n, given, s) == \A j \in 1..n : Combine(s.inv[j], given, 1..n, 1..n) = s.mat[j]

\* All entries are bits.
Binary(n, m) == \A j, c \in 1..n : m[j][c] \in {0, 1}

\* The columns of m, taken x times, add up to zero.
Kernel(n, m, x) ==
  VectorsOver(x, 1..n, {0}) /\ \A j \in 1..n : Combine(m[j], x, 1..n, {0}) = ZeroOn({0})
Singular(n, m) == \E x : Kernel(n, m, x) /\ \E i \in 1..n : x[i] = OneOn({0})

\* The rows of a matrix are vectors.
LEMMA RowsOver ==
  ASSUME NEW n \in Nat, NEW m \in Matrices(n)
  PROVE  VectorsOver(m, 1..n, 1..n) /\ \A j \in 1..n : m[j] \in Vectors(1..n)
BY FS_Interval DEF VectorsOver, Matrices

\* A round does to the rows of the inverse what it does to those of the matrix.
LEMMA ClearedBuilt ==
  ASSUME NEW n \in Nat, NEW m \in Matrices(n), NEW w \in Matrices(n), NEW i \in 1..n, NEW t,
         Cleared(n, i, m, w, t), NEW given \in Matrices(n),
         \A j \in 1..n : Combine(w[j], given, 1..n, 1..n) = m[j]
  PROVE  Built(n, given, t)
<1>1. \A j \in 1..n : /\ m[j] \in Vectors(1..n) /\ w[j] \in Vectors(1..n)
                      /\ t.mat[j] \in Vectors(1..n) /\ t.inv[j] \in Vectors(1..n)
  BY DEF Cleared, Elims, Matrices
<1>2. VectorsOver(given, 1..n, 1..n)
  BY RowsOver
<1>3. PICK P : P = [u \in Vectors(1..n) |-> Combine(u, given, 1..n, 1..n)]
  OBVIOUS
<1>4. \A u, v \in Vectors(1..n) : P[AddRow(u, v)] = AddRow(P[u], P[v])
  <2> TAKE u, v \in Vectors(1..n)
  <2>1. AddRow(u, v) \in Vectors(1..n)
    BY AddRowLaws
  <2>2. Combine(AddRow(u, v), given, 1..n, 1..n)
          = AddRow(Combine(u, given, 1..n, 1..n), Combine(v, given, 1..n, 1..n))
    BY <1>2, CombinePlus
  <2>3. QED
    BY <1>3, <2>1, <2>2
<1>5. \A u \in Vectors(1..n), a \in Field : P[Scale(u, a)] = Scale(P[u], a)
  <2> TAKE u \in Vectors(1..n), a \in Field
  <2>1. Scale(u, a) \in Vectors(1..n)
    BY ScaleLaws
  <2>2. Combine(Scale(u, a), given, 1..n, 1..n) = Scale(Combine(u, given, 1..n, 1..n), a)
    BY <1>2, CombineScale
  <2>3. QED
    BY <1>3, <2>1, <2>2
<1>6. \A j \in 1..n : P[w[j]] = m[j]
  BY <1>1, <1>3
<1>7. P[t.inv[i]] = t.mat[i]
  <2>1. PICK a \in Field \ {0} : m[i] = Scale(t.mat[i], a) /\ w[i] = Scale(t.inv[i], a)
    BY DEF Cleared
  <2>2. PICK b \in Field : b = Inv(a) /\ Mul(a, b) = 1
    BY MulLaws
  <2>3. \A u \in Vectors(1..n) : Scale(Scale(u, a), b) = u
    BY <2>2, ScaleLaws
  <2>4. t.inv[i] = Scale(w[i], b) /\ t.mat[i] = Scale(m[i], b)
    BY <1>1, <2>1, <2>3
  <2>5. QED
    BY <1>1, <1>5, <1>6, <2>4
<1>8. ASSUME NEW j \in 1..n, j # i
      PROVE  P[t.inv[j]] = t.mat[j]
  <2>1. PICK a \in Field :
          t.mat[j] = AddRow(m[j], Scale(t.mat[i], a)) /\ t.inv[j] = AddRow(w[j], Scale(t.inv[i], a))
    BY <1>8 DEF Cleared
  <2>2. Scale(t.inv[i], a) \in Vectors(1..n)
    BY <1>1, ScaleLaws
  <2>3. P[t.inv[j]] = AddRow(P[w[j]], P[Scale(t.inv[i], a)])
    BY <1>1, <1>4, <2>1, <2>2
  <2>4. P[Scale(t.inv[i], a)] = Scale(t.mat[i], a)
    BY <1>1, <1>5, <1>7
  <2>5. QED
    BY <1>6, <2>1, <2>3, <2>4
<1>9. QED
  BY <1>1, <1>3, <1>7, <1>8 DEF Built

\* A round on bits leaves bits.
LEMMA ClearedBinary ==
  ASSUME NEW n \in Nat, NEW m \in Matrices(n), NEW w \in Matrices(n), NEW i \in 1..n, NEW t,
         Cleared(n, i, m, w, t), Binary(n, m)
  PROVE  Binary(n, t.mat)
<1>1. \A j \in 1..n : m[j] \in Vectors(1..n) /\ t.mat[j] \in Vectors(1..n)
  BY DEF Cleared, Elims, Matrices
<1>2. \A a, b \in {0, 1} : Xor(a, b) \in {0, 1} /\ Mul(a, b) \in {0, 1}
  BY DEF Xor, Mul
<1>3. t.mat[i] = m[i]
  <2>1. PICK a \in Field \ {0} : m[i] = Scale(t.mat[i], a) /\ a = m[i][i]
    BY DEF Cleared
  <2>2. a = 1
    BY <2>1 DEF Binary
  <2>3. QED
    BY <1>1, <2>1, <2>2, ScaleLaws
<1>4. ASSUME NEW j \in 1..n, NEW c \in 1..n
      PROVE  t.mat[j][c] \in {0, 1}
  <2>1. CASE j = i
    BY <1>3, <2>1 DEF Binary
  <2>2. CASE j # i
    <3>1. PICK a \in Field : t.mat[j] = AddRow(m[j], Scale(t.mat[i], a)) /\ a = m[j][i]
      BY <2>2 DEF Cleared
    <3>2. t.mat[j][c] = Xor(m[j][c], Mul(m[i][c], a))
      BY <1>1, <1>3, <3>1 DEF AddRow, Scale, Vectors
    <3>3. a \in {0, 1} /\ m[j][c] \in {0, 1} /\ m[i][c] \in {0, 1}
      BY <3>1 DEF Binary
    <3>4. QED
      BY <1>2, <3>2, <3>3
  <2>3. QED
    BY <2>1, <2>2
<1>5. QED
  BY <1>4 DEF Binary

\* Both for a whole round, with the swap that comes first.
LEMMA EliminatedBuilt ==
  ASSUME NEW n \in Nat, NEW s \in Elims(n), NEW i \in 1..n, NEW t, EliminatedTo(n, i, s, t), t.ok,
         NEW given \in Matrices(n), Built(n, given, s)
  PROVE  Built(n, given, t) /\ (Binary(n, s.mat) => Binary(n, t.mat))
<1>1. PICK p \in i..n : Cleared(n, i, Swap(s.mat, i, p), Swap(s.inv, i, p), t)
  BY DEF EliminatedTo
<1>2. p \in 1..n
  OBVIOUS
<1>3. PICK m \in Matrices(n) : m = s.mat
  BY DEF Elims
<1>4. PICK w \in Matrices(n) : w = s.inv
  BY DEF Elims
<1>5. PICK u \in Matrices(n) : /\ u = Swap(m, i, p) /\ u[i] = m[p] /\ u[p] = m[i]
                               /\ \A j \in 1..n : j # i /\ j # p => u[j] = m[j]
  BY <1>2, SwapRows
<1>6. PICK v \in Matrices(n) : /\ v = Swap(w, i, p) /\ v[i] = w[p] /\ v[p] = w[i]
                               /\ \A j \in 1..n : j # i /\ j # p => v[j] = w[j]
  BY <1>2, SwapRows
<1>7. Cleared(n, i, u, v, t)
  BY <1>1, <1>3, <1>4, <1>5, <1>6
<1>8. \A j \in 1..n : \E k \in 1..n : u[j] = m[k] /\ v[j] = w[k]
  BY <1>2, <1>5, <1>6
<1>9. \A j \in 1..n : Combine(v[j], given, 1..n, 1..n) = u[j]
  <2>1. \A k \in 1..n : Combine(w[k], given, 1..n, 1..n) = m[k]
    BY <1>3, <1>4 DEF Built
  <2>2. QED
    BY <1>8, <2>1
<1>10. Binary(n, m) => Binary(n, u)
  BY <1>8 DEF Binary
<1>11. Built(n, given, t)
  BY <1>7, <1>9, ClearedBuilt
<1>12. Binary(n, u) => Binary(n, t.mat)
  BY <1>7, ClearedBinary
<1>13. QED
  BY <1>3, <1>10, <1>11, <1>12

\* A column without a pivot: over bits, row i and those below have zero there.
LEMMA NoPivot ==
  ASSUME NEW n \in Nat, NEW s \in Elims(n), NEW i \in 1..n, s.ok, Binary(n, s.mat), ~Eliminate(s, i).ok
  PROVE  \A j \in i..n : s.mat[j][i] = 0
<1>1. PICK m \in Matrices(n) : m = s.mat
  BY DEF Elims
<1>2. PICK w : w = s.inv
  OBVIOUS
<1>3. PICK p \in i..n : p = PivotRow(m, i)
  BY PivotRowIs
<1>4. p \in 1..n /\ i \in i..n /\ DOMAIN m = 1..n
  BY DEF Matrices
<1>5. Swap(m, i, p)[i] = m[p]
  BY <1>4, SwapRows
<1>6. m[p][i] = 0
  <2>1. Eliminate(s, i) = IF Swap(m, i, p)[i][i] = 0 THEN [s EXCEPT !.ok = FALSE]
                          ELSE ClearColumn(i, Swap(m, i, p), Swap(w, i, p))
    BY <1>1, <1>2, <1>3 DEF Eliminate
  <2>2. ClearColumn(i, Swap(m, i, p), Swap(w, i, p)).ok
    BY DEF ClearColumn
  <2>3. QED
    BY <1>5, <2>1, <2>2
<1> DEFINE below == {j \in DOMAIN m : j > i /\ m[j][i] = 1}
<1>7. below # {} => Min(below) \in below
  <2>1. below \in SUBSET (0..n)
    BY <1>4
  <2> HIDE DEF below
  <2>2. QED
    BY <2>1, MinPicks
<1>8. p = IF m[i][i] # 0 \/ below = {} THEN i ELSE Min(below)
  BY <1>3 DEF PivotRow
<1>9. \A j \in below : m[j][i] = 1
  OBVIOUS
<1>10. below = {} /\ m[i][i] = 0
  <2> HIDE DEF below
  <2>1. QED
    BY <1>6, <1>7, <1>8, <1>9
<1>11. ASSUME NEW j \in i..n
       PROVE  m[j][i] = 0
  <2>1. j \in 1..n /\ (j = i \/ j > i)
    OBVIOUS
  <2>2. m[j][i] \in {0, 1}
    BY <1>1, <2>1 DEF Binary
  <2>3. QED
    BY <1>4, <1>10, <2>1, <2>2
<1>12. QED
  BY <1>1, <1>11

\* No row of zeros makes anything but zero.
LEMMA CombineZeros ==
  ASSUME NEW J, NEW I, IsFiniteSet(J), NEW x, \A j \in J : x[j] = ZeroOn(I), NEW u \in Vectors(J)
  PROVE  Combine(u, x, J, I) = ZeroOn(I)
<1> DEFINE f == [j \in J |-> Scale(x[j], u[j])]
<1>1. ZeroOn(I) \in Vectors(I)
  BY AddRowLaws
<1>2. VectorsOver(x, J, I)
  BY <1>1 DEF VectorsOver
<1>3. VectorsOver(f, J, I)
  BY <1>2, CombineTyped
<1>4. \A j \in J : f[j] = ZeroOn(I)
  BY ScaleLaws DEF Vectors
<1>5. Combine(u, x, J, I) = Total(f, J, I)
  BY DEF Combine
<1> HIDE DEF f
<1>6. Within(J, I, f, {}, f)
  BY <1>3, <1>4 DEF Within
<1>7. Total(f, J, I) = Total(f, {}, I)
  BY <1>6, TotalWithin
<1>8. QED
  BY <1>5, <1>7, TotalEmpty

\* What a round leaves of the kernel was there before it.
LEMMA KernelKept ==
  ASSUME NEW n \in Nat, NEW s \in Elims(n), NEW i \in 1..n, NEW t, EliminatedTo(n, i, s, t), t.ok,
         NEW x, Kernel(n, t.mat, x)
  PROVE  Kernel(n, s.mat, x)
<1>1. PICK b : b = [j \in 1..n |-> ZeroOn({0})]
  OBVIOUS
<1>2. IsFiniteSet(1..n) /\ \A j \in 1..n : b[j] = ZeroOn({0})
  BY <1>1, FS_Interval
<1>3. VectorsOver(b, 1..n, {0})
  BY <1>2, AddRowLaws DEF VectorsOver
<1>4. /\ \A j \in 1..n : t.inv[j] \in Vectors(1..n)
      /\ \A j \in 1..n : s.inv[j] \in Vectors(1..n)
  BY DEF EliminatedTo, Cleared, Elims, Matrices
<1>5. \A u \in Vectors(1..n) : Combine(u, b, 1..n, {0}) = ZeroOn({0})
  BY <1>2, CombineZeros
<1>6. Solves(n, {0}, t.mat, t.inv, x, b)
  BY <1>4, <1>5 DEF Solves, Kernel
<1>7. VectorsOver(x, 1..n, {0})
  BY DEF Kernel
<1>8. Solves(n, {0}, s.mat, s.inv, x, b)
  BY <1>3, <1>6, <1>7, EliminatedSolves
<1>9. QED
  BY <1>4, <1>5, <1>7, <1>8 DEF Solves, Kernel

\* Where a column has no pivot, it is the sum of columns before it.
LEMMA NoPivotSingular ==
  ASSUME NEW n \in Nat, NEW m \in Matrices(n), NEW i \in 1..n,
         ColumnsDone(n, i - 1, m), \A j \in i..n : m[j][i] = 0
  PROVE  Singular(n, m)
<1> DEFINE one == OneOn({0})
           zero == ZeroOn({0})
           x == [c \in 1..n |-> IF c = i THEN one ELSE IF c < i THEN Scale(one, m[c][i]) ELSE zero]
<1>1. one \in Vectors({0}) /\ zero \in Vectors({0})
  BY AddRowLaws DEF OneOn, Vectors, Field
<1>2. \A j, c \in 1..n : m[j][c] \in Field
  BY DEF Matrices, Vectors
<1> HIDE DEF one, zero
<1>3. \A c \in 1..n : x[c] \in Vectors({0})
  BY <1>1, <1>2, ScaleLaws
<1>4. VectorsOver(x, 1..n, {0}) /\ x[i] = one
  <2>1. x[i] = one
    OBVIOUS
  <2>2. IsFiniteSet(1..n)
    BY FS_Interval
  <2> HIDE DEF x
  <2>3. QED
    BY <1>3, <2>1, <2>2 DEF VectorsOver
<1>5. \A c \in 1..n : /\ c = i => x[c] = one
                      /\ c < i => x[c] = Scale(one, m[c][i])
                      /\ c > i => x[c] = zero
  OBVIOUS
<1> HIDE DEF x
<1>6. ASSUME NEW j \in 1..n
      PROVE  Combine(m[j], x, 1..n, {0}) = zero
  <2> DEFINE f == [c \in 1..n |-> Scale(x[c], m[j][c])]
  <2>1. m[j] \in Vectors(1..n)
    BY DEF Matrices
  <2>2. VectorsOver(f, 1..n, {0})
    BY <1>4, <2>1, CombineTyped
  <2>3. Combine(m[j], x, 1..n, {0}) = Total(f, 1..n, {0})
    BY DEF Combine
  <2>4. /\ \A u \in Vectors({0}) : Scale(u, 0) = zero /\ Scale(u, 1) = u
        /\ \A a \in Field : Scale(zero, a) = zero
    BY ScaleLaws DEF zero
  <2>5. \A c \in 1..n : c # i /\ c # j => f[c] = zero
    <3> TAKE c \in 1..n
    <3>1. CASE c < i /\ c # j
      <4>1. c \in 1..i - 1
        BY <3>1
      <4>2. m[j][c] = 0
        BY <3>1, <4>1 DEF ColumnsDone
      <4>3. QED
        BY <1>3, <2>4, <4>2
    <3>2. CASE c > i
      BY <1>2, <1>5, <2>4, <3>2
    <3>3. QED
      BY <3>1, <3>2
  <2>6. CASE j >= i
    <3>1. m[j][i] = 0
      BY <2>6
    <3>2. f[i] = zero
      BY <1>4, <1>1, <2>4, <3>1
    <3>3. f[j] = zero
      <4>1. CASE j = i
        BY <3>2, <4>1
      <4>2. CASE j > i
        BY <1>2, <1>5, <2>4, <4>2
      <4>3. QED
        BY <2>6, <4>1, <4>2
    <3>4. \A c \in 1..n : f[c] = ZeroOn({0})
      BY <2>5, <3>2, <3>3 DEF zero
    <3> HIDE DEF f
    <3>5. Within(1..n, {0}, f, {}, f)
      BY <2>2, <3>4 DEF Within
    <3>6. Total(f, 1..n, {0}) = Total(f, {}, {0})
      BY <3>5, TotalWithin
    <3>7. QED
      BY <2>3, <3>6, TotalEmpty DEF zero
  <2>7. CASE j < i
    <3>1. j \in 1..i - 1
      BY <2>7
    <3>2. m[j][j] = 1
      BY <3>1 DEF ColumnsDone
    <3>3. f[j] = x[j] /\ f[i] = f[j]
      <4>1. f[j] = x[j]
        BY <1>3, <2>4, <3>2
      <4>2. f[i] = Scale(one, m[j][i]) /\ x[j] = Scale(one, m[j][i])
        BY <1>5, <2>7
      <4>3. QED
        BY <4>1, <4>2
    <3>4. f[j] \in Vectors({0}) /\ {i, j} \in SUBSET (1..n) /\ i \notin {j}
      BY <1>3, <2>7, <3>3
    <3>5. \A c \in (1..n) \ {i, j} : f[c] = ZeroOn({0})
      BY <2>5 DEF zero
    <3> HIDE DEF f
    <3>6. Within(1..n, {0}, f, {i, j}, f)
      BY <2>2, <3>4, <3>5 DEF Within
    <3>7. Total(f, 1..n, {0}) = Total(f, {i, j}, {0}) /\ VectorsOver(f, {i, j}, {0})
      BY <3>6, TotalWithin
    <3>8. Total(f, {i, j}, {0}) = AddRow(f[i], Total(f, {i, j} \ {i}, {0})) /\ {i, j} \ {i} = {j}
      BY <3>4, <3>7, TotalTake
    <3>9. Total(f, {j}, {0}) = f[j]
      <4>1. VectorsOver(f, {j}, {0}) /\ j \in {j} /\ \A y \in {j} \ {j} : f[y] = ZeroOn({0})
        BY <3>4, FS_Singleton DEF VectorsOver
      <4>2. QED
        BY <4>1, TotalOne
    <3>10. AddRow(f[j], f[j]) = zero
      BY <3>4, AddRowLaws DEF zero
    <3>11. QED
      BY <2>3, <3>3, <3>7, <3>8, <3>9, <3>10
  <2>8. QED
    BY <2>6, <2>7
<1>7. Kernel(n, m, x)
  BY <1>4, <1>6 DEF Kernel, zero
<1>8. QED
  BY <1>4, <1>7 DEF Singular, one

\* What rows make of m is made zero by the kernel of m.
LEMMA KernelOfRows ==
  ASSUME NEW n \in Nat, NEW m \in Matrices(n), NEW x, Kernel(n, m, x), NEW u \in Vectors(1..n)
  PROVE  /\ Combine(u, m, 1..n, 1..n) \in Vectors(1..n)
         /\ Combine(Combine(u, m, 1..n, 1..n), x, 1..n, {0}) = ZeroOn({0})
<1> DEFINE f == [j \in 1..n |-> Scale(m[j], u[j])]
           L == [v \in Vectors(1..n) |-> Combine(v, x, 1..n, {0})]
           g == [j \in 1..n |-> L[f[j]]]
<1>1. VectorsOver(m, 1..n, 1..n) /\ \A j \in 1..n : m[j] \in Vectors(1..n)
  BY RowsOver
<1>2. VectorsOver(f, 1..n, 1..n) /\ Combine(u, m, 1..n, 1..n) \in Vectors(1..n)
  BY <1>1, CombineTyped
<1>3. Combine(u, m, 1..n, 1..n) = Total(f, 1..n, 1..n)
  BY DEF Combine
<1>4. VectorsOver(x, 1..n, {0}) /\ \A j \in 1..n : L[m[j]] = ZeroOn({0})
  BY <1>1 DEF Kernel
<1>5. \A v \in Vectors(1..n) : L[v] = Combine(v, x, 1..n, {0}) /\ L[v] \in Vectors({0})
  BY <1>4, CombineTyped
<1>6. \A v, w \in Vectors(1..n) : L[AddRow(v, w)] = AddRow(L[v], L[w])
  <2> TAKE v, w \in Vectors(1..n)
  <2>1. AddRow(v, w) \in Vectors(1..n)
    BY AddRowLaws
  <2>2. Combine(AddRow(v, w), x, 1..n, {0}) = AddRow(Combine(v, x, 1..n, {0}), Combine(w, x, 1..n, {0}))
    BY <1>4, CombinePlus
  <2> HIDE DEF L
  <2>3. QED
    BY <1>5, <2>1, <2>2
<1>7. \A j \in 1..n : L[f[j]] = ZeroOn({0})
  <2> TAKE j \in 1..n
  <2>1. u[j] \in Field
    BY DEF Vectors
  <2>2. Scale(m[j], u[j]) \in Vectors(1..n)
    BY <1>1, <2>1, ScaleLaws
  <2>3. Combine(Scale(m[j], u[j]), x, 1..n, {0}) = Scale(Combine(m[j], x, 1..n, {0}), u[j])
    BY <1>1, <1>4, <2>1, CombineScale
  <2>4. Combine(m[j], x, 1..n, {0}) = ZeroOn({0})
    BY DEF Kernel
  <2>5. Scale(ZeroOn({0}), u[j]) = ZeroOn({0})
    BY <2>1, ScaleLaws
  <2>6. f[j] = Scale(m[j], u[j])
    OBVIOUS
  <2>7. QED
    BY <1>5, <2>2, <2>3, <2>4, <2>5, <2>6
<1>8. \A j \in 1..n : g[j] = L[f[j]]
  OBVIOUS
<1> HIDE DEF f, g, L
<1>9. Mapped(1..n, 1..n, {0}, f, L, g)
  BY <1>2, <1>5, <1>6, <1>8 DEF Mapped
<1>10. Total(g, 1..n, {0}) = L[Total(f, 1..n, 1..n)] /\ VectorsOver(g, 1..n, {0})
  BY <1>9, TotalMapped
<1>11. Total(g, 1..n, {0}) = ZeroOn({0})
  <2>1. Within(1..n, {0}, g, {}, g)
    BY <1>7, <1>8, <1>10 DEF Within
  <2>2. QED
    BY <2>1, TotalWithin, TotalEmpty
<1>12. QED
  BY <1>2, <1>3, <1>5, <1>10, <1>11

BitRows(n) == [1..n -> {0, 1}]

\* There are finitely many rows of bits.
LEMMA BitRowsFinite ==
  ASSUME NEW n \in Nat
  PROVE  IsFiniteSet(BitRows(n))
<1> DEFINE f == [U \in SUBSET (1..n) |-> [k \in 1..n |-> IF k \in U THEN 1 ELSE 0]]
<1>1. IsFiniteSet(SUBSET (1..n))
  <2>1. IsFiniteSet(1..n)
    BY FS_Interval
  <2>2. QED
    BY <2>1, FS_SUBSET
<1>2. \A U \in SUBSET (1..n) : f[U] \in BitRows(n)
  BY DEF BitRows
<1>3. ASSUME NEW b \in BitRows(n)
      PROVE  \E U \in SUBSET (1..n) : f[U] = b
  <2>1. {k \in 1..n : b[k] = 1} \in SUBSET (1..n)
    OBVIOUS
  <2>2. f[{k \in 1..n : b[k] = 1}] = [k \in 1..n |-> IF b[k] = 1 THEN 1 ELSE 0]
    BY <2>1
  <2>3. b = [k \in 1..n |-> b[k]] /\ \A k \in 1..n : b[k] \in {0, 1}
    BY DEF BitRows
  <2>4. f[{k \in 1..n : b[k] = 1}] = b
    BY <2>2, <2>3
  <2>5. QED
    BY <2>1, <2>4
<1>4. f \in [SUBSET (1..n) -> BitRows(n)]
  BY <1>2
<1> HIDE DEF f
<1>5. f \in Surjection(SUBSET (1..n), BitRows(n))
  BY <1>3, <1>4 DEF Surjection
<1>6. QED
  BY <1>1, <1>5, FS_Surjection

\* A component of a sum of vectors that is a bit in each is a bit.
LEMMA TotalBit ==
  ASSUME NEW S, NEW I, NEW f, VectorsOver(f, S, I), NEW k \in I, \A x \in S : f[x][k] \in {0, 1}
  PROVE  Total(f, S, I)[k] \in {0, 1}
<1>1. PICK A : A = {x \in S : f[x][k] = 1}
  OBVIOUS
<1>2. Total(f, S, I)[k] = Cardinality({x \in S : f[x][k] = 1}) % 2
  BY TotalParity
<1>3. IsFiniteSet(S) /\ A \in SUBSET S
  BY <1>1 DEF VectorsOver
<1>4. Cardinality(A) \in Nat
  BY <1>3, FS_Subset, FS_CardinalityType
<1>5. \A a \in Nat : a % 2 \in {0, 1}
  OBVIOUS
<1>6. QED
  BY <1>1, <1>2, <1>4, <1>5

\* Bits make bits of rows of bits.
LEMMA CombineBinary ==
  ASSUME NEW n \in Nat, NEW m \in Matrices(n), Binary(n, m), NEW u \in BitRows(n)
  PROVE  u \in Vectors(1..n) /\ Combine(u, m, 1..n, 1..n) \in BitRows(n)
<1> DEFINE f == [j \in 1..n |-> Scale(m[j], u[j])]
<1>1. u \in Vectors(1..n) /\ \A j \in 1..n : u[j] \in {0, 1}
  BY DEF BitRows, Vectors, Field
<1>2. VectorsOver(m, 1..n, 1..n) /\ \A j \in 1..n : m[j] \in Vectors(1..n)
  BY RowsOver
<1>3. VectorsOver(f, 1..n, 1..n) /\ Combine(u, m, 1..n, 1..n) \in Vectors(1..n)
  BY <1>1, <1>2, CombineTyped
<1>4. Combine(u, m, 1..n, 1..n) = Total(f, 1..n, 1..n)
  BY DEF Combine
<1>5. ASSUME NEW k \in 1..n
      PROVE  Total(f, 1..n, 1..n)[k] \in {0, 1}
  <2>1. \A j \in 1..n : f[j][k] \in {0, 1}
    <3> TAKE j \in 1..n
    <3>1. f[j][k] = Mul(m[j][k], u[j])
      BY <1>2 DEF Scale, Vectors
    <3>2. m[j][k] \in {0, 1} /\ u[j] \in {0, 1}
      BY <1>1 DEF Binary
    <3>3. \A a, b \in {0, 1} : Mul(a, b) \in {0, 1}
      BY DEF Mul
    <3>4. QED
      BY <3>1, <3>2, <3>3
  <2> HIDE DEF f
  <2>2. QED
    BY <1>3, <2>1, TotalBit
<1> HIDE DEF f
<1>6. \A w \in Vectors(1..n) : w = [k \in 1..n |-> w[k]]
  BY DEF Vectors
<1>7. QED
  BY <1>1, <1>3, <1>4, <1>5, <1>6 DEF BitRows

\* A singular matrix of bits has rows that add up to zero: what rows of bits
\* make of it is a proper part of the rows of bits, so two make the same.
LEMMA SingularDependent ==
  ASSUME NEW n \in Nat, NEW m \in Matrices(n), Binary(n, m), Singular(n, m)
  PROVE  \E e \in BitRows(n) : /\ Combine(e, m, 1..n, 1..n) = ZeroOn(1..n)
                               /\ \E k \in 1..n : e[k] # 0
<1>0. PICK x : Kernel(n, m, x) /\ \E i \in 1..n : x[i] = OneOn({0})
  BY DEF Singular
<1>1. PICK i \in 1..n : Kernel(n, m, x) /\ x[i] = OneOn({0})
  BY <1>0
<1> DEFINE B == BitRows(n)
           K == {b \in B : Combine(b, x, 1..n, {0}) = ZeroOn({0})}
           f == [b \in B |-> Combine(b, m, 1..n, 1..n)]
<1>2. \A b \in B : b \in Vectors(1..n) /\ Combine(b, m, 1..n, 1..n) \in B
  BY CombineBinary
<1>3. f \in [B -> K]
  <2>1. \A b \in B : f[b] \in K
    BY <1>1, <1>2, KernelOfRows
  <2> HIDE DEF K
  <2>2. QED
    BY <2>1
<1>4. K # B /\ K \in SUBSET B
  <2> DEFINE e == [k \in 1..n |-> IF k = i THEN 1 ELSE 0]
  <2>1. e \in B
    BY DEF BitRows
  <2>2. e \in Vectors(1..n) /\ e[i] = 1 /\ \A k \in (1..n) \ {i} : e[k] = 0
    BY <1>2, <2>1
  <2> HIDE DEF e
  <2>3. VectorsOver(x, 1..n, {0})
    BY <1>1 DEF Kernel
  <2>4. Combine(e, x, 1..n, {0}) = x[i]
    BY <2>2, <2>3, CombineUnit
  <2>5. OneOn({0}) # ZeroOn({0})
    <3>1. OneOn({0})[0] = 1 /\ ZeroOn({0})[0] = 0
      BY DEF OneOn, ZeroOn
    <3>2. QED
      BY <3>1
  <2>6. e \notin K
    BY <1>1, <2>4, <2>5
  <2>7. QED
    BY <2>1, <2>6
<1>5. IsFiniteSet(B)
  BY BitRowsFinite
<1> HIDE DEF B, K, f
<1>6. IsFiniteSet(K) /\ Cardinality(K) < Cardinality(B)
  <2>1. IsFiniteSet(K) /\ Cardinality(K) <= Cardinality(B) /\ Cardinality(B) # Cardinality(K)
    BY <1>4, <1>5, FS_Subset
  <2>2. Cardinality(K) \in Nat /\ Cardinality(B) \in Nat
    BY <1>5, <2>1, FS_CardinalityType
  <2>3. QED
    BY <2>1, <2>2
<1>7. PICK c, d \in B : c # d /\ f[c] = f[d]
  BY <1>3, <1>5, <1>6, FS_PigeonHole
<1>8. Combine(c, m, 1..n, 1..n) = Combine(d, m, 1..n, 1..n)
  BY <1>7 DEF f
<1>9. c \in Vectors(1..n) /\ d \in Vectors(1..n)
  BY <1>2
<1>10. \A k \in 1..n : AddRow(c, d)[k] = Xor(c[k], d[k])
  BY <1>9 DEF AddRow, Vectors
<1>11. \A k \in 1..n : c[k] \in {0, 1} /\ d[k] \in {0, 1}
  BY DEF B, BitRows
<1>12. AddRow(c, d) \in B
  <2>1. \A a, b \in {0, 1} : Xor(a, b) \in {0, 1}
    BY DEF Xor
  <2>2. AddRow(c, d) \in Vectors(1..n)
    BY <1>9, AddRowLaws
  <2>3. AddRow(c, d) = [k \in 1..n |-> AddRow(c, d)[k]]
    BY <2>2 DEF Vectors
  <2>4. \A k \in 1..n : AddRow(c, d)[k] \in {0, 1}
    BY <1>10, <1>11, <2>1
  <2>5. QED
    BY <2>3, <2>4 DEF B, BitRows
<1>13. Combine(AddRow(c, d), m, 1..n, 1..n) = ZeroOn(1..n)
  <2>1. VectorsOver(m, 1..n, 1..n)
    BY RowsOver
  <2>2. Combine(AddRow(c, d), m, 1..n, 1..n)
          = AddRow(Combine(c, m, 1..n, 1..n), Combine(d, m, 1..n, 1..n))
    BY <1>9, <2>1, CombinePlus
  <2>3. Combine(d, m, 1..n, 1..n) \in Vectors(1..n)
    BY <1>9, <2>1, CombineTyped
  <2>4. QED
    BY <1>8, <2>2, <2>3, AddRowLaws
<1>14. \E k \in 1..n : AddRow(c, d)[k] # 0
  <2>1. c = [k \in 1..n |-> c[k]] /\ d = [k \in 1..n |-> d[k]]
    BY <1>9 DEF Vectors
  <2>2. PICK k \in 1..n : c[k] # d[k]
    BY <1>7, <2>1
  <2>3. \A a, b \in {0, 1} : a # b => Xor(a, b) # 0
    BY DEF Xor
  <2>4. QED
    BY <1>10, <1>11, <2>2, <2>3
<1>15. QED
  BY <1>12, <1>13, <1>14 DEF B

-----------------------------------------------------------------------------
(***************************************************************************)
(* The calls of OkvsArithmetic.                                            *)
(***************************************************************************)

\* XorAll, a component at a time, is the sum of vectors.
LEMMA XorAllIs ==
  ASSUME NEW n \in Nat, NEW x, NEW I, VectorsOver(x, 1..n, I), NEW c \in I,
         NEW q, q = [k \in 1..n |-> x[k][c]]
  PROVE  XorAll(q) = Total(x, 1..n, I)[c]
<1> DEFINE S == DOMAIN q
           Is(f) == f = [U \in SUBSET S |-> IF U = {} THEN 0 ELSE LET y == Max(U) IN Xor(f[U \ {y}], q[y])]
           step == [p \in (1..n) \X Field |-> Xor(p[2], q[p[1]])]
<1>1. S = 1..n /\ \A k \in 1..n : q[k] = x[k][c] /\ q[k] \in Field
  BY DEF VectorsOver, Vectors
<1>2. \A i \in 1..n : \A v \in Field : step[<<i, v>>] = Xor(v, q[i]) /\ Xor(v, q[i]) \in Field
  BY <1>1, XorLaws
<1> HIDE DEF step
<1>3. PICK h \in [SUBSET (1..n) -> Field] :
        /\ h[{}] = 0
        /\ \A U \in SUBSET (1..n) : U # {} => h[U] = step[<<Max(U), h[U \ {Max(U)}]>>]
  <2>1. 0 \in Field
    BY DEF Field
  <2>2. \A i \in 1..n : \A v \in Field : step[<<i, v>>] \in Field
    BY <1>2
  <2>3. PICK h : IsRun(n, Field, 0, step, h)
    BY <2>1, <2>2, RunExists
  <2>4. QED
    BY <2>3 DEF IsRun
<1>4. Is(h)
  <2>1. ASSUME NEW U \in SUBSET (1..n), U # {}
        PROVE  h[U] = Xor(h[U \ {Max(U)}], q[Max(U)])
    <3>1. Max(U) \in 1..n /\ h[U \ {Max(U)}] \in Field
      BY <1>3, <2>1, MaxPicks
    <3>2. QED
      BY <1>2, <1>3, <2>1, <3>1
  <2>2. QED
    BY <1>1, <1>3, <2>1
<1>5. XorAll(q) = (CHOOSE f : Is(f))[S]
  BY DEF XorAll, FoldLeft, MapThenFoldSet, Xor, Max
<1>6. PICK k : Is(k) /\ XorAll(q) = k[1..n]
  <2>1. Is(CHOOSE f : Is(f))
    <3> HIDE DEF Is
    <3> QED BY <1>4
  <2> HIDE DEF Is
  <2>2. QED
    BY <1>1, <1>5, <2>1
<1> DEFINE T == {i \in Nat : i <= n => VectorsOver(x, 1..i, I) /\ k[1..i] = Total(x, 1..i, I)[c]}
<1>7. 0 \in T
  <2>1. 1..0 = {} /\ VectorsOver(x, 1..0, I)
    BY FS_EmptySet DEF VectorsOver
  <2>2. Total(x, 1..0, I)[c] = 0
    BY <2>1, TotalEmpty DEF ZeroOn
  <2>3. k[1..0] = 0
    BY <1>6, <2>1
  <2>4. QED
    BY <2>1, <2>2, <2>3
<1>8. ASSUME NEW i \in Nat, i \in T
      PROVE  i + 1 \in T
  <2> SUFFICES ASSUME i + 1 <= n
               PROVE  VectorsOver(x, 1..i + 1, I) /\ k[1..i + 1] = Total(x, 1..i + 1, I)[c]
    OBVIOUS
  <2>1. PICK j \in 1..n : j = i + 1 /\ j - 1 = i /\ j # 0
    OBVIOUS
  <2>2. 1..j \in SUBSET S /\ 1..j # {} /\ j \in 1..j /\ Max(1..j) = j /\ (1..j) \ {j} = 1..i
    <3>1. Max(1..j) = j /\ (1..j) \ {j} = 1..j - 1
      BY <2>1, PrefixMax
    <3>2. 1..j \subseteq 1..n /\ j \in 1..j
      BY <2>1
    <3>3. QED
      BY <1>1, <2>1, <3>1, <3>2
  <2>3. VectorsOver(x, 1..j, I)
    <3>1. IsFiniteSet(1..j)
      BY FS_Interval
    <3>2. QED
      BY <1>1, <2>2, <3>1 DEF VectorsOver
  <2>4. k[1..j] = Xor(k[1..i], q[j])
    BY <1>6, <2>2
  <2>5. k[1..i] = Total(x, 1..i, I)[c] /\ VectorsOver(x, 1..i, I)
    BY <1>8
  <2>6. Total(x, 1..j, I) = AddRow(x[j], Total(x, 1..i, I))
    <3>1. PICK R, U : R = 1..j /\ U = 1..i /\ R \ {j} = U /\ j \in R
      BY <2>2
    <3>2. VectorsOver(x, R, I)
      BY <2>3, <3>1
    <3>3. \A y \in R : Total(x, R, I) = AddRow(x[y], Total(x, R \ {y}, I))
      BY <3>2, TotalTake
    <3>4. Total(x, R, I) = AddRow(x[j], Total(x, R \ {j}, I))
      BY <3>1, <3>3
    <3>5. QED
      BY <3>1, <3>4
  <2>7. Total(x, 1..i, I) \in Vectors(I) /\ x[j] \in Vectors(I)
    BY <2>2, <2>3, <2>5, TotalTake DEF VectorsOver
  <2>8. AddRow(x[j], Total(x, 1..i, I))[c] = Xor(x[j][c], Total(x, 1..i, I)[c])
    BY <2>7 DEF AddRow, Vectors
  <2>9. x[j][c] \in Field /\ Total(x, 1..i, I)[c] \in Field
    BY <2>7 DEF Vectors
  <2>10. Xor(x[j][c], Total(x, 1..i, I)[c]) = Xor(Total(x, 1..i, I)[c], x[j][c])
    BY <2>9, XorLaws
  <2>11. q[j] = x[j][c]
    BY <1>1
  <2>12. QED
    BY <2>1, <2>3, <2>4, <2>5, <2>6, <2>8, <2>10, <2>11
<1>9. Nat \subseteq T
  <2> HIDE DEF T
  <2> QED BY <1>7, <1>8, NatInductionSet
<1>10. k[1..n] = Total(x, 1..n, I)[c]
  BY <1>9
<1>11. QED
  BY <1>6, <1>10

\* A row of coefficients times a matrix, a component at a time.
LEMMA CombineAt ==
  ASSUME NEW n \in Nat, NEW u \in Vectors(1..n), NEW m \in Matrices(n), NEW c \in 1..n
  PROVE  Combine(u, m, 1..n, 1..n)[c] = XorAll([k \in 1..n |-> Mul(u[k], m[k][c])])
<1> DEFINE x == [k \in 1..n |-> Scale(m[k], u[k])]
<1>1. VectorsOver(m, 1..n, 1..n) /\ \A k \in 1..n : m[k] \in Vectors(1..n)
  BY RowsOver
<1>2. VectorsOver(x, 1..n, 1..n)
  BY <1>1, CombineTyped
<1>3. \A k \in 1..n : x[k][c] = Mul(u[k], m[k][c])
  <2> TAKE k \in 1..n
  <2>1. x[k][c] = Mul(m[k][c], u[k])
    BY <1>1 DEF Scale, Vectors
  <2>2. m[k][c] \in Field /\ u[k] \in Field
    BY <1>1 DEF Vectors
  <2>3. QED
    BY <2>1, <2>2, MulLaws
<1>4. Combine(u, m, 1..n, 1..n) = Total(x, 1..n, 1..n)
  BY DEF Combine
<1> HIDE DEF x
<1>5. [k \in 1..n |-> Mul(u[k], m[k][c])] = [k \in 1..n |-> x[k][c]]
  BY <1>3
<1>6. QED
  BY <1>2, <1>4, <1>5, XorAllIs

\* The product of two matrices, row by row.
LEMMA ProductIs ==
  ASSUME NEW n \in Nat, NEW a \in Matrices(n), NEW b \in Matrices(n)
  PROVE  /\ Product(a, b) = [i \in 1..n |-> [j \in 1..n |-> Product(a, b)[i][j]]]
         /\ \A i, j \in 1..n : Product(a, b)[i][j] = Combine(a[i], b, 1..n, 1..n)[j]
<1>1. DOMAIN a = 1..n /\ \A i \in 1..n : a[i] \in Vectors(1..n)
  BY DEF Matrices
<1>2. PICK p : p = Product(a, b)
  OBVIOUS
<1>3. p = [i \in 1..n |-> [j \in 1..n |-> XorAll([k \in 1..n |-> Mul(a[i][k], b[k][j])])]]
  BY <1>1, <1>2 DEF Product
<1>4. \A i, j \in 1..n : p[i][j] = Combine(a[i], b, 1..n, 1..n)[j]
  <2> TAKE i, j \in 1..n
  <2>1. p[i][j] = XorAll([k \in 1..n |-> Mul(a[i][k], b[k][j])])
    BY <1>3
  <2>2. PICK u \in Vectors(1..n) : u = a[i]
    BY <1>1
  <2>3. Combine(u, b, 1..n, 1..n)[j] = XorAll([k \in 1..n |-> Mul(u[k], b[k][j])])
    BY CombineAt
  <2>4. QED
    BY <2>1, <2>2, <2>3
<1>5. p = [i \in 1..n |-> [j \in 1..n |-> p[i][j]]]
  BY <1>3
<1>6. QED
  BY <1>2, <1>4, <1>5

\* A matrix of bits whose rows add up to zero is not invertible.
LEMMA DependentIs ==
  ASSUME NEW n \in Nat, NEW m \in Matrices(n), Invertible(m, {0, 1}),
         NEW e \in BitRows(n), Combine(e, m, 1..n, 1..n) = ZeroOn(1..n)
  PROVE  \A k \in 1..n : e[k] = 0
<1>1. DOMAIN m = 1..n /\ \A i \in 1..n : DOMAIN m[i] = 1..n
  BY DEF Matrices, Vectors
<1>2. e \in Vectors(1..n) /\ e \in [DOMAIN m -> {0, 1}]
  BY <1>1 DEF BitRows, Vectors, Field
<1>3. \A j \in 1..n : XorAll([i \in 1..n |-> Mul(e[i], m[i][j])]) = 0
  <2> TAKE j \in 1..n
  <2>1. Combine(e, m, 1..n, 1..n)[j] = XorAll([i \in 1..n |-> Mul(e[i], m[i][j])])
    BY <1>2, CombineAt
  <2>2. QED
    BY <2>1 DEF ZeroOn
<1>4. (\A j \in DOMAIN m : XorAll([i \in DOMAIN m |-> Mul(e[i], m[i][j])]) = 0)
        => \A i \in DOMAIN m : e[i] = 0
  BY <1>2 DEF Invertible
<1>5. QED
  BY <1>1, <1>3, <1>4

\* A call of check_invert on an n by n matrix, of bits or not, about to
\* eliminate column w, or at its end (w = 0).
Inverting(n, given, bits, s, w) ==
  /\ given \in Matrices(n) /\ s \in Elims(n) /\ w \in 0..n
  /\ bits => Binary(n, given)
  /\ s.ok => /\ Built(n, given, s)
             /\ bits => Binary(n, s.mat)
             /\ ColumnsDone(n, IF w = 0 THEN n ELSE w - 1, s.mat)
             /\ \A x : Kernel(n, s.mat, x) => Kernel(n, given, x)
  /\ ~s.ok => w = 0 /\ (bits => Singular(n, given))

\* The call begins.
LEMMA InvertingBegins ==
  ASSUME NEW n \in Nat \ {0}, NEW given \in Matrices(n), NEW bits \in BOOLEAN, bits => Binary(n, given)
  PROVE  Inverting(n, given, bits, [ok |-> TRUE, mat |-> given, inv |-> Identity(n)], 1)
<1>1. PICK s : s = [ok |-> TRUE, mat |-> given, inv |-> Identity(n)]
  OBVIOUS
<1>2. Identity(n) \in Matrices(n) /\ ColumnsDone(n, n, Identity(n))
  BY IdentityTyped DEF ColumnsDone
<1>3. s \in Elims(n) /\ s.ok /\ s.mat = given /\ s.inv = Identity(n)
  BY <1>1, <1>2 DEF Elims
<1>4. VectorsOver(given, 1..n, 1..n)
  BY RowsOver
<1>5. \A j \in 1..n : Combine(Identity(n)[j], given, 1..n, 1..n) = given[j]
  BY <1>2, <1>4, CombineIdentity
<1>6. Built(n, given, s)
  BY <1>3, <1>5 DEF Built
<1>7. ColumnsDone(n, IF 1 = 0 THEN n ELSE 1 - 1, s.mat)
  BY DEF ColumnsDone
<1>8. 1 \in 0..n
  OBVIOUS
<1>9. QED
  BY <1>1, <1>3, <1>6, <1>7, <1>8 DEF Inverting

\* It eliminates a column.
LEMMA InvertingStep ==
  ASSUME NEW n \in Nat, NEW given, NEW bits \in BOOLEAN, NEW s, NEW w, Inverting(n, given, bits, s, w), w # 0,
         NEW t, t = Eliminate(s, w), NEW v, v = IF t.ok /\ w < n THEN w + 1 ELSE 0
  PROVE  Inverting(n, given, bits, t, v)
<1>1. /\ given \in Matrices(n) /\ s \in Elims(n) /\ w \in 1..n /\ (bits => Binary(n, given))
      /\ s.ok /\ Built(n, given, s) /\ (bits => Binary(n, s.mat))
      /\ ColumnsDone(n, w - 1, s.mat) /\ \A x : Kernel(n, s.mat, x) => Kernel(n, given, x)
  BY DEF Inverting
<1>2. EliminatedTo(n, w, s, t) /\ t \in Elims(n)
  BY <1>1, EliminateIs
<1>3. v \in 0..n
  BY <1>1
<1>4. CASE t.ok
  <2>1. Built(n, given, t) /\ (bits => Binary(n, t.mat))
    BY <1>1, <1>2, <1>4, EliminatedBuilt
  <2>2. ColumnsDone(n, w, t.mat)
    BY <1>1, <1>2, <1>4, EliminatedSolves
  <2>3. w = IF v = 0 THEN n ELSE v - 1
    BY <1>1, <1>4
  <2>4. \A x : Kernel(n, t.mat, x) => Kernel(n, given, x)
    BY <1>1, <1>2, <1>4, KernelKept
  <2>5. ColumnsDone(n, IF v = 0 THEN n ELSE v - 1, t.mat)
    BY <2>2, <2>3
  <2>6. QED
    BY <1>1, <1>2, <1>3, <1>4, <2>1, <2>4, <2>5 DEF Inverting
<1>5. CASE ~t.ok
  <2>1. v = 0
    BY <1>5
  <2>2. ASSUME bits
        PROVE  Singular(n, given)
    <3>1. \A j \in w..n : s.mat[j][w] = 0
      BY <1>1, <1>5, <2>2, NoPivot
    <3>2. s.mat \in Matrices(n)
      BY <1>1 DEF Elims
    <3>3. Singular(n, s.mat)
      BY <1>1, <3>1, <3>2, NoPivotSingular
    <3>4. QED
      BY <1>1, <3>3 DEF Singular
  <2>3. QED
    BY <1>1, <1>2, <1>3, <1>5, <2>1, <2>2 DEF Inverting
<1>6. QED
  BY <1>4, <1>5

\* What it answers.
LEMMA InvertingEnds ==
  ASSUME NEW n \in Nat, NEW given, NEW bits \in BOOLEAN, NEW s, Inverting(n, given, bits, s, 0)
  PROVE  /\ s.ok => Product(s.inv, given) = Identity(n)
         /\ bits /\ ~s.ok => ~Invertible(given, {0, 1})
<1>1. given \in Matrices(n) /\ s \in Elims(n) /\ s.inv \in Matrices(n)
  BY DEF Inverting, Elims
<1>2. ASSUME s.ok
      PROVE  Product(s.inv, given) = Identity(n)
  <2>1. Built(n, given, s) /\ ColumnsDone(n, n, s.mat)
    BY <1>2 DEF Inverting
  <2>0. PICK a \in Matrices(n) : a = s.inv
    BY <1>1
  <2>2. PICK p : p = Product(a, given)
    OBVIOUS
  <2>3. /\ p = [i \in 1..n |-> [j \in 1..n |-> p[i][j]]]
        /\ \A i, j \in 1..n : p[i][j] = Combine(a[i], given, 1..n, 1..n)[j]
    BY <1>1, <2>2, ProductIs
  <2>4. \A i, j \in 1..n : p[i][j] = IF i = j THEN 1 ELSE 0
    BY <2>0, <2>1, <2>3 DEF Built, ColumnsDone
  <2>5. p = [i \in 1..n |-> [j \in 1..n |-> IF i = j THEN 1 ELSE 0]]
    BY <2>3, <2>4
  <2>6. QED
    BY <2>0, <2>2, <2>5 DEF Identity
<1>3. ASSUME bits, ~s.ok
      PROVE  ~Invertible(given, {0, 1})
  <2>1. Singular(n, given) /\ Binary(n, given)
    BY <1>3 DEF Inverting
  <2>2. PICK e \in BitRows(n) : Combine(e, given, 1..n, 1..n) = ZeroOn(1..n) /\ \E k \in 1..n : e[k] # 0
    BY <1>1, <2>1, SingularDependent
  <2>3. QED
    BY <1>1, <2>2, DependentIs
<1>4. QED
  BY <1>2, <1>3

CallsInv ==
  op = "check_invert" =>
    \E n \in Nat \ {0}, bits \in BOOLEAN :
      /\ Len(arg.mat) = n /\ bits = (arg.elements = {0, 1})
      /\ Inverting(n, arg.mat, bits, answer, work)

\* Inversion as OkvsArithmetic models it: for a square matrix of any size, of
\* bits or of elements of the field, what check_invert writes back is its
\* inverse, and a matrix of bits that is refused is not invertible (okvs.cpp).
THEOREM InversionIsExact == CallSpec => []AnswerExact
<1>1. CallInit => CallsInv
  <2> SUFFICES ASSUME CallInit, op = "check_invert"
               PROVE  CallsInv
    BY DEF CallsInv
  <2>1. arg \in Squares /\ work = 1 /\ answer = [ok |-> TRUE, mat |-> arg.mat, inv |-> Identity(Len(arg.mat))]
    BY DEF CallInit
  <2>2. PICK elems : elems = arg.elements /\ elems \in {{0, 1}, 0..3}
    BY <2>1, ArithmeticAssumption DEF Field
  <2>3. PICK m \in Seq(Seq(elems)) : m = arg.mat /\ m # << >> /\ \A i \in DOMAIN m : Len(m[i]) = Len(m)
    BY <2>1, <2>2, ArithmeticAssumption
  <2>4. PICK n \in Nat \ {0} : n = Len(m) /\ DOMAIN m = 1..n
    BY <2>3
  <2>5. \A i \in 1..n : m[i] \in [1..n -> elems]
    <3> TAKE i \in 1..n
    <3>1. m[i] \in Seq(elems) /\ Len(m[i]) = n
      BY <2>3, <2>4
    <3>2. QED
      BY <3>1
  <2>6. \A i, j \in 1..n : m[i][j] \in elems
    BY <2>5
  <2>7. m \in Matrices(n)
    <3>1. \A i \in 1..n : m[i] = [j \in 1..n |-> m[i][j]]
      BY <2>5
    <3>0. \A i, j \in 1..n : m[i][j] \in Field
      BY <2>2, <2>6 DEF Field
    <3>2. \A i \in 1..n : m[i] \in Vectors(1..n)
      BY <3>0, <3>1 DEF Vectors
    <3>3. m = [i \in 1..n |-> m[i]]
      BY <2>3, <2>4
    <3>4. QED
      BY <3>2, <3>3 DEF Matrices
  <2>8. PICK bits \in BOOLEAN : bits = (elems = {0, 1})
    OBVIOUS
  <2>9. bits => Binary(n, m)
    BY <2>6, <2>8 DEF Binary
  <2>10. Inverting(n, m, bits, [ok |-> TRUE, mat |-> m, inv |-> Identity(n)], 1)
    BY <2>7, <2>9, InvertingBegins
  <2>11. QED
    BY <2>1, <2>2, <2>3, <2>4, <2>8, <2>10 DEF CallsInv
<1>2. CallsInv /\ [CallNext]_callVars => CallsInv'
  <2> SUFFICES ASSUME CallsInv, [CallNext]_callVars, op' = "check_invert"
               PROVE  CallsInv'
    BY DEF CallsInv
  <2>1. CASE InvertColumn
    <3>1. PICK n \in Nat \ {0}, bits \in BOOLEAN :
            /\ Len(arg.mat) = n /\ bits = (arg.elements = {0, 1})
            /\ Inverting(n, arg.mat, bits, answer, work)
      BY <2>1 DEF CallsInv, InvertColumn
    <3>2. /\ work # 0 /\ answer' = Eliminate(answer, work) /\ arg' = arg /\ op' = op
          /\ work' = IF answer'.ok /\ work < n THEN work + 1 ELSE 0
      BY <2>1, <3>1 DEF InvertColumn, Returned
    <3>3. Inverting(n, arg.mat, bits, answer', work')
      BY <3>1, <3>2, InvertingStep
    <3>4. QED
      BY <3>1, <3>2, <3>3 DEF CallsInv
  <2>2. CASE Generate \/ Construct \/ Bound
    BY <2>2 DEF Generate, Construct, Bound
  <2>3. CASE UNCHANGED callVars
    BY <2>3 DEF callVars, CallsInv
  <2>4. QED
    BY <2>1, <2>2, <2>3 DEF CallNext, Done
<1>3. CallsInv => AnswerExact
  <2> SUFFICES ASSUME CallsInv, op = "check_invert", work = 0
               PROVE  /\ answer.ok => Product(answer.inv, arg.mat) = Identity(Len(arg.mat))
                      /\ arg.elements = {0, 1} /\ ~answer.ok => ~Invertible(arg.mat, {0, 1})
    BY DEF AnswerExact, Returned
  <2>1. PICK n \in Nat \ {0}, bits \in BOOLEAN :
          /\ Len(arg.mat) = n /\ bits = (arg.elements = {0, 1})
          /\ Inverting(n, arg.mat, bits, answer, 0)
    BY DEF CallsInv
  <2>2. /\ answer.ok => Product(answer.inv, arg.mat) = Identity(n)
        /\ bits /\ ~answer.ok => ~Invertible(arg.mat, {0, 1})
    BY <2>1, InvertingEnds
  <2>3. QED
    BY <2>1, <2>2
<1>4. QED
  BY <1>1, <1>2, <1>3, PTL DEF CallSpec
=============================================================================
