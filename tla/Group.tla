-------------------------------- MODULE Group --------------------------------
(***************************************************************************)
(* The core library's prime-order group and its scalars, and the hash to   *)
(* scalars as a random oracle.  A point is written by its coefficients     *)
(* over generators nobody knows a relation between, so two points are      *)
(* equal only when the code's algebra makes them so.                       *)
(***************************************************************************)
EXTENDS Integers, Sequences, TLC

CONSTANTS
  Q,                  \* the order of the group
  RangeBits,          \* range_bits, and the message width of exponential encryption
  MaxAggregation      \* max_aggregation

ASSUME GroupAssumption ==
  /\ Q \in Nat \ {0, 1} /\ \A d \in 2..(Q - 1) : Q % d # 0
  /\ RangeBits \in Nat \ {0} /\ \E k \in 0..6 : RangeBits = 2^k
  /\ MaxAggregation \in Nat \ {0} /\ \E k \in 0..6 : MaxAggregation = 2^k

Scalars == 0..(Q - 1)
VectorLength == RangeBits * MaxAggregation

\* A function on 1..n as a sequence.
Vec(f) == f \o << >>

Add(a, b) == (a + b) % Q
Sub(a, b) == (a - b) % Q
Mul(a, b) == (a * b) % Q
InvOf == [a \in 1..(Q - 1) |-> CHOOSE b \in Scalars : Mul(a, b) = 1]

Total(n, term(_)) ==
  LET sum[i \in 0..n] == IF i = 0 THEN 0 ELSE Add(sum[i - 1], term(i)) IN sum[n]
-----------------------------------------------------------------------------
Width  == 3 + 2 * VectorLength
Gen(k) == Vec([c \in 1..Width |-> IF c = k THEN 1 ELSE 0])
G == Gen(1)
H == Gen(2)
U == Gen(3)
VecG == Vec([i \in 1..VectorLength |-> Gen(3 + i)])
VecH == Vec([i \in 1..VectorLength |-> Gen(3 + VectorLength + i)])

Infinity    == Vec([c \in 1..Width |-> 0])
Plus(p, q)  == Vec([c \in 1..Width |-> Add(p[c], q[c])])
Minus(p, q) == Vec([c \in 1..Width |-> Sub(p[c], q[c])])
Times(p, k) == Vec([c \in 1..Width |-> Mul(p[c], k)])

\* ec_point_msm.
Msm(points, scalars) ==
  Vec([c \in 1..Width |-> Total(Len(points), LAMBDA i : Mul(points[i][c], scalars[i]))])
-----------------------------------------------------------------------------
\* hash_to_zn on the prover's side: every query is new and takes an answer off
\* the tape; "asked" remembers it under the transcript that was hashed.
Queries(transcripts, tape) ==
  [t \in {transcripts[k] : k \in DOMAIN transcripts} |->
     tape[CHOOSE k \in DOMAIN transcripts : transcripts[k] = t]]

\* hash_to_zn later on: the answer of a transcript asked before is the same,
\* any other is new.
Hash(asked, transcript, new) == IF transcript \in DOMAIN asked THEN asked[transcript] ELSE new

\* A scalar as a transcript holds it, beside points.
Encoded(scalar) == <<scalar>>

\* A challenge that has to be inverted is never zero.
NonZero(x) == IF x = 0 THEN 1 ELSE x
=============================================================================
