----------------------------- MODULE BulletProof -----------------------------
(***************************************************************************)
(* The aggregated range proof (zkp/range_proofs/bullet_proof.cpp): every   *)
(* commitment g*r + h*v of a statement has a v of RangeBits bits; and the  *)
(* logarithmic inner-product argument it embeds                            *)
(* (zkp/range_proofs/inner_product_proof.cpp): a point p is                *)
(* <g, a> + <h, b> + u*<a, b>.  Vectors count from one here, from zero in  *)
(* the code.                                                               *)
(***************************************************************************)
EXTENDS Group, SequencesExt

(***************************************************************************)
(* The inner-product argument.                                             *)
(***************************************************************************)
Rounds(n) == CHOOSE k \in 0..n : 2^k = n

Inner(a, b)    == Total(Len(a), LAMBDA i : Mul(a[i], b[i]))
Scaled(a, k)   == Vec([i \in DOMAIN a |-> Mul(a[i], k)])
Product(a, b)  == Vec([i \in DOMAIN a |-> Mul(a[i], b[i])])
Sum(a, b)      == Vec([i \in DOMAIN a |-> Add(a[i], b[i])])
LowHalf(s)     == SubSeq(s, 1, Len(s) \div 2)
HighHalf(s)    == SubSeq(s, Len(s) \div 2 + 1, Len(s))
Ones(n)        == Vec([i \in 1..n |-> 1])

\* One inversion for all of a vector of nonzero scalars.
BatchInvert(input) ==
  LET n == Len(input)
      prefix[i \in 0..n]  == IF i = 0 THEN 1 ELSE Mul(prefix[i - 1], input[i])
      inverse[i \in 0..n] == IF i = n THEN InvOf[prefix[n]] ELSE Mul(inverse[i + 1], input[i + 1])
  IN  Vec([i \in 1..n |-> Mul(inverse[i], prefix[i - 1])])

\* Seeded fault: the challenges are taken from the first round onwards.
ComputeS_Reversed(x_square, x_inverse, n) ==
  LET rounds == Len(x_square)
      product[i \in 0..rounds] == IF i = 0 THEN 1 ELSE Mul(product[i - 1], x_inverse[i])
      HighestBit(i) == CHOOSE k \in 0..rounds : 2^k <= i /\ i < 2^(k + 1)
      s[i \in 0..(n - 1)] ==
        IF i = 0 THEN product[rounds]
        ELSE Mul(s[i - 2^HighestBit(i)], x_square[1 + HighestBit(i)])
  IN  Vec([i \in 1..n |-> s[i - 1]])

\* The verifier's vector of folding factors: the highest bit of an index picks
\* the square of a challenge, the last round's first.
ComputeS(x_square, x_inverse, n) ==
  LET rounds == Len(x_square)
      product[i \in 0..rounds] == IF i = 0 THEN 1 ELSE Mul(product[i - 1], x_inverse[i])
      HighestBit(i) == CHOOSE k \in 0..rounds : 2^k <= i /\ i < 2^(k + 1)
      s[i \in 0..(n - 1)] ==
        IF i = 0 THEN product[rounds]
        ELSE Mul(s[i - 2^HighestBit(i)], x_square[rounds - HighestBit(i)])
  IN  Vec([i \in 1..n |-> s[i - 1]])

\* One folding round; the factors of the h generators are those of an embedded
\* proof in the first round, and ones ever after.
FoldOnce(f, u_factor, answer) ==
  LET left  == Msm(HighHalf(f.g) \o LowHalf(f.h) \o <<U>>,
                   LowHalf(f.a) \o Product(HighHalf(f.b), LowHalf(f.factors))
                     \o <<Mul(Inner(LowHalf(f.a), HighHalf(f.b)), u_factor)>>)
      right == Msm(LowHalf(f.g) \o HighHalf(f.h) \o <<U>>,
                   HighHalf(f.a) \o Product(LowHalf(f.b), HighHalf(f.factors))
                     \o <<Mul(Inner(HighHalf(f.a), LowHalf(f.b)), u_factor)>>)
      x     == NonZero(answer)
      xi    == InvOf[x]
      half  == Len(f.a) \div 2
  IN  [g |-> Vec([i \in 1..half |-> Msm(<<f.g[i], f.g[half + i]>>, <<xi, x>>)]),
       h |-> Vec([i \in 1..half |-> Msm(<<f.h[i], f.h[half + i]>>,
                    <<Mul(x, f.factors[i]), Mul(xi, f.factors[half + i])>>)]),
       a |-> Sum(Scaled(LowHalf(f.a), x), Scaled(HighHalf(f.a), xi)),
       b |-> Sum(Scaled(LowHalf(f.b), xi), Scaled(HighHalf(f.b), x)),
       factors |-> Ones(half),
       left |-> Append(f.left, left), right |-> Append(f.right, right),
       transcript |-> f.transcript \o <<left, right>>,
       hashed |-> Append(f.hashed, f.transcript \o <<left, right>>)]

\* What is left when the vectors have been folded to one element each.
InnerProof(end, tape) ==
  [proof |-> [left |-> end.left, right |-> end.right, a |-> end.a[1], b |-> end.b[1]],
   asked |-> Queries(end.hashed, tape)]

ProveFromTranscript(n, w, transcript, factors, u_factor, tape) ==
  LET start == [g |-> SubSeq(VecG, 1, n), h |-> SubSeq(VecH, 1, n), a |-> w.a, b |-> w.b,
                factors |-> factors, left |-> << >>, right |-> << >>,
                transcript |-> transcript, hashed |-> << >>]
      fold[k \in 0..Rounds(n)] ==
        IF k = 0 THEN start ELSE FoldOnce(fold[k - 1], u_factor, tape[k])
  IN  InnerProof(fold[Rounds(n)], tape)

ProveInner(context, n, p, w, tape) ==
  ProveFromTranscript(n, w, <<context, p>>, Ones(n), 1, tape)

\* The challenges again, from the proof's points.
RoundChallenges(proof, transcript, asked, new) ==
  LET grown[k \in 0..Len(proof.left)] ==
        IF k = 0 THEN transcript ELSE grown[k - 1] \o <<proof.left[k], proof.right[k]>>
  IN  Vec([k \in DOMAIN proof.left |-> NonZero(Hash(asked, grown[k], new[k]))])

VerifyInner(context, n, p, proof, asked, new) ==
  LET x        == RoundChallenges(proof, <<context, p>>, asked, new)
      x_inverse == BatchInvert(x)
      s        == ComputeS(Product(x, x), x_inverse, n)
      reversed == Vec([i \in 1..n |-> s[n + 1 - i]])
  IN  /\ Len(proof.left) = Len(proof.right) /\ Len(proof.left) = Rounds(n)
      /\ Msm(SubSeq(VecG, 1, n) \o SubSeq(VecH, 1, n) \o <<U>>,
             Scaled(s, proof.a) \o Scaled(reversed, proof.b) \o <<Mul(proof.a, proof.b)>>)
         = Msm(proof.left \o <<p>> \o proof.right,
               Product(x, x) \o <<1>> \o Product(x_inverse, x_inverse))
-----------------------------------------------------------------------------
(***************************************************************************)
(* The range proof.                                                        *)
(***************************************************************************)
Powers(n, base) ==
  LET power[i \in 1..n] == IF i = 1 THEN 1 ELSE Mul(power[i - 1], base) IN Vec(power)

\* z^2, z^3, ...: what weighs the statement's commitments.
ZPowers(m, z) == Scaled(Powers(m, z), Mul(z, z))

BitVector(v) == Vec([i \in 1..RangeBits |-> (v \div 2^(i - 1)) % 2])

\* One entry per block and bit: z^(block + 2) * 2^bit.
BlockWeights(m, z) ==
  FlattenSeq([j \in 1..m |-> Scaled(Powers(RangeBits, 2), ZPowers(m, z)[j])])

VectorCommitment(left, right, blinding) ==
  LET n == Len(left) IN
  Msm(SubSeq(VecG, 1, n) \o SubSeq(VecH, 1, n) \o <<H>>, left \o right \o <<blinding>>)

BulletProve(context, commitments, w, coins, tape) ==
  LET m == Len(commitments)
      n == RangeBits * m
      a_left  == FlattenSeq([j \in 1..m |-> BitVector(w.values[j])])
      a_right == Vec([i \in 1..n |-> Sub(a_left[i], 1)])
      s_left  == SubSeq(coins.s_left, 1, n)
      s_right == SubSeq(coins.s_right, 1, n)
      a  == VectorCommitment(a_left, a_right, coins.alpha)
      s  == VectorCommitment(s_left, s_right, coins.rho)
      after_a == <<context>> \o commitments \o <<a>>
      y  == NonZero(tape[1])
      after_s == Append(after_a, s)
      z  == NonZero(tape[2])
      l0 == Vec([i \in 1..n |-> Sub(a_left[i], z)])
      r0 == Sum(Product(Powers(n, y), Vec([i \in 1..n |-> Add(a_right[i], z)])),
                BlockWeights(m, z))
      r1 == Product(Powers(n, y), s_right)
      t1 == Msm(<<G, H>>, <<coins.tau1, Add(Inner(s_left, r0), Inner(l0, r1))>>)
      t2 == Msm(<<G, H>>, <<coins.tau2, Inner(s_left, r1)>>)
      after_t == after_s \o <<t1, t2>>
      x  == NonZero(tape[3])
      l  == Sum(l0, Scaled(s_left, x))
      r  == Sum(r0, Scaled(r1, x))
      taux == Add(Add(Mul(coins.tau1, x), Mul(coins.tau2, Mul(x, x))),
                  Inner(ZPowers(m, z), w.randomness))
      mu == Add(coins.alpha, Mul(coins.rho, x))
      after_x == Append(after_t, Encoded(x))
      e  == NonZero(tape[4])
      embedded == ProveFromTranscript(n, [a |-> l, b |-> r],
                    after_x \o <<Encoded(taux), Encoded(mu), Encoded(Inner(l, r))>>,
                    Powers(n, InvOf[y]), e, SubSeq(tape, 5, Len(tape)))
  IN  [proof |-> [a |-> a, s |-> s, t1 |-> t1, t2 |-> t2, taux |-> taux, mu |-> mu,
                  t |-> Inner(l, r), inner_product |-> embedded.proof],
       asked |-> Queries(<<after_a, after_s, after_t, after_x>>, tape) @@ embedded.asked]
-----------------------------------------------------------------------------
\* The verifier's half of the constant coefficient of t.
Delta(m, y, z) ==
  Sub(Mul(Sub(z, Mul(z, z)), Inner(Ones(RangeBits * m), Powers(RangeBits * m, y))),
      Mul(Mul(z, Inner(Ones(m), ZPowers(m, z))), Inner(Ones(RangeBits), Powers(RangeBits, 2))))

\* Both equations in one sum, the outer one times a challenge of its own.
BulletVerify(context, commitments, proof, asked, new) ==
  LET m  == Len(commitments)
      n  == RangeBits * m
      ip == proof.inner_product
      after_a == <<context>> \o commitments \o <<proof.a>>
      y  == NonZero(Hash(asked, after_a, new[1]))
      after_s == Append(after_a, proof.s)
      z  == NonZero(Hash(asked, after_s, new[2]))
      after_t == after_s \o <<proof.t1, proof.t2>>
      x  == NonZero(Hash(asked, after_t, new[3]))
      after_x == Append(after_t, Encoded(x))
      e  == NonZero(Hash(asked, after_x, new[4]))
      outer == after_x \o <<Encoded(proof.taux), Encoded(proof.mu), Encoded(proof.t)>>
      rest == SubSeq(new, 5, Len(new))
      ip_x == RoundChallenges(ip, outer, asked, rest)
      ip_x_inverse == BatchInvert(ip_x)
      s    == ComputeS(Product(ip_x, ip_x), ip_x_inverse, n)
      inner == outer \o FlattenSeq([k \in DOMAIN ip.left |-> <<ip.left[k], ip.right[k]>>])
      batch == NonZero(Hash(asked, inner \o <<Encoded(ip.a), Encoded(ip.b)>>,
                            new[Len(new)]))
      rr == Sum(Scaled(Powers(n, y), z), BlockWeights(m, z))
      g_scalars == Vec([i \in 1..n |-> Add(Mul(s[i], ip.a), z)])
      h_scalars == Vec([i \in 1..n |-> Mul(Powers(n, InvOf[y])[i],
                                           Sub(Mul(s[n + 1 - i], ip.b), rr[i]))])
  IN  /\ m > 0 /\ m <= MaxAggregation /\ \E k \in 0..m : 2^k = m
      /\ Len(ip.left) = Rounds(n) /\ Len(ip.right) = Rounds(n)
      /\ Infinity =
           Msm(commitments \o <<H, proof.t1, proof.t2>>
                 \o SubSeq(VecG, 1, n) \o SubSeq(VecH, 1, n)
                 \o <<proof.a, proof.s, U>> \o ip.left \o ip.right \o <<G>>,
               Scaled(ZPowers(m, z), batch)
                 \o <<Add(Mul(batch, Sub(Delta(m, y, z), proof.t)), proof.mu),
                      Mul(batch, x), Mul(batch, Mul(x, x))>>
                 \o g_scalars \o h_scalars
                 \o <<Sub(0, 1), Sub(0, x), Mul(e, Sub(Mul(ip.a, ip.b), proof.t))>>
                 \o Scaled(Product(ip_x, ip_x), Sub(0, 1))
                 \o Scaled(Product(ip_x_inverse, ip_x_inverse), Sub(0, 1))
                 \o <<Mul(batch, Sub(0, proof.taux))>>)
=============================================================================
