----------------------------- MODULE Confidential -----------------------------
(***************************************************************************)
(* An encrypted value from its encryption through homomorphic operations   *)
(* and re-encryptions to the proofs about it: the ciphertexts of both      *)
(* encryption schemes, for one recipient or several, and the sigma,        *)
(* inner-product, range and interval proofs, made by one process and       *)
(* verified by another.  The processes share the oracle and nothing else.  *)
(***************************************************************************)
EXTENDS RangeProof

CONSTANTS
  SecretKeys,       \* secret keys; the second recipient's are one larger
  Messages, Coins,  \* plaintexts and randomness of fresh ciphertexts
  Factors,          \* what homo_mul multiplies by
  MaxSteps,         \* operations on one ciphertext
  Claims,           \* what is proved about a value: see Statement
  Masks,            \* what a proof draws
  Tapes,            \* the oracle's answers to the prover, in order
  NewAnswers        \* and to transcripts that the prover did not ask about

ASSUME KeyAssumption == \A x \in SecretKeys : x \in 1..(Q - 2)
ASSUME DrawnAssumption ==
  /\ Messages \cup Coins \cup Factors \subseteq Scalars
  /\ NewAnswers \in Seq(Scalars) /\ Tapes \subseteq Seq(Scalars)

Standard == INSTANCE Elgamal

VARIABLES
  scheme,     \* standard or twisted ElGamal
  sk,         \* the recipient's secret key
  ct,         \* the ciphertext
  m, r,       \* the plaintext and the randomness it should have
  steps,      \* operations so far
  claim,      \* the claim, the proof and the answers of a prover
  verdict     \* what verify made of it: none, threw, accepted, rejected

valueVars == <<scheme, sk, ct, m, r, steps, claim, verdict>>

pk     == PublicKey(sk)
many   == <<PublicKey(sk), PublicKey(sk + 1)>>
NoClaim   == [kind |-> "none"]
NoVerdict == [kind |-> "none"]

Fresh(message, coin) ==
  IF scheme = "twisted" THEN Encrypt(pk, message, coin) ELSE Standard!Encrypt(pk, message, coin)

ValueInit ==
  /\ scheme \in {"standard", "twisted"} /\ sk \in SecretKeys
  /\ m \in Messages /\ r \in Coins
  /\ ct = Fresh(m, r)
  /\ steps = 0 /\ claim = NoClaim /\ verdict = NoVerdict

Becomes(ciphertext, message, coin) ==
  /\ claim = NoClaim /\ steps < MaxSteps
  /\ ct' = ciphertext /\ m' = message /\ r' = coin /\ steps' = steps + 1
  /\ UNCHANGED <<scheme, sk, claim, verdict>>

Addition(message, coin) ==
  Becomes(IF scheme = "twisted" THEN HomoAdd(ct, Fresh(message, coin))
                                ELSE Standard!HomoAdd(ct, Fresh(message, coin)),
          Add(m, message), Add(r, coin))

Subtraction(message, coin) ==
  Becomes(IF scheme = "twisted" THEN HomoSub(ct, Fresh(message, coin))
                                ELSE Standard!HomoSub(ct, Fresh(message, coin)),
          Sub(m, message), Sub(r, coin))

Multiplication(k) ==
  Becomes(IF scheme = "twisted" THEN HomoMul(ct, k) ELSE Standard!HomoMul(ct, k),
          Mul(m, k), Mul(r, k))

ReEncryption(coin) ==
  Becomes(IF scheme = "twisted" THEN ReEnc(pk, sk, ct, coin) ELSE Standard!ReEnc(pk, sk, ct, coin),
          m, coin)

ReRandomization(coin) ==
  Becomes(IF scheme = "twisted" THEN ReRand(pk, ct, coin) ELSE Standard!ReRand(pk, ct, coin),
          m, Add(r, coin))
-----------------------------------------------------------------------------
\* A claim of kind "dlog", "equality", "many" or "inner" is made with a witness
\* or a statement that is off by c.off; "range" is about the plaintext and
\* c.beside more values, "plaintext" and "key" about an interval.
Values(c)   == <<m>> \o c.beside
Blindings(c) == Vec([j \in 1..Len(Values(c)) |-> Add(r, j - 1)])
Commitments(c) ==
  Vec([j \in 1..Len(Values(c)) |-> Msm(<<G, H>>, <<Blindings(c)[j], Values(c)[j]>>)])

InnerA == Vec([i \in 1..VectorLength |-> Add(m, i)])
InnerB == Vec([i \in 1..VectorLength |-> Add(r, i * i)])
InnerP(off) ==
  Msm(VecG \o VecH \o <<U>>, InnerA \o InnerB \o <<Add(Inner(InnerA, InnerB), off)>>)

DlogStatement     == [g |-> H, h |-> Times(H, m)]
EqualityStatement == [g1 |-> G, h1 |-> pk, g2 |-> Minus(ct.c2, Times(H, m)), h2 |-> ct.c1]
ManyStatement     == [vec_pk |-> many, ct |-> EncryptMany(many, m, r)]

\* prove(...) throws, by an assertion or because no plaintext is found.
ProveThrows(c) ==
  \/ c.kind \in {"plaintext", "key"} /\ ~ValidInterval(c.interval)
  \/ c.kind = "key" /\ DecryptExp(sk, ct) = {}

ProofOf(c, context, mask, tape) ==
  CASE c.kind = "dlog"      -> DlogProve(context, DlogStatement, Add(m, c.off), mask.w, tape)
    [] c.kind = "equality"  -> EqualityProve(context, EqualityStatement, Add(sk, c.off), mask.w, tape)
    [] c.kind = "many"      -> PlaintextEqualityProve(context, ManyStatement,
                                 [r |-> r, v |-> Add(m, c.off)], mask.a, mask.b, tape)
    [] c.kind = "inner"     -> ProveInner(context, VectorLength, InnerP(c.off),
                                 [a |-> InnerA, b |-> InnerB], tape)
    [] c.kind = "range"     -> BulletProve(context, Commitments(c),
                                 [randomness |-> Blindings(c), values |-> Values(c)], mask, tape)
    [] c.kind = "plaintext" -> ProveWithPlaintext(context, pk, ct, c.interval, m, r, mask, tape)
    [] c.kind = "key"       -> ProveWithSecretKey(context, pk, ct, c.interval, sk,
                                 CHOOSE v \in DecryptExp(sk, ct) : TRUE, mask, tape)

Accepts(c, context, proof, asked, new) ==
  CASE c.kind = "dlog"      -> DlogVerify(context, DlogStatement, proof, asked, new)
    [] c.kind = "equality"  -> EqualityVerify(context, EqualityStatement, proof, asked, new)
    [] c.kind = "many"      -> PlaintextEqualityVerify(context, ManyStatement, proof, asked, new)
    [] c.kind = "inner"     -> VerifyInner(context, VectorLength, InnerP(c.off), proof, asked, new)
    [] c.kind = "range"     -> BulletVerify(context, Commitments(c), proof, asked, new)
    [] c.kind = "plaintext" -> VerifyPlaintext(context, pk, ct, c.interval, proof, asked, new)
    [] c.kind = "key"       -> VerifySecretKey(context, pk, ct, c.interval, proof, asked, new)

Context == <<1>>
OtherContext == <<2>>

Prove(c, mask, tape) ==
  /\ scheme = "twisted" /\ claim = NoClaim
  /\ c.kind = "equality" => r # 0
  /\ IF ProveThrows(c)
     THEN verdict' = [kind |-> "threw"] /\ claim' = [kind |-> "thrown", about |-> c]
     ELSE /\ claim' = [kind |-> "made", about |-> c] @@ ProofOf(c, Context, mask, tape)
          /\ UNCHANGED verdict
  /\ UNCHANGED <<scheme, sk, ct, m, r, steps>>

\* The verifier may read the proof as one of another claim, or in another
\* context.
Verify(c, context) ==
  /\ claim.kind = "made" /\ verdict = NoVerdict
  /\ c.kind = claim.about.kind
  /\ c # claim.about => context = Context
  /\ c.kind \in {"plaintext", "key"} => ValidInterval(c.interval)
  /\ verdict' = [kind |-> "done", context |-> context, about |-> c,
                 accepted |-> Accepts(c, context, claim.proof, claim.asked, NewAnswers)]
  /\ UNCHANGED <<scheme, sk, ct, m, r, steps, claim>>

ValueNext ==
  \/ \E message \in Messages, coin \in Coins :
       Addition(message, coin) \/ Subtraction(message, coin)
  \/ \E k \in Factors : Multiplication(k)
  \/ \E coin \in Coins : ReEncryption(coin) \/ ReRandomization(coin)
  \/ \E c \in Claims, mask \in Masks, tape \in Tapes : Prove(c, mask, tape)
  \/ \E c \in Claims, context \in {Context, OtherContext} : Verify(c, context)

ValueSpec == ValueInit /\ [][ValueNext]_valueVars
-----------------------------------------------------------------------------
\* What the claim says is so.
Holds(c) ==
  CASE c.kind \in {"dlog", "equality", "many", "inner"} -> c.off = 0
    [] c.kind = "range" -> \A j \in DOMAIN Values(c) : Values(c)[j] < 2^RangeBits
    [] c.kind \in {"plaintext", "key"} -> c.interval.lower <= m /\ m < c.interval.upper

\* After any sequence of operations the ciphertext is what encrypting the right
\* plaintext with the right randomness gives, so it decrypts to it and keeps
\* the form the proofs rely on (twisted_elgamal.cpp 62-225, elgamal.cpp 55-214);
\* and either recipient of a common ciphertext decrypts it, at its index only.
EncryptsExactly ==
  LET twisted == scheme = "twisted"
      plain   == IF twisted THEN Times(H, m) ELSE Times(G, m)
      keys    == <<sk, sk + 1>>
      At(i, j) == IF twisted THEN DecryptMany(keys[i], EncryptMany(many, m, r), j)
                             ELSE Standard!DecryptMany(keys[i], Standard!EncryptMany(many, m, r), j)
  IN  /\ ct = Fresh(m, r)
      /\ plain = IF twisted THEN DecryptRaw(sk, ct) ELSE Standard!DecryptRaw(sk, ct)
      /\ \A i, j \in 1..2 : At(i, j) = plain <=> i = j \/ r = 0

\* A verifier that puts the transcripts and equations together for itself
\* accepts every proof of a claim that holds, whatever was drawn and whatever
\* the oracle answers, and no proof that was made in the same way for a claim
\* that does not hold.
ProofsExact ==
  verdict.kind = "done" /\ verdict.about = claim.about /\ verdict.context = Context =>
    (verdict.accepted <=> Holds(claim.about))

\* A proof of what holds is none in another context, nor one of another interval or of other
\* commitments, although an interval is bound only by the shifted commitments
\* it leads to (twisted_elgamal_range_proof.cpp 90-101).
ProofsBound ==
  verdict.kind = "done" /\ m # 0 /\ Holds(claim.about) =>
    /\ verdict.context # Context => ~verdict.accepted
    /\ verdict.about # claim.about /\ verdict.about.kind \in {"inner", "range", "plaintext", "key"} =>
         ~verdict.accepted

\* A key's owner can prove an interval of any ciphertext it can decrypt, and
\* proving throws for no other reason than a bad interval or a plaintext that
\* is out of the message space.
ThrowsOnlyWhen ==
  verdict.kind = "threw" => ~ValidInterval(claim.about.interval) \/ m >= MsgSize
=============================================================================
