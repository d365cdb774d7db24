------------------------------ MODULE RangeProof ------------------------------
(***************************************************************************)
(* Interval proofs for the plaintext of a twisted-ElGamal ciphertext       *)
(* (zkp/range_proofs/twisted_elgamal_range_proof.cpp), from the plaintext  *)
(* and its randomness or from the decryption key.                          *)
(***************************************************************************)
EXTENDS BulletProof, Sigma, TwistedElgamal

ValidInterval(interval) ==
  0 <= interval.lower /\ interval.lower < interval.upper /\ interval.upper <= MsgSize

\* Seeded fault: the second commitment is not shifted.
ShiftedCommitments_Lower(ct, interval) ==
  << Minus(ct.c2, Times(H, interval.lower)), ct.c2 >>

\* m in [lower, upper) as two values of RangeBits bits.
ShiftedCommitments(ct, interval) ==
  << Minus(ct.c2, Times(H, interval.lower)),
     Plus(ct.c2, Times(H, MsgSize - interval.upper)) >>

ShiftedWitness(interval, m, r) ==
  [randomness |-> <<r, r>>,
   values |-> <<Sub(m, interval.lower), Add(m, MsgSize - interval.upper)>>]

\* The oracle's answers: one for each sigma protocol, then the range proof's.
KnowledgeTape(tape) == SubSeq(tape, 1, 1)
LinkTape(tape)      == SubSeq(tape, 2, 2)
RangeTape(tape)     == SubSeq(tape, 3, Len(tape))

PlaintextProof(knowledge, range) ==
  [proof |-> [plaintext_knowledge |-> knowledge.proof, range |-> range.proof],
   asked |-> knowledge.asked @@ range.asked]

ProveWithPlaintext(context, y, ct, interval, m, r, coins, tape) ==
  PlaintextProof(
    KnowledgeProve(context, [pk |-> y, ct |-> ct], [v |-> m, r |-> r],
                   coins.a, coins.b, KnowledgeTape(tape)),
    BulletProve(context, ShiftedCommitments(ct, interval),
                ShiftedWitness(interval, m, r), coins, RangeTape(tape)))

VerifyPlaintext(context, y, ct, interval, proof, asked, new) ==
  /\ KnowledgeVerify(context, [pk |-> y, ct |-> ct], proof.plaintext_knowledge,
                     asked, KnowledgeTape(new))
  /\ BulletVerify(context, ShiftedCommitments(ct, interval), proof.range,
                  asked, RangeTape(new))

\* That a refreshed ciphertext holds the same plaintext: the difference of the
\* two is an encryption of zero.
LinkStatement(y, ct, refreshed) ==
  [g1 |-> G, h1 |-> y, g2 |-> Minus(refreshed.c2, ct.c2), h2 |-> Minus(refreshed.c1, ct.c1)]

SecretKeyProof(refreshed, link, inner) ==
  [proof |-> [refreshed_ciphertext |-> refreshed, rerandomization |-> link.proof] @@ inner.proof,
   asked |-> link.asked @@ inner.asked]

ProveWithSecretKey(context, y, ct, interval, x, m, coins, tape) ==
  LET refreshed == Encrypt(y, m, coins.r) IN
  SecretKeyProof(
    refreshed,
    EqualityProve(context, LinkStatement(y, ct, refreshed), x, coins.w, LinkTape(tape)),
    ProveWithPlaintext(context, y, refreshed, interval, m, coins.r, coins, tape))

VerifySecretKey(context, y, ct, interval, proof, asked, new) ==
  LET refreshed == proof.refreshed_ciphertext IN
  /\ EqualityVerify(context, LinkStatement(y, ct, refreshed), proof.rerandomization,
                    asked, LinkTape(new))
  /\ KnowledgeVerify(context, [pk |-> y, ct |-> refreshed], proof.plaintext_knowledge,
                     asked, KnowledgeTape(new))
  /\ BulletVerify(context, ShiftedCommitments(refreshed, interval), proof.range,
                  asked, RangeTape(new))
=============================================================================
