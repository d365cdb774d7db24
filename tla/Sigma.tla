-------------------------------- MODULE Sigma --------------------------------
(***************************************************************************)
(* The four sigma protocols of zkp/sigma_protocols, made non-interactive.  *)
(* A prove returns the proof and the oracle's answers it used; a verify    *)
(* puts its transcript together again from the statement and the proof.    *)
(***************************************************************************)
EXTENDS Group

\* Knowledge of w with h = g*w.
DlogProve(context, st, w, a, tape) ==
  LET c == Times(st.g, a)
      e == tape[1]
  IN  [proof |-> [c |-> c, z |-> Add(a, Mul(e, w))],
       asked |-> Queries(<< <<context, st.g, st.h, c>> >>, tape)]

DlogVerify(context, st, proof, asked, new) ==
  LET e == Hash(asked, <<context, st.g, st.h, proof.c>>, new[1])
  IN  Times(st.g, proof.z) = Plus(proof.c, Times(st.h, e))

\* One w with h1 = g1*w and h2 = g2*w.
EqualityProve(context, st, w, a, tape) ==
  LET c1 == Times(st.g1, a)
      c2 == Times(st.g2, a)
      e  == tape[1]
  IN  [proof |-> [c1 |-> c1, c2 |-> c2, z |-> Add(a, Mul(e, w))],
       asked |-> Queries(<< <<context, st.g1, st.h1, st.g2, st.h2, c1, c2>> >>, tape)]

EqualityVerify(context, st, proof, asked, new) ==
  LET e == Hash(asked, <<context, st.g1, st.h1, st.g2, st.h2, proof.c1, proof.c2>>, new[1])
  IN  /\ Times(st.g1, proof.z) = Plus(proof.c1, Times(st.h1, e))
      /\ Times(st.g2, proof.z) = Plus(proof.c2, Times(st.h2, e))

\* The plaintext v and the randomness r of a twisted-ElGamal ciphertext.
KnowledgeProve(context, st, w, a, b, tape) ==
  LET c1 == Times(st.pk, a)
      c2 == Msm(<<G, H>>, <<a, b>>)
      e  == tape[1]
  IN  [proof |-> [c1 |-> c1, c2 |-> c2,
                  z1 |-> Add(a, Mul(e, w.r)), z2 |-> Add(b, Mul(e, w.v))],
       asked |-> Queries(<< <<context, st.pk, st.ct.c1, st.ct.c2, c1, c2>> >>, tape)]

KnowledgeVerify(context, st, proof, asked, new) ==
  LET e == Hash(asked, <<context, st.pk, st.ct.c1, st.ct.c2, proof.c1, proof.c2>>, new[1])
  IN  /\ Times(st.pk, proof.z1) = Plus(proof.c1, Times(st.ct.c1, e))
      /\ Msm(<<G, H>>, <<proof.z1, proof.z2>>) = Plus(proof.c2, Times(st.ct.c2, e))

\* One v and one r for all recipients of a ciphertext.
PlaintextEqualityProve(context, st, w, a, b, tape) ==
  LET vec_c1 == Vec([i \in DOMAIN st.vec_pk |-> Times(st.vec_pk[i], a)])
      c2     == Msm(<<G, H>>, <<a, b>>)
      e      == tape[1]
  IN  [proof |-> [vec_c1 |-> vec_c1, c2 |-> c2,
                  z |-> Add(a, Mul(e, w.r)), t |-> Add(b, Mul(e, w.v))],
       asked |-> Queries(<< <<context>> \o st.vec_pk \o st.ct.vec_c1 \o <<st.ct.c2>>
                              \o vec_c1 \o <<c2>> >>, tape)]

PlaintextEqualityVerify(context, st, proof, asked, new) ==
  LET e == Hash(asked, <<context>> \o st.vec_pk \o st.ct.vec_c1 \o <<st.ct.c2>>
                         \o proof.vec_c1 \o <<proof.c2>>, new[1])
  IN  /\ Len(st.vec_pk) = Len(st.ct.vec_c1) /\ Len(st.vec_pk) = Len(proof.vec_c1)
      /\ \A i \in DOMAIN st.vec_pk :
           Times(st.vec_pk[i], proof.z) = Plus(proof.vec_c1[i], Times(st.ct.vec_c1[i], e))
      /\ Msm(<<G, H>>, <<proof.z, proof.t>>) = Plus(proof.c2, Times(st.ct.c2, e))
=============================================================================
