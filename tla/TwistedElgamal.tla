---------------------------- MODULE TwistedElgamal ----------------------------
(***************************************************************************)
(* Twisted ElGamal (pke/twisted_elgamal.cpp): c1 = y*r, c2 = g*r + m, with *)
(* h*m for a message of the exponential form, so that c2 is a Pedersen     *)
(* commitment to the message.                                              *)
(***************************************************************************)
EXTENDS Group

MsgSize == 2^RangeBits

ASSUME MessageAssumption == MsgSize \in Nat

PublicKey(x) == Times(G, x)

EncryptPoint(y, m, r) == [c1 |-> Times(y, r), c2 |-> Plus(Times(G, r), m)]
Encrypt(y, m, r)      == [c1 |-> Times(y, r), c2 |-> Msm(<<G, H>>, <<r, m>>)]
EncryptMany(ys, m, r) ==
  [vec_c1 |-> Vec([i \in DOMAIN ys |-> Times(ys[i], r)]), c2 |-> Msm(<<G, H>>, <<r, m>>)]

DecryptRaw(x, ct)     == Minus(ct.c2, Times(ct.c1, InvOf[x]))
DecryptMany(x, ct, i) == Minus(ct.c2, Times(ct.vec_c1[i], InvOf[x]))

\* Seeded fault: the search starts at one.
DecryptExp_FromOne(x, ct) == {m \in 1..(MsgSize - 1) : DecryptRaw(x, ct) = Times(H, m)}

\* The messages decrypt_exp finds: the solver searches the message space, and
\* decrypt_exp throws when there is none.
DecryptExp(x, ct) == {m \in 0..(MsgSize - 1) : DecryptRaw(x, ct) = Times(H, m)}

HomoAdd(a, b) == [c1 |-> Plus(a.c1, b.c1), c2 |-> Plus(a.c2, b.c2)]
HomoSub(a, b) == [c1 |-> Minus(a.c1, b.c1), c2 |-> Minus(a.c2, b.c2)]
HomoMul(a, k) == [c1 |-> Times(a.c1, k), c2 |-> Times(a.c2, k)]

ReEnc(y, x, ct, r) == EncryptPoint(y, DecryptRaw(x, ct), r)
ReRand(y, ct, r)   == [c1 |-> Plus(ct.c1, Times(y, r)), c2 |-> Plus(ct.c2, Times(G, r))]
=============================================================================
