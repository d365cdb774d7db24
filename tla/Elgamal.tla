------------------------------- MODULE Elgamal -------------------------------
(***************************************************************************)
(* ElGamal encryption (pke/elgamal.cpp): c1 = g*r, c2 = y*r + m, with g*m  *)
(* for a message of the exponential form.                                  *)
(***************************************************************************)
EXTENDS Group

PublicKey(x) == Times(G, x)

EncryptPoint(y, m, r) == [c1 |-> Times(G, r), c2 |-> Plus(Times(y, r), m)]
Encrypt(y, m, r)      == [c1 |-> Times(G, r), c2 |-> Msm(<<y, G>>, <<r, m>>)]
EncryptMany(ys, m, r) ==
  [c1 |-> Times(G, r),
   vec_c2 |-> Vec([i \in DOMAIN ys |-> Plus(Times(ys[i], r), Times(G, m))])]

DecryptRaw(x, ct)       == Minus(ct.c2, Times(ct.c1, x))
DecryptMany(x, ct, i)   == Minus(ct.vec_c2[i], Times(ct.c1, x))

HomoAdd(a, b) == [c1 |-> Plus(a.c1, b.c1), c2 |-> Plus(a.c2, b.c2)]
HomoSub(a, b) == [c1 |-> Minus(a.c1, b.c1), c2 |-> Minus(a.c2, b.c2)]
HomoMul(a, k) == [c1 |-> Times(a.c1, k), c2 |-> Times(a.c2, k)]

ReEnc(y, x, ct, r) == EncryptPoint(y, DecryptRaw(x, ct), r)

\* Seeded fault: the halves of the added encryption of zero are swapped.
ReRand_Swapped(y, ct, r) ==
  [c1 |-> Plus(ct.c1, Times(y, r)), c2 |-> Plus(ct.c2, Times(G, r))]

ReRand(y, ct, r) == [c1 |-> Plus(ct.c1, Times(G, r)), c2 |-> Plus(ct.c2, Times(y, r))]
=============================================================================
