------------------------------- MODULE CwprfPsi -------------------------------
(***************************************************************************)
(* Private set intersection from the cwPRF,                                *)
(* src/source/mpc/pso/cwprf_psi.cpp: the sender ("S") holds vec_y, the     *)
(* receiver ("R") vec_x; the receiver gets its items raised to both keys   *)
(* back in their order and looks each up among the sender's.  Truncate     *)
(* mode compares prefixes of points, which different items may share.      *)
(***************************************************************************)
EXTENDS Endpoints, CwPrf

VecX == param.x
VecY == param.y

\* Seeded fault: the sender sends the result twice.
PsiSender_Twice == << Snd("vec_fk1_y"), Rcv("vec_fk2_x"), Snd("vec_fk1k2_x"), Snd("vec_fk1k2_x") >>

PsiSender == << Snd("vec_fk1_y"), Rcv("vec_fk2_x"), Snd("vec_fk1k2_x") >>

PsiReceiver == << Rcv("vec_fk1_y"), Snd("vec_fk2_x"), Rcv("vec_fk1k2_x") >>

\* Points compare by their prefix, under all keys, or in full.
Truncate(point) == [point EXCEPT !.item = param.prefix[@]]
Comparable(points) ==
  IF param.mode = "Truncate" THEN [i \in DOMAIN points |-> Truncate(points[i])] ELSE points

RaiseAll(points, key) == [i \in DOMAIN points |-> Raise(points[i], key)]
HashAll(items) == [i \in DOMAIN items |-> Hash(items[i])]

\* Seeded fault: the sender hands back the points in another order.
PsiPayload_Shuffled(name) ==
  CASE name = "vec_fk1_y" -> RaiseAll(HashAll(VecY), "k1")
    [] name = "vec_fk2_x" -> RaiseAll(HashAll(VecX), "k2")
    [] name = "vec_fk1k2_x" -> Comparable(Reverse(RaiseAll(Held("S", "vec_fk2_x"), "k1")))

\* Seeded fault: the receiver's points leave it without its key.
PsiPayload_Bare(name) ==
  CASE name = "vec_fk1_y" -> RaiseAll(HashAll(VecY), "k1")
    [] name = "vec_fk2_x" -> HashAll(VecX)
    [] name = "vec_fk1k2_x" -> Comparable(RaiseAll(Held("S", "vec_fk2_x"), "k1"))

PsiPayload(name) ==
  CASE name = "vec_fk1_y" -> RaiseAll(HashAll(VecY), "k1")
    [] name = "vec_fk2_x" -> RaiseAll(HashAll(VecX), "k2")
    [] name = "vec_fk1k2_x" -> Comparable(RaiseAll(Held("S", "vec_fk2_x"), "k1"))

\* The items whose returned point is in the set of the sender's.
VecIntersection ==
  LET set     == ToSet(Comparable(RaiseAll(Held("R", "vec_fk1_y"), "k2")))
      matches == Ascending({i \in DOMAIN VecX : Held("R", "vec_fk1k2_x")[i] \in set})
  IN  [k \in DOMAIN matches |-> VecX[matches[k]]]
=============================================================================
