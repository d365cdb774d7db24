--------------------------------- MODULE CwPrf ---------------------------------
(***************************************************************************)
(* The commutative weak PRF F_k(x) = H(x)^k of the cwPRF protocols, with   *)
(* symbolic group elements: [item, keys] is H(item) raised to a set of     *)
(* keys, so raising commutes and different items never collide.  ECGroup   *)
(* and X25519 behave alike.                                                *)
(***************************************************************************)

Hash(item)        == [item |-> item, keys |-> {}]
Raise(point, key) == [point EXCEPT !.keys = @ \cup {key}]
=============================================================================
