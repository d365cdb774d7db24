------------------------------ MODULE MCMqrpmtPso ------------------------------
(* One sender vector (items are interchangeable) and every receiver vector   *)
(* of two items: none, one or both shared, in either order; "d" only next to *)
(* "c", which it is interchangeable with.                                    *)
EXTENDS MqrpmtPso

MCSenderInputs   == {<<"a", "b">>}
MCReceiverInputs ==
  {s \in [1..2 -> Items] : s[1] # s[2] /\ s[1] # "d" /\ (s[2] = "d" => s[1] = "c")}
=============================================================================
