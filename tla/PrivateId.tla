------------------------------ MODULE PrivateId ------------------------------
(***************************************************************************)
(* Private-ID, src/source/mpc/pso/mqrpmt_private_id.cpp: the ID of an item *)
(* is the sum of its values under two OPRFs that run in opposite           *)
(* directions; the receiver learns the union of both parties' IDs from the *)
(* mqRPMT union, hands it back, and both know the same IDs.                *)
(***************************************************************************)
EXTENDS VoleOprf

\* Seeded fault: the sender is the receiver of the first OPRF too.
IdSender_SameRole ==
  OprfReceiver("first") \o OprfSender("second")
    \o In("psu", PsoSender("Union", param.membership))
    \o In("ids", << Rcv("union_id_size"), Rcv("union_id") >>)

IdSender ==
  OprfSender("first") \o OprfReceiver("second")
    \o In("psu", PsoSender("Union", param.membership))
    \o In("ids", << Rcv("union_id_size"), Rcv("union_id") >>)

IdReceiver ==
  OprfReceiver("first") \o OprfSender("second")
    \o In("psu", PsoReceiver("Union", param.membership))
    \o In("ids", << Snd("union_id_size"), Snd("union_id") >>)

SumUp(s, t) == [i \in DOMAIN s |-> SymDiff(s[i], t[i])]

\* Seeded fault: the first key is used twice.
SenderId_OneKey ==
  LET key == OprfKey("S", "first") IN SumUp(Evaluate(key, param.x), Evaluate(key, param.x))

SenderId   == SumUp(Evaluate(OprfKey("S", "first"), param.x), OprfValues("second", param.x))
ReceiverId == SumUp(OprfValues("first", param.y), Evaluate(OprfKey("R", "second"), param.y))

\* What PsoIdeal says of the union: the receiver's own IDs and, in the sender's
\* order, those the receiver does not have, but for the stray ones, which the
\* Bloom filter takes for the receiver's.
Union ==
  LET sent == Held("R", <<"psu", "vec_outer_c">>)
      new  == Ascending({i \in DOMAIN sent : sent[i] \notin ToSet(ReceiverId) /\ param.x[i] \notin param.stray})
  IN  ReceiverId \o [k \in DOMAIN new |-> sent[new[k]]]

\* The union leaves in a random order: in either of two here.
UnionId == IF param.reversed THEN Reverse(Union) ELSE Union

IdPayload(name) ==
  CASE name[1] \in {"first", "second"} -> OprfPayload(name)
    [] name = <<"psu", "vec_outer_c">> -> SenderId
    [] name = <<"ids", "union_id">> -> UnionId
    [] OTHER -> "opaque"

SenderOutput   == [id |-> SenderId, union_id |-> Held("S", <<"ids", "union_id">>)]
ReceiverOutput == [id |-> ReceiverId, union_id |-> UnionId]
=============================================================================
