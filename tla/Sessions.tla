------------------------------- MODULE Sessions -------------------------------
(***************************************************************************)
(* One call of a two-party protocol on either side of a connection: VOLE,  *)
(* the cwPRF PSI, the OPRFs from VOLE and from OT, or Private-ID.          *)
(***************************************************************************)
EXTENDS Vole, CwprfPsi, OteOprf, PrivateId

CONSTANTS
  Items,
  SenderInputs, ReceiverInputs,   \* candidates for the two parties' vectors
  PrefixMaps                      \* what the points of items truncate to

ASSUME InputAssumption ==
  /\ \A s \in SenderInputs \cup ReceiverInputs : s \in Seq(Items) /\ IsInjective(s)
  /\ \A prefix \in PrefixMaps : DOMAIN prefix = Items

\* A location is masked to the height of the matrix (ote_oprf.cpp 345, 377).
ASSUME PlaceAssumption == \A item \in Items, c \in Columns : Location(item, c) \in Positions

vars == <<session, param, result>>

PsiParams ==
  [protocol : {"psi"}, x : ReceiverInputs, y : SenderInputs,
   mode : {"Truncate", "PlainSet"}, prefix : PrefixMaps]
VoleOprfParams ==
  [protocol : {"vole_oprf"}, x : ReceiverInputs, small : BOOLEAN]
OteOprfParams ==
  [protocol : {"ote_oprf"}, x : ReceiverInputs, selection : [Columns -> {0, 1}]]

\* In Private-ID it is the sender that holds x.
IdParams ==
  {q \in [protocol : {"private_id"}, x : SenderInputs, y : ReceiverInputs, small : BOOLEAN,
          membership : {"BloomFilter", "PlainSet"}, stray : SUBSET Items, reversed : BOOLEAN] :
     /\ q.stray \subseteq ToSet(q.x) \ ToSet(q.y)
     /\ q.membership = "PlainSet" => q.stray = {}}

Program(p) ==
  LET sender == p = "S" IN
  CASE param.protocol = "vole"       -> IF sender THEN PartyA(IsSmall) ELSE PartyB(IsSmall)
    [] param.protocol = "psi"        -> IF sender THEN PsiSender ELSE PsiReceiver
    [] param.protocol = "vole_oprf"  -> IF sender THEN OprfSender("oprf") ELSE OprfReceiver("oprf")
    [] param.protocol = "ote_oprf"   -> IF sender THEN OteSender ELSE OteReceiver
    [] param.protocol = "private_id" -> IF sender THEN IdSender ELSE IdReceiver

Payload(name) ==
  CASE param.protocol = "vole"       -> VolePayload(name)
    [] param.protocol = "psi"        -> PsiPayload(name)
    [] param.protocol = "vole_oprf"  -> OprfPayload(name)
    [] param.protocol = "ote_oprf"   -> OtePayload(name)
    [] param.protocol = "private_id" -> IdPayload(name)

\* What VOLE returns, OutputA and OutputB, is read off the inbox when needed.
Output(p) ==
  LET sender == p = "S" IN
  CASE param.protocol = "vole"       -> << >>
    [] param.protocol = "psi"        -> IF sender THEN << >> ELSE VecIntersection
    [] param.protocol = "vole_oprf"  -> IF sender THEN OprfKey("S", "oprf")
                                                  ELSE OprfValues("oprf", param.x)
    [] param.protocol = "ote_oprf"   -> IF sender THEN OteKey ELSE OteValues
    [] param.protocol = "private_id" -> IF sender THEN SenderOutput ELSE ReceiverOutput
-----------------------------------------------------------------------------
Init ==
  /\ \/ param \in VoleParams
     \/ param \in PsiParams
     \/ param \in VoleOprfParams
     \/ param \in OteOprfParams
     \/ param \in IdParams
  /\ Start(Program("S"), Program("R"))
  /\ result = [p \in Party |-> << >>]

Step(p) ==
  /\ \/ AtCall(p, "send") /\ Send(p, Payload(NextName(p)))
     \/ Recv(p)
  /\ UNCHANGED <<param, result>>

Returns(p) == Return(p) /\ result' = [result EXCEPT ![p] = <<Output(p)>>] /\ UNCHANGED param
Throws(p)  == PeerClosed(p) /\ UNCHANGED <<param, result>>
Breaks(p)  == NetworkBreaks(p) /\ UNCHANGED <<param, result>>

Finished == Ended /\ UNCHANGED vars

Progress == \E p \in Party : Step(p) \/ Returns(p) \/ Throws(p)
Next == Progress \/ (\E p \in Party : Breaks(p)) \/ Finished

\* Both processes run until their calls are over; the network need not break.
Spec == Init /\ [][Next]_vars /\ WF_vars(Progress)

BothReturned(protocol) ==
  param.protocol = protocol /\ \A p \in Party : status[p] = "returned"
-----------------------------------------------------------------------------
\* What test_vole.cpp checks for two sizes and one delta: b = c + a * delta
\* in every position, for blocks that divide evenly or not, trees of equal
\* or different depth and every choice of punctured positions.
VoleRelation ==
  BothReturned("vole") =>
    LET A == OutputA
        b == OutputB
    IN  /\ Len(A.a) = ItemNum /\ Len(A.c) = ItemNum /\ Len(b) = ItemNum
        /\ \A k \in 1..ItemNum : b[k] = Add(A.c[k], TimesDelta(A.a[k]))

\* A learns no node on the path to its punctured leaf: in the message it
\* chose at each depth (row Offset(i) + d, by the complemented bit of the
\* position) that node is not even a term.
PathNode(i, d) == Tree[i][d][param.index[i] \div Pow2[Depth(i) - d] + 1]
PathHidden ==
  param.protocol = "vole" /\ {<<"extend", "vec_outer_c0">>, <<"extend", "vec_outer_c1">>} \subseteq DOMAIN inbox["S"] =>
    LET m == Received IN
    \A i \in Trees : \A d \in 1..Depth(i) :
      /\ m[Offset(i) + d] \cap PathNode(i, d) = {}
      /\ m[Offset(i) + d] \subseteq UNION ToSet(Tree[i][d])

\* Matches are attributed by position (cwprf_psi.cpp 418-421): the result is
\* the receiver's own items, in its order, that the sender has too, and those
\* whose truncated point is by accident that of a sender's item; a result is
\* returned only when all three messages have been exchanged.
Attribution ==
  param.protocol = "psi" /\ status["R"] = "returned" =>
    LET s    == result["R"][1]
        mine == {i \in DOMAIN VecX :
                   \/ VecX[i] \in ToSet(VecY)
                   \/ /\ param.mode = "Truncate"
                      /\ \E e \in ToSet(VecY) : param.prefix[e] = param.prefix[VecX[i]]}
    IN  \E f \in [DOMAIN s -> mine] :
          /\ \A k \in DOMAIN s : s[k] = VecX[f[k]]
          /\ \A j, k \in DOMAIN s : j < k => f[j] < f[k]
          /\ \A i \in mine : \E k \in DOMAIN s : f[k] = i

\* A point is sent only under the key of the party that sends it.
OwnKeyOnWire ==
  param.protocol = "psi" =>
    \A p \in Party : \A m \in ToSet(wire[p]) : \A point \in ToSet(m.data) :
      (IF p = "S" THEN "k1" ELSE "k2") \in point.keys

\* The sender's evaluate, on a key it put together from a message of another
\* run of the same code, agrees with what the receiver got for each of its
\* inputs (test_vole_oprf.cpp and test_ote_oprf.cpp compare one execution),
\* and VOLE-OPRF gives different items different values.
OprfAgrees ==
  /\ BothReturned("vole_oprf") =>
       /\ result["R"][1] = Evaluate(result["S"][1], param.x)
       /\ \A i, j \in DOMAIN param.x : i # j => result["R"][1][i] # result["R"][1][j]
  /\ BothReturned("ote_oprf") => result["R"][1] = OteEvaluate(result["S"][1], param.x)

\* Equal items have equal IDs and different items different ones, although each
\* party gets the two halves of an ID from opposite roles; both parties return
\* the same union, which holds every ID of either, once, but for those that a
\* Bloom filter dropped (mqrpmt_private_id.cpp 105-172).
IdsAgree ==
  BothReturned("private_id") =>
    LET s == result["S"][1]
        r == result["R"][1]
        dropped == {s.id[i] : i \in {k \in DOMAIN s.id : param.x[k] \in param.stray}}
    IN  /\ \A i \in DOMAIN param.x, j \in DOMAIN param.y :
             s.id[i] = r.id[j] <=> param.x[i] = param.y[j]
        /\ IsInjective(s.id) /\ IsInjective(r.id)
        /\ s.union_id = r.union_id /\ IsInjective(s.union_id)
        /\ ToSet(s.union_id) = (ToSet(s.id) \cup ToSet(r.id)) \ dropped
=============================================================================
