------------------------------ MODULE MqrpmtPso ------------------------------
(***************************************************************************)
(* The mqRPMT-based private set operations of                              *)
(* src/source/mpc/pso/mqrpmt_pso.cpp, with the two protocols they run:     *)
(* cwprf_mqrpmt (the PSO sender is its client, the PSO receiver its        *)
(* server) and the ALSZ OT extension on top of Naor-Pinkas OT (the PSO     *)
(* sender is the OT sender).                                               *)
(*                                                                         *)
(* Group elements are those of CwPrf.                                      *)
(***************************************************************************)
EXTENDS Programs, CwPrf, SequencesExt

CONSTANTS
  Items,             \* the universe of blocks
  SenderInputs,      \* candidate input vectors vec_x ...
  ReceiverInputs,    \* ... and vec_y, each without repetition
  LogSumBound,       \* the Card-Sum ring is Z / 2^log_sum_bound
  Values             \* the values a sender may attach to its items

ASSUME InputAssumption ==
  /\ SenderInputs \cup ReceiverInputs \subseteq Seq(Items)
  /\ \A s \in SenderInputs \cup ReceiverInputs : IsInjective(s)

Modulus == 2^LogSumBound
Ring    == 0..Modulus-1

\* setup(): log_sum_bound >= log_sender_len + log_value_bound, where every
\* value is below 2^log_value_bound.  (That the modulus is a positive number
\* is said for the provers, which know nothing of powers.)
ASSUME SumBoundAssumption ==
  /\ LogSumBound \in Nat /\ Modulus \in Nat \ {0} /\ Values \subseteq Ring
  /\ \A s \in SenderInputs, v \in Values : Len(s) * (v + 1) <= Modulus

Modes == {"Intersection", "Union", "Card", "CardSum"}

VARIABLES
  param,       \* what the two calls are made with, and their random choices
  sOutput, rOutput

vars == <<session, param, sOutput, rOutput>>

NoOutput == [none |-> TRUE]

\* param.stray: the items of x the client's Bloom filter accepts by mistake.
X == param.x
Y == param.y
Rows == 1..Len(X)
-----------------------------------------------------------------------------
(***************************************************************************)
(* What the parties compute.                                               *)
(***************************************************************************)
\* The client's filter over F_k2k1(y): the points inserted, and the points of
\* the sender's stray items, which it contains by accident.
Filter(points) ==
  [inserted |-> ToSet(points),
   accident |-> {[item |-> e, keys |-> {"k1", "k2"}] : e \in param.stray}]

\* vec_indication_bit, one bit per item of the client.
IndicationBits ==
  [i \in Rows |->
     LET point == Raise(inbox["R"]["vec_fk2_x"][i], "k1") IN
     IF param.membership = "BloomFilter"
     THEN LET f == inbox["R"]["filter"] IN
          IF point \in f.inserted \cup f.accident THEN 1 ELSE 0
     ELSE IF point \in inbox["R"]["vec_fk2k1_y"] THEN 1 ELSE 0]

\* The OT receiver's selection bits: flipped for a union.
SelectionBits ==
  [i \in Rows |-> IF param.mode = "Union" THEN 1 - IndicationBits[i] ELSE IndicationBits[i]]

\* A row of onesided_receiver. vec_result holds the keys of the rows, and the
\* messages of those with selection bit 1 take its places from the front.
Compact(s, i) ==
  IF SelectionBits[i] # 1 THEN s
  ELSE [selected_num |-> s.selected_num + 1,
        vec_result |-> [s.vec_result EXCEPT ![s.selected_num + 1] =
          [key |-> << >>, m |-> Decrypt(s.vec_result[i].key, inbox["R"]["vec_outer_c"][i])]]]

Uncompacted ==
  [selected_num |-> 0, vec_result |-> [i \in Rows |-> [key |-> <<i, SelectionBits[i]>>, m |-> "garbage"]]]

\* Seeded fault: the last row is first, and the messages overtake the keys.
OnesidedResult_Overtaking ==
  LET end == FoldRight(LAMBDA i, s : Compact(s, i), [i \in Rows |-> i], Uncompacted)
  IN  [k \in 1..end.selected_num |-> end.vec_result[k].m]

\* onesided_receiver, row by row; resize leaves the messages.
OnesidedResult ==
  LET end == FoldLeft(Compact, Uncompacted, [i \in Rows |-> i])
  IN  [k \in 1..end.selected_num |-> end.vec_result[k].m]

OtResult ==
  OtReceive(SelectionBits, inbox["R"]["vec_outer_c0"], inbox["R"]["vec_outer_c1"])

SumMod(s) == FoldSeq(LAMBDA a, b : (a + b) % Modulus, 0, s)
CountBits == FoldSeq(LAMBDA a, b : a + b, 0, IndicationBits)

\* Seeded fault: the client forwards the server's points unraised.
Payload_Unraised(p, name) ==
  CASE name = "vec_fk1_y" -> [i \in DOMAIN Y |-> Raise(Hash(Y[i]), "k1")]
    [] name = "vec_fk2_x" -> [i \in DOMAIN X |-> Raise(Hash(X[i]), "k2")]
    [] name = "filter" -> Filter(inbox["S"]["vec_fk1_y"])
    [] name = "vec_fk2k1_y" -> ToSet(inbox["S"]["vec_fk1_y"])
    [] OTHER -> "opaque"

\* What each send carries.
Payload(p, name) ==
  CASE name = "vec_fk1_y" -> [i \in DOMAIN Y |-> Raise(Hash(Y[i]), "k1")]
    [] name = "vec_fk2_x" -> [i \in DOMAIN X |-> Raise(Hash(X[i]), "k2")]
    [] name = "filter" ->
         Filter([j \in DOMAIN Y |-> Raise(inbox["S"]["vec_fk1_y"][j], "k2")])
    [] name = "vec_fk2k1_y" ->        \* shuffled: all its order told is gone
         {Raise(inbox["S"]["vec_fk1_y"][j], "k2") : j \in DOMAIN Y}
    [] name = "vec_outer_c" -> [i \in Rows |-> Encrypt(i, 1, X[i])]
    [] name = "vec_outer_c0" -> [i \in Rows |-> Encrypt(i, 0, param.r[i])]
    [] name = "vec_outer_c1" ->
         [i \in Rows |-> Encrypt(i, 1, (param.v[i] + param.r[i]) % Modulus)]
    [] name = "cardinality" -> CountBits
    [] name = "masked_sum" -> SumMod(OtResult)
    [] OTHER -> "opaque"

\* Seeded fault: the sender reports the masked sum.
SenderOutput_Masked ==
  IF param.mode = "CardSum"
  THEN [cardinality |-> inbox["S"]["cardinality"],
        card_sum |-> inbox["S"]["masked_sum"]]
  ELSE [cardinality |-> 0, card_sum |-> 0]

SenderOutput ==
  IF param.mode = "CardSum"
  THEN [cardinality |-> inbox["S"]["cardinality"],
        card_sum |-> (inbox["S"]["masked_sum"] + Modulus - SumMod(param.r)) % Modulus]
  ELSE [cardinality |-> 0, card_sum |-> 0]

ReceiverOutput ==
  [set_result |-> CASE param.mode = "Intersection" -> OnesidedResult
                    [] param.mode = "Union" -> Y \o OnesidedResult
                    [] OTHER -> << >>,
   cardinality |-> IF param.mode \in {"Card", "CardSum"} THEN CountBits ELSE 0]
-----------------------------------------------------------------------------
\* Values and masks matter to Card-Sum only, stray items to Bloom filters only.
Params ==
  {q \in [mode : Modes, membership : {"BloomFilter", "PlainSet"},
          x : SenderInputs, y : ReceiverInputs, stray : SUBSET Items,
          v : UNION {[1..Len(s) -> Values] : s \in SenderInputs},
          r : UNION {[1..Len(s) -> Ring] : s \in SenderInputs}] :
     /\ q.stray \subseteq ToSet(q.x) \ ToSet(q.y)
     /\ q.membership = "PlainSet" => q.stray = {}
     /\ Len(q.v) = Len(q.x) /\ Len(q.r) = Len(q.x)
     /\ q.mode # "CardSum" => \A i \in DOMAIN q.x : q.r[i] = 0 /\ q.v[i] = q.v[1]}

Init ==
  /\ param \in Params
  /\ Start(PsoSender(param.mode, param.membership),
           PsoReceiver(param.mode, param.membership))
  /\ sOutput = NoOutput
  /\ rOutput = NoOutput

Step(p) ==
  /\ \/ AtCall(p, "send") /\ Send(p, Payload(p, NextName(p)))
     \/ Recv(p)
  /\ UNCHANGED <<param, sOutput, rOutput>>

SenderReturns ==
  /\ Return("S")
  /\ sOutput' = SenderOutput
  /\ UNCHANGED <<param, rOutput>>

ReceiverReturns ==
  /\ Return("R")
  /\ rOutput' = ReceiverOutput
  /\ UNCHANGED <<param, sOutput>>

Throws(p) ==
  /\ PeerClosed(p)
  /\ UNCHANGED <<param, sOutput, rOutput>>

Breaks(p) ==
  /\ NetworkBreaks(p)
  /\ UNCHANGED <<param, sOutput, rOutput>>

Finished == Ended /\ UNCHANGED vars

Progress == (\E p \in Party : Step(p) \/ Throws(p)) \/ SenderReturns \/ ReceiverReturns
Next == Progress \/ (\E p \in Party : Breaks(p)) \/ Finished

\* Each process runs until its call is over; the network need not break.
Spec == Init /\ [][Next]_vars /\ WF_vars(Progress)
-----------------------------------------------------------------------------
\* A set result is a list without repetition that keeps the order of the
\* inputs: the receiver's vector first (union), then the sender's items.
OrderedResult ==
  status["R"] = "returned" =>
    LET s == rOutput.set_result
        source == IF param.mode = "Union" THEN Y \o X ELSE X
    IN  /\ IsInjective(s)
        /\ \E f \in [DOMAIN s -> DOMAIN source] :
             \A i, j \in DOMAIN s : s[i] = source[f[i]] /\ (i < j => f[i] < f[j])

\* An item's point leaves a party only under that party's key
\* (cwprf_mqrpmt.cpp 133, 291, 308): neither peer nor network ever sees the
\* point of an item of the other party bare.
Points(m) ==
  CASE m.name \in {"vec_fk1_y", "vec_fk2_x"} -> ToSet(m.data)
    [] m.name = "vec_fk2k1_y" -> m.data
    [] m.name = "filter" -> m.data.inserted
    [] OTHER -> {}
OwnKeyOnWire ==
  \A p \in Party : \A m \in ToSet(wire[p]) : \A point \in Points(m) :
    (IF p = "S" THEN "k2" ELSE "k1") \in point.keys

ItemValue == [e \in ToSet(X) |-> param.v[CHOOSE i \in Rows : X[i] = e]]

Ideal == INSTANCE PsoIdeal WITH
  mode <- param.mode, X <- ToSet(X), Y <- ToSet(Y), value <- ItemValue,
  stray <- param.stray,
  status <- [p \in Party |-> IF status[p] = "broke" THEN "threw" ELSE status[p]],
  rOutput <- IF rOutput = NoOutput THEN NoOutput
             ELSE [rOutput EXCEPT !.set_result = ToSet(@)]

\* What the two parties output is what the ideal functionality computes from
\* both inputs: the exact intersection, union, cardinality and sum but for
\* the Bloom filter's stray items; the sum never wraps around the ring.
IdealSpec == Ideal!Spec
=============================================================================
