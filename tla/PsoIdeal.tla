------------------------------- MODULE PsoIdeal -------------------------------
(***************************************************************************)
(* The private set operations mqrpmt_pso offers, as an ideal functionality *)
(* that sees both inputs: each party is handed its output, or its call     *)
(* throws.  Stated over sets; the protocol computes over vectors, one bit  *)
(* per item of the sender.  `stray` are the sender's items that a Bloom    *)
(* filter takes for items of the receiver (none with PlainSet).            *)
(***************************************************************************)
EXTENDS Naturals, FiniteSets, FiniteSetsExt

CONSTANT NoOutput

VARIABLES mode, X, Y, value, stray,   \* inputs: sets, and the value of each item of X
          status, sOutput, rOutput

vars == <<mode, X, Y, value, stray, status, sOutput, rOutput>>

Found == X \cap (Y \cup stray)

SenderResult ==
  IF mode = "CardSum"
  THEN [cardinality |-> Cardinality(Found),
        card_sum |-> MapThenSumSet(LAMBDA e : value[e], Found)]
  ELSE [cardinality |-> 0, card_sum |-> 0]

ReceiverResult ==
  [set_result  |-> CASE mode = "Intersection" -> Found
                     [] mode = "Union" -> Y \cup (X \ Found)
                     [] OTHER -> {},
   cardinality |-> IF mode \in {"Card", "CardSum"} THEN Cardinality(Found) ELSE 0]

Init ==
  /\ status = [p \in {"S", "R"} |-> "running"]
  /\ sOutput = NoOutput /\ rOutput = NoOutput

SenderReturns ==
  /\ status["S"] = "running"
  /\ status' = [status EXCEPT !["S"] = "returned"]
  /\ sOutput' = SenderResult
  /\ UNCHANGED <<mode, X, Y, value, stray, rOutput>>

ReceiverReturns ==
  /\ status["R"] = "running"
  /\ status' = [status EXCEPT !["R"] = "returned"]
  /\ rOutput' = ReceiverResult
  /\ UNCHANGED <<mode, X, Y, value, stray, sOutput>>

Throws(p) ==
  /\ status[p] = "running"
  /\ status' = [status EXCEPT ![p] = "threw"]
  /\ UNCHANGED <<mode, X, Y, value, stray, sOutput, rOutput>>

Next == SenderReturns \/ ReceiverReturns \/ \E p \in {"S", "R"} : Throws(p)

Spec == Init /\ [][Next]_vars
=============================================================================
