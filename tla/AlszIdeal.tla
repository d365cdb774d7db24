------------------------------- MODULE AlszIdeal -------------------------------
(***************************************************************************)
(* What the correlated-key phase of the ALSZ OT extension promises its     *)
(* callers: the OT sender (random_sender_impl) and the OT receiver         *)
(* (random_receiver) each leave with all of their keys or with an          *)
(* exception, and a sender that leaves with keys holds, for every tile of  *)
(* rows, keys computed from the receiver's matrix for that same tile.      *)
(***************************************************************************)
EXTENDS Naturals

CONSTANT Offsets      \* the tiles of rows of the extension matrix

VARIABLES
  agreed,     \* tiles for which the two parties' keys match
  sResult,    \* outcome of the OT sender
  rResult     \* outcome of the OT receiver

vars == <<agreed, sResult, rResult>>

Outcome == {"running", "keys", "threw"}

Init ==
  /\ agreed = {}
  /\ sResult = "running"
  /\ rResult = "running"

Extend ==
  /\ sResult = "running"
  /\ \E o \in Offsets \ agreed : agreed' = agreed \cup {o}
  /\ UNCHANGED <<sResult, rResult>>

SenderLeaves ==
  /\ sResult = "running"
  /\ \/ agreed = Offsets /\ sResult' = "keys"
     \/ sResult' = "threw"
  /\ UNCHANGED <<agreed, rResult>>

ReceiverLeaves ==
  /\ rResult = "running"
  /\ rResult' \in {"keys", "threw"}
  /\ UNCHANGED <<agreed, sResult>>

Next == Extend \/ SenderLeaves \/ ReceiverLeaves

Spec == Init /\ [][Next]_vars /\ WF_vars(SenderLeaves) /\ WF_vars(ReceiverLeaves)
=============================================================================
