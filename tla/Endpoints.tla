------------------------------ MODULE Endpoints ------------------------------
(***************************************************************************)
(* What the protocols of module Sessions share: one call on either side of *)
(* a connection, made with param, that ends in a result.                   *)
(***************************************************************************)
EXTENDS Programs, IndexOrder, SequencesExt

VARIABLES
  param,        \* protocol, the inputs of both sides, and what chance decides
  result        \* per party: << >>, or << what its call returned >>

Held(p, name) == inbox[p][name]
=============================================================================
