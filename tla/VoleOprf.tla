------------------------------- MODULE VoleOprf -------------------------------
(***************************************************************************)
(* The OPRF from VOLE and OKVS, src/source/mpc/oprf/vole_oprf.cpp.  Its    *)
(* sender runs VOLE as party B and ends with a key, its receiver as party  *)
(* A and ends with the value of each of its inputs.  Private-ID runs two   *)
(* OPRFs on one connection, so every definition is told the run.           *)
(*                                                                         *)
(* The OKVS is linear: a vector is a formal sum over GF(2), written as the *)
(* set of its terms, and decoding it at an item under a seed marks each    *)
(* term with both.  VOLE gives the receiver the terms a and c and the      *)
(* sender b = c + delta * a.                                               *)
(***************************************************************************)
EXTENDS Endpoints

Term(vec, run) == [vec |-> vec, run |-> run, delta |-> FALSE]
VecA(run) == {Term("a", run)}
VecC(run) == {Term("c", run)}
DeltaTimes(v) == {[term EXCEPT !.delta = TRUE] : term \in v}
VecB(run) == SymDiff(VecC(run), DeltaTimes(VecA(run)))
OkvsSeed(run) == [seed |-> run]

Decode(seed, item, v) == {[seed |-> seed, item |-> item, term |-> term] : term \in v}

\* Solving the system for zero values without a prng (vole_oprf.cpp 109) leaves
\* every variable at zero, the free ones and so the others.
EncodedZeros == {}

OprfReceiver(run) ==
  Within(run, PartyA(param.small) \o In("oprf", << Snd("okvs_seed"), Snd("correction") >>))
OprfSender(run) ==
  Within(run, PartyB(param.small) \o In("oprf", << Rcv("okvs_seed"), Rcv("correction") >>))

OprfPayload(name) ==
  CASE Tail(name) = <<"oprf", "okvs_seed">> -> OkvsSeed(name[1])
    [] Tail(name) = <<"oprf", "correction">> -> SymDiff(EncodedZeros, VecA(name[1]))
    [] OTHER -> "opaque"

\* What receiver() returns.
OprfValues(run, items) ==
  [i \in DOMAIN items |-> Decode(OkvsSeed(run), items[i], VecC(run))]

\* What sender() returns: B + delta * correction.
OprfKey(p, run) ==
  [okvs_seed   |-> Held(p, <<run, "oprf", "okvs_seed">>),
   encoded_key |-> SymDiff(VecB(run), DeltaTimes(Held(p, <<run, "oprf", "correction">>)))]

Evaluate(key, items) ==
  [i \in DOMAIN items |-> Decode(key.okvs_seed, items[i], key.encoded_key)]
=============================================================================
