------------------------------- MODULE Programs -------------------------------
(***************************************************************************)
(* The io calls of the protocols, in the order the code makes them, as     *)
(* programs for the two parties of TwoParty: oblivious transfer, VOLE, the *)
(* cwPRF mqRPMT and the set operations on top of it.                       *)
(***************************************************************************)
EXTENDS TwoParty

(***************************************************************************)
(* Oblivious transfer as the larger protocols use it: Naor-Pinkas OT and   *)
(* the ALSZ extension, and what the calls that carry data deliver. The     *)
(* extension gives the OT sender the keys <<i, 0>> and <<i, 1>> of row i   *)
(* and the OT receiver the key of its bit; how it does so is the subject   *)
(* of AlszWindow, and its key-exchange messages carry no data here.        *)
(***************************************************************************)
NpOtSender   == << Snd("c"), Snd("vec_x"), Rcv("vec_pk0"), Snd("vec_y0"), Snd("vec_y1") >>
NpOtReceiver == << Rcv("c"), Rcv("vec_x"), Snd("vec_pk0"), Rcv("vec_y0"), Rcv("vec_y1") >>

\* The base OT of the extension runs in the opposite direction.
RandomSender   == NpOtReceiver \o << Rcv("matrix_p") >>
RandomReceiver == NpOtSender \o << Snd("matrix_p") >>

OnesidedSender   == RandomSender \o << Snd("vec_outer_c") >>
OnesidedReceiver == RandomReceiver \o << Rcv("vec_outer_c") >>
OtSender   == RandomSender \o << Snd("vec_outer_c0"), Snd("vec_outer_c1") >>
OtReceiver == RandomReceiver \o << Rcv("vec_outer_c0"), Rcv("vec_outer_c1") >>

Encrypt(i, bit, m) == [key |-> <<i, bit>>, m |-> m]
Decrypt(key, c) == IF c.key = key THEN c.m ELSE "garbage"

\* Seeded fault: the receiver takes the other ciphertext of every row.
OtReceive_Other(bits, c0, c1) ==
  [i \in DOMAIN bits |-> (IF bits[i] = 0 THEN c1[i] ELSE c0[i]).m]

\* What the receiver makes of both vectors of ciphertexts.
OtReceive(bits, c0, c1) ==
  [i \in DOMAIN bits |-> Decrypt(<<i, bits[i]>>, IF bits[i] = 0 THEN c0[i] ELSE c1[i])]
-----------------------------------------------------------------------------
(***************************************************************************)
(* src/source/mpc/vole/vole.cpp: base VOLE, and for item numbers from the  *)
(* threshold on the extension. What the calls carry is the subject of      *)
(* Vole; in the OPRFs built on VOLE they carry no data. A protocol that    *)
(* runs others labels their messages by run and phase.                     *)
(***************************************************************************)
In(phase, program) == [k \in DOMAIN program |-> [program[k] EXCEPT !.name = <<phase, @>>]]

BaseVoleA == In("base", OtSender \o << Snd("vec_gamma") >>)
BaseVoleB == In("base", OtReceiver \o << Rcv("vec_gamma") >>)

\* In the extension B is the sender of the OT.
ExtendVoleA == In("extend", << Rcv("vec_send_to_a") >> \o OtReceiver \o << Rcv("ec_key") >>)

ExtendVoleB == In("extend", << Snd("vec_send_to_a") >> \o OtSender \o << Snd("ec_key") >>)

PartyA(small) == IF small THEN BaseVoleA ELSE BaseVoleA \o ExtendVoleA
PartyB(small) == IF small THEN BaseVoleB ELSE BaseVoleB \o ExtendVoleB

Within(run, program) == [k \in DOMAIN program |-> [program[k] EXCEPT !.name = <<run>> \o @]]
-----------------------------------------------------------------------------
(***************************************************************************)
(* src/source/mpc/pso/cwprf_mqrpmt.cpp, and each mode of                   *)
(* src/source/mpc/pso/mqrpmt_pso.cpp.                                      *)
(***************************************************************************)
MqrpmtServer(membership) ==
  << Snd("vec_fk1_y"), Rcv("vec_fk2_x") >> \o
  IF membership = "BloomFilter" THEN << Rcv("filter_size"), Rcv("filter") >>
                                ELSE << Rcv("vec_fk2k1_y") >>

\* Seeded fault: the client sends before it reads.
MqrpmtClient_SendFirst(membership) ==
  << Snd("vec_fk2_x"), Rcv("vec_fk1_y") >> \o
  IF membership = "BloomFilter" THEN << Snd("filter_size"), Snd("filter") >>
                                ELSE << Snd("vec_fk2k1_y") >>

MqrpmtClient(membership) ==
  << Rcv("vec_fk1_y"), Snd("vec_fk2_x") >> \o
  IF membership = "BloomFilter" THEN << Snd("filter_size"), Snd("filter") >>
                                ELSE << Snd("vec_fk2k1_y") >>

PsoSender(mode, membership) ==
  MqrpmtClient(membership) \o
  CASE mode \in {"Intersection", "Union"} -> OnesidedSender
    [] mode = "Card" -> << >>
    [] mode = "CardSum" -> OtSender \o << Rcv("cardinality"), Rcv("masked_sum") >>

\* Seeded fault: the receiver answers with the sum first.
PsoReceiver_SumFirst(mode, membership) ==
  MqrpmtServer(membership) \o
  CASE mode \in {"Intersection", "Union"} -> OnesidedReceiver
    [] mode = "Card" -> << >>
    [] mode = "CardSum" -> OtReceiver \o << Snd("masked_sum"), Snd("cardinality") >>

PsoReceiver(mode, membership) ==
  MqrpmtServer(membership) \o
  CASE mode \in {"Intersection", "Union"} -> OnesidedReceiver
    [] mode = "Card" -> << >>
    [] mode = "CardSum" -> OtReceiver \o << Snd("cardinality"), Snd("masked_sum") >>
=============================================================================
