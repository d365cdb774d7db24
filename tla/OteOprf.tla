------------------------------- MODULE OteOprf -------------------------------
(***************************************************************************)
(* The OPRF from OT, src/source/mpc/oprf/ote_oprf.cpp.  Its receiver is    *)
(* the sender of a Naor-Pinkas OT of two keys per matrix column, its       *)
(* sender chooses one of each pair; then the receiver corrects the columns *)
(* so that both hold the same bits wherever an input of the receiver maps. *)
(* Columns are computed and sent bucket by bucket: as many as fit the      *)
(* locations one AES block encodes.                                        *)
(*                                                                         *)
(* A bit of a matrix is a formal sum over GF(2), written as the set of its *)
(* terms: pseudorandom bits are terms of their own.                        *)
(***************************************************************************)
EXTENDS Endpoints

CONSTANTS
  MatrixWidth,
  SplitBucketSize,
  MatrixHeight,
  Place(_, _, _)    \* item, salts, i: the i-th location an item's block
                    \* encodes, encrypted under these salts one after the other

ASSUME OteAssumption ==
  MatrixWidth \in Nat \ {0} /\ SplitBucketSize \in Nat \ {0} /\ MatrixHeight \in Nat \ {0}

Columns   == 1..MatrixWidth
Positions == 0..MatrixHeight-1
Buckets   == 1..((MatrixWidth + SplitBucketSize - 1) \div SplitBucketSize)

LeftIndex(bucket)  == (bucket - 1) * SplitBucketSize
RightIndex(bucket) == Min({LeftIndex(bucket) + SplitBucketSize, MatrixWidth})
BucketOf(c)        == (c - 1) \div SplitBucketSize + 1

OteSender ==
  In("np", NpOtReceiver) \o In("matrix_b", [b \in Buckets |-> Rcv(b)])

OteReceiver ==
  In("np", NpOtSender) \o In("matrix_b", [b \in Buckets |-> Snd(b)])

One == {[key |-> 2, column |-> 0, position |-> 0]}
ColumnKey(bit, c) == [bit |-> bit, column |-> c]
ColumnPrg(k)    == [p \in Positions |-> {[key |-> k.bit, column |-> k.column, position |-> p]}]

\* The receiver's: the blocks are encrypted in place, once more for every bucket.
Location(item, c) ==
  Place(item, [salt \in 1..BucketOf(c) + 1 |-> salt - 1], c - LeftIndex(BucketOf(c)))

\* matrix_d: one but where an input of the receiver is mapped to.
MatrixD(c) ==
  [p \in Positions |-> IF \E i \in DOMAIN param.x : Location(param.x[i], c) = p THEN {} ELSE One]

MatrixB(c) ==
  [p \in Positions |-> SymDiff(ColumnPrg(ColumnKey(1, c))[p], SymDiff(ColumnPrg(ColumnKey(0, c))[p], MatrixD(c)[p]))]

OtePayload(name) ==
  CASE name = <<"np", "vec_y0">> -> [c \in Columns |-> Encrypt(c, 0, ColumnKey(0, c))]
    [] name = <<"np", "vec_y1">> -> [c \in Columns |-> Encrypt(c, 1, ColumnKey(1, c))]
    [] name[1] = "matrix_b" ->
         [i \in 1..RightIndex(name[2]) - LeftIndex(name[2]) |-> MatrixB(LeftIndex(name[2]) + i)]
    [] OTHER -> "opaque"

\* matrix_c, flattened into the key that sender() returns.
OteKey ==
  LET k == OtReceive(param.selection, Held("S", <<"np", "vec_y0">>), Held("S", <<"np", "vec_y1">>))
      correction(c) == Held("S", <<"matrix_b", BucketOf(c)>>)[c - LeftIndex(BucketOf(c))]
  IN  [c \in Columns |-> [p \in Positions |->
         SymDiff(ColumnPrg(k[c])[p], IF param.selection[c] = 1 THEN correction(c)[p] ELSE {})]]

\* What receiver() returns, the rows pack_outputs hashes: what matrix_a holds
\* where an input is mapped to.
OteValues ==
  [i \in DOMAIN param.x |->
     [c \in Columns |-> ColumnPrg(ColumnKey(0, c))[Location(param.x[i], c)]]]

\* Seeded fault: the encoded blocks are encrypted for this bucket only.
EvaluatedLocation_Fresh(item, c) ==
  LET split == (c - 1) \div SplitBucketSize
  IN  Place(item, <<0, split + 1>>, c - split * SplitBucketSize)

\* Where evaluate() looks column c up, in split number (c - 1) / split_bucket_size.
EvaluatedLocation(item, c) ==
  LET split == (c - 1) \div SplitBucketSize
  IN  Place(item, [n \in 1..split + 2 |-> n - 1], c - split * SplitBucketSize)

OteEvaluate(key, items) ==
  [i \in DOMAIN items |-> [c \in Columns |-> key[c][EvaluatedLocation(items[i], c)]]]
=============================================================================
