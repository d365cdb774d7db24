--------------------------------- MODULE Okvs ---------------------------------
(***************************************************************************)
(* The public interface of the OKVS, src/source/mpc/okvs/okvs.cpp: setup,  *)
(* encode and decode, each with its checks.  Keys are padded to item_num   *)
(* with random blocks that are no keys, values with zero blocks; Baxos     *)
(* solves and decodes.                                                     *)
(***************************************************************************)
EXTENDS BaxosDecode

CONSTANTS
  Parameters,   \* what setup may be called with
  Requests,     \* and encode: keys, and how many values
  Streams,      \* what the seed's random blocks may be, in order
  QuerySets,    \* and decode: keys ...
  Storages      \* ... and how many blocks more than encode returned

Value(item) == 10 + item            \* the caller's value of a key
Zero == 0

ASSUME ApiAssumption ==
  /\ \A p \in Parameters :
       /\ p.itemNum \in Nat /\ p.binSize \in Nat
       /\ p.itemNum > 0 /\ p.binSize > 0 =>
            LET bins == (p.itemNum + p.binSize - 1) \div p.binSize IN
            HashtableBinSize(bins, (p.itemNum + ThreadNum - 1) \div ThreadNum) \in Nat
  /\ \A r \in Requests : r.keys \in Seq(Items) /\ IsInjective(r.keys) /\ r.valueNum \in Nat
  /\ \A q \in QuerySets : q \in Seq(Items)
  /\ \A s \in Streams : s \in Seq(Items)

VARIABLES
  phase,        \* setup, encode, solve, decode, query, then returned or threw
  given,        \* the keys encode was called with
  fitted,       \* did every region hold its keys?
  answers       \* what decode returned

vars == <<arguments, solving, queries, decoding, phase, given, fitted, answers>>

Init ==
  /\ phase = "setup"
  /\ pp \in Parameters
  /\ binOf = << >> /\ keys = << >> /\ vals = << >> /\ given = << >> /\ fitted = TRUE /\ answers = << >>
  /\ NotSolving /\ NotDecoding

\* validate_public_parameters
Valid ==
  pp.itemNum > 0 /\ pp.binSize > 0 /\ pp.sparseWeight >= 2 /\ pp.lambda <= 255

Throw == phase' = "threw" /\ UNCHANGED <<arguments, solving, queries, decoding, given, fitted, answers>>

\* The seed fixes where every block goes.
Setup ==
  /\ phase = "setup"
  /\ \/ ~Valid /\ Throw
     \/ /\ Valid
        /\ phase' = "encode"
        /\ binOf' \in [Items -> Bins]
        /\ UNCHANGED <<pp, keys, vals, solving, queries, decoding, given, fitted, answers>>

\* Seeded fault: a random block is taken although it is a key.
PadKeys_Any(some, stream) ==
  SubSeq(some \o stream, 1, pp.itemNum)

\* pad_keys: random blocks that are not used yet.
PadKeys(some, stream) ==
  FoldLeft(LAMBDA padded, candidate :
             IF Len(padded) < pp.itemNum /\ candidate \notin ToSet(padded)
             THEN Append(padded, candidate) ELSE padded,
           some, stream)

\* pad_values
PadValues(some) ==
  [k \in 1..pp.itemNum |-> IF k <= Len(some) THEN Value(some[k]) ELSE Zero]

EncodeCall(request) ==
  /\ phase = "encode"
  /\ \/ /\ Len(request.keys) > pp.itemNum \/ request.valueNum # Len(request.keys)
        /\ Throw
     \/ /\ Len(request.keys) <= pp.itemNum /\ request.valueNum = Len(request.keys)
        /\ phase' = "solve"
        /\ given' = request.keys
        /\ \E stream \in Streams : keys' = PadKeys(request.keys, stream)
        /\ vals' = PadValues(request.keys)
        /\ Allocate
        /\ UNCHANGED <<pp, binOf, queries, decoding, fitted, answers>>

\* A single OKVS throws where the caller can catch it.
EncodeFails ==
  /\ phase = "solve" /\ BinNum = 1 /\ ~Solved
  /\ Throw

Solving ==
  phase = "solve" /\ ~aborted /\ UNCHANGED <<arguments, queries, decoding, phase, given, fitted, answers>>

SingleStep    == Solving /\ SolveSingle
BarrierStep   == Solving /\ BinNum > 1 /\ Barrier
ThreadStep(t) == Solving /\ BinNum > 1 /\ Thread(t)
SolveStep     == SingleStep \/ BarrierStep \/ \E t \in Threads : ThreadStep(t)

\* Only the output outlives solve.
EncodeReturns ==
  /\ phase = "solve" /\ Solved
  /\ phase' = "decode"
  /\ keys' = << >> /\ vals' = << >> /\ fitted' = (BinNum = 1 \/ Fits)
  /\ Free
  /\ UNCHANGED <<pp, binOf, queries, decoding, given, answers>>

DecodeCall(asked, extra) ==
  /\ phase = "decode"
  /\ \/ extra # 0 /\ Throw
     \/ /\ extra = 0 /\ asked = << >>
        /\ phase' = "returned"
        /\ UNCHANGED <<arguments, solving, queries, decoding, given, fitted, answers>>
     \/ /\ extra = 0 /\ asked # << >>
        /\ phase' = "query"
        /\ DecodeStart(asked)
        /\ UNCHANGED <<arguments, solving, given, fitted, answers>>

DecodeStep ==
  /\ phase = "query" /\ Decode
  /\ UNCHANGED <<arguments, solving, phase, given, fitted, answers>>

\* The value an item decodes to in its bin: that of its row, or noise.
Lookup(item) ==
  LET rows == encoded[IF BinNum = 1 THEN 0 ELSE binOf[item]].rows
      own  == {rows[k].value : k \in {j \in DOMAIN rows : rows[j].hash = item}}
  IN  IF Cardinality(own) = 1 THEN CHOOSE v \in own : TRUE ELSE Nothing

DecodeReturns ==
  /\ phase = "query" /\ Decoded
  /\ phase' = "returned"
  /\ answers' = [q \in Queries |-> IF source[q] = None THEN Zero ELSE Lookup(queries[source[q]])]
  /\ UNCHANGED <<arguments, solving, queries, decoding, given, fitted>>

Ended == aborted \/ phase \in {"returned", "threw"}

Finished == Ended /\ UNCHANGED vars

Next ==
  \/ Setup
  \/ \E request \in Requests : EncodeCall(request)
  \/ SolveStep \/ EncodeFails \/ EncodeReturns
  \/ \E asked \in QuerySets, extra \in Storages : DecodeCall(asked, extra)
  \/ DecodeStep \/ DecodeReturns
  \/ Finished

\* The team's threads are all scheduled, and a call that was made goes on.
Spec ==
  /\ Init /\ [][Next]_vars
  /\ WF_vars(SingleStep) /\ WF_vars(BarrierStep) /\ \A t \in Threads : WF_vars(ThreadStep(t))
-----------------------------------------------------------------------------
\* Every bin is encoded from the keys that hash to it, each once, with its own
\* value and in the order they were given, however the work was divided and
\* interleaved.
BinsExact ==
  phase = "solve" /\ BinNum > 1 /\ Fits => \A b \in Bins : encoded[b] # NotYet =>
    LET mine == Ascending(BinKeys(b)) IN
    encoded[b].rows = [k \in DOMAIN mine |-> Row(keys[mine[k]], vals[mine[k]])]

\* No bin is left out: once solve is called every bin is encoded, once (an
\* encode adds to its output, so a second one would spoil it), unless a bin
\* cannot be solved.
BinsEncoded ==
  (phase = "solve" /\ Fits) ~> (aborted \/ phase = "threw" \/ \A b \in DOMAIN encoded : encoded[b] # NotYet)
EncodedOnce ==
  [][\A b \in DOMAIN encoded : encoded[b] # NotYet => encoded'[b] = encoded[b]]_vars

\* Each query sorted so far waits in its bin, once and in a batch that still
\* fits value_buffer, or has its own value, although buffers and batches are
\* reused from bin to bin and results of one flush stay in the buffer for the
\* next (baxos.cpp 333-429).
QueriesKept ==
  phase = "query" /\ BinNum > 1 => \A q \in 1..sorted :
    LET b == binOf[queries[q]]
        waiting == flushed <= b /\ q \in ToSet(keyIndices[b]) IN
    /\ waiting => Cardinality({k \in DOMAIN keyIndices[b] : keyIndices[b][k] = q}) = 1
    /\ waiting => Len(keyIndices[b]) < DecodeSize
    /\ ~waiting => source[q] = q

\* "Decodes values associated with keys from an OKVS storage vector."
\* (okvs.hpp 116): from any vector that encode returned, whatever it padded,
\* a key decodes to its value wherever and however often it is asked for.
RoundTrip ==
  phase = "returned" /\ fitted => \A q \in DOMAIN answers :
    queries[q] \in ToSet(given) => answers[q] = Value(queries[q])

\* "If the Paxos data should be randomized, then provide a PRNG" (paxos.cpp
\* 1355): bins are randomized independently, no two from the same coins.
FreshCoins ==
  \A a, b \in DOMAIN encoded : a # b /\ encoded[a] # NotYet /\ encoded[b] # NotYet =>
    encoded[a].coin # encoded[b].coin
=============================================================================
