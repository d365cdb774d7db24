# Verification of taihang-protocols

TLA+ models of the two-party protocols, of the oblivious key-value store, of the
encryption schemes and zero-knowledge proofs in this repository, the TLC runs that
check them on small instances, and TLAPS proofs for the concurrent parts, the
protocols' results and the key-value store's bins and solver. File names below are relative to the repository's `src/`; `O:508` style references
abbreviate `source/mpc/okvs/okvs.cpp:508`.

| short | file |
|---|---|
| A, NP | `source/mpc/ot/alsz_ote.cpp`, `source/mpc/ot/naor_pinkas_ot.cpp` |
| P, O, B | `source/mpc/okvs/paxos.cpp`, `okvs.cpp`, `baxos.cpp` |
| VO, VOP, OTE | `source/mpc/vole/vole.cpp`, `source/mpc/oprf/vole_oprf.cpp`, `ote_oprf.cpp` |
| M, CW, PS, PID | `source/mpc/pso/mqrpmt_pso.cpp`, `cwprf_mqrpmt.cpp`, `cwprf_psi.cpp`, `mqrpmt_private_id.cpp` |
| E | `experimental/cwprf_mqrpmt_optimized.cpp` |
| TW, IP, BP, TR | `source/pke/twisted_elgamal.cpp`, `source/zkp/range_proofs/inner_product_proof.cpp`, `bullet_proof.cpp`, `twisted_elgamal_range_proof.cpp` |

How to run: `tlc -config MCPaxos.cfg MCPaxos.tla`, `tlapm PaxosProofs.tla`. The
proofs are in `PrimitiveProofs`, `TwoPartyProofs`, `MqrpmtPsoProofs`, `SessionsProofs`,
`PipelineProofs`, `OkvsProofs`, `PaxosProofs` and, for what several of them cite, `DataLemmas`.

## 1. Inventory

The library is a set of functions that two processes call, one per role, on the
two ends of a `net::NetIO` connection. There is no server, no persistent state
and no retry: a call runs to its end or throws. What is hard is therefore

* **inside a call**: OpenMP teams that share buffers (ALSZ pipeline, Baxos), asynchronous
  tasks around bounded queues (experimental mqRPMT);
* **between the two calls**: the order of sends and receives over an untyped
  byte stream, spread over several functions and nested sub-protocols, with
  roles that swap (base OT runs against the direction of the extension), and
  what becomes of both sides when the connection breaks;
* **in the data structures**: intrusive weight lists, in-place compaction,
  flat scratch arrays sized by a statistical bound, and index types chosen to be
  as narrow as possible;
* **in the algebra**: the relation two parties' outputs must satisfy, for every
  value of the inputs and of the randomness.

| component | state it keeps | operations | talks to | what makes it correct |
|---|---|---|---|---|
| ALSZ pipeline (A:66-155, 236-311) | per team: threads' positions, `matrix_p`, `io_error`; keys | fill / send a window, receive / use a window, barriers | its peer, window by window | a key of a row comes from that row of the peer's matrix; nobody touches a buffer in transfer; a failed transfer ends both teams |
| ALSZ messages, Naor-Pinkas (A:373-553, NP) | vectors of ciphertexts | sender/receiver, onesided variants, random OT | base OT in the opposite direction | both sides make mirrored calls; the receiver decrypts the chosen message |
| mqRPMT PSO (M) | indication bits, masks, outputs | intersection, union, cardinality, cardinality-sum | cwPRF mqRPMT, then OT, then a mode's own messages | the outputs are those of the ideal functionality |
| cwPRF mqRPMT (CW) | points, Bloom filter or set | server, client | | bit `i` says whether the client's `i`-th item is the server's |
| cwPRF PSI (PS) | points, prefixes or points | sender, receiver | | the receiver gets its own matching items, attributed by position |
| VOLE (VO) | GGM trees, OT rows, the ExConv code | base VOLE, extension, full_eval, punc_eval, dual_encode | ALSZ OT, twice, in both directions | `b = c + a * delta`; the punctured path is hidden |
| Paxos (P, `paxos.hpp`) | `weight_nodes`, `weight_set`, triangular rows, gap rows | set_keys, triangulate, encode, backfill, decode | okvs linear algebra | whatever encode returns decodes to every value |
| Linear algebra (O:404-604) | a matrix and its inverse | check_invert, check_invert_gf128, prev_combination | | an accepted matrix is inverted correctly |
| Baxos (B) | flat scratch arrays, one Paxos per bin | parallel hashing, gathering, encoding; batched decoding | Paxos | every key reaches exactly its bin once; a query gets its own value |
| OKVS API (O) | parameters, padded keys and values | setup, encode, decode, hashtable_bin_size | Baxos | a given key decodes to its value, whatever was padded; bins have room for the items |
| Division and sparse rows (O:56-402, P:60-536) | magic numbers and shifts | gen_divider, divide_u64_do, reduce_mod32, set_sparse_1, set_sparse_32 | Paxos and Baxos | quotients are exact; a key gets the same columns on every path |
| VOLE OPRF (VOP) | OKVS vector, VOLE outputs | sender, receiver, evaluate | VOLE, OKVS | both evaluate the same function |
| OT-extension OPRF (OTE) | column keys, matrices in buckets | sender, receiver, evaluate | Naor-Pinkas OT | both evaluate the same function |
| Private-ID (PID) | two halves of every ID, the union | sender, receiver | VOLE OPRF twice, PSO union | equal items get equal IDs; both get the same, complete union |
| PKE (`pke/`) | none | encrypt (one or many recipients), decrypt, homomorphic operations, re-encrypt, re-randomize | | the result is the encryption of the right plaintext |
| Sigma protocols, range proofs (`zkp/`) | a transcript | prove, verify | PKE | accepted exactly when the claim holds, in its context and for its statement |
| Experimental mqRPMT (E) | layers of points, a bounded queue per task | run with five kernels; push, pop, close | | all kernels give the matches of a sequential run, and `run` returns |

Hazards, each with its line and with the properties aimed at it, are listed in
`PROJECT.json`.

## 2. Plan

Done, in this order: `AlszWindow` and its proofs; the `TwoParty` layer with
`MqrpmtPso`; the OKVS from its linear algebra to its public interface
(`OkvsLinear`, `SparseRows`, `OkvsArithmetic`, `Paxos`, `Baxos`, `BaxosDecode`,
`Okvs`); the sessions `Vole`, `CwprfPsi`, `VoleOprf`, `OteOprf` and
`PrivateId` composed by `Sessions`; the experimental `Pipeline`; `Group`, `Elgamal`,
`TwistedElgamal`, `Sigma`, `BulletProof` and `RangeProof`, composed by
`Confidential`; then the proofs about mirrored programs, the set operations, the
sessions, the pipeline, the bins of the OKVS, its solver, inversion and encryption (section 6).

Next, most important first:

1. Proofs: `QuotientExact`, which needs the laws of powers, and `RowsExact` from it.
2. The algebra under `Programs`: Naor-Pinkas keys over `Group`, ALSZ rows
   (`q_i = t_i + r_i * s`) over short bit vectors, so that "keys of row i" is a
   property of a model instead of the interface it is now.
3. ALSZ for base lengths other than 128.

Runs are few and each asks several questions of one state space; a property
that another one implies is dropped. Modules of one component are composed into
one run where the code composes them (`Sessions`, `Okvs`, `Confidential`).

## 3. Modules and the code

### AlszWindow, AlszIdeal

The windowed pipeline of random OT. One process per OpenMP thread of both
teams; `pc` values are the code's places: the loop head, the master's transfer,
the explicit `omp barrier` (A:108, 302), the check of `io_error`, the `omp for`
and its implied barrier, the end of the parallel region. A *tile* is
`matrix_batch_size` rows; `Tiles` rows are walked `WindowSize` at a time, the last
window being shorter. A transfer is one step per tile over a byte stream with
room for `NetCapacity` tiles, so that a thread that touches the buffer in
the middle is seen. `vecK0[o] = p` records the tile `p` that the keys of tile `o`
were computed from. The schedule of each `omp for` is an arbitrary constant
function. Each side counts the tiles of a window by itself (`SWindowRows`, `RWindowRows`);
`CutShort`, part of `BothLeave`, is a side left waiting for bytes that the other, having
returned its keys, takes or sends no more. `AlszIdeal` is what callers of `random_sender_impl` rely on: a
sender returns keys only when all of them match the receiver's.

### TwoParty, Programs, IndexOrder, CwPrf, TwoPartyProofs

`TwoParty` is the harness for two-party protocols: a role is a sequence of
named sends and receives, the code's io calls with its branches resolved by the
public parameters. The connection is NetIO's (external: it belongs to the core
library, a submodule): ordered and reliable, nothing on the wire says what a
message is, and a call throws if the peer is gone or the network breaks. A
receive that meets another message than it was written for sets `desync`: in
the code, bytes misread without notice. A send returns when its bytes fit into
the socket buffers; `slack` is how many unread messages fit, 0 meaning that the
send waits for its receive, which is the case for vectors larger than the buffers.

`Programs` gives the call sequences of Naor-Pinkas and of the ALSZ entry points
as programs to be concatenated into the larger ones, and what an OT delivers.
`IndexOrder` lists the positions a loop with a test picks, in their order.
`CwPrf` has symbolic group elements: an item and the set of keys it was raised to.

### MqrpmtPso, PsoIdeal, MqrpmtPsoProofs

`pso_sender` is role S and mqRPMT client, `pso_receiver` role R and mqRPMT
server. `PsoSender(mode, membership)` concatenates the client's calls, the OT and
the mode's final messages. `Payload` is what each send carries, computed from
the party's inbox; `Compact` is a row of the one-sided OT, which moves messages to the front of
the vector whose keys it still reads; `SenderOutput` and `ReceiverOutput` are what a call returns.
`stray` are the items a Bloom filter accepts by accident, chosen freely.
`PsoIdeal` sees both inputs and hands out sets, cardinality and sum.

### Sessions: Endpoints, Vole, CwprfPsi, VoleOprf, OteOprf, PrivateId, SessionsProofs

`Sessions` is one call of a protocol on either side, chosen by `param`; each
protocol's module gives its programs, what its sends carry and what its calls
return, all computed from the party's own inputs and its inbox.

`Vole`: `PartyA`/`PartyB` concatenate base VOLE and, from `Small` items on, the
extension. A block is a formal sum over GF(2) (a set of terms), with the PRG and
AES as free functions: an equality that holds here holds for all values of the
randomness. Multiplication by delta is expanded over the gadget, which is what
the code's bit decomposition relies on. `Nodes`, `LevelSum`, `PuncEval` are
`full_eval` and `punc_eval` level by level, node `k` below node `Parent(k)`
(`Pow2` is the code's `1 << d`); `DualEncode` is the code's accumulate
and expand with arbitrary coin and position functions.

`CwprfPsi`: three messages; `Truncate` mode compares prefixes, and `PrefixMaps`
lets items share one.

`VoleOprf`: the OKVS is linear, so an encoding of zeros at the hashed inputs and
VOLE's `b = c + delta * a` are formal sums; decoding marks every term with item and
seed. `OprfSender`/`OprfReceiver` take the name of a run, since Private-ID runs two.
`EncodedZeros` is the empty sum: encode is called with zero values and no prng
(VOP:108-109), which leaves every variable of the system at zero.

`OteOprf`: column keys from Naor-Pinkas, buckets of `SplitBucketSize` columns
(OTE:226), `Location` from blocks that are encrypted in place once more for every
bucket (`EvaluatedLocation` in `evaluate`, which does its own counting), `MatrixD` with a zero wherever an input falls, corrected columns on the wire.

`PrivateId`: `IdSender` is sender of the first OPRF and receiver of the second, then
PSO sender of a union over IDs; the receiver returns the union over the wire.

### Pipeline, PipelineProofs

`run` starts two asynchronous tasks per stage; a task computes its layer by one of
five kernels. Loops may compute elements in any order; the chunked pipeline is a
producer, a consumer and a `ChunkQueue` of capacity two. An operation holds the
mutex, so it is one step; a `wait` sleeps and is woken by a notification or for no
reason (`WakeUp`). Exceptions inside tasks do not arise from what the code does
and are left out.

### Group, Elgamal, TwistedElgamal, Sigma, BulletProof, RangeProof, Confidential

A point is a vector of coefficients over independent generators modulo `Q`, so two
points are equal only where the code's algebra makes them so. A prover's hash
queries take their answers from a tape in order and are kept as `asked`; the
verifier's queries find the same answer when the transcript is the same, and a new
one otherwise. Prover and verifier are translated apart, as the code writes them
apart. `BulletProof` includes the inner-product argument it folds into. `Confidential` is a value's life: fresh ciphertext, a few homomorphic
operations, a proof of one of seven kinds, and a verification of that proof as what
it is, in another context, or as a proof of another claim. The ghosts `m` and `r`
say what plaintext and randomness the ciphertext should have.

### OkvsLinear, SparseRows, OkvsArithmetic

Elimination of `check_invert_gf128` step by step (`Eliminate` is one column),
its result for a whole matrix (`CheckInvert`), and the order in which
`prev_combination` visits column sets. GF(2^128) is represented by GF(4), the
smallest field with elements other than 0 and 1. The divider in `SparseRows` has words of two digits
(64 bits as two of 32 in the code; two of four in the run), every operation wrapping at a word as
the code's does, with the portable division (the x86 instruction is exact).
Beside it are both ways `set_sparse_32` and `set_sparse_1` find the columns of a
key of weight three and the general path, on blocks of four digits with the
overlapping words the code reads. `OkvsArithmetic` runs each of these as one call, and has
`hashtable_bin_size` with logarithms in thousandths.

### Paxos, PaxosProofs

One encode: `Init` is the object after `set_keys` (every choice of sparse
columns and dense blocks), then `Triangulate` (one popped column: the heavy row
choice, `Lower` with its moves between weight lists, gap rows found by the
comparison with the column's first row), `Randomize`, one of `NoGaps`,
`TooManyGaps`, `GapsGf128`, `GapsBinary`, then `Backfill` last to first, and
`Return`. `weightSet` holds the actual lists in order, since pops depend on it.
Values are vectors of coefficients over symbols, one per key's value and one per
random draw, so one run stands for all values and all coins. `g_limit` and `lambda` belong to the
input, any two bytes: `D` is their sum in the byte the code keeps it in, 0 included. Where encode would
leave its memory or count beyond a type (`Overruns`: the first dense position where there is none,
P:951; bits of a key beyond its block, P:1203; more gap rows than dense positions; a loop that its
index type cannot end, P:925; columns and gap rows beyond 199 and 255), the call ends `undefined`:
what such memory holds has no model, and no property says anything of the output.

### Baxos, BaxosDecode, Okvs, OkvsProofs

`Baxos` has both OpenMP regions of `impl_solve`: each thread hashes its range in
batches of `HashBatch` and a scalar tail into its own regions of flat arrays, where a
write past a region lands in the next one; after the implied barrier each thread
gathers its bins in place (moves as the code does them, over cells still to be
gathered) and encodes them. The draw from the shared prng is a read and a
write, as compiled. `EncodeThrows` is an exception that leaves the parallel region: the
process ends. With one bin `SolveSingle` is the direct path, whose exception reaches the caller.
`BaxosDecode` is one thread of `impl_decode` with its share of the queries: batches
per bin, the shared `value_buffer`, the final flush, decoding in groups of `GroupLen`
and one by one, and the count that is passed on as `idx_type` (modulo `IdxMod`).
`Okvs` is the public interface around both: `Setup` with its checks, `EncodeCall` with
the checks and the padding, `DecodeCall` on a vector of any length, and the answers.

## 4. Runs

| run | asks | bounds, and why they suffice |
|---|---|---|
| `alsz_window` | all interleavings of the two teams, with breaks: `KeysAgree`, `TransferExclusive`, `ErrorWriteRaceFree`, `BothLeave`, the inductive invariant, `AlszIdeal` | teams of 3 and 2 (a master, a worker, and a thread without tiles), 5 tiles in windows of 2: two full windows, so a thread can lag one behind, and a partial one; a stream of 2 tiles both blocks and lets the receiver run ahead |
| `pso` | all modes and memberships: `NoDesync`, `OrderedResult`, `OwnKeyOnWire`, `BothReturn`, `PsoIdeal` | two items each, zero to two shared, in either order; stray items; values and masks in Z_4, where masks wrap; slack 0 and 1 |
| `sessions` | `NoDesync` and `BothReturn` for every protocol; `VoleRelation`, `PathHidden`; `Attribution`, `OwnKeyOnWire`; `OprfAgrees`; `IdsAgree` | VOLE: 2-bit blocks, 3 trees, sizes giving base VOLE only, trees of 2, 2, 4 leaves and of 4, 4, 6 (a depth of one, of two and of three, a last tree of another depth, one cut to its length), every punctured position. Others: two items each of four, every overlap and order; every pair may share a prefix; three matrix columns in buckets of two and one, every base-OT choice; with and without the VOLE extension |
| `pipeline` | `LayersExact`, `MatchesExact`, `Terminates` | four and three items, chunks of one fill the queue of two, chunks of two leave a short last one; five kernels |
| `confidential` | `EncryptsExactly`, `ProofsExact`, `ProofsBound`, `ThrowsOnlyWhen` | order 13, two-bit messages (so sums leave the message space), up to two operations, range proofs of one, two and four values (one to three folding rounds), five intervals, two draws and three tapes, zeros among the answers |
| `arithmetic` | `AnswerExact`, `QuotientExact`, `RowsExact` | every 3x3 bit matrix, every 2x2 matrix over GF(4); all 255 divisors and all 256 dividends of an 8-bit word; 3 to 8 columns, weights 2, 3, 4, 5 and 7 (above and below the three words of one block), all blocks over six digits |
| `paxos` | `ListsExact`, `Triangular`, `EncodeDecodes`, `OutputRandom`, `Terminates` | 4 keys of weight 3 in 5 columns, 2 gap columns, all GF(4) blocks without a prng and every arrangement up to renaming of columns: up to three gap rows, one more than the limit; with a prng or the binary type those of them whose second row shares two columns with the first, of 4 keys and of 3; and the corners `Overruns` is about: no dense position, more than a block has bits, a dense size that wraps, positions beyond the index type |
| `okvs` | `BinsExact`, `BinsEncoded`, `EncodedOnce`, `QueriesKept`, `RoundTrip` | 2 threads, 3 bins (more than threads, unevenly) or one, 5 keys of which two are padding, drawn from blocks that repeat and that are keys (uneven ranges, a batch and a tail), requests with too many keys or too few values, parameters that setup refuses, regions of 2 cells that some arrangements overflow, with the assertion compiled in; queries with repetition, with keys that were never given, none, one, and more than a batch |
| `paxos_random_gaps` | `RandomGapsDecode` (violated) | 3 keys, 4 columns |
| `okvs_coins` | `FreshCoins` (violated) | 2 threads, 2 bins |
| `okvs_decode_narrow` | `RoundTrip` (violated) | one thread, the type just narrower than a full batch |
| `bin_size` | `BinsHoldItems` (violated) | up to 8 bins and 512 items, between the powers of two of the table |

What the passing runs show is in section 1's last column; every property is
also known to fail for a seeded fault (the definitions marked "Seeded fault",
each a plausible bug in the code it stands beside).

What the statements leave to assumptions:

* `BinsExact` and `BinsEncoded` assume that a thread's keys fit (`Fits`), which the
  code only makes very likely; the assertion at B:199, itself off by one, covers only
  the scalar tail, not the vector batches, and `TAIHANG_ASSERT` disappears under NDEBUG
  (`TAIHANG_CHECK` does not). `RoundTrip` is asked of encodings whose regions fitted.
* `EncodeDecodes` says that whatever `encode` returns decodes to every value, and that
  equal keys never come back encoded; it does not say that
  `encode` succeeds.
* `AnswerExact` is exact over bits and one-sided over the field (see observations).
* `ProofsExact` in its negative direction is about a prover that follows the code with
  a witness that does not fit; over a group of order 13 a false claim passes with the
  probability of an unlucky challenge, so answers are listed (`Tapes`), sigma
  protocols' without zero, and values beyond the range are such that excesses do not
  cancel. `ProofsBound` is about claims that hold, and about `m # 0`: for a zero
  plaintext some statements coincide. It shows that transcripts bind, not soundness
  against an arbitrary prover.
* `RowsExact` represents the squaring between triples of columns by a rotation of
  digits: only which words are read, and in which order, is at stake.

### Findings

Four runs end in a violation, each a disagreement between the code and what a
comment, a header or a test says:

* `RandomGapsDecode` (P:1370): with a prng, free sparse columns are filled with
  random values before the gap rows are solved, and the gap rows' right-hand
  sides never take those columns in. A gap row with a free column then does not
  decode. (It needs gap rows, which are rare at production sizes.)
* `FreshCoins` (B:295): every thread of the second region draws from the same
  seed object without synchronization; two bins can be given the same coins.
* `RoundTrip` with a narrow type (P:1786): a batch of 512 keys passed as an
  8-bit count is 0 keys, and queries keep what the buffer held.
* `BinsHoldItems` (O:667): the weights of the interpolation are swapped, so close to a
  power of two the bound is nearly that of the other end of the interval; 2 bins for 123
  items get room for 60 each.

Observations made while modelling, which no run settles: some duplicate keys are
refused with the message of a singular matrix rather than as duplicates
(P:1328); the search for a binary submatrix advances before its first test and
never tries the first columns (P:1010); the pivot search below a zero accepts
only the element one, so invertible matrices over GF(2^128) can be refused
(O:508); the assertion on a thread's bin lets the capacity be exceeded by one
(B:199). All of these refuse more, or notice later, than they could; none makes
a returned result wrong in the models.

## 5. Fairness and liveness

* `AlszWindow`: weak fairness per thread (the operating system runs what can run)
  and for each party's transfers and barriers. Breaking is never fair. A transfer
  whose peer is gone fails eventually: NetIO closes its socket with the process.
* `TwoParty` protocols (`pso`, `sessions`): weak fairness of `Progress`, the disjunction of all steps
  other than breaking. Both roles are straight-line programs, so if anything can
  go on, something does. `BothReturn` says that both calls end wherever
  the connection breaks, and both return unless it broke, even when sends wait
  for their receives. A receive that would wait for a peer that neither sends nor
  leaves is not excluded by fairness: the property shows that it does not happen.
* `Okvs`: weak fairness of each thread, of the barrier and of the single-bin call;
  nothing else blocks a thread. A caller need not call anything. If an assertion fails or
  an encode throws, the process ends or the call throws, and `BinsEncoded` asks nothing more.
* `Pipeline`: weak fairness of each task's producer and consumer and of the main thread
  (`CompositeStage`, `Membership`). Spurious wake-ups are allowed and never assumed.
* `Paxos` needs none: `Terminates` says that every step lowers a variant, and
  deadlock checking that there is a step until the call has ended.

`Finished` is a self-loop of a session that has ended, so deadlock is checked
in every run but `confidential`, whose behaviours end with a verdict.

## 6. Proofs

A run shows a property for one small instance; each theorem below says it for every
value of the constants that the named assumptions admit: any number of threads,
items, windows, columns or messages in flight. The property
a theorem names is the one a run checks, word for word. `PrimitiveProofs` extends `AlszWindow`
and `Confidential`, `PaxosProofs` extends `Paxos` and `OkvsArithmetic`; the second of each has names of its own
for its specification (`ValueSpec`, `CallSpec`).

| module | theorem | says |
|---|---|---|
| `PrimitiveProofs` | `Invariance` | `Spec => []IInv` |
| | `TypeCorrect` | `Spec => []TypeOK`: no index leaves its window or the matrix |
| | `KeysCorrect` | `Spec => [](KeysAgree /\ KeysComplete)` |
| | `Exclusion` | `Spec => []TransferExclusive` |
| | `ErrorRaceFreedom` | `Spec => ErrorWriteRaceFree` |
| | `Refinement` | the safety part of `AlszIdeal` is implemented, step by step |
| | `CiphertextsAreExact` | `ValueSpec => []EncryptsExactly`, in a group of any prime order |
| | `ProvingThrowsOnlyWhen` | `ValueSpec => []ThrowsOnlyWhen` |
| `MqrpmtPsoProofs` | `ConnectionInStep` | `Spec => []NoDesync`, every mode and membership |
| | `PsoInvariant` | the invariant of the session: who has sent, what was received, what was returned |
| | `PsoOwnKey` | `Spec => []OwnKeyOnWire` |
| | `PsoOrderedResult` | `Spec => []OrderedResult` |
| | `PsoRefinesIdeal` | `Spec => IdealSpec`: the calls implement `PsoIdeal`, with its outputs computed from sets |
| `SessionsProofs` | `SessionsInStep` | `Spec => []NoDesync` for VOLE, PSI, both OPRFs and Private-ID |
| | `SessionsInvariant` | the sessions' invariant |
| | `PsiOwnKey`, `PsiAttribution` | `Spec => []OwnKeyOnWire`, `Spec => []Attribution` |
| | `OprfsAgree` | `Spec => []OprfAgrees` |
| | `IdsAlwaysAgree` | `Spec => []IdsAgree` |
| | `VoleCorrelates`, `PathStaysHidden` | `Spec => []VoleRelation`, `Spec => []PathHidden` |
| `PipelineProofs` | `PipelineInvariant` | the invariant of both stages, both tasks and their queues |
| | `ComputesLayers`, `CountsMatches` | `Spec => []LayersExact`, `Spec => []MatchesExact` |
| | `NeverStalls` | a task that is not over has a thread that runs |
| `OkvsProofs` | `EncodingInvariant` | the invariant of solve: what each cell of the scratch arrays holds, while threads hash, gather and encode |
| | `RowsOfItsOwnKeys`, `OneEncodingPerBin` | `Spec => []BinsExact`, `Spec => EncodedOnce` |
| | `DecodingInvariant` | the invariant of decode, if batches fit `idx_type` (`BatchesFit`) |
| | `BatchesAreKept`, `ValuesComeBack` | `Spec => []QueriesKept`, `Spec => []RoundTrip`, if batches fit |
| `PaxosProofs` | `SolverInvariant` | the invariant of one encode: lists, counts, triangle, twins |
| | `ListsStayExact` | `Spec => []ListsExact`: every column is in the list of its weight, whatever was eliminated |
| | `StaysTriangular` | `Spec => []Triangular` |
| | `EncodedDecodes` | `Spec => []EncodeDecodes`: what encode returned, without leaving its memory, decodes to every value, for any dense size |
| | `OutputIsRandom` | `Spec => []OutputRandom`: what is free of randomness in the output is a sum of rows |
| | `SolverTerminates` | `Spec => Terminates`: every step lowers the variant |
| | `InversionIsExact` | `CallSpec => []AnswerExact`: square matrices of every size |

### Assumptions

All are `ASSUME`d by name in the module that declares the constants, and TLC
evaluates them in the runs.

* `AlszWindow`: `TeamAssumption` (each master belongs to its team), `SizeAssumption` (a
  window has at least one tile, the stream room for at least one), `ShareAssumption` (the
  schedule gives every tile of a window to one thread of the team).
* `SlackAssumption`: what the sockets hold is a number of messages, of any size, 0 included.
* `InputAssumption`, in `MqrpmtPso` and `Sessions`: a party's vector is a list of items
  without repetition. This is the functions' contract: they are set operations,
  and they do not look for duplicates themselves.
* `SumBoundAssumption` (`MqrpmtPso`): what `setup` checks, that `log_sum_bound` covers the
  number of items and the bound on values; `PsoRefinesIdeal` fails without it, since the
  sum would wrap. That the modulus is a positive number is part of it, because the
  provers know nothing about powers.
* `VoleAssumption`, `OteAssumption`, `PlaceAssumption`: sizes are positive numbers, of a finite
  set where the deepest tree is sought among them; the code's expanding matrix and the OPRF's hash function stay within their range.
* `PipelineAssumption`: the inputs are non-empty lists without repetition, the chunk
  size and the capacity of the queue are positive.
* `SolveAssumption`, `DecodeAssumption`, `ApiAssumption` (`Okvs`): blocks are numbers, a request's keys
  differ from each other (the solver refuses duplicates, P:1328), and `hashtable_bin_size` returns a
  number for parameters that setup accepts.
* `Paxos`: `SizeAssumption` (there are more columns than keys, as `calculate_sparse_size` gives) and
  `InputAssumption`: there are at most `N` keys, a row's columns are one or more and distinct, as
  `set_sparse` makes them; `g_limit` and `lambda` are bytes, any; a block is an element of the field, or the set of its bits, of which there are 128; equal
  blocks have equal columns, which are computed from them. Nothing is assumed of the
  blocks otherwise: keys may repeat, rows may depend on each other.
* `ArithmeticAssumption` (`OkvsArithmetic`): a matrix to be inverted is square, not empty, and over the bits or
  over the field, as the dense matrices are for which the solver calls it.
* `GroupAssumption`: the order of the group is prime, and the widths of messages and of aggregations
  are powers of two, positive numbers; `MessageAssumption` says again that there is a number of messages, because
  the provers know nothing about powers. `KeyAssumption`: a secret key and its neighbour are not zero.
  `DrawnAssumption`: messages, coins, factors and the oracle's answers are scalars.
* `BatchesFit` is no assumption of a module but a hypothesis of the theorems about decode: no
  batch has as many keys as `idx_type` has values. The code chooses `idx_type` for the columns of a bin (B:464, 488), which does not ensure it, and
  run `okvs_decode_narrow` shows what decode returns when it is false; the theorems say that nothing
  else goes wrong. A single bin decodes all queries as one batch, so there the condition is about their number.

### The arguments

**ALSZ.** `KeysAgree` is not inductive: it depends on what is in the buffer,
that on what is in the stream, that on the receiver's buffer, and each on where
both teams are. `IInv` strengthens it with
`SControl`/`RControl` (all threads of a team are on the same side of each
barrier; the receiver's threads are at most one window apart, and only around
the check), `SBuffer`/`RBuffer` (below the byte counter the buffer holds the
window's tiles; the receiver's filled tiles are those no thread still has to do),
`SKeys` (which keys are computed) and `Stream` (tiles in flight are
`sGot .. rPut-1` in order, and the receiver is never behind what was sent). Each
action has a lemma that it preserves `IInv`, one step per conjunct it disturbs;
`NextIInv` puts them together. `Refinement` maps
`agreed` to the tiles whose key has been computed from the right tile.

**Any two programs that mirror each other stay in step** (`TwoPartyProofs`). Two call
sequences mirror each other when they have the same length and the same names, with a
send opposite each receive. `InStep` says that one of the parties is ahead (`Ahead`):
nothing is on the way to it, and the other has still to receive what is on the way from it and
then to make the calls that mirror those it has left; that nobody was
desynchronized, and that who returned has no calls left. One lemma per kind of step (send, receive, failure, return) shows
that it is kept, whatever the messages carry. `MirrorConcat` and its like then build up
the programs the way the code nests its functions, a base OT with swapped roles included, so
that `NoDesync` of every protocol is the statement that its two programs mirror each other.

**What a message carries.** That results are right is not inductive either: they are computed from
an inbox. `SoFar` says how far a party has come in its program and that it holds every
message it has received; `Delivers` that each message, on the wire or in an inbox, carries
the data that the inputs, values and masks determine (`Transcript`). `PsoInv` is both, with
`InStep`; a party that returns has come to the end and computes its result from the
whole transcript. That this result is the ideal one is then a question about
data: bits at positions of `X`, elements in ascending order of position, masked sums. A message moved to the front
never overtakes a key that is still read: rows done are at least the messages kept (`CompactRun`, `CompactedTo`). The
refinement maps the status `broke` to `threw` and a vector of results to the set of its
elements; a step that returns or breaks nothing is a stutter.
`SumFits` shows from `SumBoundAssumption` that the sum of the shared items' values is
below the modulus, and `Unmasked` that subtracting the receiver's masks leaves exactly that.

**Sessions** have an invariant of the same kind, `SessionsInv`, with a transcript per protocol,
whose names carry the run a message belongs to where one protocol runs inside another; `ResultsTrue`
ties what a call returned to it. The OPRFs' agreement needs what their messages cannot
show: that a column the sender assembles equals the receiver's at each place an input
falls on, bucket by bucket, and that in the VOLE OPRF encodings of zero vanish at hashed inputs.
Private-ID combines two OPRFs of opposite roles with a union: IDs are equal exactly when items
are, since an ID is the pair of two values that each determine the item.

**VOLE.** `VoleRelation` is about sums of what arrived, so `SessionsInv` says of each of
VOLE's data messages what it carries, with the base run and the extension told apart, and
`NoMoreThan` that an inbox holds nothing the party's program does not receive: below `Small` items
there is no extension, and the outputs are those of the base run. The rest is one lemma per function of the code:
`BaseRelation` (the rows of the base OT, chosen by the bits of delta, add up to `c + a * delta`),
`PuncturedTree` (level by level, `punc_eval` has the node of `full_eval` everywhere but on the path: what `Grow`
puts at the path's sibling is the chosen sum less the known nodes, and the path's nodes are a `Hole`), and, once
`beta` is put in, the last leaf less `delta` times the base vector's element.
The trees' leaves in one list (`FlatAt`, `FlatCover`) therefore differ between the parties by a vector that is zero but at the
punctured leaves, which is `a * delta` of the selection vector; `AccumulateRelated` and `EncodeRelated` show that the code
keeps such a relation because each of its steps is linear. `PathHidden` needs which sum
was chosen at a depth (`ChosenHidesPath`): the one over the children on the side of the path's sibling, each of which is a
term that names its side, so the node on the path is not among them; that the message A holds in row
`Offset(i) + d` is that sum rests on where the rows of a tree begin (`RowsHold`, `SelectionRows`, `ReceivedRows`).

**Pipeline.** `TaskOK` describes one task with constants for its part of the state,
so that each operation is a lemma about sequences. It says that
the chunks under way follow each other and lie before `next`, that a position is computed,
under way or not reached (`CoverOK`), and why a thread sleeps or has left (`QueueOK`): the
producer sleeps only at a full queue, the consumer only at an empty one that is
open, and a consumer that left found it closed and empty. A lost notification would break the last three.
`PipelineInv` adds that the layers are the hashed inputs in the first stage and the
other side's finished points in the second. `MatchesExact` follows from the points' being
exactly the doubly raised items, since different items never collide.

**Bins** (`OkvsProofs`). While `solve` runs nothing about a bin can be said from its own cells
alone: threads write into the same flat arrays, first by thread and then, in place, by
bin. `Rank` counts the keys of a bin among the first `i`. Key `i` lies in its thread's region at its rank
less the rank at the thread's beginning (`Regions`), until its bin is gathered; then it lies at its rank
in the bin's first cells (`Gathering`). A gathering thread writes
up to the rank at the end of the region it reads, which is at most the cells before the region's
end, since no earlier region has more than `Capacity` keys: so no raw region is
overwritten, though target and source overlap. `Turns` says that thread `t` visits the
bins that leave `t` modulo the number of threads, so no bin is encoded by two or twice; it holds
whether the keys fit or not, and `EncodedOnce` rests on it alone. `Encoding_OK` is all of this under
`Fits`, with what the later phases need: in an encoding that fitted, each given key, found in its bin, has its
value (`Stored`; this is where the padding matters, which must not repeat a key).
Decoding is about batches: a query sorted waits in the batch of its bin, once, or has its own
value, while batches are emptied and the buffer is reused (`Decoding_OK`). The group-wise
loops of `OKVS::decode` are folds; `CopyExists` and `CopyResult` describe any loop that copies
blocks over an array, and both loops are one.

**Solver** (`PaxosProofs`). `ListsExact` is nearly inductive: popping a column and lowering the columns of the
rows it eliminates keeps each remaining column once in the list of its weight, shown for one `Lower`, then
for a row (whose columns are distinct, so none is lowered twice), then for all rows of the popped column.
`Solver_OK` adds what the other statements need: `Solver_Counts` (a row is eliminated once, as triangular or
gap row, and each column chosen once), `Solver_Triangle` (a chosen column occurs in no row that is left, so a row's
pivots are its own and those of later rows) and `Solver_Twins` (equal keys have the same columns, so
they are eliminated together and, unless the call threw, both are gap rows of the row the code compares them with).
The lists are why a round has a heavy column as long as a row is left (rows have columns), hence `Heavy = {}`
means that all are eliminated, and why `Terminates` holds.

That decoding returns the values is linear algebra. `Total` is a sum of vectors over a finite set, with the
laws the argument needs (a term taken out, sums of sums, renaming, symmetric difference, linear maps). `CheckInvert`
as a run of `Eliminate` keeps "the rows of the matrix are those of its inverse times the original", so an accepted matrix
solves every system, and refuses a matrix with two equal rows. `FC_1` as a run of `Cancel` keeps "the columns left are the
pivots of the gap row less those of the rows taken, all of them later", so in the end none is left. Hence the dense
part `E` of a gap row is that of the sum of its row and triangular rows, and once the dense positions solve
`E(g) * x = XPrime(g)`, a gap row's own equation follows from those of triangular rows, provided that columns without a pivot
are zero: that is the hypothesis `random => gap = << >>`, and what `paxos_random_gaps` violates. `Solver_Output` is
this stage by stage: nothing is written but drawn columns; then the dense positions are solved, and the triangular rows
after the `todo`-th decode. A step of backfill writes a column that no later row has. Distinct keys are part of the same
argument: twins have equal dense rows and cancel with the same row, so the dense matrix has two equal rows and was refused.

`OutputRandom` turns the equations around. `Solver_Coins` says that, with the binary type and no gap row, the output is made of
bits and that every position which is no pivot is drawn. Given positions whose sum is free of randomness, some rows, taken first to
last, use a pivot an odd number of times exactly where it is among them (`PivotsReached`; a row has no pivot of an
earlier one). Adding the positions of these rows leaves only drawn positions, whose sum is still free of
randomness since a row sums to its value; each has a symbol of its own, so none is left.

**Inversion** (`PaxosProofs`). `Inverting` is the invariant of a call: `Built` (each row of the matrix is that of the inverse
times the original), `ColumnsDone` (columns left of the next one are those of the identity), and that the kernel has not grown: what
the matrix sends to zero now, the original did. At the end the rows of the inverse times the original are those of the
identity. When a column has no pivot, `NoPivotSingular` writes down a vector of the kernel from its entries above. `Invertible`
speaks of rows, the kernel of columns; over bits, `SingularDependent` leads from one to the other by counting: all `2^n` combinations of
the rows have sum zero against the kernel vector, so they are not all vectors and two of them are equal. Over the field the same is
true, but the property does not ask for it.

**Encryption** (`PrimitiveProofs`). All the points that encryption makes are `Pt(a, b)`, `a` times `G` plus `b` times `H`, and two are equal only when
both coefficients are (`PointsDiffer`), so every operation is one on two scalars (`PointLaws`, `MsmOfTwo`). The laws of scalars come from division
with remainder; that a scalar has an inverse, from the least positive multiple of it, which would leave a smaller one as the
remainder of the prime order unless it is one (`HasInverse`). `Value_Cipher` (the ciphertext has the form that its plaintext, randomness and
key give it) is inductive and implies `EncryptsExactly`; that a neighbour's key decrypts only when the randomness is zero is `Neighbours`. With it,
`Value_Thrown` is inductive: `decrypt_exp` finds the plaintext unless it is out of the message space, and nothing is added
to a value about which a claim was made.

**Lemmas about data** (`DataLemmas`). Library induction theorems take an operator as an
argument, which the provers cannot instantiate. Stated over *sets* they
can be used: a set of natural numbers (of subsets of a finite set) that has 0 and is closed under
successor (that has each set whose proper subsets it has) is everything. From
these two follow the existence of recursive functions, of the ascending enumeration of a finite
set, and the laws of folds that the models use: sums over a set, sums modulo `M` with masks, counting, and
lists joined end to end.

### Only model-checked

* Liveness: `BothLeave`, `BothReturn`, `BinsEncoded`, `Pipeline`'s `Terminates`. It rests on fairness, which the provers do not
  handle. Of the last, the safety half is proved (`NeverStalls`); `Paxos`'s `Terminates` is an action property, and
  that a call which has not ended has a step is left to deadlock checking (`ENABLED`).
* `QuotientExact`, `RowsExact`: word arithmetic with shifts, about whose powers of two the provers
  know nothing; the run takes every divisor and every dividend of its word.
* `ProofsExact`, `ProofsBound`: the inner-product argument folds its vectors recursively, and what a recursion over data
  computes is out of the provers' reach. `ProofsExact`, in its negative direction, and `ProofsBound` depend on the
  challenges listed, so no statement for all constants is true.

## 7. Not modelled

* The core library (`taihang-core`: Block, PRG, AES, ECPoint, BloomFilter, NetIO) is a
  submodule; its behaviour is taken from how this code uses it. Whether
  `BloomFilter::insert` is safe from several threads (CW:317) cannot be seen here.
* Cryptographic strength: hash functions and PRGs are free symbols, group elements
  are symbolic, statistical bounds are assumptions. `PathHidden` and `OwnKeyOnWire`
  are statements about which terms reach a party, not about indistinguishability.
* ALSZ for a base length other than 128 (A:156-235, 312-372), which works column
  by column without a pipeline; the bit algebra of its keys; packing rows into blocks.
  Naor-Pinkas appears as its messages, not as its Diffie-Hellman keys.
* Values wider than a block (`BlockArrayValue128`), byte layout and (de)serialization of
  keys, proofs, ciphertexts and parameters.
* Table entries of `hashtable_bin_size` beyond 8 bins and 512 items. The function ignores
  its statistical parameter; the models take the table as given.
* What encode does once it has left its memory or its types (`Overruns` of `Paxos`). Nor is it
  claimed that parameters `setup` accepts never lead there: some do, such as a `g_limit` of 0 over the
  field with a prng, or a dense part wider than a block. Counters that need more than 199 rows
  in a column or 255 gap rows to wrap (P:60, 586, 845) are in the model and the theorems, beyond the sizes of the run.
  Without a prng, decoding with more than 128 dense positions looks at bits beyond the block, but only for positions that are zero.
* Fewer threads than requested: OpenMP may deliver a smaller team than
  `thread_num` when nested or limited (B:151); the models take the team as requested.
  Decoding is modelled for one thread's share of the queries (B:446-457): the shares and their buffers are disjoint.
* Soundness of the zero-knowledge proofs against an arbitrary prover, and zero knowledge.
* Tests, benchmarks and build files: read, not modelled.
