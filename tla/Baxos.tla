-------------------------------- MODULE Baxos --------------------------------
(***************************************************************************)
(* Baxos::impl_solve of src/source/mpc/okvs/baxos.cpp.  A single bin is    *)
(* encoded as it is.  For more bins there are two OpenMP regions: in the   *)
(* first every thread hashes its range of the keys into bins, in a region  *)
(* of its own of each bin; in the second every thread gathers its bins     *)
(* from all regions and encodes each.  The scratch arrays are flat:        *)
(* nothing stops a write past the end of a region from landing in the next *)
(* one.  A key stands for its hash, and what an encode makes of a bin is   *)
(* the subject of Paxos: here, the rows it was made from.                  *)
(***************************************************************************)
EXTENDS Integers, FiniteSets, SequencesExt, IndexOrder

CONSTANTS
  Items,        \* blocks that may be keys
  ThreadNum,    \* thread_num
  HashtableBinSize(_, _), \* hashtable_bin_size, of bins and items
  HashBatch,    \* keys hashed per AES batch (32)
  Asserts,      \* is TAIHANG_ASSERT compiled in?
  Random        \* is a prng given?

ASSUME SolveAssumption ==
  /\ Items \subseteq Nat /\ ThreadNum \in Nat \ {0} /\ HashBatch \in Nat \ {0}
  /\ Asserts \in BOOLEAN /\ Random \in BOOLEAN

VARIABLES
  pp,           \* the public parameters: itemNum, binSize, sparseWeight, lambda
  binOf,        \* the bin each item hashes to
  keys, vals,   \* the arguments of solve
  pc,           \* per thread: hash, barrier, merge, draw, done
  pos,          \* per thread: keys hashed so far
  binSize,      \* bin_size_thread: per thread and bin, keys stored
  values,       \* value_to_bin_thread
  hashes,       \* hash_to_bin_thread
  bin,          \* per thread: bin_idx
  src,          \* per thread: thread_idx, the next region to gather
  binPos,       \* per thread: bin_pos
  prng,         \* the counter of the one prng all threads share ...
  coin,         \* ... and, per thread, the value it drew at
  encoded,      \* output, per bin: the rows it was encoded from, and the coins
  aborted       \* did the process end, by an assertion or an exception?

arguments == <<pp, binOf, keys, vals>>
scratch   == <<values, hashes>>
merging   == <<bin, src, binPos, prng, coin, encoded>>
solving   == <<pc, pos, binSize, scratch, merging, aborted>>

BinNum  == (pp.itemNum + pp.binSize - 1) \div pp.binSize
Threads == 0..ThreadNum-1
Bins    == 0..BinNum-1

\* What hashtable_bin_size says a bin may hold, and a thread's region of it.
ItemNumPerBin == HashtableBinSize(BinNum, pp.itemNum)
Capacity      == HashtableBinSize(BinNum, (pp.itemNum + ThreadNum - 1) \div ThreadNum)

Cells   == 0..BinNum * ThreadNum * Capacity - 1
Nothing == -1                       \* fresh memory
NotYet  == [rows |-> << >>, coin |-> -1]

KeyBegin(t) == (Len(keys) * t) \div ThreadNum
KeyLen(t)   == KeyBegin(t + 1) - KeyBegin(t)

\* get_value_bin_thread(b, t) + k and get_hash_bin_thread(b, t) + k
Cell(b, t, k) == b * ThreadNum * Capacity + t * Capacity + k

\* The indices of the keys of bin b, and of those thread t puts there.
BinKeys(b)  == {idx \in DOMAIN keys : binOf[keys[idx]] = b}
Share(t, b) == {idx \in KeyBegin(t) + 1..KeyBegin(t + 1) : binOf[keys[idx]] = b}

\* What hashtable_bin_size makes all but certain: no thread maps more than
\* Capacity keys to a bin, and no bin gets more than ItemNumPerBin.  (The
\* per-thread assertion lets one key more through, and the vectorized batches
\* have none: past Fits regions overlap.)
Fits ==
  \A b \in Bins :
    /\ \A t \in Threads : Cardinality(Share(t, b)) <= Capacity
    /\ Cardinality(BinKeys(b)) <= ItemNumPerBin

\* Before solve is called.
NotSolving ==
  /\ pc = << >> /\ pos = << >> /\ binSize = << >> /\ values = << >> /\ hashes = << >>
  /\ bin = << >> /\ src = << >> /\ binPos = << >> /\ prng = 0 /\ coin = << >>
  /\ encoded = << >> /\ aborted = FALSE

Allocate ==
  /\ pc' = [t \in Threads |-> "hash"]
  /\ pos' = [t \in Threads |-> 0]
  /\ binSize' = [t \in Threads |-> [b \in Bins |-> 0]]
  /\ values' = [c \in Cells |-> Nothing] /\ hashes' = [c \in Cells |-> Nothing]
  /\ bin' = [t \in Threads |-> t]
  /\ src' = [t \in Threads |-> 0] /\ binPos' = [t \in Threads |-> 0]
  /\ coin' = [t \in Threads |-> -1]
  /\ encoded' = [b \in Bins |-> NotYet]
  /\ UNCHANGED <<prng, aborted>>
-----------------------------------------------------------------------------
Row(key, value) == [hash |-> key, value |-> value]

\* One bin: a single OKVS takes all keys.
SolveSingle ==
  /\ BinNum = 1 /\ encoded[0] = NotYet
  /\ encoded' = [encoded EXCEPT ![0] = [rows |-> [k \in DOMAIN keys |-> Row(keys[k], vals[k])],
                                        coin |-> IF Random THEN prng ELSE 0]]
  /\ prng' = IF Random THEN prng + 1 ELSE prng
  /\ pc' = [t \in Threads |-> "done"]
  /\ UNCHANGED <<pos, binSize, scratch, bin, src, binPos, coin, aborted>>

\* Keys beyond the last full batch take the path with the assertion.
Scalar(t) == pos[t] >= (KeyLen(t) \div HashBatch) * HashBatch

\* TAIHANG_ASSERT(bin_size <= bin_size_per_thread)
AssertFails(t, size) == Asserts /\ Scalar(t) /\ ~(size <= Capacity)

Store(t, idx, b, size) ==
  /\ values' = [values EXCEPT ![Cell(b, t, size)] = vals[idx]]
  /\ hashes' = [hashes EXCEPT ![Cell(b, t, size)] = keys[idx]]

HashKey(t) ==
  /\ pc[t] = "hash" /\ pos[t] < KeyLen(t)
  /\ LET idx  == KeyBegin(t) + pos[t] + 1
         b    == binOf[keys[idx]]
         size == binSize[t][b]
     IN  IF AssertFails(t, size)
         THEN aborted' = TRUE /\ UNCHANGED <<binSize, scratch, pos>>
         ELSE /\ binSize' = [binSize EXCEPT ![t][b] = @ + 1]
              /\ Store(t, idx, b, size)
              /\ pos' = [pos EXCEPT ![t] = @ + 1]
              /\ UNCHANGED aborted
  /\ UNCHANGED <<pc, merging>>

HashDone(t) ==
  /\ pc[t] = "hash" /\ pos[t] = KeyLen(t)
  /\ pc' = [pc EXCEPT ![t] = "barrier"]
  /\ UNCHANGED <<pos, binSize, scratch, merging, aborted>>

\* Seeded fault: one parallel region, without the barrier that ends it.
Barrier_NoWait ==
  \E t \in Threads :
    /\ pc[t] = "barrier"
    /\ pc' = [pc EXCEPT ![t] = "merge"]
    /\ UNCHANGED <<pos, binSize, scratch, merging, aborted>>

\* The end of the first parallel region.
Barrier ==
  /\ \A t \in Threads : pc[t] = "barrier"
  /\ pc' = [t \in Threads |-> "merge"]
  /\ UNCHANGED <<pos, binSize, scratch, merging, aborted>>

\* Move n cells of an array down.  (Only past Fits can they lie outside it;
\* what memory holds there is nobody's key.)
Moved(array, to, from, n) ==
  LET source(c) == from + (c - to) IN
  [c \in Cells |-> IF c \notin to..to + n - 1 THEN array[c]
                   ELSE IF source(c) \in Cells THEN array[source(c)] ELSE Nothing]

\* TAIHANG_ASSERT(bin_size <= item_num_per_bin), before a bin is gathered.
BinOverflows(b) ==
  Asserts /\ SumFunction([t \in Threads |-> binSize[t][b]]) > ItemNumPerBin

\* Append the keys region src of the bin holds to those gathered before
\* (region 0 is in place already).
Gather(t) ==
  /\ pc[t] = "merge" /\ bin[t] < BinNum /\ src[t] < ThreadNum
  /\ LET b    == bin[t]
         size == binSize[src[t]][b]
     IN  IF BinOverflows(b)
         THEN aborted' = TRUE /\ UNCHANGED <<scratch, binPos, src>>
         ELSE /\ hashes' = Moved(hashes, Cell(b, 0, binPos[t]), Cell(b, src[t], 0), size)
              /\ values' = Moved(values, Cell(b, 0, binPos[t]), Cell(b, src[t], 0), size)
              /\ binPos' = [binPos EXCEPT ![t] = @ + size]
              /\ src' = [src EXCEPT ![t] = @ + 1]
              /\ UNCHANGED aborted
  /\ UNCHANGED <<pc, pos, binSize, bin, prng, coin, encoded>>

\* encode() begins to draw its randomness: it reads the prng's counter ...
Draw(t) ==
  /\ pc[t] = "merge" /\ bin[t] < BinNum /\ src[t] = ThreadNum
  /\ Random
  /\ pc' = [pc EXCEPT ![t] = "draw"]
  /\ coin' = [coin EXCEPT ![t] = prng]
  /\ UNCHANGED <<pos, binSize, scratch, bin, src, binPos, prng, encoded, aborted>>

Encoding(t) ==
  [rows |-> [j \in {k \in 1..binPos[t] : Cell(bin[t], 0, k - 1) \in Cells} |->
               Row(hashes[Cell(bin[t], 0, j - 1)], values[Cell(bin[t], 0, j - 1)])],
   coin |-> IF Random THEN coin[t] ELSE 0]

\* Seeded fault: every thread goes on to the next bin.
NextBin_ByOne(t) == bin' = [bin EXCEPT ![t] = @ + 1]

NextBin(t) == bin' = [bin EXCEPT ![t] = @ + ThreadNum]

Gathered(t) ==
  /\ pc[t] = (IF Random THEN "draw" ELSE "merge")
  /\ bin[t] < BinNum /\ src[t] = ThreadNum

\* ... and advances it; the bin is encoded from its gathered rows.
Encode(t) ==
  /\ Gathered(t)
  /\ encoded' = [encoded EXCEPT ![bin[t]] = Encoding(t)]
  /\ prng' = IF Random THEN coin[t] + 1 ELSE prng
  /\ NextBin(t)
  /\ src' = [src EXCEPT ![t] = 0] /\ binPos' = [binPos EXCEPT ![t] = 0]
  /\ pc' = [pc EXCEPT ![t] = "merge"]
  /\ UNCHANGED <<pos, binSize, scratch, coin, aborted>>

\* encode() throws when a bin cannot be solved.  The exception would leave the
\* parallel region: the process terminates.
EncodeThrows(t) ==
  /\ Gathered(t)
  /\ aborted' = TRUE
  /\ UNCHANGED <<pc, pos, binSize, scratch, merging>>

\* Seeded fault: the last bin is out of the loop.
Leave_Early(t) ==
  /\ pc[t] = "merge" /\ bin[t] >= BinNum - 1
  /\ pc' = [pc EXCEPT ![t] = "done"]
  /\ UNCHANGED <<pos, binSize, scratch, merging, aborted>>

Leave(t) ==
  /\ pc[t] = "merge" /\ bin[t] >= BinNum
  /\ pc' = [pc EXCEPT ![t] = "done"]
  /\ UNCHANGED <<pos, binSize, scratch, merging, aborted>>

Thread(t) ==
  \/ HashKey(t) \/ HashDone(t) \/ Gather(t) \/ Draw(t) \/ Encode(t) \/ EncodeThrows(t) \/ Leave(t)

\* The scratch memory goes with the call.
Free ==
  /\ pc' = << >> /\ pos' = << >> /\ binSize' = << >> /\ values' = << >> /\ hashes' = << >>
  /\ bin' = << >> /\ src' = << >> /\ binPos' = << >> /\ coin' = << >>
  /\ UNCHANGED <<prng, encoded, aborted>>

Solved == encoded # << >> /\ \A t \in Threads : pc[t] = "done"
=============================================================================
