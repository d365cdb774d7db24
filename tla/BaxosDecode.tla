----------------------------- MODULE BaxosDecode -----------------------------
(***************************************************************************)
(* Baxos::impl_decode and impl_decode_batch of                             *)
(* src/source/mpc/okvs/baxos.cpp, one thread's queries: they are sorted    *)
(* into bins, a bin's batch is decoded when it is full and the rest at the *)
(* end, and results go back to the places of their queries.  The number of *)
(* keys is passed to OKVS::decode as idx_type, the type that is just wide  *)
(* enough for the columns of a bin: it arrives modulo IdxMod.              *)
(***************************************************************************)
EXTENDS Baxos

CONSTANTS
  DecodeMax,    \* the most queries a batch holds (512)
  GroupLen,     \* keys decode_32 takes at a time (32)
  IdxMod        \* 2^w for the w-bit idx_type (w = 8, 16, 32 or 64)

ASSUME DecodeAssumption ==
  DecodeMax \in Nat \ {0} /\ IdxMod \in Nat \ {0} /\ GroupLen \in Nat \ {0}

VARIABLES
  queries,      \* the keys to decode
  sorted,       \* i, the queries sorted so far
  keyIndices,   \* per bin: the queries waiting, batches and key_indices alike
  valueBuffer,  \* value_buffer: each place holds the query decoded into it
  source,       \* values, per query: the query whose value it was given
  flushed       \* bins emptied by the final loop

decoding == <<sorted, keyIndices, valueBuffer, source, flushed>>

None == 0       \* a zero block
BatchLen   == Len(queries)
Queries    == 1..BatchLen
DecodeSize == IF BatchLen < DecodeMax THEN BatchLen ELSE DecodeMax

\* Before decode is called.
NotDecoding ==
  queries = << >> /\ sorted = 0 /\ keyIndices = << >> /\ valueBuffer = << >> /\ source = << >>
  /\ flushed = 0

DecodeStart(q) ==
  LET size == IF Len(q) < DecodeMax THEN Len(q) ELSE DecodeMax IN
  /\ queries' = q
  /\ sorted' = 0
  /\ keyIndices' = [b \in Bins |-> << >>]
  /\ valueBuffer' = [k \in 1..size |-> None]
  /\ source' = [k \in DOMAIN q |-> None]
  /\ flushed' = 0

\* decode_32 and decode_1: the keys after the first n into their places.
Decode_32(batch, out, n) ==
  [k \in DOMAIN out |-> IF k \in n + 1..n + GroupLen THEN batch[k] ELSE out[k]]
Decode_1(batch, out, n) == [out EXCEPT ![n + 1] = batch[n + 1]]

\* OKVS::decode(keys, key_num, ...): whole groups, then the rest one by one.
OkvsDecode(batch, out) ==
  LET keyNum == Len(batch) % IdxMod
      groups == keyNum \div GroupLen
      whole  == FoldLeft(LAMBDA o, g : Decode_32(batch, o, (g - 1) * GroupLen),
                         out, [g \in 1..groups |-> g])
  IN  FoldLeft(LAMBDA o, k : Decode_1(batch, o, groups * GroupLen + k - 1),
               whole, [k \in 1..keyNum % GroupLen |-> k])

\* Seeded fault: the results are read before they are decoded.
DecodeBatch_Stale(batch) ==
  /\ valueBuffer' = OkvsDecode(batch, valueBuffer)
  /\ source' = [q \in Queries |->
                  IF q \in ToSet(batch)
                  THEN valueBuffer[CHOOSE k \in DOMAIN batch : batch[k] = q]
                  ELSE source[q]]

\* Decode one bin's batch and hand the results back.
DecodeBatch(batch) ==
  LET decoded == OkvsDecode(batch, valueBuffer) IN
  /\ valueBuffer' = decoded
  /\ source' = [q \in Queries |->
                  IF q \in ToSet(batch)
                  THEN decoded[CHOOSE k \in DOMAIN batch : batch[k] = q]
                  ELSE source[q]]

Sort ==
  /\ BinNum > 1 /\ sorted < BatchLen
  /\ LET b == binOf[queries[sorted + 1]]
         batch == Append(keyIndices[b], sorted + 1)
     IN  IF Len(batch) = DecodeSize
         THEN /\ DecodeBatch(batch)
              /\ keyIndices' = [keyIndices EXCEPT ![b] = << >>]
         ELSE /\ keyIndices' = [keyIndices EXCEPT ![b] = batch]
              /\ UNCHANGED <<valueBuffer, source>>
  /\ sorted' = sorted + 1
  /\ UNCHANGED flushed

\* The final loop over the bins.
Flush ==
  /\ BinNum > 1 /\ sorted = BatchLen /\ flushed < BinNum
  /\ LET batch == keyIndices[flushed] IN
       IF batch # << >> THEN DecodeBatch(batch) ELSE UNCHANGED <<valueBuffer, source>>
  /\ flushed' = flushed + 1
  /\ UNCHANGED <<sorted, keyIndices>>

\* One bin: a single OKVS decodes everything in place.
DecodeAll ==
  /\ BinNum = 1 /\ sorted < BatchLen
  /\ source' = OkvsDecode([q \in Queries |-> q], source)
  /\ sorted' = BatchLen /\ flushed' = 1
  /\ UNCHANGED <<keyIndices, valueBuffer>>

Decoded == sorted = BatchLen /\ flushed = BinNum

Decode == (Sort \/ Flush \/ DecodeAll) /\ UNCHANGED queries
=============================================================================
