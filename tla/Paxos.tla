-------------------------------- MODULE Paxos --------------------------------
(***************************************************************************)
(* The OKVS solver of src/source/mpc/okvs/paxos.cpp: one encode of up to N *)
(* keys and values into M sparse and some dense positions, from the hashed *)
(* keys to the output, and decode.                                         *)
(*                                                                         *)
(* A row is a key.  h[r] are its sparse columns, in the order set_sparse   *)
(* leaves them; dense[r] is the block it hashes to, and two keys are equal *)
(* exactly when their blocks are (a row's columns are a function of it).   *)
(* Values are not enumerated: a value is a vector of coefficients over     *)
(* symbols, one symbol for the value of each key and one for each position *)
(* that may be filled with randomness, so one run stands for every value   *)
(* and every random choice.                                                *)
(***************************************************************************)
EXTENDS OkvsLinear, Functions, IndexOrder

CONSTANTS
  N, M,         \* the largest item_num, sparse_size
  Inputs        \* what encode is called on: the dense type ("Binary" or
                \* "Gf128"), g_limit, the statistical security parameter
                \* lambda, whether a prng is given, and what the keys hash
                \* to, the sparse columns h and the block dense of every row

Cols == 0..M-1

ByteMax   == 255
BlockBits == 128      \* in a Block
WeightMax == 199      \* weight_set has 200 lists

\* calculate_sparse_size gives more columns than keys.  A block is an element
\* of the field, or the set of its bits that are one.
ASSUME SizeAssumption == N \in Nat /\ M \in Nat /\ N < M
ASSUME InputAssumption ==
  \A in \in Inputs :
    /\ in.kind \in {"Binary", "Gf128"} /\ in.random \in BOOLEAN
    /\ in.g_limit \in 0..ByteMax /\ in.lambda \in 0..ByteMax
    /\ DOMAIN in.h \in {1..n : n \in 0..N} /\ DOMAIN in.dense = DOMAIN in.h
    /\ \A r \in DOMAIN in.h :
         /\ in.h[r] \in Seq(Cols) /\ IsInjective(in.h[r]) /\ in.h[r] # << >>
         /\ in.dense[r] \in (IF in.kind = "Gf128" THEN Field ELSE SUBSET (0..BlockBits-1))
    /\ \A r, s \in DOMAIN in.h : in.dense[r] = in.dense[s] => in.h[r] = in.h[s]

VARIABLES
  input,        \* one of Inputs
  status,       \* the stage the call is in, or how it ended
  weight,       \* weight_nodes[col].weight
  weightSet,    \* weight_set: the columns of each weight, head first
  rowSign,      \* the rows that are eliminated
  tri,          \* triangular_c_rows and triangular_c_cols
  gap,          \* gap_rows and gap_rows_first_row
  gapCols,      \* gap_cols
  output,
  todo          \* how many rows of tri remain to be backfilled

vars == <<input, status, weight, weightSet, rowSign, tri, gap, gapCols, output, todo>>

kind      == input.kind
random    == input.random
GLimit    == input.g_limit
Rows      == DOMAIN input.h
H(r)      == input.h[r]
\* dense_size, a byte
D         == (GLimit + (IF kind = "Binary" THEN input.lambda ELSE 0)) % (ByteMax + 1)
Positions == 0..M+D-1
-----------------------------------------------------------------------------
(***************************************************************************)
(* Symbolic values.                                                        *)
(***************************************************************************)
Symbols == 1..N+M+D
Zero    == [k \in Symbols |-> 0]
Symbol(i) == [k \in Symbols |-> IF k = i THEN 1 ELSE 0]
Value(r)  == Symbol(r)
Draw(pos) == Symbol(N + 1 + pos)

XorOver(f, S, zero) == FoldFunctionOnSet(AddRow, zero, f, S)

\* The dense part of a key's row: the bits of its block, or its powers.
DenseRow(r) ==
  IF kind = "Binary" THEN [j \in 1..D |-> IF j - 1 \in input.dense[r] THEN 1 ELSE 0]
                     ELSE Powers(input.dense[r], D)

Sparse(r, out) == XorOver(out, ToSet(H(r)), Zero)
Dense(r, out, used) ==
  XorOver([j \in used |-> Scale(out[M + j], DenseRow(r)[j + 1])], used, Zero)

\* decode_1
Decode(r) == AddRow(Sparse(r, output), Dense(r, output, 0..D-1))
-----------------------------------------------------------------------------
ColRows(col) == {r \in Rows : col \in ToSet(H(r))}

\* set_keys: weight_statistic fills each list by head insertion.
Init ==
  /\ input \in Inputs
  /\ status = "triangulate"
  /\ weight = [c \in Cols |-> Cardinality(ColRows(c))]
  /\ weightSet = [w \in 0..N |-> Reverse(Ascending({c \in Cols : weight[c] = w}))]
  /\ rowSign = {}
  /\ tri = << >> /\ gap = << >> /\ gapCols = << >>
  /\ output = [p \in Positions |-> Zero]
  /\ todo = 0

\* Seeded fault: the node is not unlinked from its old list.
Lower_NoPop(s, col) ==
  LET w == s.weight[col]
  IN  IF w = 0 THEN s
      ELSE [weight |-> [s.weight EXCEPT ![col] = w - 1],
            lists  |-> [s.lists EXCEPT ![w - 1] = Cons(col, @)]]

\* pop the node, lower its weight, push it at the head of its new list.
Lower(s, col) ==
  LET w == s.weight[col]
  IN  IF w = 0 THEN s
      ELSE [weight |-> [s.weight EXCEPT ![col] = w - 1],
            lists  |-> [s.lists EXCEPT ![w] = RemoveFirst(@, col), ![w - 1] = Cons(col, @)]]

\* Seeded fault: rows are not marked as eliminated.
Fresh_All(col) == Ascending(ColRows(col))

Fresh(col) == Ascending(ColRows(col) \ rowSign)

LowerRow(s, r) == FoldLeft(Lower, s, H(r))

Heavy == {w \in 1..N : weightSet[w] # << >>}
-----------------------------------------------------------------------------
(***************************************************************************)
(* The gap rows after the elimination.                                     *)
(***************************************************************************)
Pivots(r) == {t.col : t \in ToSet(tri)} \cap ToSet(H(r))

\* A triangular row whose pivot is left cancels it.
Cancel(f, t) ==
  IF t.col \in f.cols
  THEN [cols |-> SymDiff(f.cols, Pivots(t.row)), rows |-> f.rows \cup {t.row}]
  ELSE f

\* get_FC_1: the triangular rows whose sum cancels the pivots of a gap row,
\* earliest pivot first.
FC_1(g) ==
  IF H(g.row) = H(g.first) THEN {g.first}
  ELSE FoldLeft(Cancel, [cols |-> Pivots(g.row), rows |-> {}], tri).rows

\* A gap row after the elimination: its dense part and its value.
E(g)      == AddRow(DenseRow(g.row), XorOver([r \in Rows |-> DenseRow(r)], FC_1(g), [j \in 1..D |-> 0]))
XPrime(g) == AddRow(Value(g.row), XorOver([r \in Rows |-> Value(r)], FC_1(g), Zero))

SubMatrix(cols) == [i \in DOMAIN gap |-> [j \in DOMAIN gap |-> E(gap[i])[cols[j] + 1]]]
Choices_ ==
  {c \in Combinations(D, Len(gap)) :
     c # [i \in DOMAIN gap |-> i - 1] /\ CheckInvert(SubMatrix(c)).ok}
-----------------------------------------------------------------------------
(***************************************************************************)
(* Where encode leaves its own memory, or counts beyond a type.  What it   *)
(* does from there on has no outcome the code defines, and none is given.  *)
(***************************************************************************)
\* idx_type is the smallest type for the sparse positions (baxos.cpp 488);
\* loops over the dense ones use it too.
IdxBits(x) == CASE x < 2^8 -> 8 [] x < 2^16 -> 16 [] x \div 2^16 < 2^16 -> 32 [] OTHER -> 64
TailWraps  == random /\ IdxBits(M + D) # IdxBits(M)

\* A key has no more bits of its own than its block; the search tries the
\* choices one by one, and with a prng every other column is read as well.
ReadsPastBlock ==
  /\ D > BlockBits
  /\ random \/ \E c \in Combinations(D, Len(gap)) :
                 ~(ToSet(c) \subseteq 0..BlockBits-1) /\ \A d \in Choices_ : ~Before(d, c)

\* A column has more rows than there are lists; backfill counts the gap rows
\* in a byte; the search underflows when the gap rows are more than the dense positions;
\* the loop over the last positions never ends; a key's bits are read past
\* its block, or the first dense position where there is none.
Overruns ==
  CASE status = "triangulate" -> rowSign = {} /\ \E c \in Cols : weight[c] > WeightMax
    [] status = "gaps" /\ Len(gap) > ByteMax -> Len(gap) % (ByteMax + 1) <= GLimit
    [] status = "gaps" /\ gap = << >> -> kind = "Gf128" /\ TailWraps
    [] status = "gaps" /\ kind = "Binary" /\ Len(gap) <= GLimit ->
         Len(gap) > D \/ ReadsPastBlock \/ (Choices_ # {} /\ TailWraps)
    [] status = "backfill" /\ todo > 0 /\ random ->
         IF kind = "Binary" THEN D > BlockBits ELSE D = 0
    [] OTHER -> FALSE

Overrun ==
  /\ Overruns
  /\ status' = "undefined"
  /\ UNCHANGED <<input, weight, weightSet, rowSign, tri, gap, gapCols, output, todo>>
-----------------------------------------------------------------------------
\* One iteration of triangulate: find_pop_min_node, then every row of the
\* column that is not eliminated yet.  (When it throws, the object is gone.)
Triangulate ==
  /\ status = "triangulate" /\ Heavy # {} /\ ~Overruns
  /\ LET col   == Head(weightSet[Min(Heavy)])
         fresh == Fresh(col)
         first == Head(fresh)
         popped == [weight |-> [weight EXCEPT ![col] = 0],
                    lists  |-> [weightSet EXCEPT ![Min(Heavy)] = Tail(@)]]
         after == FoldLeft(LowerRow, popped, fresh)
     IN  IF \E r \in ToSet(Tail(fresh)) : input.dense[r] = input.dense[first]
         THEN /\ status' = "duplicate keys"
              /\ UNCHANGED <<weight, weightSet, rowSign, tri, gap>>
         ELSE /\ weight' = after.weight
              /\ weightSet' = after.lists
              /\ rowSign' = rowSign \cup ToSet(fresh)
              /\ tri' = Append(tri, [row |-> first, col |-> col])
              /\ gap' = gap \o [k \in 1..Len(fresh)-1 |-> [row |-> fresh[k + 1], first |-> first]]
              /\ UNCHANGED status
  /\ UNCHANGED <<input, gapCols, output, todo>>

\* With a prng, the columns left at weight zero are drawn at random.
Randomize ==
  /\ status = "triangulate" /\ Heavy = {}
  /\ IF random /\ weightSet[0] = << >>
     THEN status' = "no weight-zero column" /\ UNCHANGED output
     ELSE /\ status' = "gaps"
          /\ output' = [p \in Positions |->
                          IF random /\ p \in ToSet(weightSet[0]) THEN Draw(p) ELSE output[p]]
  /\ todo' = Len(tri)
  /\ UNCHANGED <<input, weight, weightSet, rowSign, tri, gap, gapCols>>
-----------------------------------------------------------------------------
Times(inv, rhs) ==
  [i \in DOMAIN inv |->
     XorOver([j \in DOMAIN rhs |-> Scale(rhs[j], inv[i][j])], DOMAIN rhs, Zero)]

SetDense(values) ==      \* values: dense position -> value
  output' = [p \in Positions |-> IF p - M \in DOMAIN values THEN values[p - M] ELSE output[p]]

\* Seeded fault: the dense positions are left zero.
NoGaps_Zero ==
  /\ status = "gaps" /\ gap = << >> /\ ~Overruns
  /\ status' = "backfill"
  /\ UNCHANGED <<input, weight, weightSet, rowSign, tri, gap, gapCols, output, todo>>

NoGaps ==
  /\ status = "gaps" /\ gap = << >> /\ ~Overruns
  /\ IF random THEN SetDense([j \in 0..D-1 |-> Draw(M + j)]) ELSE UNCHANGED output
  /\ status' = "backfill"
  /\ UNCHANGED <<input, weight, weightSet, rowSign, tri, gap, gapCols, todo>>

TooManyGaps ==
  /\ status = "gaps" /\ Len(gap) % (ByteMax + 1) > GLimit    \* g is a byte
  /\ status' = "gap size exceeds g_limit"
  /\ UNCHANGED <<input, weight, weightSet, rowSign, tri, gap, gapCols, output, todo>>

\* backfill_gf128: the gap rows, and with a prng random rows for the rest of
\* the dense positions, form a square system.
GapsGf128 ==
  /\ status = "gaps" /\ kind = "Gf128" /\ Len(gap) \in 1..GLimit
  /\ LET g   == Len(gap)
         len == IF random THEN D ELSE g
     IN  \E extra \in [g+1..len -> [1..len -> Field]] :
           LET mat == [i \in 1..len |-> IF i <= g THEN SubSeq(E(gap[i]), 1, len) ELSE extra[i]]
               rhs == [i \in 1..len |-> IF i <= g THEN XPrime(gap[i]) ELSE Draw(M + i - 1)]
               res == CheckInvert(mat)
           IN  IF res.ok
               THEN /\ SetDense([j \in 0..len-1 |-> Times(res.inv, rhs)[j + 1]])
                    /\ status' = "backfill"
               ELSE /\ status' = "dense matrix is not invertible"
                    /\ UNCHANGED output
  /\ UNCHANGED <<input, weight, weightSet, rowSign, tri, gap, gapCols, todo>>

\* backfill_binary: the first choice of dense columns, after <<0, 1, ...>>,
\* whose square submatrix is invertible.
GapsBinary ==
  /\ status = "gaps" /\ kind = "Binary" /\ Len(gap) \in 1..GLimit /\ ~Overruns
  /\ IF Choices_ = {}
     THEN /\ status' = "no invertible submatrix"
          /\ UNCHANGED <<gapCols, output>>
     ELSE LET cols == CHOOSE c \in Choices_ : \A d \in Choices_ \ {c} : Before(c, d)
              rest == (0..D-1) \ ToSet(cols)
              rhs  == [i \in DOMAIN gap |->
                         IF random
                         THEN XorOver([j \in rest |-> Scale(Draw(M + j), E(gap[i])[j + 1])],
                                      rest, XPrime(gap[i]))
                         ELSE XPrime(gap[i])]
              sol  == Times(CheckInvert(SubMatrix(cols)).inv, rhs)
          IN  /\ gapCols' = cols
              /\ SetDense([j \in ToSet(cols) \cup (IF random THEN rest ELSE {}) |->
                             IF j \in rest THEN Draw(M + j)
                             ELSE sol[CHOOSE i \in DOMAIN cols : cols[i] = j]])
              /\ status' = "backfill"
  /\ UNCHANGED <<input, weight, weightSet, rowSign, tri, gap, todo>>

\* The dense positions a triangular row reads.
DenseUsed ==
  CASE kind = "Binary" /\ ~random -> ToSet(gapCols)
    [] kind = "Gf128" /\ ~random /\ gap = << >> -> {}
    [] OTHER -> 0..D-1

\* Seeded fault: the loop does not step to the previous row.
Backfill_Stuck ==
  /\ status = "backfill" /\ todo > 0 /\ ~Overruns
  /\ LET t == tri[todo] IN
       output' = [output EXCEPT ![t.col] =
                    AddRow(Value(t.row),
                           AddRow(Sparse(t.row, output), Dense(t.row, output, DenseUsed)))]
  /\ UNCHANGED <<input, status, weight, weightSet, rowSign, tri, gap, gapCols, todo>>

\* Seeded fault: the rows are backfilled first to last.
Backfill_Forward ==
  /\ status = "backfill" /\ todo > 0 /\ ~Overruns
  /\ LET t == tri[Len(tri) + 1 - todo] IN
       output' = [output EXCEPT ![t.col] =
                    AddRow(Value(t.row),
                           AddRow(Sparse(t.row, output), Dense(t.row, output, DenseUsed)))]
  /\ todo' = todo - 1
  /\ UNCHANGED <<input, status, weight, weightSet, rowSign, tri, gap, gapCols>>

\* One triangular row, last first: its own column takes what is missing.
Backfill ==
  /\ status = "backfill" /\ todo > 0 /\ ~Overruns
  /\ LET t == tri[todo] IN
       output' = [output EXCEPT ![t.col] =
                    AddRow(Value(t.row),
                           AddRow(Sparse(t.row, output), Dense(t.row, output, DenseUsed)))]
  /\ todo' = todo - 1
  /\ UNCHANGED <<input, status, weight, weightSet, rowSign, tri, gap, gapCols>>

Return ==
  /\ status = "backfill" /\ todo = 0
  /\ status' = "encoded"
  /\ UNCHANGED <<input, weight, weightSet, rowSign, tri, gap, gapCols, output, todo>>

Threw ==
  {"duplicate keys", "no weight-zero column", "gap size exceeds g_limit",
   "dense matrix is not invertible", "no invertible submatrix"}
Ended == status \in Threw \cup {"encoded", "undefined"}

Finished == Ended /\ UNCHANGED vars

Next ==
  \/ Triangulate \/ Randomize \/ NoGaps \/ TooManyGaps
  \/ GapsGf128 \/ GapsBinary \/ Backfill \/ Return \/ Overrun
  \/ Finished

Spec == Init /\ [][Next]_vars
-----------------------------------------------------------------------------
Chosen == {t.col : t \in ToSet(tri)}

\* The weight lists (paxos.hpp 172-251) are intrusive doubly linked lists
\* that triangulate edits for every column of every row it eliminates.  They
\* always hold each column that is not a pivot yet exactly once, in the list
\* of the number of its rows that are still to be eliminated; no such row is
\* left in a pivot's column.  And some list holds a column, or the trimming
\* loop of pop (182) would run off the vector.
ListsExact ==
  /\ \A c \in Cols :
       LET left == Cardinality(ColRows(c) \ rowSign) IN
       /\ c \in Chosen => left = 0
       /\ c \notin Chosen => weight[c] = left /\ c \in ToSet(weightSet[left])
  /\ \A w \in 0..N : IsInjective(weightSet[w]) /\ ToSet(weightSet[w]) \cap Chosen = {}
  /\ \A v, w \in 0..N : v # w => ToSet(weightSet[v]) \cap ToSet(weightSet[w]) = {}
  /\ \E w \in 0..N : weightSet[w] # << >>

\* Every row becomes either a triangular row or a gap row, once, and C is
\* triangular: a row's pivots are its own and those of later rows (asserted
\* by get_FC_1, paxos.cpp 704, and what lets backfill run backwards).
Triangular ==
  /\ rowSign = {t.row : t \in ToSet(tri)} \cup {g.row : g \in ToSet(gap)}
  /\ Cardinality(rowSign) = Len(tri) + Len(gap)
  /\ Cardinality(Chosen) = Len(tri)
  /\ \A i, j \in DOMAIN tri : tri[i].col \in ToSet(H(tri[j].row)) => i >= j
  /\ \A i \in DOMAIN tri : tri[i].col \in ToSet(H(tri[i].row))
  /\ Heavy = {} => rowSign = Rows

\* What an OKVS is for: after an encode that returned, decode gives every key
\* its value, whatever the values and, with a prng, the random columns; gap
\* rows under a prng are RandomGapsDecode's.  Equal keys have no such output:
\* triangulate compares a row only with the first row of its column, but the
\* two it then misses leave a singular dense matrix (paxos.cpp 1328-1337,
\* 897-900, 1039).
EncodeDecodes ==
  status = "encoded" =>
    /\ IsInjective(input.dense)
    /\ (random => gap = << >>) => \A r \in Rows : Decode(r) = Value(r)

\* The same with gap rows under a prng, as the header promises: "Encode the given value
\* set based on the already set input" (paxos.hpp 335), "if the Paxos data
\* should be randomized, then provide a PRNG" (paxos.cpp 1355).
RandomGapsDecode ==
  status = "encoded" /\ random => \A r \in Rows : Decode(r) = Value(r)

\* With a prng the output tells nothing but the values of the keys: a sum of
\* positions free of randomness is the sum of some keys' rows.
Support(r) == ToSet(H(r)) \cup {M + j - 1 : j \in {i \in 1..D : DenseRow(r)[i] = 1}}
CoinFree(S) ==
  \A k \in Symbols \ Rows : Cardinality({p \in S : output[p][k] = 1}) % 2 = 0
OutputRandom ==
  status = "encoded" /\ random /\ gap = << >> /\ kind = "Binary" =>
    \A S \in SUBSET Positions :
      CoinFree(S) =>
        \E T \in SUBSET Rows :
          \A p \in Positions : p \in S <=> Cardinality({r \in T : p \in Support(r)}) % 2 = 1

\* The call ends, with an output or an exception: every step takes it nearer,
\* above all every column that triangulate pops eliminates a row, however the
\* lists were edited, and until it has ended there is a step (no deadlock).
Remaining ==
  CASE status = "triangulate" -> 2 * N + 3 - Cardinality(rowSign)
    [] status = "gaps" -> N + 2
    [] status = "backfill" -> todo + 1
    [] OTHER -> 0
Terminates == [][Remaining' < Remaining]_vars
=============================================================================
