---------------------------- MODULE OkvsArithmetic ----------------------------
(***************************************************************************)
(* The functions the solver rests on (src/source/mpc/okvs/okvs.cpp,        *)
(* paxos.cpp), each as one call on arguments TLC enumerates: the           *)
(* inversion of a matrix, check_invert or check_invert_gf128, column by    *)
(* column; the set-up of a divider and of a solver's dividers; the bound   *)
(* on the items of a bin.                                                  *)
(***************************************************************************)
EXTENDS OkvsLinear, SparseRows

(***************************************************************************)
(* hashtable_bin_size: how many items a bin must have room for,            *)
(* interpolated in a table of logarithms.  Logarithms are in thousandths;  *)
(* the table is cut to 8 bins and 512 items (the code's has 2^32 bins and  *)
(* 2^30 items).                                                            *)
(***************************************************************************)
LogUnit == 1000

\* sizes, by logarithm of the bins and of the items
Sizes ==
  << <<0, 1000, 2000, 3000, 4000, 5000, 6000, 7000, 8000, 9000>>,
     <<0, 1000, 2000, 3000, 4000, 5000, 5858, 6687, 7524, 8392>>,
     <<0, 1000, 2000, 3000, 4000, 4755, 5459, 6129, 6870, 7665>>,
     <<0, 1000, 2000, 3000, 3907, 4459, 5000, 5615, 6248, 6966>> >>
SizeAt(bins, items) == Sizes[bins + 1][items + 1]

MaxItems == 512

Low(x)  == CHOOSE k \in 0..9 : 2^k <= x /\ x < 2^(k + 1)
High(x) == IF x = 2^Low(x) THEN Low(x) ELSE Low(x) + 1

\* One more digit of a logarithm: a mantissa, kept to 14 bits, is squared, and
\* the digit tells whether the square is halved to stay below two.
NextDigit(log, mantissa) ==
  LET sq == (mantissa * mantissa) \div 2^14
  IN  IF sq >= 2^15 THEN <<2 * log + 1, sq \div 2>> ELSE <<2 * log, sq>>

\* std::log2, from ten binary digits
Log2 ==
  [x \in 1..MaxItems |->
     LET digits == FoldLeft(LAMBDA d, n : NextDigit(d[1], d[2]),
                            <<0, x * 2^(14 - Low(x))>>, [n \in 1..10 |-> n])
     IN  Low(x) * LogUnit + (digits[1] * LogUnit) \div 1024]

\* std::ceil(std::pow(2, log))
CeilPow(log) == Min({B \in 1..MaxItems : Log2[B] >= log})

Interpolate(weight, a, b) == (weight * a + (LogUnit - weight) * b) \div LogUnit

HashtableBinSize(binNum, itemNum) ==
  LET binDiff  == Log2[binNum] - Low(binNum) * LogUnit
      itemDiff == Log2[itemNum] - Low(itemNum) * LogUnit
      at(item) == Interpolate(binDiff, SizeAt(Low(binNum), item), SizeAt(High(binNum), item))
  IN  IF binNum < 2 THEN itemNum
      ELSE CeilPow(Interpolate(itemDiff, at(Low(itemNum)), at(High(itemNum))))
-----------------------------------------------------------------------------
CONSTANTS
  Squares,      \* arguments of check_invert (over {0, 1}) and check_invert_gf128
  Divisors,     \* arguments of gen_divider
  Solvers,      \* sparse_size and sparse_weight of an OKVS
  Tables        \* bins and items of a table

ASSUME ArithmeticAssumption ==
  /\ \A m \in Squares :
       /\ m.elements \in {{0, 1}, Field} /\ m.mat \in Seq(Seq(m.elements)) \ {<< >>}
       /\ \A i \in DOMAIN m.mat : Len(m.mat[i]) = Len(m.mat)
  /\ Divisors \subseteq Words \ {0}
  /\ \A o \in Solvers : o.weight \in 2..9 /\ o.size \in o.weight..Base
  /\ \A t \in Tables : t.bins \in 1..8 /\ t.items \in 1..MaxItems

VARIABLES op, arg, work, answer

callVars == <<op, arg, work, answer>>

None == [none |-> TRUE]

CallInit ==
  /\ \/ op = "check_invert" /\ arg \in Squares
     \/ op = "gen_divider" /\ arg \in Divisors
     \/ op = "OKVS" /\ arg \in Solvers
     \/ op = "hashtable_bin_size" /\ arg \in Tables
  /\ work = 1
  /\ answer = IF op = "check_invert"
              THEN [ok |-> TRUE, mat |-> arg.mat, inv |-> Identity(Len(arg.mat))] ELSE None

Returned == work = 0

\* One column of the matrix; a column without a pivot ends the call.
InvertColumn ==
  /\ op = "check_invert" /\ ~Returned
  /\ answer' = Eliminate(answer, work)
  /\ work' = IF answer'.ok /\ work < Len(arg.mat) THEN work + 1 ELSE 0
  /\ UNCHANGED <<op, arg>>

Generate ==
  /\ op = "gen_divider" /\ ~Returned
  /\ answer' = GenDivider(arg)
  /\ work' = 0
  /\ UNCHANGED <<op, arg>>

Construct ==
  /\ op = "OKVS" /\ ~Returned
  /\ answer' = [modVals |-> ModVals(arg.size, arg.weight), mods |-> Mods(arg.size, arg.weight)]
  /\ work' = 0
  /\ UNCHANGED <<op, arg>>

Bound ==
  /\ op = "hashtable_bin_size" /\ ~Returned
  /\ answer' = [size |-> HashtableBinSize(arg.bins, arg.items)]
  /\ work' = 0
  /\ UNCHANGED <<op, arg>>

Done == Returned /\ UNCHANGED callVars

CallNext == InvertColumn \/ Generate \/ Construct \/ Bound \/ Done
CallSpec == CallInit /\ [][CallNext]_callVars
-----------------------------------------------------------------------------
\* A matrix is invertible when no combination of its rows is zero.
Invertible(m, elements) ==
  \A c \in [DOMAIN m -> elements] :
    (\A j \in DOMAIN m : XorAll([i \in DOMAIN m |-> Mul(c[i], m[i][j])]) = 0)
      => \A i \in DOMAIN m : c[i] = 0

\* The callers read a refusal as "dense matrix is not invertible" and give
\* the encoding up (paxos.cpp 897-900, 1039), and solve the gap rows by what
\* is written back otherwise: it is the inverse, and over bits no invertible
\* matrix is refused.
AnswerExact ==
  op = "check_invert" /\ Returned =>
    /\ answer.ok => Product(answer.inv, arg.mat) = Identity(Len(arg.mat))
    /\ arg.elements = {0, 1} /\ ~answer.ok => ~Invertible(arg.mat, {0, 1})

\* Bins are chosen by reduce_mod32 in full batches and by % in the rest
\* (baxos.cpp 175, 190): whatever the divisor, the rounded reciprocal, of one
\* word or of a bit more, gives the quotient and the remainder of division,
\* on vectors as on words.
QuotientExact ==
  op = "gen_divider" /\ Returned =>
    \A x \in Words :
      /\ DivideDo(x, answer) = x \div arg
      /\ DivideDoVec(x, answer) = x \div arg
      /\ ReduceMod(x, answer, arg) = x % arg

\* The columns a key is due: residue by residue, the column with that many
\* unused ones before it.
Unused(size, used, r) ==
  CHOOSE c \in (0..size-1) \ used :
    Cardinality({b \in (0..size-1) \ used : b < c}) = r
Due(block, size, weight) ==
  FoldLeft(LAMBDA row, j :
             Append(row, Unused(size, ToSet(row), WordAt(Squared[j \div 3][block], j % 3) % (size - j))),
           << >>, [j \in 1..weight |-> j - 1])

\* A key encoded in a batch of 32 may be decoded on its own and the other way
\* round: both paths of weight 3 give the columns it is due in the same order,
\* and the path of all other weights the same columns in ascending order.  So
\* columns are distinct and below sparse_size, and none is favoured.
RowsExact ==
  op = "OKVS" /\ Returned =>
    \A block \in Blocks :
      LET due == Due(block, arg.size, arg.weight) IN
      IF arg.weight = 3
      THEN /\ SetSparse_1(block, answer.modVals, answer.mods) = due
           /\ SetSparse_32(block, answer.modVals, answer.mods) = due
      ELSE SetSparse(block, arg.size, arg.weight) = SetToSortSeq(ToSet(due), <)

\* "Maximum number of items any single thread will map to a bin"
\* (baxos.cpp:93): the bins together must at least have room for all items.
BinsHoldItems ==
  op = "hashtable_bin_size" /\ Returned => arg.bins * answer.size >= arg.items
=============================================================================
