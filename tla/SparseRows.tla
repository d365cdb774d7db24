------------------------------ MODULE SparseRows ------------------------------
(***************************************************************************)
(* The sparse columns of a key (src/source/mpc/okvs/paxos.cpp): set_sparse *)
(* computes those of 32 keys at a time on vectors and of the keys that are *)
(* left over one by one; decode does the same with other batches, so a key *)
(* must get the same columns on both paths.  A hashed key is a block of    *)
(* four digits, word i of which is its digits i and i + 1.                 *)
(*                                                                         *)
(* Both divide by an invariant divisor (src/source/mpc/okvs/okvs.cpp): a   *)
(* multiplication by a rounded-up reciprocal, its high word, and a shift.  *)
(* A word is two digits of Base, as 64 bits are two of 32; every operation *)
(* wraps at Word as the code's does.                                       *)
(***************************************************************************)
EXTENDS Integers, SequencesExt

CONSTANTS
  Half,       \* bits of a digit (32)
  Digits      \* the digits of hashed keys

ASSUME WidthAssumption == Half \in Nat \ {0}

(***************************************************************************)
(* The divider.                                                            *)
(***************************************************************************)
Base  == 2^Half
WordBits  == 2 * Half       \* bits of a word (64)
Word  == Base * Base
Words == 0..Word-1

Wrap(x) == x % Word
FloorLog(d) == CHOOSE k \in 0..WordBits-1 : 2^k <= d /\ d < 2^(k + 1)

\* divide_mullhi_u64: the high word of the double-width product.
MulHi(x, y) == (x * y) \div Word

\* divide_mullhi_uint64_t_vec256, digit by digit: no product of its own is
\* wider than a word.
MulHiDigits(x, y) ==
  LET x0 == x % Base  x1 == x \div Base
      y0 == y % Base  y1 == y \div Base
      temp == Wrap(x1 * y0 + ((x0 * y0) \div Base))
  IN  Wrap(x1 * y1 + (temp \div Base) + (Wrap((temp % Base) + x0 * y1) \div Base))

\* One digit of the quotient: an estimate from the divisor's high digit,
\* corrected by its low one, and what is left of high and low.
Digit(high, low, den) ==
  LET qhat == high \div (den \div Base)
      c1   == Wrap(qhat * (den % Base))
      c2   == Wrap((high % (den \div Base)) * Base + low)
      q    == (qhat - (IF c1 > c2 THEN IF c1 - c2 > den THEN 2 ELSE 1 ELSE 0)) % Base
  IN  [q |-> q, rem |-> Wrap(high * Base + low - q * den)]

\* divide_128_div_64_to_64 where there is no divq: two digits of the
\* quotient, after a shift that fills the divisor's high digit.
DivideDigits(numhi, numlo, d) ==
  LET shift == WordBits - 1 - FloorLog(d)
      den   == Wrap(d * 2^shift)
      high  == Wrap(numhi * 2^shift) + (numlo \div 2^(WordBits - shift))
      low   == Wrap(numlo * 2^shift)
      first == Digit(high, low \div Base, den)
      last  == Digit(first.rem, low % Base, den)
  IN  IF numhi >= d THEN [quotient |-> Word - 1, rem |-> Word - 1]
      ELSE [quotient |-> first.q * Base + last.q, rem |-> last.rem \div 2^shift]

\* Seeded fault: the error of rounding up is allowed to be one more.
GenDivider_OffByOne(d) ==
  LET k     == FloorLog(d)
      div   == DivideDigits(2^k, 0, d)
      twice == Wrap(2 * div.rem)
      carry == IF twice >= d \/ twice < div.rem THEN 1 ELSE 0
  IN  IF d = 2^k THEN [magic |-> 0, plus |-> FALSE, shift |-> k]
      ELSE IF d - div.rem <= 2^k + 1 THEN [magic |-> Wrap(1 + div.quotient), plus |-> FALSE, shift |-> k]
      ELSE [magic |-> Wrap(1 + Wrap(2 * div.quotient) + carry), plus |-> TRUE, shift |-> k]

\* gen_divider, for a non-zero divisor.  A reciprocal of one word will do
\* when rounding it up errs by less than 2^k; otherwise it takes a bit more,
\* which the quotient then has to add (flag 0x40 of more, here plus).
GenDivider(d) ==
  LET k     == FloorLog(d)
      div   == DivideDigits(2^k, 0, d)
      twice == Wrap(2 * div.rem)
      carry == IF twice >= d \/ twice < div.rem THEN 1 ELSE 0
  IN  IF d = 2^k THEN [magic |-> 0, plus |-> FALSE, shift |-> k]
      ELSE IF d - div.rem < 2^k THEN [magic |-> Wrap(1 + div.quotient), plus |-> FALSE, shift |-> k]
      ELSE [magic |-> Wrap(1 + Wrap(2 * div.quotient) + carry), plus |-> TRUE, shift |-> k]

\* What is left of a quotient once its high word q is known.
Shifted(numer, q, denom) ==
  IF denom.magic = 0 THEN numer \div 2^denom.shift
  ELSE IF denom.plus THEN Wrap((Wrap(numer - q) \div 2) + q) \div 2^denom.shift
                     ELSE q \div 2^denom.shift

\* divide_u64_do and divide_u64_do_vec256
DivideDo(numer, denom)    == Shifted(numer, MulHi(denom.magic, numer), denom)
DivideDoVec(numer, denom) == Shifted(numer, MulHiDigits(numer, denom.magic), denom)

\* reduce_mod32, one of its 32 lanes
ReduceMod(val, denom, modVal) == Wrap(val - DivideDoVec(val, denom) * modVal)
-----------------------------------------------------------------------------
(***************************************************************************)
(* The columns.                                                            *)
(***************************************************************************)
Blocks == [0..3 -> Digits]

\* idx_type is as wide as the sparse size needs, here a digit.
Idx(x) == x % Base

WordAt(block, i) == block[i % 3] + Base * block[(i % 3) + 1]

\* gf128_mul(block, block).  On a normal basis a square is a rotation.
Square(block) == [i \in 0..3 |-> block[(i + 1) % 4]]

\* mModVals and mMods
ModVals(size, weight) == [i \in 0..weight-1 |-> size - i]
Mods(size, weight)    == [i \in 0..weight-1 |-> GenDivider(size - i)]

\* set_sparse_1, weight 3: quotients are kept in idx_type, and the second
\* and third column step over those before them.
SetSparse_1(block, modVals, mods) ==
  LET row(i) == Idx(WordAt(block, i) - Idx(DivideDo(WordAt(block, i), mods[i])) * modVals[i])
      min == Min({row(0), row(1)})
      max == row(0) + row(1) - min
      col1 == IF max = row(1) THEN row(1) + 1 ELSE row(1)
      top  == IF max = row(1) THEN max + 1 ELSE max
      col2 == IF row(2) >= min THEN row(2) + 1 ELSE row(2)
  IN  <<row(0), Idx(col1), Idx(IF col2 >= top THEN col2 + 1 ELSE col2)>>

\* Seeded fault: the maximum does not move along with the column it is.
SetSparse_32_Stale(block, modVals, mods) ==
  LET row(i) == ReduceMod(WordAt(block, i), mods[i], modVals[i])
      max  == IF row(0) > row(1) THEN row(0) ELSE row(1)
      min  == row(0) + row(1) - max
      col1 == IF max = row(1) THEN row(1) + 1 ELSE row(1)
      col2 == IF min > row(2) THEN row(2) ELSE row(2) + 1
  IN  <<Idx(row(0)), Idx(col1), Idx(IF max > col2 THEN col2 ELSE col2 + 1)>>

\* set_sparse_32, weight 3, one of its 32 lanes: compare masks instead of
\* branches, on words.
SetSparse_32(block, modVals, mods) ==
  LET row(i) == ReduceMod(WordAt(block, i), mods[i], modVals[i])
      larger == IF row(0) > row(1) THEN row(0) ELSE row(1)
      min  == row(0) + row(1) - larger
      step == IF larger = row(1) THEN 1 ELSE 0
      max  == larger + step
      col1 == row(1) + step
      col2 == IF min > row(2) THEN row(2) ELSE row(2) + 1
  IN  <<Idx(row(0)), Idx(col1), Idx(IF max > col2 THEN col2 ELSE col2 + 1)>>

\* Any other weight: the block is squared after every three columns, and a
\* column steps over those it is not below until it finds its place.
Squared == [n \in 0..2 |-> [block \in Blocks |->
              IF n = 0 THEN block ELSE IF n = 1 THEN Square(block) ELSE Square(Square(block))]]

Insert(sparse, col) ==
  LET below == {k \in 0..Len(sparse) :
                  /\ \A i \in 1..k : col + i - 1 >= sparse[i]
                  /\ k < Len(sparse) => col + k < sparse[k + 1]}
      place == Min(below)
  IN  InsertAt(sparse, place + 1, Idx(col + place))

SetSparse(block, size, weight) ==
  FoldLeft(LAMBDA sparse, j :
             Insert(sparse, WordAt(Squared[j \div 3][block], j % 3) % (size - j)),
           << >>, [j \in 1..weight |-> j - 1])
=============================================================================
