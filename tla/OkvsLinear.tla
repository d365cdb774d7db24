------------------------------ MODULE OkvsLinear ------------------------------
(***************************************************************************)
(* The linear algebra of src/source/mpc/okvs/okvs.cpp: field arithmetic,   *)
(* the matrix inversions check_invert (bits) and check_invert_gf128, and   *)
(* prev_combination.                                                       *)
(*                                                                         *)
(* GF(2^128) becomes GF(4), the smallest field whose non-zero elements are *)
(* not all one: 0, 1, w, w^2 written 0, 1, 2, 3.  GF(2) is {0, 1} inside   *)
(* it, so check_invert and check_invert_gf128, which take the same steps,  *)
(* are one operator here.                                                  *)
(***************************************************************************)
EXTENDS Integers, SequencesExt

Field == 0..3

\* operator^ on blocks
Xor(a, b) == ((a + b) % 2) + 2 * (((a \div 2) + (b \div 2)) % 2)

\* gf128_mul: exponents of w add up modulo 3.
Mul(a, b) == IF a = 0 \/ b = 0 THEN 0 ELSE (((a - 1) + (b - 1)) % 3) + 1

\* gf128_inv: x^(2^128 - 2), so the inverse of zero is zero.
Inv(a) == IF a = 0 THEN 0 ELSE ((4 - a) % 3) + 1

\* The powers common_ratio, common_ratio^2, ... the code multiplies up.
Powers(a, n) == FoldLeft(LAMBDA s, k : Append(s, Mul(Last(s), a)), <<a>>, [k \in 1..n-1 |-> k])

Identity(n) == [i \in 1..n |-> [j \in 1..n |-> IF i = j THEN 1 ELSE 0]]

Scale(row, a) == [k \in DOMAIN row |-> Mul(row[k], a)]
AddRow(row, other) == [k \in DOMAIN row |-> Xor(row[k], other[k])]
Swap(m, i, j) == [m EXCEPT ![i] = m[j], ![j] = m[i]]
XorAll(s) == FoldLeft(Xor, 0, s)
Product(a, b) ==
  [i \in DOMAIN a |-> [j \in DOMAIN a |->
     XorAll([k \in DOMAIN a |-> Mul(a[i][k], b[k][j])])]]

\* Seeded fault: no row below is looked for.
PivotRow_Own(mat, i) == i

\* The row that takes row i's place when its pivot is zero: the first one
\* below with a one in the column.
PivotRow(mat, i) ==
  LET below == {j \in DOMAIN mat : j > i /\ mat[j][i] = 1}
  IN  IF mat[i][i] # 0 \/ below = {} THEN i ELSE Min(below)

\* One round of Gauss-Jordan elimination, on column i, once row i holds the
\* pivot.
ClearColumn(i, mat, inv) ==
  LET a    == Inv(mat[i][i])
      matI == Scale(mat[i], a)
      invI == Scale(inv[i], a)
  IN  [ok  |-> TRUE,
       mat |-> [j \in DOMAIN mat |->
                  IF j = i THEN matI ELSE AddRow(mat[j], Scale(matI, mat[j][i]))],
       inv |-> [j \in DOMAIN inv |->
                  IF j = i THEN invI ELSE AddRow(inv[j], Scale(invI, mat[j][i]))]]

Eliminate(s, i) ==
  LET p   == PivotRow(s.mat, i)
      mat == Swap(s.mat, i, p)
  IN  IF ~s.ok \/ mat[i][i] = 0 THEN [s EXCEPT !.ok = FALSE]
                                ELSE ClearColumn(i, mat, Swap(s.inv, i, p))

\* check_invert and check_invert_gf128: the answer, and the matrix that is
\* written back over the argument.
CheckInvert(mat) ==
  FoldLeft(Eliminate, [ok |-> TRUE, mat |-> mat, inv |-> Identity(Len(mat))],
           [i \in DOMAIN mat |-> i])

\* The increasing sequences of k members of 0..n-1, and the order in which
\* prev_combination runs through them.
Combinations(n, k) == {c \in [1..k -> 0..n-1] : \A i \in 1..k-1 : c[i] < c[i + 1]}
Before(c, d) == \E i \in DOMAIN c : c[i] < d[i] /\ \A j \in 1..i-1 : c[j] = d[j]
=============================================================================
