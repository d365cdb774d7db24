--------------------------- MODULE MCOkvsArithmetic ---------------------------
(* Every 3x3 matrix of bits and 2x2 matrix over the field, every divisor of  *)
(* an 8-bit word, solvers of up to 8 columns and weights around the three    *)
(* columns of one block.  Interpolated tables are those of powers of two in  *)
(* MCTables and all others in MCOddTables.                                   *)
EXTENDS OkvsArithmetic

Square_(n, elements) == {[elements |-> elements, mat |-> m] : m \in [1..n -> [1..n -> elements]]}
MCSquares == Square_(3, {0, 1}) \cup Square_(2, Field)
MCDivisors == Words \ {0}
MCSolvers  == {o \in [size : 3..8, weight : {2, 3, 4, 5, 7}] : o.weight <= o.size}
MCTables   == [bins : {1, 2, 4, 8}, items : {2^k : k \in 3..9}]
MCOddTables == [bins : 2..8, items : 8..512]
=============================================================================
