--------------------------------- MODULE Vole ---------------------------------
(***************************************************************************)
(* VOLE over GF(2^128), src/source/mpc/vole/vole.cpp: party A ends with    *)
(* vectors a and c, party B, who holds delta, with b = c + a * delta.      *)
(* Base VOLE makes pprf_num correlations from OTs on the bits of delta;    *)
(* each is spread over a block of positions by a GGM tree that A holds     *)
(* punctured; a linear code compresses the result.  A plays the role "S"   *)
(* of TwoParty and B the role "R".                                         *)
(*                                                                         *)
(* A block is a formal sum over GF(2), written as the set of its terms.    *)
(* Random blocks are terms of their own, the PRG and AES are free          *)
(* functions, and a product with the i-th gadget weight is a term          *)
(* <<"g", i, term>>: two blocks are equal when they are equal whatever     *)
(* the randomness.                                                         *)
(***************************************************************************)
EXTENDS Endpoints

CONSTANTS
  BlockBits,    \* kBlockBitLen, 128
  Small,        \* kSmallVoleThreshold, 256
  PprfNum,      \* pprf_num, called t in the code
  ItemNums,     \* values of item_num
  Deltas,       \* values of delta, as vectors of bits
  EcKeys,       \* values of ec_key
  Weight, Taps, \* expander_weight_, accumulator_size_
  Coin(_, _, _),   \* key, i, j: the code's random bits ...
  Spot(_, _, _)    \* key, size, n: ... and its random positions in 1..size

\* setup() allows 128 to 248 trees and the threshold is 256: a tree has two
\* leaves at least.
ASSUME VoleAssumption ==
  /\ BlockBits \in Nat \ {0} /\ PprfNum \in Nat \ {0} /\ {Small, Weight} \subseteq Nat
  /\ ItemNums \subseteq Nat \ {0} /\ IsFiniteSet(ItemNums)
  /\ Deltas \subseteq [1..BlockBits -> {0, 1}]
  /\ \A n \in ItemNums : n >= Small => n >= PprfNum
  /\ \A key \in EcKeys, n \in ItemNums : \A w \in 1..n * Weight :
       Spot(key, 2 * n, w) \in 1..2 * n

\* setup() and the calls' arguments, and A's random positions in the trees.
VoleParams ==
  {q \in [protocol : {"vole"}, itemNum : ItemNums, delta : Deltas, ecKey : EcKeys,
          index : [1..PprfNum -> 0..Max(ItemNums)]] :
     LET sub  == (2 * q.itemNum) \div PprfNum
         last == ((2 * q.itemNum) % PprfNum) + sub
     IN  \A i \in 1..PprfNum :
           IF q.itemNum < Small THEN q.index[i] = 0
                                ELSE q.index[i] < IF i = PprfNum THEN last ELSE sub}

ItemNum == param.itemNum
Delta   == param.delta
IsSmall == ItemNum < Small
Trees   == 1..PprfNum
-----------------------------------------------------------------------------
(***************************************************************************)
(* Blocks.                                                                 *)
(***************************************************************************)
Zero       == {}
Add(x, y)  == SymDiff(x, y)
Sum(s)     == {term \in UNION ToSet(s) : Cardinality({k \in DOMAIN s : term \in s[k]}) % 2 = 1}
Fresh(name, i) == {<<name, i>>}
Prf(x)       == {<<"aes", x>>}                \* AES under the common key
Prg(x, side) == {<<"ggm", x, side>>}          \* ggm_prg

GadgetProduct(s) == UNION {{<<"g", i, term>> : term \in s[i]} : i \in 1..BlockBits}
TimesDelta(x) ==
  GadgetProduct([i \in 1..BlockBits |-> IF Delta[i] = 1 THEN x ELSE Zero])
-----------------------------------------------------------------------------
(***************************************************************************)
(* Base VOLE.  OT row (j, i) belongs to bit i of correlation j.            *)
(***************************************************************************)
BaseLen == IF IsSmall THEN ItemNum ELSE PprfNum
BaseRow(j, i) == (j - 1) * BlockBits + i
BaseRows == 1..BaseLen * BlockBits
BitOf(row) == ((row - 1) % BlockBits) + 1
K(bit, row) == Fresh(IF bit = 0 THEN "k0" ELSE "k1", row)
U(j) == Fresh("u", j)

Gamma == [row \in BaseRows |->
            Add(Add(Prf(K(0, row)), Prf(K(1, row))), U((row - 1) \div BlockBits + 1))]
W(j) == GadgetProduct([i \in 1..BlockBits |-> Prf(K(0, BaseRow(j, i)))])

\* base_vole_party_b, entry j.
V(j) ==
  LET got == OtReceive([row \in BaseRows |-> Delta[BitOf(row)]],
                       inbox["R"][<<"base", "vec_outer_c0">>],
                       inbox["R"][<<"base", "vec_outer_c1">>])
      gamma == inbox["R"][<<"base", "vec_gamma">>]
  IN  GadgetProduct([i \in 1..BlockBits |->
        Add(Prf(got[BaseRow(j, i)]), IF Delta[i] = 1 THEN gamma[BaseRow(j, i)] ELSE Zero)])
-----------------------------------------------------------------------------
(***************************************************************************)
(* The trees: tree i covers TreeLen(i) positions, the last one the rest.   *)
(***************************************************************************)
Pow2[n \in Nat] == IF n = 0 THEN 1 ELSE 2 * Pow2[n - 1]
CeilLog2(n) == CHOOSE d \in 0..n : Pow2[d] >= n /\ \A e \in 0..d-1 : Pow2[e] < n
SubLen   == (2 * ItemNum) \div PprfNum
LastLen  == ((2 * ItemNum) % PprfNum) + SubLen
TreeLen(i) == IF i = PprfNum THEN LastLen ELSE SubLen
Depth(i)   == CeilLog2(TreeLen(i))
MaxDepth   == Max({CeilLog2(2 * n) : n \in ItemNums})

\* Where tree i's rows begin among the OT rows, and the rows rounded up.
Offset(i)  == (i - 1) * CeilLog2(SubLen)
SelectLen  == Offset(PprfNum) + Depth(PprfNum)
ExtendLen  == ((SelectLen + BlockBits - 1) \div BlockBits) * BlockBits

\* The nodes below those of a level, left to right: node k is a child of node
\* Parent(k) on side Side(k).
Parent(k) == (k + 1) \div 2
Side(k)   == (k + 1) % 2
Children(level) == [k \in 1..2 * Len(level) |-> Prg(level[Parent(k)], Side(k))]

\* The nodes of a full tree, depth by depth.
Nodes(root) ==
  LET level[d \in 0..MaxDepth] == IF d = 0 THEN <<root>> ELSE Children(level[d - 1])
  IN  [d \in 0..MaxDepth |-> level[d]]

\* The sum of a level's left (side 0) or right nodes: vec_m0 and vec_m1.
LevelSum(level, side) ==
  Sum([k \in 1..Len(level) \div 2 |-> level[2 * k - 1 + side]])

Root(i) == Fresh("root", i)

\* full_eval: for every tree the nodes of each depth, the leaves last, and the
\* messages of each depth; the sum of the last depth's is that of the leaves.
Tree == [i \in Trees |-> Nodes(Root(i))]
M    == [i \in Trees |-> [side \in {0, 1} |->
           [d \in 1..MaxDepth |-> LevelSum(Tree[i][d], side)]]]
LeafSum(i) == Add(M[i][0][Depth(i)], M[i][1][Depth(i)])

\* Seeded fault: the bits are not complemented.
SelectionBits_Path(num, len) == [k \in 1..len |-> (num \div Pow2[len - k]) % 2]

\* trans_to_bit_vec: the complement of num, most significant bit first.
SelectionBits(num, len) == [k \in 1..len |-> 1 - ((num \div Pow2[len - k]) % 2)]

\* Each tree's bits in order, filled up with zeros.
Selection ==
  LET bits == FlattenSeq([i \in Trees |-> SelectionBits(param.index[i], Depth(i))])
  IN  [row \in 1..ExtendLen |-> IF row <= SelectLen THEN bits[row] ELSE 0]

Hole == {<<"hole">>}                \* the node A does not know

\* One depth of punc_eval: the children of the known nodes, and of the hole
\* the child on the side of the message; the other one takes the correction
\* beta, a hole as long as there is none.
Grow(nodes, m, side, beta) ==
  LET rest(s)  == Sum([k \in DOMAIN nodes |-> IF nodes[k] = Hole THEN Zero ELSE Prg(nodes[k], s)])
      child(s) == IF s # side /\ beta = Hole THEN Hole
                  ELSE Add(Add(m, rest(s)), IF s = side THEN Zero ELSE beta)
      under    == [s \in {0, 1} |-> child(s)]
  IN  [k \in 1..2 * Len(nodes) |->
        IF nodes[Parent(k)] = Hole THEN under[Side(k)] ELSE Prg(nodes[Parent(k)], Side(k))]

\* punc_eval: the last depth is corrected by beta, the sum of all leaves and of
\* the base correlation.
PuncEval(depth, beta, m, bits) ==
  LET nodes[d \in 0..depth - 1] ==
        IF d = 0 THEN <<Hole>> ELSE Grow(nodes[d - 1], m[d], bits[d], Hole)
  IN  Grow(nodes[depth - 1], m[depth], bits[depth], beta)
-----------------------------------------------------------------------------
(***************************************************************************)
(* The code: dual_encode accumulates, then expands.                        *)
(***************************************************************************)
Tapped(key, i, size) ==
  {j \in i+1..size : j = i + Taps \/ (j < i + Taps /\ Coin(key, i, j) = 1)}

\* accumulate adds x[i] to the positions it taps, in ascending order of i:
\* position j is final once those before it are.
AppendNext(key, x, d) ==
  LET j == Len(d) + 1
  IN  Append(d, Sum(<<x[j]>> \o [i \in 1..j-1 |-> IF j \in Tapped(key, i, Len(x)) THEN d[i] ELSE Zero]))
Accumulate(key, x) ==
  LET first[j \in 0..Len(x)] == IF j = 0 THEN << >> ELSE AppendNext(key, x, first[j - 1])
  IN  first[Len(x)]

DualEncode(key, x) ==
  LET d == Accumulate(key, x)
  IN  [k \in 1..Len(x) \div 2 |->
         Sum([w \in 1..Weight |-> d[Spot(key, Len(x), (k - 1) * Weight + w)]])]
-----------------------------------------------------------------------------
(***************************************************************************)
(* What each send carries.                                                 *)
(***************************************************************************)
\* The messages of all trees, one after the other, filled up with zeros.
VecM(side) ==
  LET m == FlattenSeq([i \in Trees |-> SubSeq(M[i][side], 1, Depth(i))])
  IN  [row \in 1..ExtendLen |-> IF row <= SelectLen THEN m[row] ELSE Zero]

VolePayload(name) ==
  CASE name = <<"base", "vec_outer_c0">> -> [row \in BaseRows |-> Encrypt(row, 0, K(0, row))]
    [] name = <<"base", "vec_outer_c1">> -> [row \in BaseRows |-> Encrypt(row, 1, K(1, row))]
    [] name = <<"base", "vec_gamma">> -> Gamma
    [] name = <<"extend", "vec_send_to_a">> -> [i \in Trees |-> Add(LeafSum(i), V(i))]
    [] name = <<"extend", "vec_outer_c0">> ->
         LET m == VecM(0) IN [row \in 1..ExtendLen |-> Encrypt(row, 0, m[row])]
    [] name = <<"extend", "vec_outer_c1">> ->
         LET m == VecM(1) IN [row \in 1..ExtendLen |-> Encrypt(row, 1, m[row])]
    [] name = <<"extend", "ec_key">> -> param.ecKey
    [] OTHER -> "opaque"

\* vec_total_m
Received ==
  OtReceive(Selection, inbox["S"][<<"extend", "vec_outer_c0">>],
                       inbox["S"][<<"extend", "vec_outer_c1">>])

\* vec_b, vec_c and base_field_a before they are encoded.
LeavesB ==
  FlattenSeq([i \in Trees |-> SubSeq(Tree[i][Depth(i)], 1, TreeLen(i))])
LeavesA ==
  FlattenSeq([i \in Trees |->
    LET beta == Add(inbox["S"][<<"extend", "vec_send_to_a">>][i], W(i))
        part(rows) == SubSeq(rows, Offset(i) + 1, Offset(i) + Depth(i))
    IN  SubSeq(PuncEval(Depth(i), beta, part(Received), part(Selection)), 1, TreeLen(i))])
BaseFieldA ==
  FlattenSeq([i \in Trees |->
    [k \in 1..TreeLen(i) |-> IF k = param.index[i] + 1 THEN U(i) ELSE Zero]])

OutputA ==
  IF IsSmall
  THEN [a |-> [j \in 1..ItemNum |-> U(j)], c |-> [j \in 1..ItemNum |-> W(j)]]
  ELSE LET key == inbox["S"][<<"extend", "ec_key">>]
       IN  [a |-> DualEncode(key, BaseFieldA), c |-> DualEncode(key, LeavesA)]

OutputB ==
  IF IsSmall THEN [j \in 1..ItemNum |-> V(j)] ELSE DualEncode(param.ecKey, LeavesB)
=============================================================================
