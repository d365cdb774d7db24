------------------------------ MODULE MCSessions ------------------------------
(* Two items on either side out of four, none, one or both shared, in either *)
(* order; prefixes all different, or shared by two of the items; three       *)
(* matrix columns in two buckets, with two positions each.                   *)
(* VOLE: two-bit blocks and three trees; one item takes base VOLE alone,     *)
(* four and seven items make trees of 2, 2 and 4 and of 4, 4 and 6 positions. *)
EXTENDS Sessions

MCDeltas == {<<1, 0>>, <<0, 1>>, <<1, 1>>}
MCCoin(key, i, j) == ((i * j + key) \div 2) % 2
MCSpot(key, size, n) == ((n * (2 * n + key)) % size) + 1

MCPairs == {s \in [1..2 -> Items] : s[1] # s[2]}
MCReceiverInputs == {<<"a", "b">>, <<"b", "a">>}
MCPrefixMaps ==
  {[e \in Items |-> e]} \cup {[e \in Items |-> IF e = s[1] THEN s[2] ELSE e] : s \in MCPairs}

\* Where the items fall differs from column to column and hangs on every salt.
MCPlace(item, salts, i) ==
  LET code == CASE item = "a" -> 1 [] item = "b" -> 2 [] item = "c" -> 3 [] item = "d" -> 5
  IN  ((code * (i + FoldSeq(LAMBDA s, n : 2 * n + s, 1, salts))) \div 2) % MatrixHeight
=============================================================================
