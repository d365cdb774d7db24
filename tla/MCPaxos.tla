------------------------------- MODULE MCPaxos -------------------------------
(* Weight 3.  Rows list their columns in ascending order and keys come in    *)
(* the order of their columns: other orders only permute the choices between *)
(* columns of equal weight.  So does naming the columns: every first row is  *)
(* 0 1 2, and the second is anything over the field without a prng, the same *)
(* or 0 1 3 otherwise, since of three different triples of five columns two  *)
(* share two columns.  Four rows never leave a column free without a gap     *)
(* row, three do.                                                            *)
EXTENDS Paxos

Triples == {s \in [1..3 -> Cols] : s[1] < s[2] /\ s[2] < s[3]}
Arrangements(n) ==
  {h \in [1..n -> Triples] : \A r \in 1..n-1 : h[r] = h[r + 1] \/ Before(h[r], h[r + 1])}
FromFirst(n) == {h \in Arrangements(n) : h[1] = <<0, 1, 2>>}
Shapes(n) == {h \in FromFirst(n) : h[2] \in {<<0, 1, 2>>, <<0, 1, 3>>}}

\* Some blocks are the sum of others.
Blocks4 == {{0}, {0, 1}, {1, 2}, {0, 1, 2}}
Blocks5 == Blocks4 \cup {{2}}

Calls(kind_, g_limit_, lambda_, randoms, hs, blocks) ==
  UNION {{in \in [kind : {kind_}, g_limit : {g_limit_}, lambda : {lambda_}, random : randoms,
                  h : {h}, dense : [DOMAIN h -> blocks]] :
            \A r, s \in DOMAIN h : in.dense[r] = in.dense[s] => in.h[r] = in.h[s]} : h \in hs}

\* No dense position; more than a block has bits; a dense_size that wraps, to
\* one; a total_size beyond the idx_type of sparse_size.
Corners ==
  Calls("Gf128", 0, 1, BOOLEAN, Shapes(3), Field)
    \cup Calls("Binary", 1, 128, BOOLEAN, Shapes(3), {{0}, {1}, {0, 127}})
    \cup Calls("Binary", 2, 255, BOOLEAN, Shapes(4), {{0}, {1}, {0, 1}})
    \cup Calls("Gf128", 251, 1, {TRUE}, {<< <<0, 1, 2>> >>}, {1})

MCInputs ==
  Calls("Gf128", 2, 1, {FALSE}, FromFirst(4), Field) \cup Calls("Gf128", 2, 1, {TRUE}, Shapes(4), Field)
    \cup Calls("Binary", 2, 1, BOOLEAN, Shapes(4), Blocks4)
    \cup Calls("Binary", 2, 1, {TRUE}, Shapes(3), Blocks5) \cup Corners
MCRandomInputs == Calls("Binary", 1, 1, {TRUE}, Arrangements(3), Blocks5)
=============================================================================
