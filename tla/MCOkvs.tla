-------------------------------- MODULE MCOkvs --------------------------------
(* Five keys, given or padded, in one bin or in three; every way they and    *)
(* one more block can fall into the bins.                                    *)
EXTENDS Okvs

MCBinSize(bins, items) == CASE bins < 2 -> items [] items = 5 -> 3 [] items = 3 -> 2
MCWide(bins, items) == items

Parameter(itemNum, size, weight, lambda) ==
  [itemNum |-> itemNum, binSize |-> size, sparseWeight |-> weight, lambda |-> lambda]
MCParameters ==
  {Parameter(5, 5, 3, 40), Parameter(5, 2, 3, 40), Parameter(0, 2, 3, 40), Parameter(5, 0, 3, 40),
   Parameter(5, 2, 1, 40), Parameter(5, 2, 3, 256)}
MCFewParameters == {Parameter(3, 2, 3, 40)}
MCNarrowParameters == {Parameter(5, 3, 3, 40)}

Request(some, n) == [keys |-> some, valueNum |-> n]
MCRequests ==
  {Request(<<0, 1, 2>>, 3), Request(<<0, 1>>, 1),
   Request(<<0, 1, 2, 3, 4, 5>>, 6)}
MCFewRequests == {Request(<<0, 1, 2>>, 3)}
MCNarrowRequests == {Request(<<0, 1, 2, 3, 4>>, 5)}

MCStreams == {<<1, 4, 4, 2, 3, 5>>}
MCNoStreams == {<< >>}
MCNarrowQuerySets == {<<0, 1, 2, 3>>}
MCQuerySets == {<< >>, <<3>>, <<4, 3, 2, 1, 0, 5>>, <<0, 0, 1, 2>>}
=============================================================================
