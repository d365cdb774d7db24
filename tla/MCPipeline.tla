------------------------------ MODULE MCPipeline ------------------------------
(* Four and three items, none, some or all of the client's shared; chunks of *)
(* one element fill the queue, chunks of two leave a short last one.         *)
EXTENDS Pipeline

MCServerInputs == {<<"a", "b", "c", "d">>}
MCClientInputs == {<<"a", "e", "c">>, <<"d", "e", "f">>}
=============================================================================
