-------------------------------- MODULE MCPairs --------------------------------
(* A file of three blocks, buffers of two; two clients with a message each. *)
EXTENDS Pairs

CONSTANTS c1, c2

MCFile    == <<"b1", "b2", "b3">>
MCText    == (c1 :> <<"x", "y">>) @@ (c2 :> <<"z">>)
MCMessage == <<"m", "n">>
=============================================================================
