------------------------- MODULE MCJsonRpcInterface -------------------------
(* A small instance of JsonRpcInterface.                                   *)
EXTENDS JsonRpcInterface

CONSTANTS c1, c2

MCCallers == {c1, c2}
=============================================================================
