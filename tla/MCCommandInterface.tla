------------------------ MODULE MCCommandInterface -------------------------
(* Small instances of CommandInterface.                                    *)
EXTENDS CommandInterface
=============================================================================
