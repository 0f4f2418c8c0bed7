--------------------------- MODULE MCLockedIarm -----------------------------
(* Small instances of LockedIarm: two threads of the bus and one of the    *)
(* plugin.                                                                 *)
EXTENDS LockedIarm

CONSTANTS b1, b2, app

MCThreads == {b1, b2, app}
MCBusThreads == {b1, b2}
=============================================================================
