----------------------------- MODULE MCApiLock ------------------------------
(* Small instances of ApiLock: plugins a and b invoke each other, and b    *)
(* also invokes c.                                                         *)
EXTENDS ApiLock

CONSTANTS t1, t2, timer, a, b, c

MCThreads == {t1, t2, timer}
MCPlugins == {a, b, c}
MCInvokes == {<<a, b>>, <<b, a>>, <<b, c>>}
=============================================================================
