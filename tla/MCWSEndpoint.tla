--------------------------- MODULE MCWSEndpoint -----------------------------
(* Small instances of WSEndpoint: clients and servers, with one connection *)
(* at a time and a library that ends the timeout of a closed one, or with  *)
(* several and one that does not; and the plainest client.                 *)
EXTENDS WSEndpoint

MCSettings == {s \in Setting : s.timeoutOutlives = s.concurrent}
MCClient == {[server |-> FALSE, concurrent |-> FALSE, timeoutOutlives |-> FALSE]}
=============================================================================
