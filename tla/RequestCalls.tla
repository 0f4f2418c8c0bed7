---------------------------- MODULE RequestCalls ----------------------------
(***************************************************************************)
(* What JsonRpcInterface promises to the threads that call sendRequest,    *)
(* without its map of promises, its mutex, its wire or its event loop:     *)
(*                                                                         *)
(*   - at any moment at most one call is open for a request id;            *)
(*   - an open call is handed at most one answer;                          *)
(*   - every open call is closed, answered or not, unless the process      *)
(*     dies first.                                                         *)
(***************************************************************************)
CONSTANTS Threads,  \* threads that may call sendRequest
          Ids,      \* request ids as they appear on the wire
          NoId      \* no id: the thread has no open call

VARIABLES open,     \* the id each thread has an open call for, or NoId
          answered, \* the threads whose open call has its answer
          alive     \* FALSE once the process has been terminated

vars == <<open, answered, alive>>

TypeOK ==
    /\ open \in [Threads -> Ids \union {NoId}]
    /\ answered \in SUBSET Threads
    /\ alive \in BOOLEAN

Init ==
    /\ open = [t \in Threads |-> NoId]
    /\ answered = {}
    /\ alive = TRUE

Open(t, id) ==
    /\ alive
    /\ open[t] = NoId
    /\ \A u \in Threads : open[u] # id
    /\ open' = [open EXCEPT ![t] = id]
    /\ UNCHANGED <<answered, alive>>

Deliver(t) ==
    /\ alive
    /\ open[t] # NoId
    /\ t \notin answered
    /\ answered' = answered \union {t}
    /\ UNCHANGED <<open, alive>>

Close(t) ==
    /\ alive
    /\ open[t] # NoId
    /\ open' = [open EXCEPT ![t] = NoId]
    /\ answered' = answered \ {t}
    /\ UNCHANGED alive

(* The process may die only in the hands of a call that already has its    *)
(* answer: nothing else in the component gives up.                         *)
Die ==
    /\ alive
    /\ answered # {}
    /\ alive' = FALSE
    /\ UNCHANGED <<open, answered>>

Next ==
    \/ \E t \in Threads :
         \/ \E id \in Ids : Open(t, id)
         \/ Deliver(t)
         \/ Close(t)
    \/ Die

(* The promises without the last one.                                      *)
SafeSpec == Init /\ [][Next]_vars

Spec == SafeSpec /\ \A t \in Threads : WF_vars(Close(t))
=============================================================================
