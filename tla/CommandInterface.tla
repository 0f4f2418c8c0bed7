-------------------------- MODULE CommandInterface -------------------------
(***************************************************************************)
(* helpers/WebSockets/CommunicationInterface/CommandInterface.h: a command *)
(* is sent, and its response is whatever message was received last when    *)
(* the caller is woken up, by a message, by the timeout of five seconds or *)
(* spuriously.  Nothing relates the message to the command.                *)
(*                                                                         *)
(* Commands and messages are numbered in the order of their sends; message *)
(* n answers command n.  The connection keeps the order; the peer sends    *)
(* nothing but answers, and leaves commands unanswered as it likes.  A     *)
(* sendCommand whose send fails returns false and changes nothing.         *)
(***************************************************************************)
EXTENDS Integers, FiniteSets

CONSTANTS
    Callers,       \* the threads that call sendCommand
    MaxCommands    \* bound on the number of commands

ASSUME CommandInterfaceAssumption ==
    /\ IsFiniteSet(Callers)
    /\ MaxCommands \in Nat

VARIABLES
    pc,            \* the next step of each caller
    own,           \* the number of the last command of each caller
    response,      \* what its last sendCommand has returned, 0 for nothing
    sent,          \* number of commands sent
    lastResponse,  \* lastResponse_: the message received last, 0 before
    timeouts       \* number of waits that no message has ended

vars == <<pc, own, response, sent, lastResponse, timeouts>>

TypeOK ==
    /\ pc \in [Callers -> {"idle", "sent", "waiting", "woken"}]
    /\ own \in [Callers -> Nat]
    /\ response \in [Callers -> Nat]
    /\ sent \in 0 .. MaxCommands
    /\ lastResponse \in 0 .. sent
    /\ timeouts \in Nat

Init ==
    /\ pc = [c \in Callers |-> "idle"]
    /\ own = [c \in Callers |-> 0]
    /\ response = [c \in Callers |-> 0]
    /\ sent = 0
    /\ lastResponse = 0
    /\ timeouts = 0

(* sendCommand up to the lock: the answer can arrive before the wait.      *)
Send(c) ==
    /\ pc[c] = "idle"
    /\ sent < MaxCommands
    /\ sent' = sent + 1
    /\ own' = [own EXCEPT ![c] = sent + 1]
    /\ pc' = [pc EXCEPT ![c] = "sent"]
    /\ UNCHANGED <<response, lastResponse, timeouts>>

(* wait_for has no predicate: it does not look at lastResponse_.           *)
Wait(c) ==
    /\ pc[c] = "sent"
    /\ pc' = [pc EXCEPT ![c] = "waiting"]
    /\ UNCHANGED <<own, response, sent, lastResponse, timeouts>>

(* Mutant: wait instead of wait_for.                                       *)
NoTimeout(c) == FALSE

(* The timeout, or a spurious wakeup.                                      *)
Timeout(c) ==
    /\ pc[c] = "waiting"
    /\ pc' = [pc EXCEPT ![c] = "woken"]
    /\ timeouts' = timeouts + 1
    /\ UNCHANGED <<own, response, sent, lastResponse>>

(* The lock is taken again, and the message copied.                        *)
Take(c) ==
    /\ pc[c] = "woken"
    /\ response' = [response EXCEPT ![c] = lastResponse]
    /\ pc' = [pc EXCEPT ![c] = "idle"]
    /\ UNCHANGED <<own, sent, lastResponse, timeouts>>

Waiting == {c \in Callers : pc[c] = "waiting"}

(* Mutants: all waiters are woken; the message is not stored.              *)
OnMessageNotifyAll(n) ==
    /\ n \in lastResponse + 1 .. sent
    /\ lastResponse' = n
    /\ pc' = [c \in Callers |-> IF c \in Waiting THEN "woken" ELSE pc[c]]
    /\ UNCHANGED <<own, response, sent, timeouts>>

OnMessageNotStored(n) ==
    /\ n \in lastResponse + 1 .. sent
    /\ UNCHANGED lastResponse
    /\ \/ Waiting = {} /\ UNCHANGED pc
       \/ \E c \in Waiting : pc' = [pc EXCEPT ![c] = "woken"]
    /\ UNCHANGED <<own, response, sent, timeouts>>

(* onMessage: notify_one wakes any one of the callers that wait.           *)
OnMessage(n) ==
    /\ n \in lastResponse + 1 .. sent
    /\ lastResponse' = n
    /\ \/ Waiting = {} /\ UNCHANGED pc
       \/ \E c \in Waiting : pc' = [pc EXCEPT ![c] = "woken"]
    /\ UNCHANGED <<own, response, sent, timeouts>>

CallerStep(c) == Wait(c) \/ Timeout(c) \/ Take(c)

Next ==
    \/ \E c \in Callers : Send(c) \/ CallerStep(c)
    \/ \E n \in 1 .. MaxCommands : OnMessage(n)

(* A caller goes on, and its wait times out; the peer owes no answer.      *)
Spec == Init /\ [][Next]_vars /\ \A c \in Callers : WF_vars(CallerStep(c))

-----------------------------------------------------------------------------
(* The callers a message is still to wake.                                 *)
Unserved == {c \in Callers : pc[c] \in {"sent", "waiting"}}

(* The last message lags behind the last command by as many answers as     *)
(* there are callers not yet woken, and one more for every wait that ended *)
(* without a message: the lag of a timeout is never made up for by itself. *)
LagBound == sent - lastResponse <= timeouts + Cardinality(Unserved)

(* The response of a command is the answer to it or a later one, but for   *)
(* one command back per timeout and per other caller.  With a single       *)
(* caller and no timeout it is the answer to the command.                  *)
ResponseLag ==
    \A c \in Callers :
        pc[c] = "idle" => own[c] - response[c] <= timeouts + Cardinality(Callers) - 1

(* Every sendCommand returns, whether its answer comes too early, too late *)
(* or never.                                                               *)
CallsReturn == \A c \in Callers : pc[c] = "sent" ~> pc[c] = "idle"

(* The inductive invariant.                                                *)
IInv ==
    /\ TypeOK
    /\ LagBound
    /\ ResponseLag
    /\ \A c \in Callers : own[c] <= sent
=============================================================================
