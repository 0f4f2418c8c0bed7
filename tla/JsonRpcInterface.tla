-------------------------- MODULE JsonRpcInterface --------------------------
(***************************************************************************)
(* helpers/WebSockets/CommunicationInterface/JsonRpcInterface.h: the       *)
(* request/response side of a JSON-RPC endpoint.                           *)
(*                                                                         *)
(* sendRequest runs on the calling thread.  It saves a promise under the   *)
(* id of the request, sends the request and waits at most five seconds     *)
(* for the future of that promise.  onMessage runs on the event loop       *)
(* thread of the endpoint: it fulfils the promise saved under the id of a  *)
(* response, and calls the notification handler itself, so a handler that  *)
(* calls sendRequest does so on the event loop thread.                     *)
(*                                                                         *)
(* Every critical section of responseMutex_ is one step; between two of    *)
(* them any other thread may run.  A request is the number of its          *)
(* creation; its Id field is that number modulo IdModulus (2^32 in the     *)
(* code).  The call that a promise belongs to is named by its thread.      *)
(***************************************************************************)
EXTENDS Integers, Sequences

CONSTANTS
    Callers,          \* application threads
    EventLoop,        \* the thread in WSEndpoint::startEventLoop
    NoThread,         \* no promise is saved under the id
    IdModulus,        \* number of values of Request::idSequence
    MaxRequests,      \* bound on the requests created
    MaxSends,         \* bound on the requests that reach the peer
    MaxNotifications  \* bound on the other messages of the peer

Threads == Callers \union {EventLoop}
Requests == 1 .. MaxRequests
Ids == 0 .. IdModulus - 1

ASSUME ThreadAssumption ==
    /\ EventLoop \notin Callers
    /\ NoThread \notin Threads
ASSUME BoundAssumption ==
    /\ IdModulus \in Nat \ {0}
    /\ MaxRequests \in Nat
    /\ MaxSends \in Nat
    /\ MaxNotifications \in Nat

VARIABLES
    created,            \* how often Request::generateId has run
    pc,                 \* where each thread is in sendRequest
    req,                \* the request of the thread's call
    sendOf,             \* the send of the thread's call, 0 before it
    responseToPromise,  \* id -> the thread whose call saved the promise
    future,             \* the send whose answer fulfilled the call's promise, or 0
    result,             \* what the thread's last call returned
    sent,               \* the requests handed to the peer, in order
    verdict,            \* the "success" the peer answered to each send
    inbox,              \* messages on their way to the event loop
    notified,           \* number of messages that are not responses
    handlerSet,         \* notificationHandler_ holds a function
    alive               \* no exception has escaped from the event loop

callVars == <<pc, req, sendOf, future, result>>
peerVars == <<sent, verdict, inbox, notified>>
vars == <<created, callVars, responseToPromise, peerVars, handlerSet, alive>>

(* What the peer can put on the wire.  A message is ignored when it is not *)
(* JSON, has an id that is not a number, is a request, or is not text.     *)
Message == [type : {"response"}, send : 1 .. MaxSends]
           \union [type : {"notification", "malformed", "ignored"}]

Steps == {"idle", "handler", "check", "create", "send", "unsend",
          "wait", "ready", "timeout"}

(* The steps of a call whose promise is saved.                             *)
Registered == {"send", "unsend", "wait", "ready", "timeout"}

TypeOK ==
    /\ created \in 0 .. MaxRequests
    /\ pc \in [Threads -> Steps]
    /\ req \in [Threads -> 0 .. MaxRequests]
    /\ sendOf \in [Threads -> 0 .. Len(sent)]
    /\ responseToPromise \in [Ids -> Threads \union {NoThread}]
    /\ future \in [Threads -> 0 .. MaxSends]
    /\ result \in [Threads -> BOOLEAN]
    /\ sent \in Seq(0 .. MaxRequests)
    /\ Len(sent) <= MaxSends
    /\ verdict \in [1 .. MaxSends -> {"none", "success", "failure"}]
    /\ inbox \in Seq(Message)
    /\ notified \in 0 .. MaxNotifications
    /\ handlerSet \in BOOLEAN
    /\ alive \in BOOLEAN

WireId(r) == r % IdModulus

Init ==
    /\ created = 0
    /\ pc = [t \in Threads |-> "idle"]
    /\ req = [t \in Threads |-> 0]
    /\ sendOf = [t \in Threads |-> 0]
    /\ responseToPromise = [i \in Ids |-> NoThread]
    /\ future = [t \in Threads |-> 0]
    /\ result = [t \in Threads |-> FALSE]
    /\ sent = << >>
    /\ verdict = [i \in 1 .. MaxSends |-> "none"]
    /\ inbox = << >>
    /\ notified = 0
    /\ handlerSet \in BOOLEAN
    /\ alive = TRUE

-----------------------------------------------------------------------------
(* Calls: the threads of the application, and the event loop thread while  *)
(* it is inside the notification handler.                                  *)

(* Request::create.                                                        *)
CreateRequest ==
    /\ alive
    /\ created < MaxRequests
    /\ created' = created + 1
    /\ UNCHANGED <<callVars, responseToPromise, peerVars, handlerSet, alive>>

(* sendRequest takes any request, one that was sent before or that another *)
(* thread is sending included.                                             *)
BeginCall(t, r) ==
    /\ alive
    /\ pc[t] = IF t = EventLoop THEN "handler" ELSE "idle"
    /\ r <= created
    /\ pc' = [pc EXCEPT ![t] = "check"]
    /\ req' = [req EXCEPT ![t] = r]
    /\ result' = [result EXCEPT ![t] = FALSE]
    /\ UNCHANGED <<created, sendOf, responseToPromise, future, peerVars,
                   handlerSet, alive>>

(* A return of sendRequest: its local variables are gone.  The             *)
(* notification handler returns after it.                                  *)
Return(t, value) ==
    /\ pc' = [pc EXCEPT ![t] = "idle"]
    /\ result' = [result EXCEPT ![t] = value]
    /\ req' = [req EXCEPT ![t] = 0]
    /\ sendOf' = [sendOf EXCEPT ![t] = 0]
    /\ future' = [future EXCEPT ![t] = 0]
    /\ UNCHANGED <<created, peerVars, handlerSet, alive>>

IsRequestProcessingOngoing(t) ==
    /\ alive
    /\ pc[t] = "check"
    /\ \/ /\ responseToPromise[WireId(req[t])] # NoThread
          /\ Return(t, FALSE)
       \/ /\ responseToPromise[WireId(req[t])] = NoThread
          /\ pc' = [pc EXCEPT ![t] = "create"]
          /\ UNCHANGED <<created, req, sendOf, future, result, peerVars,
                         handlerSet, alive>>
    /\ UNCHANGED responseToPromise

(* Mutant: the result of the emplace is not looked at.                     *)
CreateOverwrites(t) ==
    /\ alive
    /\ pc[t] = "create"
    /\ responseToPromise' = [responseToPromise EXCEPT ![WireId(req[t])] = t]
    /\ pc' = [pc EXCEPT ![t] = "send"]
    /\ UNCHANGED <<created, req, sendOf, future, result, peerVars, handlerSet,
                   alive>>

CreateFutureResponse(t) ==
    /\ alive
    /\ pc[t] = "create"
    /\ \/ /\ responseToPromise[WireId(req[t])] # NoThread
          /\ Return(t, FALSE)
          /\ UNCHANGED responseToPromise
       \/ /\ responseToPromise[WireId(req[t])] = NoThread
          /\ responseToPromise' =
                [responseToPromise EXCEPT ![WireId(req[t])] = t]
          /\ pc' = [pc EXCEPT ![t] = "send"]
          /\ UNCHANGED <<created, req, sendOf, future, result, peerVars,
                         handlerSet, alive>>

Send(t) ==
    /\ alive
    /\ pc[t] = "send"
    /\ \/ /\ Len(sent) < MaxSends
          /\ sent' = Append(sent, req[t])
          /\ sendOf' = [sendOf EXCEPT ![t] = Len(sent) + 1]
          /\ pc' = [pc EXCEPT ![t] = "wait"]
       \/ /\ pc' = [pc EXCEPT ![t] = "unsend"]
          /\ UNCHANGED <<sent, sendOf>>
    /\ UNCHANGED <<created, req, responseToPromise, future, result, verdict,
                   inbox, notified, handlerSet, alive>>

(* Mutant: the promise of a finished call stays in the map.                *)
RemoveNothing(id) == UNCHANGED responseToPromise

RemovePromise(id) ==
    responseToPromise' = [responseToPromise EXCEPT ![id] = NoThread]

SendFailed(t) ==
    /\ alive
    /\ pc[t] = "unsend"
    /\ RemovePromise(WireId(req[t]))
    /\ Return(t, FALSE)

(* Mutant: wait in place of wait_for.                                      *)
WaitForAnswer(t) ==
    /\ alive
    /\ pc[t] = "wait" /\ future[t] # 0
    /\ pc' = [pc EXCEPT ![t] = "ready"]
    /\ UNCHANGED <<created, req, sendOf, future, result, responseToPromise,
                   peerVars, handlerSet, alive>>

(* wait_for returns: the promise was fulfilled, or five seconds are over.  *)
Wait(t) ==
    /\ alive
    /\ pc[t] = "wait"
    /\ pc' = [pc EXCEPT ![t] = IF future[t] # 0 THEN "ready" ELSE "timeout"]
    /\ UNCHANGED <<created, req, sendOf, future, result, responseToPromise,
                   peerVars, handlerSet, alive>>

(* Mutant: any answer counts as a success.                                 *)
SuccessOfAnyAnswer(send) == verdict[send] # "none"

(* processResponse: the "success" of a valid result, else FALSE (Verdict,  *)
(* below, of what the peer has sent).                                      *)
Success(send) == verdict[send] = "success"

ReturnAnswer(t) ==
    /\ alive
    /\ pc[t] = "ready"
    /\ RemovePromise(WireId(req[t]))
    /\ Return(t, Success(future[t]))

ReturnTimeout(t) ==
    /\ alive
    /\ pc[t] = "timeout"
    /\ RemovePromise(WireId(req[t]))
    /\ Return(t, FALSE)

CallStep(t) ==
    \/ IsRequestProcessingOngoing(t)
    \/ CreateFutureResponse(t)
    \/ Send(t)
    \/ SendFailed(t)
    \/ Wait(t)
    \/ ReturnAnswer(t)
    \/ ReturnTimeout(t)

-----------------------------------------------------------------------------
(* The event loop thread.  It takes the next message only when no handler  *)
(* is running on it.                                                       *)

(* Mutant: the end of the map is not tested for.                           *)
HandleWithoutFind(send) ==
    LET t == responseToPromise[WireId(sent[send])]
    IN  /\ IF t # NoThread /\ future[t] = 0
           THEN future' = [future EXCEPT ![t] = send] /\ UNCHANGED alive
           ELSE alive' = FALSE /\ UNCHANGED future
        /\ UNCHANGED pc

(* set_value throws when the promise is already fulfilled.  Nothing above  *)
(* it catches the exception, so the process terminates.                    *)
HandleResponse(send) ==
    LET id == WireId(sent[send])
        t  == responseToPromise[id]
    IN  /\ \/ /\ t = NoThread
              /\ UNCHANGED <<future, alive>>
           \/ /\ t # NoThread
              /\ future[t] = 0
              /\ future' = [future EXCEPT ![t] = send]
              /\ UNCHANGED alive
           \/ /\ t # NoThread
              /\ future[t] # 0
              /\ alive' = FALSE
              /\ UNCHANGED future
        /\ UNCHANGED pc

HandleNotification(valid) ==
    /\ pc' = IF valid /\ handlerSet
             THEN [pc EXCEPT ![EventLoop] = "handler"] ELSE pc
    /\ UNCHANGED <<future, alive>>

OnMessage ==
    /\ alive
    /\ pc[EventLoop] = "idle"
    /\ inbox # << >>
    /\ inbox' = Tail(inbox)
    /\ LET m == Head(inbox)
       IN  \/ /\ m.type = "response"
              /\ HandleResponse(m.send)
           \/ /\ m.type \in {"notification", "malformed"}
              /\ HandleNotification(m.type = "notification")
           \/ /\ m.type = "ignored"
              /\ UNCHANGED <<future, alive, pc>>
    /\ UNCHANGED <<created, req, sendOf, responseToPromise, result, sent,
                   verdict, notified, handlerSet>>

(* The notification handler returns without having called sendRequest.     *)
HandlerReturns ==
    /\ alive
    /\ pc[EventLoop] = "handler"
    /\ pc' = [pc EXCEPT ![EventLoop] = "idle"]
    /\ UNCHANGED <<created, req, sendOf, responseToPromise, future, result,
                   peerVars, handlerSet, alive>>

SetNotificationHandler ==
    /\ alive
    /\ pc[EventLoop] = "idle"
    /\ handlerSet' \in BOOLEAN
    /\ UNCHANGED <<created, callVars, responseToPromise, peerVars, alive>>

-----------------------------------------------------------------------------
(* The peer answers what it received at most once, in any order and        *)
(* whenever it likes, and sends messages of its own.  What the code will   *)
(* make of a text is decided when the text is sent.                        *)

(* What a response can hold besides its id: the version of the protocol, a *)
(* result that has "success": true or not, an error with all its fields or *)
(* not.                                                                    *)
Reply == [version : BOOLEAN,
          result  : {"unset", "success", "other"},
          error   : {"unset", "partial", "full"}]

ResponseIsValid(reply) ==
    /\ reply.version
    /\ reply.result = "unset" <=> reply.error # "unset"
    /\ reply.error # "partial"

(* getResult and "success", which counts if it is the boolean or one of    *)
(* the texts that getBoolParameter takes for it.                           *)
SaysSuccess(reply) == reply.result = "success"

Verdict(reply) ==
    IF ResponseIsValid(reply) /\ SaysSuccess(reply) THEN "success" ELSE "failure"

(* A message without an id, of the right version or not, with a method or  *)
(* not.                                                                    *)
Notice == [version : BOOLEAN, method : BOOLEAN]

NotificationIsValid(notice) == notice.version /\ notice.method

NoticeType(notice) ==
    IF NotificationIsValid(notice) THEN "notification" ELSE "malformed"

PeerAnswers(send) ==
    /\ alive
    /\ send \in DOMAIN sent
    /\ verdict[send] = "none"
    /\ \E reply \in Reply :
          verdict' = [verdict EXCEPT ![send] = Verdict(reply)]
    /\ inbox' = Append(inbox, [type |-> "response", send |-> send])
    /\ UNCHANGED <<created, callVars, responseToPromise, sent, notified,
                   handlerSet, alive>>

PeerNotifies ==
    /\ alive
    /\ notified < MaxNotifications
    /\ notified' = notified + 1
    /\ \/ inbox' = Append(inbox, [type |-> "ignored"])
       \/ \E notice \in Notice :
             inbox' = Append(inbox, [type |-> NoticeType(notice)])
    /\ UNCHANGED <<created, callVars, responseToPromise, sent, verdict,
                   handlerSet, alive>>

-----------------------------------------------------------------------------
Next ==
    \/ CreateRequest
    \/ \E t \in Threads :
         \/ \E r \in Requests : BeginCall(t, r)
         \/ CallStep(t)
    \/ OnMessage
    \/ HandlerReturns
    \/ SetNotificationHandler
    \/ \E send \in 1 .. MaxSends : PeerAnswers(send)
    \/ PeerNotifies

(* A thread inside sendRequest keeps running and its wait is bounded; the  *)
(* event loop keeps dispatching; a notification handler returns.  Nothing  *)
(* is assumed of the application or of the peer.                           *)
Fairness ==
    /\ \A t \in Threads : WF_vars(CallStep(t))
    /\ WF_vars(OnMessage)
    /\ WF_vars(HandlerReturns)

Spec == Init /\ [][Next]_vars /\ Fairness

-----------------------------------------------------------------------------
(* A promise is saved under an id exactly while the one call that saved it *)
(* is between its emplace and its erase: sendRequest leaks no entry on any *)
(* of its returns, and never erases the entry of another call, although    *)
(* the test for an ongoing request and the emplace are two critical        *)
(* sections and late answers arrive in between.                            *)
EntryOwned ==
    \A i \in Ids, t \in Threads :
        responseToPromise[i] = t
            <=> pc[t] \in Registered /\ WireId(req[t]) = i

(* The promise of a call is only ever fulfilled by the answer to its own   *)
(* send or to an earlier send with the same id on the wire (a late answer  *)
(* to a request that is sent again, or an id that has wrapped around).     *)
AnswerIsForThisId ==
    \A t \in Threads : future[t] # 0 =>
        /\ pc[t] \in Registered
        /\ WireId(sent[future[t]]) = WireId(req[t])
        /\ sendOf[t] # 0 => future[t] <= sendOf[t]

RepeatedId ==
    \E i, j \in DOMAIN sent : i # j /\ WireId(sent[i]) = WireId(sent[j])

(* The uncaught exception of a second set_value terminates the process     *)
(* only when an id was put on the wire more than once.                     *)
TerminatesOnlyOnRepeatedId == ~alive => RepeatedId

(* A call made from the notification handler waits on the thread that      *)
(* would have to deliver the answer: while it is open no promise of it is  *)
(* ever fulfilled, so it can only time out.                                *)
HandlerCallUnanswered == future[EventLoop] = 0

(* "return value: sending result && receiving result && json-rpc's         *)
(* response field success": TRUE is returned only by a call that was sent, *)
(* and for an answer of the peer to this id that says success.             *)
TrueMeansSuccess ==
    [][\A t \in Threads :
          pc[t] \notin {"idle", "handler"} /\ pc'[t] = "idle" /\ result'[t]
          => /\ sendOf[t] # 0
             /\ \E i \in DOMAIN sent :
                   WireId(sent[i]) = WireId(req[t]) /\ verdict[i] = "success"]_vars

(* Every message is taken off the connection: neither a handler that calls *)
(* sendRequest nor a late answer blocks the event loop for ever.           *)
MessagesHandled == []<>(inbox = << >> \/ ~alive)

-----------------------------------------------------------------------------
(* What the invariants above rest on, beyond the types and EntryOwned.     *)

Responses == {k \in DOMAIN inbox : inbox[k].type = "response"}

(* A call has a send exactly from its send to its return, its wait ends    *)
(* with an answer or not as its next step says, and nothing with its id    *)
(* has been sent since.                                                    *)
OwnSendIsLast ==
    \A t \in Threads :
        /\ sendOf[t] # 0 <=> pc[t] \in {"wait", "ready", "timeout"}
        /\ pc[t] = "ready" => future[t] # 0
        /\ sendOf[t] # 0 =>
              \A j \in sendOf[t] + 1 .. Len(sent) :
                  WireId(sent[j]) # WireId(req[t])

(* Every answer on its way or in a promise is the answer to a send.        *)
AnswersHaveSends ==
    /\ \A k \in Responses :
          inbox[k].send \in DOMAIN sent /\ verdict[inbox[k].send] # "none"
    /\ \A t \in Threads :
          future[t] # 0 => future[t] \in DOMAIN sent /\ verdict[future[t]] # "none"

(* No answer is on its way twice, or again after it has been delivered.    *)
AnswersAreUnique ==
    /\ \A j, k \in Responses : inbox[j].send = inbox[k].send => j = k
    /\ \A k \in Responses, t \in Threads : inbox[k].send # future[t]

(* The inductive invariant: each part is preserved by a step only because  *)
(* the others hold before it.                                              *)
IInv ==
    /\ TypeOK
    /\ EntryOwned
    /\ OwnSendIsLast
    /\ AnswersHaveSends
    /\ AnswersAreUnique
    /\ AnswerIsForThisId
    /\ HandlerCallUnanswered
    /\ TerminatesOnlyOnRepeatedId

-----------------------------------------------------------------------------
(* The component implements what it promises to its callers.               *)
Calls == INSTANCE RequestCalls WITH
    NoId <- -1,
    open <- [t \in Threads |->
                IF pc[t] \in Registered THEN WireId(req[t]) ELSE -1],
    answered <- {t \in Threads : future[t] # 0}

(* sendRequest and onMessage together implement RequestCalls: one open     *)
(* call per id, one answer per call, and every call closed.                *)
ImplementsRequestCalls == Calls!Spec
=============================================================================
