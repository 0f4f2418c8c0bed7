----------------------- MODULE JsonRpcInterfaceProofs -----------------------
(***************************************************************************)
(* Theorems about JsonRpcInterface for every number of threads, requests,  *)
(* messages and id values, checked by TLAPS.                               *)
(***************************************************************************)
EXTENDS JsonRpcInterface, SequenceTheorems, TLAPS

(* The id on the wire is one of the values of the counter.                 *)
LEMMA WireIdType == \A r \in Nat : WireId(r) \in Ids
  BY BoundAssumption, SMT DEF WireId, Ids

(* The event loop takes the first message of a nonempty inbox.             *)
LEMMA HeadTail ==
  ASSUME NEW S, NEW s \in Seq(S), s # << >>
  PROVE  /\ Head(s) \in S
         /\ Tail(s) \in Seq(S)
         /\ Len(Tail(s)) = Len(s) - 1
         /\ \A k \in 1 .. Len(s) - 1 : Tail(s)[k] = s[k + 1]
         /\ Len(s) \in Nat \ {0}
         /\ Head(s) = s[1]
  BY SMT

(* Assigning one element keeps the type of a table.                        *)
LEMMA ExceptType ==
  ASSUME NEW S, NEW T, NEW f \in [S -> T], NEW a, NEW b \in T
  PROVE  [f EXCEPT ![a] = b] \in [S -> T]
  OBVIOUS

(* A return of sendRequest keeps the types, whatever it returns, when the  *)
(* map of promises keeps its own.                                          *)
LEMMA ReturnType ==
  ASSUME TypeOK, NEW t \in Threads, NEW value \in BOOLEAN, Return(t, value),
         responseToPromise' \in [Ids -> Threads \union {NoThread}]
  PROVE  TypeOK'
<1> USE DEF TypeOK, Return, peerVars, Steps
<1>1. Len(sent) \in Nat
  BY LenProperties
<1>2. /\ pc' \in [Threads -> Steps]
      /\ req' \in [Threads -> 0 .. MaxRequests]
      /\ result' \in [Threads -> BOOLEAN]
  BY BoundAssumption
<1>3. /\ sendOf' \in [Threads -> 0 .. Len(sent')]
      /\ future' \in [Threads -> 0 .. MaxSends]
  BY <1>1, BoundAssumption
<1> QED BY <1>2, <1>3

(* The initial states are well typed, and no entry is in the map.          *)
LEMMA InitTypeOK == Init => TypeOK
  BY BoundAssumption, ThreadAssumption DEF Init, TypeOK, Steps, Requests

(* The inductive step of TypeOK.                                           *)
LEMMA TypeStep == TypeOK /\ [Next]_vars => TypeOK'
<1> USE BoundAssumption, ThreadAssumption DEF Requests
<1>2. QED
  <2> SUFFICES ASSUME TypeOK, [Next]_vars
               PROVE  TypeOK'
    OBVIOUS
  <2> USE DEF TypeOK, Steps
  <2>0. Len(sent) \in Nat
    BY LenProperties
  <2> USE <2>0
  <2>1. CASE CreateRequest
    BY <2>1 DEF CreateRequest, callVars, peerVars
  <2>2. ASSUME NEW t \in Threads, NEW r \in Requests, BeginCall(t, r)
        PROVE  TypeOK'
    BY <2>2 DEF BeginCall, peerVars
  <2>3. ASSUME NEW t \in Threads, CallStep(t)
        PROVE  TypeOK'
    <3>1. CASE IsRequestProcessingOngoing(t)
      <4>1. CASE Return(t, FALSE)
        BY <3>1, <4>1, ReturnType DEF IsRequestProcessingOngoing
      <4>2. CASE pc' = [pc EXCEPT ![t] = "create"]
        BY <3>1, <4>2 DEF IsRequestProcessingOngoing, Return, peerVars
      <4> QED BY <3>1, <4>1, <4>2 DEF IsRequestProcessingOngoing
    <3>2. CASE CreateFutureResponse(t)
      <4>1. CASE Return(t, FALSE) /\ UNCHANGED responseToPromise
        BY <4>1, ReturnType
      <4>2. CASE pc' = [pc EXCEPT ![t] = "send"]
        BY <3>2, <4>2 DEF CreateFutureResponse, Return, peerVars
      <4> QED BY <3>2, <4>1, <4>2 DEF CreateFutureResponse
    <3>3. CASE Send(t)
      <4>1. CASE /\ Len(sent) < MaxSends
                 /\ sent' = Append(sent, req[t])
                 /\ sendOf' = [sendOf EXCEPT ![t] = Len(sent) + 1]
                 /\ pc' = [pc EXCEPT ![t] = "wait"]
        <5>1. req[t] \in 0 .. MaxRequests
          OBVIOUS
        <5>2. sent' \in Seq(0 .. MaxRequests) /\ Len(sent') = Len(sent) + 1
          BY <4>1, <5>1, AppendProperties
        <5>3. /\ pc' \in [Threads -> Steps]
              /\ sendOf' \in [Threads -> 0 .. Len(sent')]
              /\ future' \in [Threads -> 0 .. MaxSends]
          BY <3>3, <4>1, <5>2 DEF Send
        <5>4. UNCHANGED <<created, req, responseToPromise, result, verdict, inbox,
                         notified, handlerSet, alive>>
          BY <3>3 DEF Send
        <5> QED BY <4>1, <5>2, <5>3, <5>4
      <4>2. CASE pc' = [pc EXCEPT ![t] = "unsend"] /\ UNCHANGED <<sent, sendOf>>
        BY <3>3, <4>2 DEF Send
      <4> QED BY <3>3, <4>1, <4>2 DEF Send
    <3>4. CASE SendFailed(t)
      BY <3>4, ReturnType DEF SendFailed, RemovePromise
    <3>5. CASE Wait(t)
      BY <3>5 DEF Wait, peerVars
    <3>6. CASE ReturnAnswer(t)
      BY <3>6, ReturnType DEF ReturnAnswer, RemovePromise, Success
    <3>7. CASE ReturnTimeout(t)
      BY <3>7, ReturnType DEF ReturnTimeout, RemovePromise
    <3> QED BY <2>3, <3>1, <3>2, <3>3, <3>4, <3>5, <3>6, <3>7 DEF CallStep
  <2>4. CASE OnMessage
    <3>1. /\ inbox' \in Seq(Message)
          /\ Head(inbox) \in Message
      BY <2>4, HeadTail DEF OnMessage
    <3>2. /\ pc' \in [Threads -> Steps]
          /\ future' \in [Threads -> 0 .. MaxSends]
          /\ alive' \in BOOLEAN
      <4>1. CASE Head(inbox).type = "response" /\ HandleResponse(Head(inbox).send)
        <5>1. Head(inbox).send \in 1 .. MaxSends
          BY <3>1, <4>1 DEF Message
        <5> DEFINE owner == responseToPromise[WireId(sent[Head(inbox).send])]
        <5>2. \/ UNCHANGED future
              \/ future' = [future EXCEPT ![owner] = Head(inbox).send]
          BY <4>1 DEF HandleResponse
        <5>3. pc' = pc /\ (alive' = alive \/ alive' = FALSE)
          BY <4>1 DEF HandleResponse
        <5> HIDE DEF owner
        <5>4. future' \in [Threads -> 0 .. MaxSends]
          <6>1. Head(inbox).send \in 0 .. MaxSends
            BY <5>1, BoundAssumption
          <6> QED BY <5>2, <6>1, ExceptType
        <5> QED BY <5>3, <5>4
      <4>2. CASE \E b \in BOOLEAN : HandleNotification(b)
        BY <2>4, <4>2 DEF HandleNotification, Threads
      <4>3. CASE UNCHANGED <<future, alive, pc>>
        BY <4>3
      <4> QED BY <2>4, <4>1, <4>2, <4>3 DEF OnMessage
    <3> QED BY <2>4, <3>1, <3>2 DEF OnMessage
  <2>5. CASE HandlerReturns
    BY <2>5 DEF Threads, HandlerReturns, peerVars
  <2>6. CASE SetNotificationHandler
    BY <2>6 DEF SetNotificationHandler, callVars, peerVars
  <2>7. ASSUME NEW send \in 1 .. MaxSends, PeerAnswers(send)
        PROVE  TypeOK'
    BY <2>7 DEF PeerAnswers, Verdict, callVars, Message
  <2>8. CASE PeerNotifies
    <3>1. PICK m \in Message : inbox' = Append(inbox, m)
      BY <2>8 DEF PeerNotifies, NoticeType, Message
    <3>2. notified' \in 0 .. MaxNotifications
      BY <2>8, BoundAssumption DEF PeerNotifies
    <3> QED BY <2>8, <3>1, <3>2 DEF PeerNotifies, callVars
  <2>9. CASE UNCHANGED vars
    BY <2>9 DEF vars, callVars, peerVars
  <2> QED BY <2>1, <2>2, <2>3, <2>4, <2>5, <2>6, <2>7, <2>8, <2>9 DEF Next

(* Every state of the component is well typed.                             *)
THEOREM TypeCorrect == Spec => []TypeOK
  BY InitTypeOK, TypeStep, PTL DEF Spec

-----------------------------------------------------------------------------
(* The entries of responseToPromise.                                       *)

(* A step that touches neither the map nor the registration of a call      *)
(* keeps every entry with its owner.                                       *)
LEMMA EntryFrame ==
  ASSUME EntryOwned, UNCHANGED responseToPromise,
         \A t \in Threads :
            /\ pc'[t] \in Registered <=> pc[t] \in Registered
            /\ pc[t] \in Registered => req'[t] = req[t]
  PROVE  EntryOwned'
  BY DEF EntryOwned

(* A call that erases the entry of its id erases its own.                  *)
LEMMA EntryErase ==
  ASSUME TypeOK, EntryOwned, NEW t \in Threads, pc[t] \in Registered,
         RemovePromise(WireId(req[t])),
         pc' = [pc EXCEPT ![t] = "idle"],
         req' = [req EXCEPT ![t] = 0]
  PROVE  EntryOwned'
<1>1. /\ pc' = [pc EXCEPT ![t] = "idle"]
      /\ req' = [req EXCEPT ![t] = 0]
      /\ responseToPromise' =
            [responseToPromise EXCEPT ![WireId(req[t])] = NoThread]
  BY DEF RemovePromise
<1>2. /\ pc \in [Threads -> Steps]
      /\ req \in [Threads -> 0 .. MaxRequests]
      /\ responseToPromise \in [Ids -> Threads \union {NoThread}]
  BY DEF TypeOK
<1>3. NoThread \notin Threads
  BY ThreadAssumption
<1>4. SUFFICES ASSUME NEW i \in Ids, NEW u \in Threads
               PROVE  responseToPromise'[i] = u
                        <=> pc'[u] \in Registered /\ WireId(req'[u]) = i
  BY DEF EntryOwned
<1>5. responseToPromise[i] = u <=> pc[u] \in Registered /\ WireId(req[u]) = i
  BY DEF EntryOwned
<1>6. responseToPromise[WireId(req[t])] = t
  <2>1. WireId(req[t]) \in Ids
    BY <1>2, WireIdType, BoundAssumption
  <2> QED BY <2>1 DEF EntryOwned
<1>7. CASE u = t
  <2>1. pc'[u] \notin Registered
    BY <1>1, <1>2, <1>7 DEF Registered
  <2>2. responseToPromise'[i] # u
    <3>1. CASE i = WireId(req[t])
      BY <1>1, <1>2, <1>3, <3>1
    <3>2. CASE i # WireId(req[t])
      BY <1>1, <1>2, <1>5, <1>7, <3>2
    <3> QED BY <3>1, <3>2
  <2> QED BY <2>1, <2>2
<1>8. CASE u # t
  <2>1. pc'[u] = pc[u] /\ req'[u] = req[u]
    BY <1>1, <1>2, <1>8
  <2>2. responseToPromise'[i] = u <=> responseToPromise[i] = u
    <3>1. CASE i = WireId(req[t])
      BY <1>1, <1>2, <1>3, <1>6, <1>8, <3>1
    <3>2. CASE i # WireId(req[t])
      BY <1>1, <1>2, <3>2
    <3> QED BY <3>1, <3>2
  <2> QED BY <1>5, <2>1, <2>2
<1> QED BY <1>7, <1>8

(* A call that saves its promise becomes the owner of the entry, and takes *)
(* it from nobody.                                                         *)
LEMMA EntryCreate ==
  ASSUME TypeOK, EntryOwned, NEW t \in Threads, CreateFutureResponse(t)
  PROVE  EntryOwned'
<1>1. /\ pc \in [Threads -> Steps]
      /\ req \in [Threads -> 0 .. MaxRequests]
      /\ responseToPromise \in [Ids -> Threads \union {NoThread}]
  BY DEF TypeOK
<1>2. pc[t] = "create"
  BY DEF CreateFutureResponse
<1>3. CASE Return(t, FALSE) /\ UNCHANGED responseToPromise
  <2>1. \A u \in Threads :
            /\ pc'[u] \in Registered <=> pc[u] \in Registered
            /\ pc[u] \in Registered => req'[u] = req[u]
    BY <1>1, <1>2, <1>3 DEF Return, Registered
  <2> QED BY <1>3, <2>1, EntryFrame
<1>4. CASE /\ responseToPromise[WireId(req[t])] = NoThread
           /\ responseToPromise' =
                [responseToPromise EXCEPT ![WireId(req[t])] = t]
           /\ pc' = [pc EXCEPT ![t] = "send"]
           /\ req' = req
  <2>1. NoThread \notin Threads
    BY ThreadAssumption
  <2>2. SUFFICES ASSUME NEW i \in Ids, NEW u \in Threads
                 PROVE  responseToPromise'[i] = u
                          <=> pc'[u] \in Registered /\ WireId(req[u]) = i
    BY <1>4 DEF EntryOwned
  <2>3. responseToPromise[i] = u <=> pc[u] \in Registered /\ WireId(req[u]) = i
    BY DEF EntryOwned
  <2>4. CASE u = t
    BY <1>1, <1>2, <1>4, <2>3, <2>4 DEF Registered
  <2>5. CASE u # t
    BY <1>1, <1>4, <2>1, <2>3, <2>5
  <2> QED BY <2>4, <2>5
<1> QED BY <1>3, <1>4 DEF CreateFutureResponse

(* The inductive step of EntryOwned, used by the theorems below.           *)
LEMMA EntryStep == TypeOK /\ EntryOwned /\ [Next]_vars => EntryOwned'
<1> SUFFICES ASSUME TypeOK, EntryOwned, [Next]_vars
             PROVE  EntryOwned'
  OBVIOUS
<1> DEFINE Frame ==
      \A t \in Threads : /\ pc'[t] \in Registered <=> pc[t] \in Registered
                         /\ pc[t] \in Registered => req'[t] = req[t]
<1>1. pc \in [Threads -> Steps] /\ req \in [Threads -> 0 .. MaxRequests]
  BY DEF TypeOK
<1>2. CASE UNCHANGED <<pc, req, responseToPromise>>
  BY <1>2, EntryFrame
<1>3. ASSUME NEW t \in Threads, NEW r \in Requests, BeginCall(t, r)
      PROVE  EntryOwned'
  <2>1. Frame /\ UNCHANGED responseToPromise
    BY <1>1, <1>3 DEF BeginCall, Registered
  <2> QED BY <2>1, EntryFrame
<1>4. ASSUME NEW t \in Threads, CallStep(t)
      PROVE  EntryOwned'
  <2>1. CASE IsRequestProcessingOngoing(t)
    <3>1. Frame /\ UNCHANGED responseToPromise
      BY <1>1, <2>1 DEF IsRequestProcessingOngoing, Return, Registered
    <3> QED BY <3>1, EntryFrame
  <2>2. CASE CreateFutureResponse(t)
    BY <2>2, EntryCreate
  <2>3. CASE Send(t)
    <3>1. Frame /\ UNCHANGED responseToPromise
      BY <1>1, <2>3 DEF Send, Registered
    <3> QED BY <3>1, EntryFrame
  <2>4. CASE SendFailed(t)
    BY <2>4, EntryErase DEF SendFailed, Return, Registered
  <2>5. CASE Wait(t)
    <3>1. Frame /\ UNCHANGED responseToPromise
      BY <1>1, <2>5 DEF Wait, Registered
    <3> QED BY <3>1, EntryFrame
  <2>6. CASE ReturnAnswer(t)
    BY <2>6, EntryErase DEF ReturnAnswer, Return, Registered
  <2>7. CASE ReturnTimeout(t)
    BY <2>7, EntryErase DEF ReturnTimeout, Return, Registered
  <2> QED BY <1>4, <2>1, <2>2, <2>3, <2>4, <2>5, <2>6, <2>7 DEF CallStep
<1>5. CASE OnMessage
  <2>1. pc' = pc \/ pc' = [pc EXCEPT ![EventLoop] = "handler"]
    BY <1>5 DEF OnMessage, HandleResponse, HandleNotification
  <2>2. Frame /\ UNCHANGED responseToPromise
    BY <1>1, <1>5, <2>1 DEF OnMessage, Registered, Threads
  <2> QED BY <2>2, EntryFrame
<1>6. CASE HandlerReturns
  <2>1. Frame /\ UNCHANGED responseToPromise
    BY <1>1, <1>6 DEF HandlerReturns, Registered, Threads
  <2> QED BY <2>1, EntryFrame
<1>7. ASSUME \/ CreateRequest \/ SetNotificationHandler \/ PeerNotifies
             \/ \E send \in 1 .. MaxSends : PeerAnswers(send)
             \/ UNCHANGED vars
      PROVE  UNCHANGED <<pc, req, responseToPromise>>
  BY <1>7 DEF CreateRequest, SetNotificationHandler, PeerAnswers, PeerNotifies,
              vars, callVars
<1> QED BY <1>2, <1>3, <1>4, <1>5, <1>6, <1>7 DEF Next

(* At the start no call is under way and no promise is saved.              *)
LEMMA InitEntryOwned == Init => EntryOwned
<1> SUFFICES ASSUME Init PROVE EntryOwned
  OBVIOUS
<1>1. \A t \in Threads : pc[t] \notin Registered
  BY DEF Init, Registered
<1>2. \A i \in Ids : responseToPromise[i] \notin Threads
  BY ThreadAssumption DEF Init
<1> QED BY <1>1, <1>2 DEF EntryOwned

(* Whatever the threads, the peer and the timeouts do, a promise is saved  *)
(* under an id exactly while the call that saved it is under way.          *)
THEOREM EntriesOwned == Spec => []EntryOwned
  BY InitTypeOK, TypeStep, InitEntryOwned, EntryStep, PTL DEF Spec

-----------------------------------------------------------------------------
(* The answers.                                                            *)

(* What a return of sendRequest does to the data of the calls.             *)
LEMMA ReturnEffect ==
  ASSUME NEW t \in Threads, CallStep(t), pc[t] # "send", pc[t] # "wait"
  PROVE  \/ /\ pc' = [pc EXCEPT ![t] = "idle"]
            /\ req' = [req EXCEPT ![t] = 0]
            /\ sendOf' = [sendOf EXCEPT ![t] = 0]
            /\ future' = [future EXCEPT ![t] = 0]
            /\ UNCHANGED peerVars
         \/ /\ \/ /\ pc[t] = "check"
                  /\ pc' = [pc EXCEPT ![t] = "create"]
               \/ /\ pc[t] = "create"
                  /\ pc' = [pc EXCEPT ![t] = "send"]
            /\ UNCHANGED <<req, sendOf, future, peerVars>>
<1>1. CASE IsRequestProcessingOngoing(t)
  BY <1>1 DEF IsRequestProcessingOngoing, Return
<1>2. CASE CreateFutureResponse(t)
  BY <1>2 DEF CreateFutureResponse, Return
<1>3. CASE SendFailed(t) \/ ReturnAnswer(t) \/ ReturnTimeout(t)
  BY <1>3 DEF SendFailed, ReturnAnswer, ReturnTimeout, Return
<1> QED BY <1>1, <1>2, <1>3 DEF CallStep, Send, Wait

(* Between its send and its return, no other call sends the id of a call:  *)
(* it would have to own the same entry.                                    *)
LEMMA OwnSendStep ==
  ASSUME TypeOK, EntryOwned, OwnSendIsLast, [Next]_vars
  PROVE  OwnSendIsLast'
<1> DEFINE Waiting == {"wait", "ready", "timeout"}
           Good(t) ==
              /\ sendOf[t] # 0 <=> pc[t] \in Waiting
              /\ pc[t] = "ready" => future[t] # 0
              /\ sendOf[t] # 0 => \A j \in sendOf[t] + 1 .. Len(sent) :
                                      WireId(sent[j]) # WireId(req[t])
<1>1. /\ pc \in [Threads -> Steps]
      /\ req \in [Threads -> 0 .. MaxRequests]
      /\ sendOf \in [Threads -> 0 .. Len(sent)]
      /\ future \in [Threads -> 0 .. MaxSends]
      /\ sent \in Seq(0 .. MaxRequests)
      /\ Len(sent) \in Nat
  BY LenProperties DEF TypeOK
<1>2. \A t \in Threads : Good(t)
  BY DEF OwnSendIsLast
<1>3. SUFFICES ASSUME NEW u \in Threads
               PROVE  Good(u)'
  BY DEF OwnSendIsLast
<1>4. CASE UNCHANGED <<pc, req, sendOf, future, sent>>
  BY <1>2, <1>4
<1>5. ASSUME NEW t \in Threads, NEW r \in Requests, BeginCall(t, r)
      PROVE  Good(u)'
  BY <1>1, <1>2, <1>5 DEF BeginCall, peerVars
<1>6. ASSUME NEW t \in Threads, CallStep(t)
      PROVE  Good(u)'
  <2>1. CASE pc[t] # "send" /\ pc[t] # "wait"
    BY <1>1, <1>2, <1>6, <2>1, ReturnEffect DEF peerVars
  <2>2. CASE Wait(t)
    BY <1>1, <1>2, <2>2 DEF Wait, peerVars
  <2>3. CASE Send(t)
    <3>1. CASE /\ sent' = Append(sent, req[t])
               /\ sendOf' = [sendOf EXCEPT ![t] = Len(sent) + 1]
               /\ pc' = [pc EXCEPT ![t] = "wait"]
      <4>1. /\ Len(sent') = Len(sent) + 1
            /\ \A j \in 1 .. Len(sent) : sent'[j] = sent[j]
            /\ sent'[Len(sent) + 1] = req[t]
        BY <1>1, <3>1, AppendProperties
      <4>2. pc[t] = "send" /\ UNCHANGED <<req, future>>
        BY <2>3 DEF Send
      <4>3. CASE u = t
        BY <1>1, <3>1, <4>1, <4>2, <4>3
      <4>4. CASE u # t
        <5>1. sendOf[u] # 0 => WireId(req[u]) # WireId(req[t])
          <6>1. sendOf[u] # 0 => pc[u] \in Registered
            BY <1>2 DEF Registered
          <6>2. pc[t] \in Registered
            BY <4>2 DEF Registered
          <6>3. WireId(req[t]) \in Ids
            BY <1>1, WireIdType, BoundAssumption
          <6> QED BY <4>4, <6>1, <6>2, <6>3 DEF EntryOwned
        <5>2. UNCHANGED <<sendOf[u], pc[u]>>
          BY <1>1, <3>1, <4>4
        <5>3. ASSUME sendOf[u] # 0, NEW j \in sendOf[u] + 1 .. Len(sent')
              PROVE  WireId(sent'[j]) # WireId(req[u])
          BY <1>1, <1>2, <4>1, <5>1, <5>3
        <5> QED BY <1>2, <4>2, <5>2, <5>3
      <4> QED BY <4>3, <4>4
    <3>2. CASE pc' = [pc EXCEPT ![t] = "unsend"] /\ UNCHANGED <<sent, sendOf>>
      BY <1>1, <1>2, <2>3, <3>2 DEF Send
    <3> QED BY <2>3, <3>1, <3>2 DEF Send
  <2> QED BY <1>6, <2>1, <2>2, <2>3
        DEF CallStep, IsRequestProcessingOngoing, CreateFutureResponse,
            SendFailed, ReturnAnswer, ReturnTimeout
<1>7. CASE OnMessage
  <2>1. pc[EventLoop] = "idle" /\ UNCHANGED <<req, sendOf, sent>>
    BY <1>7 DEF OnMessage
  <2>2. pc' = pc \/ pc' = [pc EXCEPT ![EventLoop] = "handler"]
    BY <1>7 DEF OnMessage, HandleResponse, HandleNotification
  <2>3. future[u] # 0 => future'[u] # 0
    BY <1>1, <1>7 DEF OnMessage, HandleResponse, HandleNotification
  <2> QED BY <1>1, <1>2, <2>1, <2>2, <2>3
<1>8. CASE HandlerReturns
  BY <1>1, <1>2, <1>8 DEF HandlerReturns, peerVars
<1>9. ASSUME \/ CreateRequest \/ SetNotificationHandler \/ PeerNotifies
             \/ \E send \in 1 .. MaxSends : PeerAnswers(send)
             \/ UNCHANGED vars
      PROVE  UNCHANGED <<pc, req, sendOf, future, sent>>
  BY <1>9 DEF CreateRequest, SetNotificationHandler, PeerAnswers, PeerNotifies,
              vars, callVars, peerVars
<1> QED BY <1>4, <1>5, <1>6, <1>7, <1>8, <1>9 DEF Next

(* The responses left after the event loop has taken the first message.    *)
LEMMA TakeMessage ==
  ASSUME TypeOK, inbox # << >>, inbox' = Tail(inbox)
  PROVE  /\ \A k \in Responses' : k + 1 \in Responses /\ inbox'[k] = inbox[k + 1]
         /\ inbox[1] = Head(inbox)
         /\ 1 \in DOMAIN inbox
         /\ \A k \in Responses' : k \in Nat /\ k + 1 # 1
<1>1. inbox \in Seq(Message)
  BY DEF TypeOK
<1>2. /\ Len(inbox) \in Nat \ {0}
      /\ Len(inbox') = Len(inbox) - 1
      /\ \A k \in 1 .. Len(inbox) - 1 : inbox'[k] = inbox[k + 1]
      /\ Head(inbox) = inbox[1]
      /\ inbox' \in Seq(Message)
  BY <1>1, HeadTail
<1>3. DOMAIN inbox = 1 .. Len(inbox) /\ DOMAIN inbox' = 1 .. Len(inbox')
  BY <1>1, <1>2, LenProperties
<1> QED BY <1>2, <1>3 DEF Responses

(* The responses after the peer has sent a message.                        *)
LEMMA PutMessage ==
  ASSUME TypeOK, NEW m \in Message, inbox' = Append(inbox, m)
  PROVE  \A k \in Responses' :
            \/ k \in Responses /\ inbox'[k] = inbox[k]
            \/ /\ inbox'[k] = m
               /\ m.type = "response"
               /\ \A j \in Responses' :
                     j = k \/ (j \in Responses /\ inbox'[j] = inbox[j])
<1>1. inbox \in Seq(Message)
  BY DEF TypeOK
<1>2. /\ Len(inbox) \in Nat
      /\ Len(inbox') = Len(inbox) + 1
      /\ \A k \in 1 .. Len(inbox) : inbox'[k] = inbox[k]
      /\ inbox'[Len(inbox) + 1] = m
      /\ inbox' \in Seq(Message)
  BY <1>1, AppendProperties, LenProperties
<1>3. DOMAIN inbox = 1 .. Len(inbox) /\ DOMAIN inbox' = 1 .. Len(inbox) + 1
  BY <1>1, <1>2, LenProperties
<1> QED BY <1>2, <1>3 DEF Responses

(* What a step of a thread inside sendRequest, or entering it, does to the *)
(* answers: none appears, and what has been sent stays.                    *)
LEMMA CallKeepsAnswers ==
  ASSUME TypeOK, NEW t \in Threads,
         CallStep(t) \/ \E r \in Requests : BeginCall(t, r)
  PROVE  /\ UNCHANGED <<inbox, verdict, alive>>
         /\ \A u \in Threads : future'[u] = future[u] \/ future'[u] = 0
         /\ DOMAIN sent \subseteq DOMAIN sent'
         /\ \A j \in DOMAIN sent : sent'[j] = sent[j]
<1>1. /\ future \in [Threads -> 0 .. MaxSends]
      /\ sent \in Seq(0 .. MaxRequests)
      /\ req \in [Threads -> 0 .. MaxRequests]
      /\ Len(sent) \in Nat
      /\ DOMAIN sent = 1 .. Len(sent)
  BY LenProperties DEF TypeOK
<1>2. CASE \E r \in Requests : BeginCall(t, r)
  BY <1>1, <1>2 DEF BeginCall, peerVars
<1>3. CASE Send(t)
  <2>1. UNCHANGED <<inbox, verdict, alive, future>>
    BY <1>3 DEF Send
  <2>2. CASE sent' = Append(sent, req[t])
    <3>1. /\ sent' \in Seq(0 .. MaxRequests)
          /\ Len(sent') = Len(sent) + 1
          /\ \A j \in 1 .. Len(sent) : sent'[j] = sent[j]
      BY <1>1, <2>2, AppendProperties
    <3> QED BY <1>1, <2>1, <3>1, LenProperties
  <2>3. CASE UNCHANGED sent
    BY <2>1, <2>3
  <2> QED BY <1>3, <2>2, <2>3 DEF Send
<1>4. CASE CallStep(t) /\ ~Send(t)
  <2>1. UNCHANGED <<inbox, verdict, alive, sent>>
    BY <1>4 DEF CallStep, IsRequestProcessingOngoing, CreateFutureResponse,
         SendFailed, Wait, ReturnAnswer, ReturnTimeout, Return, peerVars
  <2>2. future' = future \/ future' = [future EXCEPT ![t] = 0]
    BY <1>4 DEF CallStep, IsRequestProcessingOngoing, CreateFutureResponse,
         SendFailed, Wait, ReturnAnswer, ReturnTimeout, Return
  <2> QED BY <1>1, <2>1, <2>2
<1> QED BY <1>2, <1>3, <1>4

(* A delivered answer goes to the call that owns the entry of its id.      *)
LEMMA Delivery ==
  ASSUME TypeOK, EntryOwned, AnswersHaveSends, OnMessage
  PROVE  \/ UNCHANGED <<future, alive>>
         \/ \E t \in Threads :
               LET s == Head(inbox).send
               IN  /\ Head(inbox).type = "response"
                   /\ s \in DOMAIN sent
                   /\ pc[t] \in Registered
                   /\ WireId(req[t]) = WireId(sent[s])
                   /\ t # EventLoop
                   /\ \/ future' = [future EXCEPT ![t] = s] /\ UNCHANGED alive
                      \/ future[t] # 0 /\ alive' = FALSE /\ UNCHANGED future
<1> DEFINE m == Head(inbox)
           i == WireId(sent[m.send])
<1>1. CASE m.type = "response" /\ HandleResponse(m.send)
  <2>1. m.send \in DOMAIN sent
    <3>1. 1 \in Responses /\ inbox[1] = m
      BY <1>1, TakeMessage DEF OnMessage, Responses
    <3> QED BY <3>1 DEF AnswersHaveSends
  <2>2. CASE responseToPromise[i] = NoThread
    BY <1>1, <2>2 DEF HandleResponse
  <2>3. CASE responseToPromise[i] # NoThread
    <3>1. PICK t : t = responseToPromise[i]
      OBVIOUS
    <3>2. i \in Ids
      <4>1. sent[m.send] \in Nat
        BY <2>1, ElementOfSeq, LenProperties, BoundAssumption DEF TypeOK
      <4> QED BY <4>1, WireIdType
    <3>3. t \in Threads
      BY <2>3, <3>1, <3>2 DEF TypeOK
    <3>4. pc[t] \in Registered /\ WireId(req[t]) = i
      BY <3>1, <3>2, <3>3 DEF EntryOwned
    <3>5. t # EventLoop
      BY <3>4 DEF OnMessage, Registered
    <3>6. \/ future' = [future EXCEPT ![t] = m.send] /\ UNCHANGED alive
          \/ future[t] # 0 /\ alive' = FALSE /\ UNCHANGED future
      BY <1>1, <2>3, <3>1 DEF HandleResponse
    <3> QED BY <1>1, <2>1, <3>3, <3>4, <3>5, <3>6
  <2> QED BY <2>2, <2>3
<1>2. CASE \E b \in BOOLEAN : HandleNotification(b)
  BY <1>2 DEF HandleNotification
<1>3. CASE UNCHANGED <<future, alive>>
  BY <1>3
<1> QED BY <1>1, <1>2, <1>3 DEF OnMessage

(* The answers on their way and in the promises keep belonging to sends,   *)
(* and stay unique: a message is taken off the inbox before its answer is  *)
(* put into a promise, and the peer answers a send once.                   *)
LEMMA AnswersStep ==
  ASSUME TypeOK, EntryOwned, AnswersHaveSends, AnswersAreUnique, [Next]_vars
  PROVE  AnswersHaveSends' /\ AnswersAreUnique'
<1>1. /\ future \in [Threads -> 0 .. MaxSends]
      /\ verdict \in [1 .. MaxSends -> {"none", "success", "failure"}]
      /\ sent \in Seq(0 .. MaxRequests)
      /\ inbox \in Seq(Message)
  BY DEF TypeOK
<1>2. CASE UNCHANGED <<inbox, verdict, future, sent>>
  BY <1>2 DEF AnswersHaveSends, AnswersAreUnique, Responses
<1>3. ASSUME NEW t \in Threads,
             CallStep(t) \/ \E r \in Requests : BeginCall(t, r)
      PROVE  AnswersHaveSends' /\ AnswersAreUnique'
  <2>1. \A k \in Responses : inbox[k].send # 0
    BY <1>1 DEF AnswersHaveSends, TypeOK
  <2> QED BY <1>3, <2>1, CallKeepsAnswers
        DEF AnswersHaveSends, AnswersAreUnique, Responses
<1>4. CASE OnMessage
  <2>1. UNCHANGED <<sent, verdict>>
    BY <1>4 DEF OnMessage
  <2>2. /\ \A k \in Responses' : k + 1 \in Responses /\ inbox'[k] = inbox[k + 1]
        /\ inbox[1] = Head(inbox)
        /\ 1 \in DOMAIN inbox
        /\ \A k \in Responses' : k \in Nat /\ k + 1 # 1
    BY <1>4, TakeMessage DEF OnMessage
  <2>3. \A u \in Threads :
            \/ future'[u] = future[u]
            \/ 1 \in Responses /\ future'[u] = inbox[1].send
    BY <1>1, <1>4, <2>2, Delivery DEF Responses
  <2>4. AnswersHaveSends'
    BY <2>1, <2>2, <2>3 DEF AnswersHaveSends
  <2>5. \A j, k \in Responses' : inbox'[j].send = inbox'[k].send => j = k
    BY <2>2 DEF AnswersAreUnique
  <2>6. ASSUME NEW k \in Responses', NEW u \in Threads
        PROVE  inbox'[k].send # future'[u]
    BY <2>2, <2>3 DEF AnswersAreUnique
  <2> QED BY <2>4, <2>5, <2>6 DEF AnswersAreUnique
<1>5. ASSUME NEW send \in 1 .. MaxSends, PeerAnswers(send)
      PROVE  AnswersHaveSends' /\ AnswersAreUnique'
  <2> DEFINE m == [type |-> "response", send |-> send]
  <2>1. m \in Message /\ inbox' = Append(inbox, m)
    BY <1>5 DEF PeerAnswers, Message
  <2>2. /\ UNCHANGED <<sent, future>>
        /\ send \in DOMAIN sent
        /\ verdict[send] = "none"
        /\ \A i \in 1 .. MaxSends :
              verdict'[i] # "none" <=> i = send \/ verdict[i] # "none"
    BY <1>1, <1>5 DEF PeerAnswers, Verdict, callVars
  <2>3. DOMAIN sent \subseteq 1 .. MaxSends
    BY LenProperties, BoundAssumption DEF TypeOK
  <2>4. /\ \A k \in Responses : inbox[k].send # send
        /\ \A t \in Threads : future[t] # send
    BY <2>2 DEF AnswersHaveSends
  <2>5. \A k \in Responses' :
            \/ k \in Responses /\ inbox'[k] = inbox[k]
            \/ /\ inbox'[k] = m
               /\ \A j \in Responses' :
                     j = k \/ (j \in Responses /\ inbox'[j] = inbox[j])
    BY <2>1, PutMessage
  <2>6. m.send = send
    OBVIOUS
  <2> HIDE DEF m
  <2>7. AnswersHaveSends'
    BY <2>2, <2>3, <2>5, <2>6 DEF AnswersHaveSends
  <2>8. AnswersAreUnique'
    BY <2>2, <2>4, <2>5, <2>6 DEF AnswersAreUnique
  <2> QED BY <2>7, <2>8
<1>6. CASE PeerNotifies
  <2>1. PICK m \in Message : m.type # "response" /\ inbox' = Append(inbox, m)
    BY <1>6 DEF PeerNotifies, NoticeType, Message
  <2>2. \A k \in Responses' : k \in Responses /\ inbox'[k] = inbox[k]
    BY <2>1, PutMessage
  <2>3. UNCHANGED <<sent, verdict, future>>
    BY <1>6 DEF PeerNotifies, callVars
  <2> QED BY <2>2, <2>3 DEF AnswersHaveSends, AnswersAreUnique
<1>7. ASSUME \/ CreateRequest \/ SetNotificationHandler \/ HandlerReturns
             \/ UNCHANGED vars
      PROVE  UNCHANGED <<inbox, verdict, future, sent>>
  BY <1>7 DEF CreateRequest, SetNotificationHandler, HandlerReturns,
              vars, callVars, peerVars
<1> QED BY <1>2, <1>3, <1>4, <1>5, <1>6, <1>7 DEF Next

(* A promise is fulfilled with an answer to the id of its own call, and    *)
(* with none that was asked for after the call's own send.                 *)
LEMMA AnswerStep ==
  ASSUME TypeOK, EntryOwned, OwnSendIsLast, AnswersHaveSends,
         AnswerIsForThisId, [Next]_vars
  PROVE  AnswerIsForThisId'
<1> DEFINE Good(t) == future[t] # 0 =>
              /\ pc[t] \in Registered
              /\ WireId(sent[future[t]]) = WireId(req[t])
              /\ sendOf[t] # 0 => future[t] <= sendOf[t]
<1>1. /\ pc \in [Threads -> Steps]
      /\ req \in [Threads -> 0 .. MaxRequests]
      /\ sendOf \in [Threads -> 0 .. Len(sent)]
      /\ future \in [Threads -> 0 .. MaxSends]
      /\ sent \in Seq(0 .. MaxRequests)
      /\ Len(sent) \in Nat
      /\ DOMAIN sent = 1 .. Len(sent)
  BY LenProperties DEF TypeOK
<1>2. \A t \in Threads : Good(t)
  BY DEF AnswerIsForThisId
<1>3. SUFFICES ASSUME NEW u \in Threads
               PROVE  Good(u)'
  BY DEF AnswerIsForThisId
<1>4. CASE UNCHANGED <<pc, req, sendOf, future, sent>>
  BY <1>2, <1>4
<1>5. ASSUME NEW t \in Threads, NEW r \in Requests, BeginCall(t, r)
      PROVE  Good(u)'
  <2>1. pc[t] \notin Registered
    BY <1>5 DEF BeginCall, Registered
  <2> QED BY <1>1, <1>2, <1>5, <2>1 DEF BeginCall, peerVars
<1>6. ASSUME NEW t \in Threads, CallStep(t)
      PROVE  Good(u)'
  <2>1. CASE pc[t] # "send" /\ pc[t] # "wait"
    <3>1. pc[t] \in {"check", "create"} => future[t] = 0
      BY <1>2 DEF Registered
    <3> QED BY <1>1, <1>2, <1>6, <2>1, <3>1, ReturnEffect DEF peerVars
  <2>2. CASE Wait(t)
    BY <1>1, <1>2, <2>2 DEF Wait, peerVars, Registered
  <2>3. CASE Send(t)
    <3>1. CASE /\ sent' = Append(sent, req[t])
               /\ sendOf' = [sendOf EXCEPT ![t] = Len(sent) + 1]
               /\ pc' = [pc EXCEPT ![t] = "wait"]
      <4>1. \A j \in 1 .. Len(sent) : sent'[j] = sent[j]
        BY <1>1, <3>1, AppendProperties
      <4>2. future[u] # 0 => future[u] \in 1 .. Len(sent)
        BY <1>1 DEF AnswersHaveSends
      <4>3. UNCHANGED <<req, future>>
        BY <2>3 DEF Send
      <4>4. pc'[u] = pc[u] \/ pc'[u] \in Registered
        BY <1>1, <3>1 DEF Registered
      <4>5. sendOf'[u] = sendOf[u] \/ sendOf'[u] = Len(sent) + 1
        BY <1>1, <3>1
      <4> QED BY <1>1, <1>2, <4>1, <4>2, <4>3, <4>4, <4>5
    <3>2. CASE pc' = [pc EXCEPT ![t] = "unsend"] /\ UNCHANGED <<sent, sendOf>>
      BY <1>1, <1>2, <2>3, <3>2 DEF Send, Registered
    <3> QED BY <2>3, <3>1, <3>2 DEF Send
  <2> QED BY <1>6, <2>1, <2>2, <2>3
        DEF CallStep, IsRequestProcessingOngoing, CreateFutureResponse,
            SendFailed, ReturnAnswer, ReturnTimeout
<1>7. CASE OnMessage
  <2>1. pc[EventLoop] = "idle" /\ UNCHANGED <<req, sendOf, sent>>
    BY <1>7 DEF OnMessage
  <2>2. pc' = pc \/ pc' = [pc EXCEPT ![EventLoop] = "handler"]
    BY <1>7 DEF OnMessage, HandleResponse, HandleNotification
  <2>3. pc[u] \in Registered => pc'[u] = pc[u]
    BY <1>1, <2>1, <2>2 DEF Registered
  <2>4. CASE UNCHANGED future
    BY <1>2, <2>1, <2>3, <2>4
  <2>5. CASE \E t \in Threads :
                LET s == Head(inbox).send
                IN  /\ s \in DOMAIN sent
                    /\ pc[t] \in Registered
                    /\ WireId(req[t]) = WireId(sent[s])
                    /\ future' = [future EXCEPT ![t] = s]
    <3> DEFINE s == Head(inbox).send
    <3>1. PICK t \in Threads : /\ s \in DOMAIN sent
                               /\ pc[t] \in Registered
                               /\ WireId(req[t]) = WireId(sent[s])
                               /\ future' = [future EXCEPT ![t] = s]
      BY <2>5
    <3> HIDE DEF s
    <3>2. sendOf[t] # 0 => s <= sendOf[t]
      <4>1. sendOf[t] # 0 => s \notin sendOf[t] + 1 .. Len(sent)
        BY <3>1 DEF OwnSendIsLast
      <4> QED BY <1>1, <3>1, <4>1
    <3>3. CASE u = t
      BY <1>1, <2>1, <2>3, <3>1, <3>2, <3>3
    <3>4. CASE u # t
      BY <1>1, <1>2, <2>1, <2>3, <3>1, <3>4
    <3> QED BY <3>3, <3>4
  <2> QED BY <1>7, <2>4, <2>5, Delivery
<1>8. CASE HandlerReturns
  <2>1. pc[u] \in Registered => pc'[u] = pc[u]
    BY <1>1, <1>8 DEF HandlerReturns, Registered
  <2> QED BY <1>2, <1>8, <2>1 DEF HandlerReturns, peerVars
<1>9. ASSUME \/ CreateRequest \/ SetNotificationHandler \/ PeerNotifies
             \/ \E send \in 1 .. MaxSends : PeerAnswers(send)
             \/ UNCHANGED vars
      PROVE  UNCHANGED <<pc, req, sendOf, future, sent>>
  BY <1>9 DEF CreateRequest, SetNotificationHandler, PeerAnswers, PeerNotifies,
              vars, callVars, peerVars
<1> QED BY <1>4, <1>5, <1>6, <1>7, <1>8, <1>9 DEF Next

(* The event loop thread never receives an answer, and an exception on it  *)
(* means that two sends have shared an id.                                 *)
LEMMA LoopStep ==
  ASSUME TypeOK, EntryOwned, AnswersHaveSends, AnswersAreUnique,
         AnswerIsForThisId, HandlerCallUnanswered, TerminatesOnlyOnRepeatedId,
         [Next]_vars
  PROVE  HandlerCallUnanswered' /\ TerminatesOnlyOnRepeatedId'
<1>1. future \in [Threads -> 0 .. MaxSends] /\ EventLoop \in Threads
  BY DEF TypeOK, Threads
<1>2. CASE UNCHANGED <<future, alive, sent>>
  BY <1>2 DEF HandlerCallUnanswered, TerminatesOnlyOnRepeatedId, RepeatedId
<1>3. ASSUME NEW t \in Threads,
             CallStep(t) \/ \E r \in Requests : BeginCall(t, r)
      PROVE  HandlerCallUnanswered' /\ TerminatesOnlyOnRepeatedId'
  <2>1. RepeatedId => RepeatedId'
    BY <1>3, CallKeepsAnswers DEF RepeatedId
  <2> QED BY <1>1, <1>3, <2>1, CallKeepsAnswers
        DEF HandlerCallUnanswered, TerminatesOnlyOnRepeatedId
<1>4. CASE OnMessage
  <2>1. UNCHANGED sent
    BY <1>4 DEF OnMessage
  <2>2. CASE UNCHANGED <<future, alive>>
    BY <1>2, <2>1, <2>2
  <2>3. ASSUME NEW t \in Threads, t # EventLoop, UNCHANGED alive,
               future' = [future EXCEPT ![t] = Head(inbox).send]
        PROVE  HandlerCallUnanswered' /\ TerminatesOnlyOnRepeatedId'
    BY <1>1, <2>1, <2>3
    DEF HandlerCallUnanswered, TerminatesOnlyOnRepeatedId, RepeatedId
  <2>4. ASSUME NEW t \in Threads, future[t] # 0, UNCHANGED future,
               Head(inbox).type = "response",
               Head(inbox).send \in DOMAIN sent,
               WireId(req[t]) = WireId(sent[Head(inbox).send])
        PROVE  HandlerCallUnanswered' /\ TerminatesOnlyOnRepeatedId'
    <3>1. inbox[1] = Head(inbox) /\ 1 \in Responses
      BY <1>4, <2>4, TakeMessage DEF OnMessage, Responses
    <3>2. Head(inbox).send # future[t]
      BY <3>1 DEF AnswersAreUnique
    <3>3. WireId(sent[future[t]]) = WireId(req[t])
      BY <2>4 DEF AnswerIsForThisId
    <3>4. future[t] \in DOMAIN sent
      BY <2>4 DEF AnswersHaveSends
    <3>5. RepeatedId'
      BY <2>1, <2>4, <3>2, <3>3, <3>4 DEF RepeatedId
    <3> QED BY <2>4, <3>5 DEF HandlerCallUnanswered, TerminatesOnlyOnRepeatedId
  <2> QED BY <1>4, <2>2, <2>3, <2>4, Delivery
<1>5. ASSUME \/ CreateRequest \/ SetNotificationHandler \/ PeerNotifies
             \/ HandlerReturns
             \/ \E send \in 1 .. MaxSends : PeerAnswers(send)
             \/ UNCHANGED vars
      PROVE  UNCHANGED <<future, alive, sent>>
  BY <1>5 DEF CreateRequest, SetNotificationHandler, PeerAnswers, PeerNotifies,
              HandlerReturns, vars, callVars, peerVars
<1> QED BY <1>2, <1>3, <1>4, <1>5 DEF Next

-----------------------------------------------------------------------------
(* The inductive invariant holds in every reachable state.                 *)
THEOREM Invariance == Spec => []IInv
<1>1. ASSUME Init PROVE IInv
  <2>1. /\ \A t \in Threads : /\ future[t] = 0 /\ sendOf[t] = 0
                              /\ pc[t] = "idle"
        /\ inbox = << >> /\ sent = << >> /\ alive = TRUE
    BY <1>1 DEF Init
  <2>2. TypeOK
    BY <1>1, InitTypeOK
  <2>3. EntryOwned
    BY <1>1, InitEntryOwned
  <2>4. Responses = {}
    BY <2>1 DEF Responses
  <2>5. AnswersHaveSends /\ AnswersAreUnique
    BY <2>1, <2>4 DEF AnswersHaveSends, AnswersAreUnique
  <2>6. OwnSendIsLast /\ AnswerIsForThisId
    BY <2>1 DEF OwnSendIsLast, AnswerIsForThisId
  <2>7. HandlerCallUnanswered /\ TerminatesOnlyOnRepeatedId
    BY <2>1 DEF HandlerCallUnanswered, TerminatesOnlyOnRepeatedId, Threads
  <2> QED BY <2>2, <2>3, <2>5, <2>6, <2>7 DEF IInv
<1>2. IInv /\ [Next]_vars => IInv'
  BY TypeStep, EntryStep, OwnSendStep, AnswersStep, AnswerStep, LoopStep DEF IInv
<1> QED BY <1>1, <1>2, PTL DEF Spec

(* An answer never reaches a call with another id, and never precedes the  *)
(* send it answers.                                                        *)
THEOREM AnswersForThisId == Spec => []AnswerIsForThisId
  BY Invariance, PTL DEF IInv

(* A sendRequest made from the notification handler is never answered.     *)
THEOREM HandlerCallsUnanswered == Spec => []HandlerCallUnanswered
  BY Invariance, PTL DEF IInv

(* As long as no id is sent twice, no exception escapes on the event loop. *)
THEOREM NoTermination == Spec => []TerminatesOnlyOnRepeatedId
  BY Invariance, PTL DEF IInv

(* sendRequest returns TRUE only for a request that was sent and an answer *)
(* of the peer to its id that says success.                                *)
THEOREM TrueIsSuccess == Spec => TrueMeansSuccess
<1> DEFINE Claim(t) ==
      pc[t] \notin {"idle", "handler"} /\ pc'[t] = "idle" /\ result'[t]
      => /\ sendOf[t] # 0
         /\ \E i \in DOMAIN sent :
               WireId(sent[i]) = WireId(req[t]) /\ verdict[i] = "success"
<1>1. ASSUME IInv, [Next]_vars, NEW t \in Threads
      PROVE  Claim(t)
  <2>1. pc \in [Threads -> Steps] /\ result \in [Threads -> BOOLEAN]
    BY <1>1 DEF IInv, TypeOK
  <2>2. CASE ReturnAnswer(t)
    <3>1. future[t] # 0 /\ sendOf[t] # 0
      BY <1>1, <2>2 DEF ReturnAnswer, IInv, OwnSendIsLast
    <3>2. future[t] \in DOMAIN sent
      BY <1>1, <3>1 DEF IInv, AnswersHaveSends
    <3>3. WireId(sent[future[t]]) = WireId(req[t])
      BY <1>1, <3>1 DEF IInv, AnswerIsForThisId
    <3>4. result'[t] => verdict[future[t]] = "success"
      <4>1. result' = [result EXCEPT ![t] = Success(future[t])]
        BY <2>2 DEF ReturnAnswer, Return
      <4>2. result'[t] = Success(future[t])
        BY <2>1, <4>1
      <4> QED BY <4>2 DEF Success
    <3> QED BY <3>1, <3>2, <3>3, <3>4
  <2>3. ASSUME NEW u \in Threads, CallStep(u), ~ReturnAnswer(t)
        PROVE  Claim(t)
    <3>1. CASE u # t
      <4>1. \E p : pc' = [pc EXCEPT ![u] = p]
        BY <2>3 DEF CallStep, IsRequestProcessingOngoing, SendFailed, Return,
             CreateFutureResponse, Send, Wait, ReturnAnswer, ReturnTimeout
      <4> QED BY <2>1, <3>1, <4>1
    <3>2. CASE u = t
      <4>1. \/ \E p : pc' = [pc EXCEPT ![t] = p] /\ p # "idle"
            \/ result' = [result EXCEPT ![t] = FALSE]
        BY <2>3, <3>2 DEF CallStep, IsRequestProcessingOngoing, SendFailed,
             Return, CreateFutureResponse, Send, Wait, ReturnTimeout
      <4> QED BY <2>1, <4>1
    <3> QED BY <3>1, <3>2
  <2>4. ASSUME NEW u \in Threads, NEW r \in Requests, BeginCall(u, r)
        PROVE  Claim(t)
    BY <2>1, <2>4 DEF BeginCall
  <2>5. CASE OnMessage
    <3>1. pc' = pc \/ pc' = [pc EXCEPT ![EventLoop] = "handler"]
      BY <2>5 DEF OnMessage, HandleResponse, HandleNotification
    <3> QED BY <2>1, <3>1
  <2>6. CASE HandlerReturns
    BY <2>1, <2>6 DEF HandlerReturns
  <2>7. ASSUME \/ CreateRequest \/ SetNotificationHandler \/ PeerNotifies
               \/ \E send \in 1 .. MaxSends : PeerAnswers(send)
               \/ UNCHANGED vars
        PROVE  UNCHANGED pc
    BY <2>7 DEF CreateRequest, SetNotificationHandler, PeerAnswers,
         PeerNotifies, vars, callVars
  <2> QED BY <1>1, <2>2, <2>3, <2>4, <2>5, <2>6, <2>7 DEF Next
<1>2. ASSUME IInv, [Next]_vars
      PROVE  \A t \in Threads : Claim(t)
  BY <1>1, <1>2
<1> QED BY <1>2, Invariance, PTL DEF Spec, TrueMeansSuccess

-----------------------------------------------------------------------------
(* The refinement.                                                         *)

(* The state of RequestCalls that a state of the component stands for.     *)
open == [t \in Threads |->
            IF pc[t] \in Registered THEN WireId(req[t]) ELSE -1]
answered == {t \in Threads : future[t] # 0}

(* A step that registers no call, removes none and delivers nothing is     *)
(* invisible to the callers.                                               *)
LEMMA Stutter ==
  ASSUME UNCHANGED <<future, alive>>,
         \A t \in Threads : /\ pc'[t] \in Registered <=> pc[t] \in Registered
                            /\ pc[t] \in Registered => req'[t] = req[t]
  PROVE  UNCHANGED Calls!vars
<1>1. open' = open
  BY DEF open
<1>2. answered' = answered
  BY DEF answered
<1> QED BY <1>1, <1>2 DEF open, answered, Calls!vars

(* Erasing the entry closes the call.                                      *)
LEMMA EraseCloses ==
  ASSUME IInv, NEW t \in Threads, alive, UNCHANGED alive,
         pc[t] \in Registered,
         pc' = [pc EXCEPT ![t] = "idle"],
         req' = [req EXCEPT ![t] = 0],
         future' = [future EXCEPT ![t] = 0]
  PROVE  Calls!Close(t)
<1>1. /\ pc \in [Threads -> Steps]
      /\ req \in [Threads -> 0 .. MaxRequests]
      /\ future \in [Threads -> 0 .. MaxSends]
  BY DEF IInv, TypeOK
<1>2. open[t] # -1
  <2>1. WireId(req[t]) \in Ids
    BY <1>1, WireIdType, BoundAssumption
  <2> QED BY <2>1, BoundAssumption DEF open, Ids
<1>3. open' = [open EXCEPT ![t] = -1]
  BY <1>1 DEF open, Registered
<1>4. answered' = answered \ {t}
  BY <1>1 DEF answered
<1> QED BY <1>2, <1>3, <1>4 DEF open, answered, Calls!Close

(* Saving the promise opens the call.                                      *)
LEMMA CreateOpens ==
  ASSUME IInv, NEW t \in Threads, CreateFutureResponse(t)
  PROVE  [Calls!Next]_(Calls!vars)
<1>1. /\ pc \in [Threads -> Steps]
      /\ req \in [Threads -> 0 .. MaxRequests]
      /\ EntryOwned
  BY DEF IInv, TypeOK
<1>2. future[t] = 0 /\ pc[t] = "create" /\ alive
  BY DEF CreateFutureResponse, IInv, AnswerIsForThisId, Registered
<1>3. CASE Return(t, FALSE)
  <2>1. /\ \A u \in Threads : /\ pc'[u] \in Registered <=> pc[u] \in Registered
                              /\ pc[u] \in Registered => req'[u] = req[u]
        /\ UNCHANGED alive
    BY <1>1, <1>2, <1>3 DEF Return, Registered
  <2>2. UNCHANGED future
    BY <1>2, <1>3 DEF Return, IInv, TypeOK
  <2> QED BY <2>1, <2>2, Stutter
<1>4. CASE /\ responseToPromise[WireId(req[t])] = NoThread
           /\ pc' = [pc EXCEPT ![t] = "send"]
           /\ UNCHANGED <<req, future, alive>>
  <2>1. PICK wire \in Ids : wire = WireId(req[t])
    BY <1>1, WireIdType, BoundAssumption
  <2>2. open[t] = -1
    BY <1>2 DEF open, Registered
  <2>3. \A u \in Threads : open[u] # wire
    <3>1. \A u \in Threads : pc[u] \in Registered => WireId(req[u]) # wire
      BY <1>1, <1>4, <2>1, ThreadAssumption DEF EntryOwned
    <3> QED BY <3>1, BoundAssumption DEF open, Ids
  <2>4. open' = [open EXCEPT ![t] = wire]
    BY <1>1, <1>4, <2>1 DEF open, Registered
  <2>5. answered' = answered
    BY <1>4 DEF answered
  <2>6. alive /\ UNCHANGED alive
    BY <1>2, <1>4
  <2>7. Calls!Open(t, wire)
    BY Zenon, <2>2, <2>3, <2>4, <2>5, <2>6 DEF open, answered, Calls!Open
  <2> QED BY <2>7 DEF Calls!Next
<1> QED BY <1>3, <1>4 DEF CreateFutureResponse

(* Every step of the component is a step of RequestCalls or is invisible.  *)
LEMMA RefinementStep ==
  ASSUME IInv, [Next]_vars
  PROVE  [Calls!Next]_(Calls!vars)
<1> DEFINE Frame ==
      \A t \in Threads : /\ pc'[t] \in Registered <=> pc[t] \in Registered
                         /\ pc[t] \in Registered => req'[t] = req[t]
<1>1. /\ pc \in [Threads -> Steps]
      /\ req \in [Threads -> 0 .. MaxRequests]
      /\ future \in [Threads -> 0 .. MaxSends]
  BY DEF IInv, TypeOK
<1>2. CASE UNCHANGED <<pc, req, future, alive>>
  BY <1>2, Stutter
<1>3. ASSUME NEW t \in Threads, NEW r \in Requests, BeginCall(t, r)
      PROVE  [Calls!Next]_(Calls!vars)
  <2>1. Frame /\ UNCHANGED <<future, alive>>
    BY <1>1, <1>3 DEF BeginCall, Registered
  <2> QED BY <2>1, Stutter
<1>4. ASSUME NEW t \in Threads, CallStep(t)
      PROVE  [Calls!Next]_(Calls!vars)
  <2>1. CASE IsRequestProcessingOngoing(t)
    <3>1. future[t] = 0
      BY <2>1 DEF IsRequestProcessingOngoing, IInv, AnswerIsForThisId, Registered
    <3>2. Frame /\ UNCHANGED alive
      BY <1>1, <2>1 DEF IsRequestProcessingOngoing, Return, Registered
    <3>3. future' = future
      BY <1>1, <2>1, <3>1 DEF IsRequestProcessingOngoing, Return
    <3> QED BY <3>2, <3>3, Stutter
  <2>2. CASE CreateFutureResponse(t)
    BY <2>2, CreateOpens
  <2>3. CASE Send(t)
    <3>1. Frame /\ UNCHANGED <<future, alive>>
      BY <1>1, <2>3 DEF Send, Registered
    <3> QED BY <3>1, Stutter
  <2>4. CASE Wait(t)
    <3>1. Frame /\ UNCHANGED <<future, alive>>
      BY <1>1, <2>4 DEF Wait, Registered
    <3> QED BY <3>1, Stutter
  <2>5. CASE SendFailed(t) \/ ReturnAnswer(t) \/ ReturnTimeout(t)
    <3>1. Calls!Close(t)
      BY <2>5, EraseCloses
      DEF SendFailed, ReturnAnswer, ReturnTimeout, Return, Registered
    <3> QED BY <3>1 DEF Calls!Next
  <2> QED BY <1>4, <2>1, <2>2, <2>3, <2>4, <2>5 DEF CallStep
<1>5. CASE OnMessage
  <2>1. pc' = pc \/ pc' = [pc EXCEPT ![EventLoop] = "handler"]
    BY <1>5 DEF OnMessage, HandleResponse, HandleNotification
  <2>2. Frame /\ UNCHANGED req /\ alive
    BY <1>1, <1>5, <2>1 DEF OnMessage, Registered, Threads
  <2>3. CASE UNCHANGED <<future, alive>>
    BY <2>2, <2>3, Stutter
  <2>4. open' = open
    BY <2>2 DEF open
  <2>5. ASSUME NEW t \in Threads, NEW s \in DOMAIN sent,
               pc[t] \in Registered,
               \/ future' = [future EXCEPT ![t] = s] /\ UNCHANGED alive
               \/ future[t] # 0 /\ alive' = FALSE /\ UNCHANGED future
        PROVE  [Calls!Next]_(Calls!vars)
    <3>1. s # 0
      BY LenProperties DEF IInv, TypeOK
    <3>2. open[t] # -1
      <4>1. WireId(req[t]) \in Ids
        BY <1>1, WireIdType, BoundAssumption
      <4> QED BY <2>5, <4>1, BoundAssumption DEF open, Ids
    <3>3. CASE future[t] = 0
      <4>1. answered' = answered \union {t} /\ t \notin answered
        BY <1>1, <2>5, <3>1, <3>3 DEF answered
      <4>2. Calls!Deliver(t)
        BY <2>2, <2>4, <2>5, <3>2, <3>3, <4>1 DEF open, answered, Calls!Deliver
      <4> QED BY <4>2 DEF Calls!Next
    <3>4. CASE future[t] # 0 /\ UNCHANGED alive
      <4>1. answered' = answered
        BY <1>1, <2>5, <3>1, <3>4 DEF answered
      <4> QED BY <2>4, <3>4, <4>1 DEF open, answered, Calls!vars
    <3>5. CASE future[t] # 0 /\ alive' = FALSE /\ UNCHANGED future
      <4>1. answered' = answered /\ answered # {}
        BY <3>5 DEF answered
      <4>2. Calls!Die
        BY <2>2, <2>4, <3>5, <4>1 DEF open, answered, Calls!Die
      <4> QED BY <4>2 DEF Calls!Next
    <3> QED BY <2>5, <3>3, <3>4, <3>5
  <2> QED BY <1>5, <2>3, <2>5, Delivery DEF IInv
<1>6. CASE HandlerReturns
  <2>1. Frame /\ UNCHANGED <<future, alive>>
    BY <1>1, <1>6 DEF HandlerReturns, Registered, Threads
  <2> QED BY <2>1, Stutter
<1>7. ASSUME \/ CreateRequest \/ SetNotificationHandler \/ PeerNotifies
             \/ \E send \in 1 .. MaxSends : PeerAnswers(send)
             \/ UNCHANGED vars
      PROVE  UNCHANGED <<pc, req, future, alive>>
  BY <1>7 DEF CreateRequest, SetNotificationHandler, PeerAnswers, PeerNotifies,
              vars, callVars
<1> QED BY <1>2, <1>3, <1>4, <1>5, <1>6, <1>7 DEF Next

(* The component implements the safety part of RequestCalls, whatever the  *)
(* number of threads, requests and messages: at most one open call per id, *)
(* at most one answer per call, and no termination without an answer in    *)
(* hand.                                                                   *)
THEOREM Refinement == Spec => Calls!SafeSpec
<1>1. Init => Calls!Init
  BY DEF Init, Calls!Init, Registered
<1>2. IInv /\ [Next]_vars => [Calls!Next]_(Calls!vars)
  BY RefinementStep
<1> QED BY <1>1, <1>2, Invariance, PTL DEF Spec, Calls!SafeSpec
=============================================================================
