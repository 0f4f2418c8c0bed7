----------------------------- MODULE WSEndpoint -----------------------------
(***************************************************************************)
(* helpers/WebSockets: the connections of a WSEndpoint, their pings and    *)
(* the life of its event loop.                                             *)
(*                                                                         *)
(* One application thread calls the role (Client or SingleClientServer)    *)
(* and the destructor; the event loop thread runs the handlers, the pings  *)
(* and the timeouts, one at a time.  The two share connectionHandler_,     *)
(* which names the connection opened last, without a lock; an access to it *)
(* is taken as a whole.                                                    *)
(***************************************************************************)
EXTENDS Integers, FiniteSets

CONSTANTS
    Connections,     \* the connections there can be
    None,            \* no connection
    Settings,        \* the endpoints there can be
    MaxUnasked       \* bound: pongs that no ping was sent for

(* server: the role is SingleClientServer, otherwise Client.               *)
(* concurrent: a connection can be started while another one lives.        *)
(* timeoutOutlives: the library leaves the pong timeout of a closed        *)
(* connection on.                                                          *)
Setting == [server : BOOLEAN, concurrent : BOOLEAN, timeoutOutlives : BOOLEAN]

ASSUME WSEndpointAssumption ==
    /\ IsFiniteSet(Connections) /\ None \notin Connections
    /\ Settings \subseteq Setting
    /\ MaxUnasked \in Nat

VARIABLES
    setting,    \* what the endpoint is and is used with, the same for ever
    conn,       \* the state of every connection
    handle,     \* connectionHandler_
    opening,    \* the connection whose onOpen has not yet started the ping
    timers,     \* ping timers that are set
    owed,       \* pings sent on a connection that its peer has not answered
    unasked,    \* pongs received that no ping was owed for
    armed,      \* a connection's pong timeout is set
    listening,  \* the server does not listen, listens, or also accepts
    perpetual,  \* the loop runs on without work
    loop,       \* eventLoopThread_ and its run()
    app         \* what the application thread is doing

vars == <<setting, conn, handle, opening, timers, owed, unasked, armed, listening,
          perpetual, loop, app>>

Server == setting.server
Concurrent == setting.concurrent
TimeoutOutlives == setting.timeoutOutlives

TypeOK ==
    /\ setting \in Settings
    /\ conn \in [Connections -> {"none", "connecting", "open", "closing", "closed", "failed"}]
    /\ handle \in Connections \union {None}
    /\ opening \in Connections \union {None}
    /\ timers \in Nat
    /\ owed \in [Connections -> Nat]
    /\ unasked \in 0 .. MaxUnasked
    /\ armed \in [Connections -> BOOLEAN]
    /\ listening \in {"no", "open", "accepting"} /\ perpetual \in BOOLEAN
    /\ loop \in {"none", "running", "ended"}
    /\ app \in {"idle", "look", "close", "join", "gone"}

Init ==
    /\ setting \in Settings
    /\ conn = [c \in Connections |-> "none"]
    /\ handle = None /\ opening = None
    /\ timers = 0
    /\ owed = [c \in Connections |-> 0]
    /\ unasked = 0
    /\ armed = [c \in Connections |-> FALSE]
    /\ listening = "no" /\ perpetual = TRUE
    /\ loop = "none"
    /\ app = "idle"

Live(c) == conn[c] \in {"connecting", "open", "closing"}

(* A new connection is possible: the environment's part of Concurrent.     *)
Room == Concurrent \/ \A c \in Connections : ~Live(c)

-----------------------------------------------------------------------------
(* The application thread.                                                 *)

HandleOpen == handle # None /\ conn[handle] = "open"

(* close(connectionHandler_): an error unless the connection is open.      *)
CloseHandle ==
    conn' = IF HandleOpen THEN [conn EXCEPT ![handle] = "closing"] ELSE conn

(* Client::connect; without a connection to connect it changes nothing.    *)
Connect(c) ==
    /\ app = "idle" /\ ~Server
    /\ conn[c] = "none" /\ Room
    /\ conn' = [conn EXCEPT ![c] = "connecting"]
    /\ loop' = "running"
    /\ UNCHANGED <<setting, handle, opening, timers, owed, unasked, armed, listening,
                   perpetual, app>>

(* Client::disconnect.                                                     *)
Disconnect ==
    /\ app = "idle" /\ ~Server
    /\ app' = "look"
    /\ UNCHANGED <<setting, conn, handle, opening, timers, owed, unasked, armed, listening,
                   perpetual, loop>>

(* SingleClientServer::start; a failing listen changes nothing, a failing  *)
(* start_accept leaves a server that listens.                              *)
Start ==
    /\ app = "idle" /\ Server
    /\ listening = "no"
    /\ \/ listening' = "accepting" /\ loop' = "running"
       \/ listening' = "open" /\ UNCHANGED loop
    /\ UNCHANGED <<setting, conn, handle, opening, timers, owed, unasked, armed, perpetual,
                   app>>

(* SingleClientServer::stop; it returns at once if nothing listens.        *)
StopServer ==
    /\ app = "idle" /\ Server
    /\ listening # "no"
    /\ listening' = "no"
    /\ app' = "look"
    /\ UNCHANGED <<setting, conn, handle, opening, timers, owed, unasked, armed, perpetual,
                   loop>>

(* ~WSEndpoint.                                                            *)
Destroy ==
    /\ app = "idle"
    /\ perpetual' = FALSE
    /\ app' = "look"
    /\ UNCHANGED <<setting, conn, handle, opening, timers, owed, unasked, armed, listening,
                   loop>>

(* closeConnection, for the three of them: the state is read first, and    *)
(* connectionHandler_ once more for the close.                             *)
AfterClose == IF perpetual THEN "idle" ELSE "join"

Look ==
    /\ app = "look"
    /\ app' = IF HandleOpen THEN "close" ELSE AfterClose
    /\ UNCHANGED conn

(* Mutant: the destructor closes nothing.                                  *)
CloseUnlessDestroyed ==
    /\ app = "close"
    /\ IF perpetual THEN CloseHandle ELSE UNCHANGED conn
    /\ app' = AfterClose

Close ==
    /\ app = "close"
    /\ CloseHandle
    /\ app' = AfterClose

(* stopEventLoop, for the destructor only.                                 *)
Join ==
    /\ app = "join"
    /\ loop # "running"
    /\ app' = "gone"
    /\ UNCHANGED conn

AppOnly(A) ==
    A /\ UNCHANGED <<setting, handle, opening, timers, owed, unasked, armed, listening,
                     perpetual, loop>>

AppStep == AppOnly(Look \/ Close \/ Join)

-----------------------------------------------------------------------------
(* The event loop: the transport.                                          *)

LoopFree == loop = "running" /\ opening = None

(* A client of the server; nothing refuses a second one.                   *)
Accept(c) ==
    /\ LoopFree
    /\ Server /\ listening = "accepting"
    /\ conn[c] = "none" /\ Room
    /\ conn' = [conn EXCEPT ![c] = "connecting"]
    /\ UNCHANGED <<handle, opening, timers, owed, unasked, armed>>

(* onOpen up to the callback.                                              *)
OnOpen(c) ==
    /\ LoopFree
    /\ conn[c] = "connecting"
    /\ conn' = [conn EXCEPT ![c] = "open"]
    /\ handle' = c
    /\ opening' = c
    /\ UNCHANGED <<timers, owed, unasked, armed>>

(* onFail: the handshake fails, at the latest after its timeout.           *)
OnFail(c) ==
    /\ LoopFree
    /\ conn[c] = "connecting"
    /\ conn' = [conn EXCEPT ![c] = "failed"]
    /\ UNCHANGED <<handle, opening, timers, owed, unasked, armed>>

(* onClose: the peer closes, is lost or confirms our close; the latter has *)
(* a timeout.  The pongs it owes are lost.                                 *)
OnClose(c) ==
    /\ LoopFree
    /\ conn[c] \in {"open", "closing"}
    /\ conn' = [conn EXCEPT ![c] = "closed"]
    /\ owed' = [owed EXCEPT ![c] = 0]
    /\ armed' = [armed EXCEPT ![c] = armed[c] /\ TimeoutOutlives]
    /\ UNCHANGED <<handle, opening, timers, unasked>>

-----------------------------------------------------------------------------
(* The event loop: PingPongEnabled.                                        *)

(* startPing, at the end of onOpen.                                        *)
StartPing ==
    /\ loop = "running" /\ opening # None
    /\ opening' = None
    /\ timers' = timers + 1
    /\ UNCHANGED <<conn, handle, owed, unasked, armed>>

(* ping: whatever connection the timer was set for, the ping goes to the   *)
(* connection of connectionHandler_, and sets its pong timeout anew.       *)
(* Mutant: the next ping does not wait for the pong.                       *)
PingAndSchedule ==
    /\ LoopFree
    /\ timers > 0
    /\ IF HandleOpen
       THEN /\ timers < 2 * Cardinality(Connections) + MaxUnasked
            /\ timers' = timers
            /\ owed' = [owed EXCEPT ![handle] = 1]
            /\ armed' = [armed EXCEPT ![handle] = TRUE]
       ELSE timers' = timers - 1 /\ UNCHANGED <<owed, armed>>
    /\ UNCHANGED <<conn, handle, opening, unasked>>

Ping ==
    /\ LoopFree
    /\ timers > 0
    /\ timers' = timers - 1
    /\ IF HandleOpen
       THEN /\ owed' = [owed EXCEPT ![handle] = owed[handle] + 1]
            /\ armed' = [armed EXCEPT ![handle] = TRUE]
       ELSE UNCHANGED <<owed, armed>>
    /\ UNCHANGED <<conn, handle, opening, unasked>>

(* A pong answers a ping, or none: a peer may send one unasked.            *)
Answered(c) ==
    \/ owed[c] > 0 /\ owed' = [owed EXCEPT ![c] = owed[c] - 1] /\ UNCHANGED unasked
    \/ owed[c] = 0 /\ unasked < MaxUnasked /\ unasked' = unasked + 1 /\ UNCHANGED owed

(* Mutant: a pong sets no timer.                                           *)
PongSchedulesNothing(c) ==
    /\ LoopFree
    /\ conn[c] \in {"open", "closing"}
    /\ Answered(c)
    /\ armed' = [armed EXCEPT ![c] = FALSE]
    /\ UNCHANGED <<conn, handle, opening, timers>>

(* onPong: the next ping is scheduled, whatever the pong was sent for; the *)
(* library has ended the connection's pong timeout.                        *)
OnPong(c) ==
    /\ LoopFree
    /\ conn[c] \in {"open", "closing"}
    /\ Answered(c)
    /\ armed' = [armed EXCEPT ![c] = FALSE]
    /\ timers' = timers + 1
    /\ UNCHANGED <<conn, handle, opening>>

(* Mutant: the timeout is only logged.                                     *)
PongTimeoutIgnored(c) ==
    /\ LoopFree
    /\ armed[c]
    /\ armed' = [armed EXCEPT ![c] = FALSE]
    /\ UNCHANGED <<conn, handle, opening, timers, owed, unasked>>

(* onPongTimeout closes the connection of connectionHandler_.              *)
OnPongTimeout(c) ==
    /\ LoopFree
    /\ armed[c]
    /\ armed' = [armed EXCEPT ![c] = FALSE]
    /\ CloseHandle
    /\ UNCHANGED <<handle, opening, timers, owed, unasked>>

(* run() returns once there is no work.                                    *)
RunEnds ==
    /\ LoopFree
    /\ ~perpetual /\ listening # "accepting"
    /\ timers = 0
    /\ \A c \in Connections : ~Live(c) /\ ~armed[c]
    /\ loop' = "ended"
    /\ UNCHANGED <<setting, conn, handle, opening, timers, owed, unasked, armed, listening,
                   perpetual, app>>

LoopStep(A) == A /\ UNCHANGED <<setting, listening, perpetual, loop, app>>

Next ==
    \/ \E c \in Connections : Connect(c)
    \/ Disconnect \/ Start \/ StopServer \/ Destroy
    \/ AppStep
    \/ RunEnds
    \/ LoopStep(StartPing \/ Ping)
    \/ \E c \in Connections :
          LoopStep(\/ Accept(c) \/ OnOpen(c) \/ OnFail(c) \/ OnClose(c)
                   \/ OnPong(c) \/ OnPongTimeout(c))

(* Fairness: both threads go on, a timer that is set fires, and the two    *)
(* handshakes have timeouts.  Nothing is assumed of the peers.             *)
Fairness ==
    /\ WF_vars(AppStep) /\ WF_vars(RunEnds)
    /\ WF_vars(LoopStep(StartPing \/ Ping))
    /\ \A c \in Connections :
          /\ WF_vars(LoopStep(OnOpen(c) \/ OnFail(c)))
          /\ WF_vars(conn[c] = "closing" /\ LoopStep(OnClose(c)))
          /\ WF_vars(LoopStep(OnPongTimeout(c)))

Spec == Init /\ [][Next]_vars /\ Fairness

-----------------------------------------------------------------------------
Opened == {c \in Connections : conn[c] \in {"open", "closing", "closed"}}

(* A dead peer is found: while the connection of connectionHandler_ is     *)
(* open, a ping is scheduled or the timeout of one is running.             *)
KeepAlive == HandleOpen /\ opening = None => timers > 0 \/ armed[handle]

(* The pings that are not answered, each with its connection.              *)
Unanswered == UNION {{c} \X (1 .. owed[c]) : c \in Connections}

(* Every connection that has been opened starts one chain of pings, and    *)
(* every pong that nobody asked for one more; no answer, timeout or        *)
(* connection after it makes two of one.                                   *)
OneChainPerConnection ==
    timers + Cardinality(Unanswered) + (IF opening = None THEN 0 ELSE 1)
        <= Cardinality(Opened) + unasked

(* A connection that is kept is one whose peer answers again and again.    *)
KeptWhileAnswering ==
    \A c \in Connections :
        <>[](handle = c /\ conn[c] = "open" /\ loop = "running")
            => []<><<LoopStep(OnPong(c))>>_vars

(* "Pong timeout. Closing connection.": the one that has timed out, and no *)
(* other, if there is one connection at a time and its timeout ends with   *)
(* it.                                                                     *)
TimeoutClosesOwn ==
    [][\A c \in Connections :
           ~Concurrent /\ ~TimeoutOutlives /\ LoopStep(OnPongTimeout(c))
               => conn' = IF conn[c] = "open" THEN [conn EXCEPT ![c] = "closing"] ELSE conn]_vars

(* There is nothing the destructor does not know of: no handshake is under *)
(* way, nobody accepts, and an open connection is that of the handle.      *)
Settled ==
    /\ listening # "accepting"
    /\ \A c \in Connections : conn[c] # "connecting"
    /\ \A c \in Connections : conn[c] = "open" => c = handle

(* The destructor of a settled endpoint joins its loop.                    *)
SettledDestroyReturns == app = "look" /\ ~perpetual /\ Settled ~> app = "gone"

(* The destructor joins the loop: "Threads must be joined or safely        *)
(* terminated."                                                            *)
DestroyReturns == ~perpetual ~> app = "gone"

(* What TimeoutClosesOwn rests on.                                         *)
LastOpenIsHandle ==
    /\ ~Concurrent => /\ \A c, d \in Connections : Live(c) /\ Live(d) => c = d
                      /\ \A c \in Connections : conn[c] \in {"open", "closing"} => c = handle
    /\ ~TimeoutOutlives => \A c \in Connections : armed[c] => conn[c] \in {"open", "closing"}

IInv ==
    /\ TypeOK /\ KeepAlive /\ LastOpenIsHandle
    /\ IsFiniteSet(Unanswered) /\ OneChainPerConnection
=============================================================================
