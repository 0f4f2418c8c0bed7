------------------------- MODULE WSEndpointProofs -------------------------
(* What is proved of WSEndpoint, for any set of connections.  Every lemma  *)
(* about a step has one case per action.                                   *)
EXTENDS WSEndpoint, FiniteSetTheorems, TLAPS

(* The steps of Next, one by one.                                          *)
LEMMA StepCases ==
    ASSUME Next
    PROVE  \/ \E c \in Connections : Connect(c)
           \/ Disconnect
           \/ Start
           \/ StopServer
           \/ Destroy
           \/ AppOnly(Look)
           \/ AppOnly(Close)
           \/ AppOnly(Join)
           \/ RunEnds
           \/ LoopStep(StartPing)
           \/ LoopStep(Ping)
           \/ \E c \in Connections : LoopStep(Accept(c))
           \/ \E c \in Connections : LoopStep(OnOpen(c))
           \/ \E c \in Connections : LoopStep(OnFail(c))
           \/ \E c \in Connections : LoopStep(OnClose(c))
           \/ \E c \in Connections : LoopStep(OnPong(c))
           \/ \E c \in Connections : LoopStep(OnPongTimeout(c))
  BY DEF Next, AppStep, AppOnly, LoopStep

(* Every step keeps the types.                                              *)
LEMMA TypeStep ==
    ASSUME TypeOK, [Next]_vars
    PROVE  TypeOK'
  <1>1. ASSUME NEW c \in Connections, Connect(c) PROVE TypeOK'
    BY <1>1 DEF Connect, Room, TypeOK
  <1>2. ASSUME Disconnect PROVE TypeOK'
    BY <1>2 DEF Disconnect, TypeOK
  <1>3. ASSUME Start PROVE TypeOK'
    BY <1>3 DEF Start, TypeOK
  <1>4. ASSUME StopServer PROVE TypeOK'
    BY <1>4 DEF StopServer, TypeOK
  <1>5. ASSUME Destroy PROVE TypeOK'
    BY <1>5 DEF Destroy, TypeOK
  <1>6. ASSUME AppOnly(Look) PROVE TypeOK'
    BY <1>6 DEF Look, AppOnly, HandleOpen, AfterClose, TypeOK
  <1>7. ASSUME AppOnly(Close) PROVE TypeOK'
    BY <1>7 DEF Close, AppOnly, CloseHandle, HandleOpen, AfterClose, TypeOK
  <1>8. ASSUME AppOnly(Join) PROVE TypeOK'
    BY <1>8 DEF Join, AppOnly, TypeOK
  <1>9. ASSUME RunEnds PROVE TypeOK'
    BY <1>9 DEF RunEnds, LoopFree, TypeOK
  <1>10. ASSUME LoopStep(StartPing) PROVE TypeOK'
    BY <1>10 DEF StartPing, LoopStep, TypeOK
  <1>11. ASSUME LoopStep(Ping) PROVE TypeOK'
    <2>1. timers' \in Nat
      BY <1>11 DEF LoopStep, Ping, TypeOK
    <2>2. owed' \in [Connections -> Nat] /\ armed' \in [Connections -> BOOLEAN]
      <3>1. CASE HandleOpen
        <4>1. handle \in Connections /\ owed[handle] + 1 \in Nat
          BY <3>1 DEF HandleOpen, TypeOK
        <4>2. /\ owed \in [Connections -> Nat] /\ armed \in [Connections -> BOOLEAN]
              /\ owed' = [owed EXCEPT ![handle] = owed[handle] + 1]
              /\ armed' = [armed EXCEPT ![handle] = TRUE]
          BY <1>11, <3>1 DEF LoopStep, Ping, TypeOK
        <4> QED
          BY <4>1, <4>2
      <3>2. CASE ~HandleOpen
        BY <1>11, <3>2 DEF LoopStep, Ping, TypeOK
      <3> QED
        BY <3>1, <3>2
    <2> QED
      BY <1>11, <2>1, <2>2 DEF LoopStep, Ping, TypeOK
  <1>12. ASSUME NEW c \in Connections, LoopStep(Accept(c)) PROVE TypeOK'
    BY <1>12 DEF Accept, LoopStep, LoopFree, Room, TypeOK
  <1>13. ASSUME NEW c \in Connections, LoopStep(OnOpen(c)) PROVE TypeOK'
    BY <1>13 DEF OnOpen, LoopStep, LoopFree, TypeOK
  <1>14. ASSUME NEW c \in Connections, LoopStep(OnFail(c)) PROVE TypeOK'
    BY <1>14 DEF OnFail, LoopStep, LoopFree, TypeOK
  <1>15. ASSUME NEW c \in Connections, LoopStep(OnClose(c)) PROVE TypeOK'
    BY <1>15 DEF OnClose, LoopStep, LoopFree, TypeOK
  <1>16. ASSUME NEW c \in Connections, LoopStep(OnPong(c)) PROVE TypeOK'
    BY <1>16, WSEndpointAssumption DEF OnPong, Answered, LoopStep, LoopFree, TypeOK
  <1>17. ASSUME NEW c \in Connections, LoopStep(OnPongTimeout(c)) PROVE TypeOK'
    BY <1>17 DEF OnPongTimeout, LoopStep, CloseHandle, HandleOpen, LoopFree, TypeOK
  <1>18. ASSUME UNCHANGED vars PROVE TypeOK'
    BY <1>18 DEF vars, TypeOK
  <1> QED
    BY <1>1, <1>2, <1>3, <1>4, <1>5, <1>6, <1>7, <1>8, <1>9, <1>10, <1>11, <1>12, <1>13, <1>14, <1>15, <1>16, <1>17, <1>18, StepCases

(* Every step keeps the connection of the handle watched.                   *)
LEMMA KeepAliveStep ==
    ASSUME TypeOK, KeepAlive, [Next]_vars
    PROVE  KeepAlive'
  <1>1. ASSUME NEW c \in Connections, Connect(c) PROVE KeepAlive'
    BY <1>1 DEF Connect, Room, TypeOK, KeepAlive, HandleOpen
  <1>2. ASSUME Disconnect PROVE KeepAlive'
    BY <1>2 DEF Disconnect, TypeOK, KeepAlive, HandleOpen
  <1>3. ASSUME Start PROVE KeepAlive'
    BY <1>3 DEF Start, TypeOK, KeepAlive, HandleOpen
  <1>4. ASSUME StopServer PROVE KeepAlive'
    BY <1>4 DEF StopServer, TypeOK, KeepAlive, HandleOpen
  <1>5. ASSUME Destroy PROVE KeepAlive'
    BY <1>5 DEF Destroy, TypeOK, KeepAlive, HandleOpen
  <1>6. ASSUME AppOnly(Look) PROVE KeepAlive'
    BY <1>6 DEF Look, AppOnly, HandleOpen, AfterClose, TypeOK, KeepAlive
  <1>7. ASSUME AppOnly(Close) PROVE KeepAlive'
    BY <1>7 DEF Close, AppOnly, CloseHandle, HandleOpen, AfterClose, TypeOK, KeepAlive
  <1>8. ASSUME AppOnly(Join) PROVE KeepAlive'
    BY <1>8 DEF Join, AppOnly, TypeOK, KeepAlive, HandleOpen
  <1>9. ASSUME RunEnds PROVE KeepAlive'
    BY <1>9 DEF RunEnds, LoopFree, TypeOK, KeepAlive, HandleOpen
  <1>10. ASSUME LoopStep(StartPing) PROVE KeepAlive'
    BY <1>10 DEF StartPing, LoopStep, TypeOK, KeepAlive, HandleOpen
  <1>11. ASSUME LoopStep(Ping) PROVE KeepAlive'
    BY <1>11 DEF Ping, LoopStep, HandleOpen, LoopFree, TypeOK, KeepAlive
  <1>12. ASSUME NEW c \in Connections, LoopStep(Accept(c)) PROVE KeepAlive'
    BY <1>12 DEF Accept, LoopStep, LoopFree, Room, TypeOK, KeepAlive, HandleOpen
  <1>13. ASSUME NEW c \in Connections, LoopStep(OnOpen(c)) PROVE KeepAlive'
    BY <1>13 DEF OnOpen, LoopStep, LoopFree, TypeOK, KeepAlive, HandleOpen
  <1>14. ASSUME NEW c \in Connections, LoopStep(OnFail(c)) PROVE KeepAlive'
    BY <1>14 DEF OnFail, LoopStep, LoopFree, TypeOK, KeepAlive, HandleOpen
  <1>15. ASSUME NEW c \in Connections, LoopStep(OnClose(c)) PROVE KeepAlive'
    BY <1>15 DEF OnClose, LoopStep, LoopFree, TypeOK, KeepAlive, HandleOpen
  <1>16. ASSUME NEW c \in Connections, LoopStep(OnPong(c)) PROVE KeepAlive'
    BY <1>16 DEF OnPong, LoopStep, LoopFree, TypeOK, KeepAlive, HandleOpen
  <1>17. ASSUME NEW c \in Connections, LoopStep(OnPongTimeout(c)) PROVE KeepAlive'
    BY <1>17 DEF OnPongTimeout, LoopStep, CloseHandle, HandleOpen, LoopFree, TypeOK, KeepAlive
  <1>18. ASSUME UNCHANGED vars PROVE KeepAlive'
    BY <1>18 DEF vars, TypeOK, KeepAlive, HandleOpen
  <1> QED
    BY <1>1, <1>2, <1>3, <1>4, <1>5, <1>6, <1>7, <1>8, <1>9, <1>10, <1>11, <1>12, <1>13, <1>14, <1>15, <1>16, <1>17, <1>18, StepCases

(* A connection that opens is that of the handle, and the only live one.    *)
LEMMA LastOpenStep ==
    ASSUME TypeOK, LastOpenIsHandle, [Next]_vars
    PROVE  LastOpenIsHandle'
  <1> USE DEF Concurrent, TimeoutOutlives
  <1>1. ASSUME NEW c \in Connections, Connect(c) PROVE LastOpenIsHandle'
    BY <1>1 DEF Connect, Room, TypeOK, LastOpenIsHandle, Live
  <1>2. ASSUME Disconnect PROVE LastOpenIsHandle'
    BY <1>2 DEF Disconnect, TypeOK, LastOpenIsHandle, Live
  <1>3. ASSUME Start PROVE LastOpenIsHandle'
    BY <1>3 DEF Start, TypeOK, LastOpenIsHandle, Live
  <1>4. ASSUME StopServer PROVE LastOpenIsHandle'
    BY <1>4 DEF StopServer, TypeOK, LastOpenIsHandle, Live
  <1>5. ASSUME Destroy PROVE LastOpenIsHandle'
    BY <1>5 DEF Destroy, TypeOK, LastOpenIsHandle, Live
  <1>6. ASSUME AppOnly(Look) PROVE LastOpenIsHandle'
    BY <1>6 DEF Look, AppOnly, HandleOpen, AfterClose, TypeOK, LastOpenIsHandle, Live
  <1>7. ASSUME AppOnly(Close) PROVE LastOpenIsHandle'
    BY <1>7 DEF Close, AppOnly, CloseHandle, HandleOpen, AfterClose, TypeOK, LastOpenIsHandle, Live
  <1>8. ASSUME AppOnly(Join) PROVE LastOpenIsHandle'
    BY <1>8 DEF Join, AppOnly, TypeOK, LastOpenIsHandle, Live
  <1>9. ASSUME RunEnds PROVE LastOpenIsHandle'
    BY <1>9 DEF RunEnds, LoopFree, TypeOK, LastOpenIsHandle, Live
  <1>10. ASSUME LoopStep(StartPing) PROVE LastOpenIsHandle'
    BY <1>10 DEF StartPing, LoopStep, TypeOK, LastOpenIsHandle, Live
  <1>11. ASSUME LoopStep(Ping) PROVE LastOpenIsHandle'
    BY <1>11 DEF Ping, LoopStep, HandleOpen, LoopFree, TypeOK, LastOpenIsHandle, Live
  <1>12. ASSUME NEW c \in Connections, LoopStep(Accept(c)) PROVE LastOpenIsHandle'
    BY <1>12 DEF Accept, LoopStep, LoopFree, Room, TypeOK, LastOpenIsHandle, Live
  <1>13. ASSUME NEW c \in Connections, LoopStep(OnOpen(c)) PROVE LastOpenIsHandle'
    BY <1>13 DEF OnOpen, LoopStep, LoopFree, TypeOK, LastOpenIsHandle, Live
  <1>14. ASSUME NEW c \in Connections, LoopStep(OnFail(c)) PROVE LastOpenIsHandle'
    BY <1>14 DEF OnFail, LoopStep, LoopFree, TypeOK, LastOpenIsHandle, Live
  <1>15. ASSUME NEW c \in Connections, LoopStep(OnClose(c)) PROVE LastOpenIsHandle'
    BY <1>15 DEF OnClose, LoopStep, LoopFree, TypeOK, LastOpenIsHandle, Live
  <1>16. ASSUME NEW c \in Connections, LoopStep(OnPong(c)) PROVE LastOpenIsHandle'
    BY <1>16 DEF OnPong, LoopStep, LoopFree, TypeOK, LastOpenIsHandle, Live
  <1>17. ASSUME NEW c \in Connections, LoopStep(OnPongTimeout(c)) PROVE LastOpenIsHandle'
    BY <1>17 DEF OnPongTimeout, LoopStep, CloseHandle, HandleOpen, LoopFree, TypeOK, LastOpenIsHandle, Live
  <1>18. ASSUME UNCHANGED vars PROVE LastOpenIsHandle'
    BY <1>18 DEF vars, TypeOK, LastOpenIsHandle, Live
  <1> QED
    BY <1>1, <1>2, <1>3, <1>4, <1>5, <1>6, <1>7, <1>8, <1>9, <1>10, <1>11, <1>12, <1>13, <1>14, <1>15, <1>16, <1>17, <1>18, StepCases

(* How the pings that are not answered change with a count.                *)
LEMMA PingsChange ==
    ASSUME TypeOK, IsFiniteSet(Unanswered), NEW c \in Connections, NEW n \in Nat,
           owed' = [owed EXCEPT ![c] = n]
    PROVE  /\ n = owed[c] + 1 => /\ IsFiniteSet(Unanswered)'
                                 /\ Cardinality(Unanswered)' = Cardinality(Unanswered) + 1
           /\ n = owed[c] - 1 => /\ IsFiniteSet(Unanswered)'
                                 /\ Cardinality(Unanswered)' = Cardinality(Unanswered) - 1
           /\ n = 0 => /\ IsFiniteSet(Unanswered)'
                       /\ Cardinality(Unanswered)' <= Cardinality(Unanswered)
  <1>1. owed[c] \in Nat /\ \A d \in Connections : owed'[d] = IF d = c THEN n ELSE owed[d]
    BY DEF TypeOK
  <1>2. \A x : x \in Unanswered <=> \E d \in Connections : \E i \in 1 .. owed[d] : x = <<d, i>>
    BY DEF Unanswered
  <1>3. \A x : x \in Unanswered' <=> \E d \in Connections : \E i \in 1 .. owed'[d] : x = <<d, i>>
    BY DEF Unanswered
  <1>4. ASSUME n = owed[c] + 1
        PROVE  /\ IsFiniteSet(Unanswered)'
               /\ Cardinality(Unanswered)' = Cardinality(Unanswered) + 1
    <2>1. <<c, n>> \notin Unanswered
      BY <1>1, <1>2, <1>4
    <2>2. Unanswered' = Unanswered \union {<<c, n>>}
      BY <1>1, <1>2, <1>3, <1>4
    <2> QED
      BY <2>1, <2>2, FS_AddElement, Zenon
  <1>5. ASSUME n = owed[c] - 1
        PROVE  /\ IsFiniteSet(Unanswered)'
               /\ Cardinality(Unanswered)' = Cardinality(Unanswered) - 1
    <2>1. <<c, owed[c]>> \in Unanswered
      BY <1>1, <1>2, <1>5
    <2>2. Unanswered' = Unanswered \ {<<c, owed[c]>>}
      BY <1>1, <1>2, <1>3, <1>5
    <2> QED
      BY <2>1, <2>2, FS_RemoveElement, Zenon
  <1>6. ASSUME n = 0
        PROVE  /\ IsFiniteSet(Unanswered)'
               /\ Cardinality(Unanswered)' <= Cardinality(Unanswered)
    <2>1. Unanswered' \subseteq Unanswered
      BY <1>1, <1>2, <1>3, <1>6
    <2> QED
      BY <2>1, FS_Subset, Zenon
  <1> QED
    BY <1>4, <1>5, <1>6

(* Every opened connection has been opened once.                           *)
LEMMA OpenedChange ==
    ASSUME TypeOK, NEW c \in Connections, NEW s, conn' = [conn EXCEPT ![c] = s]
    PROVE  /\ conn[c] = "connecting" /\ s = "open" => Cardinality(Opened)' = Cardinality(Opened) + 1
           /\ conn[c] \in {"none", "connecting"} /\ s \in {"connecting", "failed"} => Opened' = Opened
           /\ conn[c] \in {"open", "closing"} /\ s \in {"closing", "closed"} => Opened' = Opened
  <1>1. \A d \in Connections : conn'[d] = IF d = c THEN s ELSE conn[d]
    BY DEF TypeOK
  <1>2. ASSUME conn[c] = "connecting", s = "open"
        PROVE  Cardinality(Opened)' = Cardinality(Opened) + 1
    <2>1. Opened' = Opened \union {c} /\ c \notin Opened
      BY <1>1, <1>2 DEF Opened
    <2>2. IsFiniteSet(Opened)
      BY WSEndpointAssumption, FS_Subset DEF Opened
    <2> QED
      BY <2>1, <2>2, FS_AddElement, Zenon
  <1>3. ASSUME conn[c] \in {"none", "connecting"}, s \in {"connecting", "failed"}
        PROVE  Opened' = Opened
    BY <1>1, <1>3 DEF Opened
  <1>4. ASSUME conn[c] \in {"open", "closing"}, s \in {"closing", "closed"}
        PROVE  Opened' = Opened
    BY <1>1, <1>4 DEF Opened
  <1> QED
    BY <1>2, <1>3, <1>4

(* A close by the handle keeps what has been opened.                       *)
LEMMA CloseKeepsOpened ==
    ASSUME TypeOK, CloseHandle
    PROVE  Opened' = Opened
  <1>1. CASE HandleOpen
    <2>1. handle \in Connections /\ conn[handle] = "open"
      BY <1>1 DEF HandleOpen, TypeOK
    <2> QED
      BY <1>1, <2>1, OpenedChange DEF CloseHandle
  <1>2. CASE ~HandleOpen
    BY <1>2 DEF CloseHandle, Opened
  <1> QED
    BY <1>1, <1>2

(* The numbers of the chains.                                              *)
Pings == Cardinality(Unanswered)
Chains == Cardinality(Opened)
Starting == IF opening = None THEN 0 ELSE 1

LEMMA ChainNumbers ==
    ASSUME TypeOK, IsFiniteSet(Unanswered)
    PROVE  /\ timers \in Nat /\ unasked \in Nat /\ Pings \in Nat /\ Chains \in Nat
           /\ Starting \in {0, 1}
  <1>1. IsFiniteSet(Opened)
    BY WSEndpointAssumption, FS_Subset DEF Opened
  <1> QED
    BY <1>1, FS_CardinalityType DEF TypeOK, Pings, Chains, Starting

(* No step makes a second chain of pings for a connection.                 *)
LEMMA OneChainStep ==
    ASSUME TypeOK, IsFiniteSet(Unanswered), OneChainPerConnection, [Next]_vars
    PROVE  IsFiniteSet(Unanswered)' /\ OneChainPerConnection'
  <1> DEFINE Kept == IsFiniteSet(Unanswered)' /\ timers' + Pings' + Starting' <= Chains' + unasked'
  <1> SUFFICES Kept
    BY DEF OneChainPerConnection, Pings, Chains, Starting
  <1>0. /\ IsFiniteSet(Unanswered) /\ timers + Pings + Starting <= Chains + unasked
        /\ timers \in Nat /\ unasked \in Nat /\ Pings \in Nat /\ Chains \in Nat /\ Starting \in {0, 1}
    BY ChainNumbers DEF OneChainPerConnection, Pings, Chains, Starting
  <1>1. ASSUME UNCHANGED <<timers, owed, unasked, opening>>, Opened' = Opened
        PROVE  Kept
    BY <1>0, <1>1 DEF Pings, Chains, Starting, Unanswered
  <1>2. ASSUME UNCHANGED conn PROVE Opened' = Opened
    BY <1>2 DEF Opened
  <1>3. ASSUME NEW c \in Connections, Connect(c) PROVE Kept
    <2>1. Opened' = Opened
      BY <1>3, OpenedChange DEF Connect
    <2> QED
      BY <1>1, <1>3, <2>1 DEF Connect
  <1>4. ASSUME Disconnect \/ Start \/ StopServer \/ Destroy \/ RunEnds PROVE Kept
    BY <1>1, <1>2, <1>4 DEF Disconnect, Start, StopServer, Destroy, RunEnds
  <1>5. ASSUME AppOnly(Look) \/ AppOnly(Join) PROVE Kept
    BY <1>1, <1>2, <1>5 DEF AppOnly, Look, Join
  <1>6. ASSUME AppOnly(Close) PROVE Kept
    BY <1>1, <1>6, CloseKeepsOpened DEF AppOnly, Close
  <1>7. ASSUME LoopStep(StartPing) PROVE Kept
    <2>1. /\ timers' = timers + 1 /\ Starting = 1 /\ Starting' = 0
          /\ owed' = owed /\ unasked' = unasked /\ conn' = conn
      BY <1>7 DEF LoopStep, StartPing, Starting
    <2>2. Pings' = Pings /\ Unanswered' = Unanswered /\ Chains' = Chains
      BY <2>1 DEF Pings, Chains, Unanswered, Opened
    <2> QED
      BY <1>0, <2>1, <2>2
  <1>8. ASSUME LoopStep(Ping) PROVE Kept
    <2>1. /\ timers' = timers - 1 /\ opening' = opening /\ conn' = conn /\ unasked' = unasked
          /\ HandleOpen => owed' = [owed EXCEPT ![handle] = owed[handle] + 1]
          /\ ~HandleOpen => owed' = owed
      BY <1>8 DEF LoopStep, Ping
    <2>2. Starting' = Starting /\ Chains' = Chains
      BY <2>1 DEF Starting, Chains, Opened
    <2>3. CASE HandleOpen
      <3>1. handle \in Connections /\ owed[handle] + 1 \in Nat
        BY <2>3 DEF HandleOpen, TypeOK
      <3>2. IsFiniteSet(Unanswered)' /\ Pings' = Pings + 1
        BY <1>0, <2>1, <2>3, <3>1, PingsChange, Zenon DEF Pings
      <3> QED
        BY <1>0, <2>1, <2>2, <3>2
    <2>4. CASE ~HandleOpen
      <3>1. IsFiniteSet(Unanswered)' /\ Pings' = Pings
        BY <1>0, <2>1, <2>4 DEF Pings, Unanswered
      <3> QED
        BY <1>0, <2>1, <2>2, <3>1
    <2> QED
      BY <2>3, <2>4
  <1>9. ASSUME NEW c \in Connections, LoopStep(Accept(c)) \/ LoopStep(OnFail(c)) PROVE Kept
    <2>1. Opened' = Opened
      BY <1>9, OpenedChange DEF LoopStep, Accept, OnFail
    <2> QED
      BY <1>1, <1>9, <2>1 DEF LoopStep, Accept, OnFail
  <1>10. ASSUME NEW c \in Connections, LoopStep(OnOpen(c)) PROVE Kept
    <2>1. /\ opening = None /\ opening' = c /\ conn[c] = "connecting"
          /\ conn' = [conn EXCEPT ![c] = "open"] /\ UNCHANGED <<timers, owed, unasked>>
      BY <1>10 DEF LoopStep, LoopFree, OnOpen
    <2>2. Starting = 0 /\ Starting' = 1
      BY <2>1, WSEndpointAssumption DEF Starting
    <2>3. Chains' = Chains + 1
      BY <2>1, OpenedChange, Zenon DEF Chains
    <2>4. Pings' = Pings /\ Unanswered' = Unanswered /\ timers' = timers /\ unasked' = unasked
      BY <2>1 DEF Pings, Unanswered
    <2> QED
      BY <1>0, <2>2, <2>3, <2>4
  <1>11. ASSUME NEW c \in Connections, LoopStep(OnClose(c)) PROVE Kept
    <2>1. /\ UNCHANGED <<timers, unasked, opening>> /\ conn[c] \in {"open", "closing"}
          /\ conn' = [conn EXCEPT ![c] = "closed"] /\ owed' = [owed EXCEPT ![c] = 0]
      BY <1>11 DEF LoopStep, OnClose
    <2>2. Opened' = Opened
      BY <2>1, OpenedChange, Zenon
    <2>3. IsFiniteSet(Unanswered)' /\ Pings' <= Pings
      BY <1>0, <2>1, PingsChange DEF Pings
    <2>4. timers' = timers /\ unasked' = unasked /\ Starting' = Starting /\ Chains' = Chains /\ Pings' \in Nat
      BY <2>1, <2>2, <2>3, FS_CardinalityType DEF Starting, Chains, Pings
    <2>5. \A n \in Nat : n <= Pings => timers + n + Starting <= Chains + unasked
      BY <1>0
    <2>6. timers + Pings' + Starting <= Chains + unasked
      BY <2>3, <2>4, <2>5, Zenon
    <2> QED
      BY <2>3, <2>4, <2>6
  <1>12. ASSUME NEW c \in Connections, LoopStep(OnPong(c)) PROVE Kept
    <2>1. /\ UNCHANGED <<conn, opening>> /\ timers' = timers + 1
          /\ Answered(c)
      BY <1>12 DEF LoopStep, OnPong
    <2>2. Starting' = Starting /\ Chains' = Chains
      BY <2>1 DEF Starting, Chains, Opened
    <2>3. CASE owed[c] > 0 /\ owed' = [owed EXCEPT ![c] = owed[c] - 1] /\ UNCHANGED unasked
      <3>1. owed[c] - 1 \in Nat
        BY <2>3 DEF TypeOK
      <3>2. IsFiniteSet(Unanswered)' /\ Pings' = Pings - 1
        BY <1>0, <2>3, <3>1, PingsChange, Zenon DEF Pings
      <3> QED
        BY <1>0, <2>1, <2>2, <2>3, <3>2
    <2>4. CASE unasked' = unasked + 1 /\ UNCHANGED owed
      <3>1. IsFiniteSet(Unanswered)' /\ Pings' = Pings
        BY <1>0, <2>4 DEF Pings, Unanswered
      <3> QED
        BY <1>0, <2>1, <2>2, <2>4, <3>1
    <2> QED
      BY <2>1, <2>3, <2>4 DEF Answered
  <1>13. ASSUME NEW c \in Connections, LoopStep(OnPongTimeout(c)) PROVE Kept
    BY <1>1, <1>13, CloseKeepsOpened DEF LoopStep, OnPongTimeout
  <1>14. ASSUME UNCHANGED vars PROVE Kept
    BY <1>1, <1>2, <1>14 DEF vars
  <1> QED
    BY <1>3, <1>4, <1>5, <1>6, <1>7, <1>8, <1>9, <1>10, <1>11, <1>12, <1>13, <1>14, StepCases

(* The inductive invariant.                                                *)
THEOREM Invariance == Spec => []IInv
  <1>1. Init => IInv
    <2>1. Init => TypeOK
      <3>1. Init => /\ conn \in [Connections -> {"none", "connecting", "open", "closing",
                                                 "closed", "failed"}]
                    /\ owed \in [Connections -> Nat]
                    /\ armed \in [Connections -> BOOLEAN]
        BY DEF Init
      <3>2. Init => /\ handle \in Connections \union {None} /\ opening \in Connections \union {None}
                    /\ timers \in Nat /\ unasked \in 0 .. MaxUnasked
        BY WSEndpointAssumption DEF Init
      <3>3. Init => /\ setting \in Settings /\ listening \in {"no", "open", "accepting"} /\ perpetual \in BOOLEAN
                    /\ loop \in {"none", "running", "ended"}
                    /\ app \in {"idle", "look", "close", "join", "gone"}
        BY DEF Init
      <3> QED
        BY <3>1, <3>2, <3>3 DEF TypeOK
    <2>2. Init => KeepAlive
      BY DEF Init, KeepAlive, HandleOpen
    <2>3. Init => LastOpenIsHandle
      BY DEF Init, LastOpenIsHandle, Live
    <2>4. Init => IsFiniteSet(Unanswered) /\ OneChainPerConnection
      <3> SUFFICES ASSUME Init PROVE IsFiniteSet(Unanswered) /\ OneChainPerConnection
        OBVIOUS
      <3>1. \A c \in Connections : 1 .. owed[c] = {}
        BY DEF Init
      <3>2. Unanswered = {} /\ Opened = {}
        BY <3>1 DEF Init, Unanswered, Opened
      <3>3. timers = 0 /\ unasked = 0 /\ opening = None
        BY DEF Init
      <3> QED
        BY <3>2, <3>3, FS_EmptySet DEF OneChainPerConnection
    <2> QED
      BY <2>1, <2>2, <2>3, <2>4 DEF IInv
  <1>2. IInv /\ [Next]_vars => IInv'
    BY TypeStep, KeepAliveStep, LastOpenStep, OneChainStep DEF IInv
  <1> QED
    BY <1>1, <1>2, PTL DEF Spec

(* Every reachable state is well typed: no count goes below zero.          *)
THEOREM TypeCorrect == Spec => []TypeOK
  BY Invariance, PTL DEF IInv

(* The open connection of connectionHandler_ has a ping scheduled or the   *)
(* timeout of one running: a peer that is lost is found.                   *)
THEOREM KeptAlive == Spec => []KeepAlive
  BY Invariance, PTL DEF IInv

(* Pings that are due, that are being answered and that are about to be    *)
(* started are no more than the connections that have been opened and the  *)
(* pongs that came unasked.                                                *)
THEOREM OneChainEach == Spec => []OneChainPerConnection
  BY Invariance, PTL DEF IInv

(* With one connection at a time, and timeouts that end with it, a pong    *)
(* timeout closes the connection that has timed out.                       *)
THEOREM TimeoutOfItsOwn == Spec => TimeoutClosesOwn
  <1> DEFINE Own(c) ==
        conn' = IF conn[c] = "open" THEN [conn EXCEPT ![c] = "closing"] ELSE conn
  <1>1. ASSUME IInv, NEW c \in Connections, ~Concurrent, ~TimeoutOutlives,
               LoopStep(OnPongTimeout(c))
        PROVE  Own(c)
    <2>1. conn[c] \in {"open", "closing"} /\ c = handle
      BY <1>1 DEF IInv, LastOpenIsHandle, LoopStep, OnPongTimeout
    <2>2. CloseHandle
      BY <1>1 DEF LoopStep, OnPongTimeout
    <2> QED
      BY <2>1, <2>2, WSEndpointAssumption DEF CloseHandle, HandleOpen
  <1>2. IInv => [\A c \in Connections :
                    ~Concurrent /\ ~TimeoutOutlives /\ LoopStep(OnPongTimeout(c)) => Own(c)]_vars
    BY <1>1
  <1> QED
    BY <1>2, Invariance, PTL DEF TimeoutClosesOwn
=============================================================================
