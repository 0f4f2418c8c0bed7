--------------------------- MODULE HelpersProofs ---------------------------
(***************************************************************************)
(* Theorems about the smaller helpers, checked by TLAPS: CommandInterface, *)
(* for any number of callers and commands; UtilsController, for any number *)
(* of calls and any pool; TpTimer, for any number of starts and stops; and *)
(* InputValidator, for any objects and values.                             *)
(***************************************************************************)
EXTENDS CommandInterface, UtilsController, TpTimer, InputValidator, SequenceTheorems,
        FiniteSetTheorems, TLAPS

-----------------------------------------------------------------------------
(* Commands and their responses: CommandInterface.                         *)

(* A caller that is woken up, or starts, changes the count by one.         *)
LEMMA UnservedStep ==
  ASSUME NEW c \in Callers, NEW S, S \subseteq Callers, c \in S
  PROVE  /\ Cardinality(S) \in Nat
         /\ Cardinality(S \ {c}) = Cardinality(S) - 1
         /\ Cardinality(S \ {c}) <= Cardinality(Callers) - 1
<1>1. IsFiniteSet(S) /\ IsFiniteSet(Callers)
  BY FS_Subset, CommandInterfaceAssumption
<1>2. /\ Cardinality(S) \in Nat /\ Cardinality(Callers) \in Nat
      /\ Cardinality(S) <= Cardinality(Callers)
  BY <1>1, FS_Subset, FS_CardinalityType
<1>3. Cardinality(S \ {c}) = Cardinality(S) - 1
  BY <1>1, FS_RemoveElement
<1> QED BY <1>2, <1>3

(* Every step keeps the invariant.                                         *)
LEMMA InvStep == IInv /\ [Next]_vars => IInv'
<1> SUFFICES ASSUME IInv, [Next]_vars PROVE IInv'
  OBVIOUS
<1>1. /\ pc \in [Callers -> {"idle", "sent", "waiting", "woken"}]
      /\ own \in [Callers -> Nat] /\ response \in [Callers -> Nat]
      /\ sent \in 0 .. MaxCommands /\ lastResponse \in 0 .. sent /\ timeouts \in Nat
      /\ sent - lastResponse <= timeouts + Cardinality(Unserved)
      /\ \A c \in Callers : /\ own[c] <= sent
                            /\ pc[c] = "idle" => own[c] - response[c]
                                                   <= timeouts + Cardinality(Callers) - 1
      /\ MaxCommands \in Nat
  BY CommandInterfaceAssumption DEF IInv, TypeOK, LagBound, ResponseLag
<1>2. Unserved \subseteq Callers /\ Unserved' \subseteq Callers
  BY DEF Unserved
<1>3. /\ IsFiniteSet(Callers) /\ Cardinality(Callers) \in Nat
      /\ Cardinality(Unserved) \in Nat /\ Cardinality(Unserved') \in Nat
  BY <1>2, FS_Subset, FS_CardinalityType, CommandInterfaceAssumption
<1>4. ASSUME NEW c \in Callers, Send(c) PROVE IInv'
  <2>1. TypeOK'
    BY <1>1, <1>4 DEF Send, TypeOK
  <2>2. c \in Unserved' /\ Unserved = Unserved' \ {c}
    BY <1>1, <1>4 DEF Send, Unserved
  <2>3. Cardinality(Unserved) = Cardinality(Unserved') - 1
    BY <1>2, <2>2, UnservedStep
  <2>4. LagBound'
    BY <1>1, <1>3, <1>4, <2>3 DEF Send, LagBound
  <2>5. ResponseLag' /\ \A d \in Callers : own'[d] <= sent'
    BY <1>1, <1>4 DEF Send, ResponseLag
  <2> QED BY <2>1, <2>4, <2>5 DEF IInv
<1>5. ASSUME NEW c \in Callers, Wait(c) PROVE IInv'
  <2>1. TypeOK' /\ Unserved' = Unserved
    BY <1>1, <1>5 DEF Wait, TypeOK, Unserved
  <2>2. LagBound' /\ ResponseLag' /\ \A d \in Callers : own'[d] <= sent'
    BY <1>1, <1>5, <2>1 DEF Wait, LagBound, ResponseLag
  <2> QED BY <2>1, <2>2 DEF IInv
<1>6. ASSUME NEW c \in Callers, Timeout(c) PROVE IInv'
  <2>1. TypeOK'
    BY <1>1, <1>6 DEF Timeout, TypeOK
  <2>2. c \in Unserved /\ Unserved' = Unserved \ {c}
    BY <1>1, <1>6 DEF Timeout, Unserved
  <2>3. Cardinality(Unserved') = Cardinality(Unserved) - 1
    BY <1>2, <2>2, UnservedStep
  <2>4. LagBound'
    BY <1>1, <1>3, <1>6, <2>3 DEF Timeout, LagBound
  <2>5. ResponseLag' /\ \A d \in Callers : own'[d] <= sent'
    BY <1>1, <1>3, <1>6 DEF Timeout, ResponseLag
  <2> QED BY <2>1, <2>4, <2>5 DEF IInv
<1>7. ASSUME NEW c \in Callers, Take(c) PROVE IInv'
  <2>1. TypeOK'
    BY <1>1, <1>7 DEF Take, TypeOK
  <2>2. Unserved' = Unserved /\ Unserved \ {c} = Unserved
    BY <1>1, <1>7 DEF Take, Unserved
  <2>3. Cardinality(Unserved) <= Cardinality(Callers) - 1
    <3>1. Cardinality(Callers \ {c}) = Cardinality(Callers) - 1
      BY UnservedStep
    <3>2. Unserved \subseteq Callers \ {c} /\ IsFiniteSet(Callers \ {c})
      BY <1>2, <1>3, <2>2, FS_Subset
    <3> QED BY <3>1, <3>2, FS_Subset
  <2>4. own[c] - lastResponse <= timeouts + Cardinality(Callers) - 1
    BY <1>1, <1>3, <2>3
  <2>5. LagBound'
    BY <1>1, <1>7, <2>2 DEF Take, LagBound
  <2>6. ResponseLag' /\ \A d \in Callers : own'[d] <= sent'
    BY <1>1, <1>7, <2>4 DEF Take, ResponseLag
  <2> QED BY <2>1, <2>5, <2>6 DEF IInv
<1>8. ASSUME NEW n \in 1 .. MaxCommands, OnMessage(n) PROVE IInv'
  <2>1. /\ lastResponse' \in 0 .. sent /\ lastResponse' >= lastResponse + 1
        /\ UNCHANGED <<own, response, sent, timeouts>>
    BY <1>1, <1>8 DEF OnMessage
  <2>2. CASE Waiting = {} /\ UNCHANGED pc
    <3>1. TypeOK' /\ Unserved' = Unserved
      BY <1>1, <2>1, <2>2 DEF TypeOK, Unserved
    <3>2. LagBound' /\ ResponseLag' /\ \A d \in Callers : own'[d] <= sent'
      BY <1>1, <1>3, <2>1, <2>2, <3>1 DEF LagBound, ResponseLag
    <3> QED BY <3>1, <3>2 DEF IInv
  <2>3. ASSUME NEW c \in Waiting, pc' = [pc EXCEPT ![c] = "woken"] PROVE IInv'
    <3>1. c \in Callers /\ TypeOK'
      BY <1>1, <2>1, <2>3 DEF TypeOK, Waiting
    <3>2. c \in Unserved /\ Unserved' = Unserved \ {c}
      BY <1>1, <2>3 DEF Unserved, Waiting
    <3>3. Cardinality(Unserved') = Cardinality(Unserved) - 1
      BY <1>2, <3>1, <3>2, UnservedStep
    <3>4. LagBound'
      BY <1>1, <1>3, <2>1, <3>3 DEF LagBound
    <3>5. ResponseLag' /\ \A d \in Callers : own'[d] <= sent'
      BY <1>1, <2>1, <2>3 DEF ResponseLag
    <3> QED BY <3>1, <3>4, <3>5 DEF IInv
  <2> QED BY <1>8, <2>2, <2>3 DEF OnMessage
<1>9. CASE UNCHANGED vars
  BY <1>9 DEF vars, IInv, TypeOK, LagBound, ResponseLag, Unserved
<1> QED BY <1>4, <1>5, <1>6, <1>7, <1>8, <1>9 DEF Next, CallerStep

(* Nothing has been sent at the start.                                     *)
LEMMA InvInit == Init => IInv
<1> SUFFICES ASSUME Init PROVE IInv
  OBVIOUS
<1>1. TypeOK
  BY CommandInterfaceAssumption DEF Init, TypeOK
<1>2. Unserved = {}
  BY DEF Init, Unserved
<1>3. LagBound
  BY <1>2, FS_EmptySet DEF Init, LagBound
<1>4. ASSUME NEW c \in Callers PROVE Cardinality(Callers) - 1 \in Nat
  <2>1. Cardinality(Callers \ {c}) \in Nat
    BY FS_Subset, FS_CardinalityType, CommandInterfaceAssumption
  <2> QED BY <2>1, UnservedStep
<1>5. ResponseLag
  BY <1>4 DEF Init, ResponseLag
<1>6. \A c \in Callers : own[c] <= sent
  BY DEF Init
<1> QED BY <1>1, <1>3, <1>5, <1>6 DEF IInv

(* The inductive invariant holds for every number of callers.              *)
THEOREM CommandInvariance == Spec => []IInv
<1> QED BY InvInit, InvStep, PTL DEF Spec

(* Every state is well typed: no message is newer than the last command.   *)
THEOREM CommandTypes == Spec => []TypeOK
<1>1. IInv => TypeOK
  BY DEF IInv
<1> QED BY <1>1, CommandInvariance, PTL

(* The message stored last lags behind by no more than the timeouts and    *)
(* the callers that wait.                                                  *)
THEOREM Lag == Spec => []LagBound
<1>1. IInv => LagBound
  BY DEF IInv
<1> QED BY <1>1, CommandInvariance, PTL

(* Without a timeout and with one caller a response is not an older one.   *)
THEOREM Responses == Spec => []ResponseLag
<1>1. IInv => ResponseLag
  BY DEF IInv
<1> QED BY <1>1, CommandInvariance, PTL

-----------------------------------------------------------------------------
(* The security token: UtilsController.                                    *)

(* A step of a call keeps the types.                                       *)
LEMMA ControllerTypeStep ==
  ControllerTypeOK /\ [ControllerNext]_controllerVars => ControllerTypeOK'
<1> SUFFICES ASSUME ControllerTypeOK, [ControllerNext]_controllerVars PROVE ControllerTypeOK'
  OBVIOUS
<1> USE DEF ControllerTypeOK, Move
<1>1. ASSUME NEW c \in ControllerCalls, Enter(c) PROVE ControllerTypeOK'
  BY <1>1 DEF Enter
<1>2. ASSUME NEW c \in ControllerCalls, TakeJob(c) PROVE ControllerTypeOK'
  BY <1>2 DEF TakeJob
<1>3. ASSUME NEW c \in ControllerCalls, CachedToken(c) PROVE ControllerTypeOK'
  BY <1>3 DEF CachedToken
<1>4. ASSUME NEW c \in ControllerCalls, AskConfiguration(c) PROVE ControllerTypeOK'
  BY <1>4 DEF AskConfiguration
<1>5. ASSUME NEW c \in ControllerCalls, ServeRequest(c) PROVE ControllerTypeOK'
  BY <1>5 DEF ServeRequest
<1>6. ASSUME NEW c \in ControllerCalls, GetSecurityToken(c) PROVE ControllerTypeOK'
  BY <1>6 DEF GetSecurityToken
<1>7. ASSUME NEW c \in ControllerCalls, SubmitJob(c) PROVE ControllerTypeOK'
  BY <1>7 DEF SubmitJob
<1>8. ASSUME NEW c \in ControllerCalls, Activate(c) PROVE ControllerTypeOK'
  BY <1>8 DEF Activate
<1>9. ASSUME NEW c \in ControllerCalls, EventSet(c) PROVE ControllerTypeOK'
  BY <1>9 DEF EventSet
<1>10. CASE UNCHANGED controllerVars
  BY <1>10 DEF controllerVars
<1> QED BY <1>1, <1>2, <1>3, <1>4, <1>5, <1>6, <1>7, <1>8, <1>9, <1>10
        DEF ControllerNext, ControllerStep

(* The first call asks alone, and its token is the token of all.           *)
LEMMA FirstAsksStep ==
  ControllerTypeOK /\ FirstAsks /\ [ControllerNext]_controllerVars => FirstAsks'
<1> SUFFICES ASSUME ControllerTypeOK, FirstAsks, [ControllerNext]_controllerVars
             PROVE  FirstAsks'
  OBVIOUS
<1> USE UtilsControllerAssumption DEF ControllerTypeOK, FirstAsks, Move
<1>1. ASSUME NEW c \in ControllerCalls, Enter(c) PROVE FirstAsks'
  BY <1>1 DEF Enter
<1>2. ASSUME NEW c \in ControllerCalls, TakeJob(c) PROVE FirstAsks'
  BY <1>2 DEF TakeJob
<1>3. ASSUME NEW c \in ControllerCalls, CachedToken(c) PROVE FirstAsks'
  BY <1>3 DEF CachedToken
<1>4. ASSUME NEW c \in ControllerCalls, AskConfiguration(c) PROVE FirstAsks'
  BY <1>4 DEF AskConfiguration
<1>5. ASSUME NEW c \in ControllerCalls, ServeRequest(c) PROVE FirstAsks'
  BY <1>5 DEF ServeRequest
<1>6. ASSUME NEW c \in ControllerCalls, GetSecurityToken(c) PROVE FirstAsks'
  <2>1. /\ mtx = c /\ checked /\ kind[c] = "token" /\ UNCHANGED <<kind, checked>>
        /\ at' = [at EXCEPT ![c] = "returned"] /\ mtx' = NoHolder
        /\ answer' = [answer EXCEPT ![c] = sToken']
    BY <1>6 DEF GetSecurityToken
  <2> SUFFICES ASSUME NEW d \in ControllerCalls
               PROVE  /\ at'[d] = "asking" => kind[d] = "token" /\ mtx' = d /\ checked
                      /\ at'[d] = "waiting" => kind[d] = "activate"
                      /\ kind[d] = "token" /\ at'[d] = "returned" =>
                            checked /\ answer'[d] = sToken'
    BY <2>1
  <2>2. CASE d = c
    BY <2>1, <2>2
  <2>3. CASE d # c
    BY <2>1, <2>3
  <2> QED BY <2>2, <2>3
<1>7. ASSUME NEW c \in ControllerCalls, SubmitJob(c) PROVE FirstAsks'
  BY <1>7 DEF SubmitJob
<1>8. ASSUME NEW c \in ControllerCalls, Activate(c) PROVE FirstAsks'
  BY <1>8 DEF Activate
<1>9. ASSUME NEW c \in ControllerCalls, EventSet(c) PROVE FirstAsks'
  BY <1>9 DEF EventSet
<1>10. CASE UNCHANGED controllerVars
  BY <1>10 DEF controllerVars
<1> QED BY <1>1, <1>2, <1>3, <1>4, <1>5, <1>6, <1>7, <1>8, <1>9, <1>10
        DEF ControllerNext, ControllerStep

(* The inductive invariant holds for any calls and any size of the pool.   *)
THEOREM ControllerInvariance == ControllerSpec => []ControllerIInv
<1>1. ControllerInit => ControllerTypeOK /\ FirstAsks
  BY DEF ControllerInit, ControllerTypeOK, FirstAsks
<1>2. FirstAsks => TokensAgree
  BY DEF FirstAsks, TokensAgree
<1> QED BY <1>1, <1>2, ControllerTypeStep, FirstAsksStep, PTL DEF ControllerSpec, ControllerIInv

(* All callers ever get the same token, however many there are and however *)
(* the first request for it went.                                          *)
THEOREM OneToken == ControllerSpec => []TokensAgree
<1>1. ControllerIInv => TokensAgree
  BY DEF ControllerIInv
<1> QED BY <1>1, ControllerInvariance, PTL

-----------------------------------------------------------------------------
(* The timer: TpTimer.                                                     *)

(* A thread makes a step, and the other does not.                          *)
LEMMA StepMove ==
  ASSUME TimerTypeOK, NEW s
  PROVE  /\ SetStep("user", s) => step'["user"] = s /\ step'["timer"] = step["timer"]
         /\ SetStep("timer", s) => step'["timer"] = s /\ step'["user"] = step["user"]
BY DEF TimerTypeOK, SetStep

LEMMA TimerFacts ==
  ASSUME TimerTypeOK
  PROVE  entries \in Nat /\ credit \in Int /\ active \in BOOLEAN
BY Zenon DEF TimerTypeOK

(* The numbers stay what they are.                                         *)
LEMMA TimerNumbers ==
  ASSUME timerCalls \in 0 .. MaxTimerCalls, entries \in Nat, credit \in Int,
         [TimerNext]_timerVars
  PROVE  timerCalls' \in 0 .. MaxTimerCalls /\ entries' \in Nat /\ credit' \in Int
<1>1. ASSUME NEW call \in {"start", "stop", "destroy"}, CallTimer(call)
      PROVE  timerCalls' \in 0 .. MaxTimerCalls /\ UNCHANGED <<entries, credit>>
  BY <1>1, TpTimerAssumption DEF CallTimer
<1>2. ASSUME NEW t, RevokeJob(t) PROVE entries' = 0 /\ UNCHANGED <<timerCalls, credit>>
  BY <1>2 DEF RevokeJob
<1>3. ASSUME NEW t, ScheduleJob(t)
      PROVE  /\ entries' = entries + 1 /\ credit' \in {credit, credit + 1}
             /\ UNCHANGED timerCalls
  BY <1>3 DEF ScheduleJob
<1>4. ASSUME NEW t, SetActive(t) PROVE UNCHANGED <<entries, timerCalls, credit>>
  BY <1>4 DEF SetActive
<1>5. CASE Expire
  <2>1. entries > 0 /\ entries' = entries - 1 /\ UNCHANGED timerCalls
    BY <1>5 DEF Expire
  <2>2. credit' = credit \/ credit' = credit - 1
    BY <1>5 DEF Expire
  <2> QED BY <2>1, <2>2
<1>6. CASE CallbackOver \/ RunCallback \/ TestActive \/ TickEnds
  BY <1>6 DEF CallbackOver, RunCallback, TestActive, TickEnds
<1>7. CASE UNCHANGED timerVars
  BY <1>7 DEF timerVars
<1> QED BY <1>1, <1>2, <1>3, <1>4, <1>5, <1>6, <1>7
        DEF TimerNext, UserThread, TimerThread, Goes

(* Every step keeps the types.                                             *)
LEMMA TimerTypeStep == TimerTypeOK /\ [TimerNext]_timerVars => TimerTypeOK'
<1> SUFFICES ASSUME TimerTypeOK, [TimerNext]_timerVars PROVE TimerTypeOK'
  OBVIOUS
<1>0. timerCalls' \in 0 .. MaxTimerCalls /\ entries' \in Nat /\ credit' \in Int
  BY TimerNumbers DEF TimerTypeOK
<1> USE <1>0 DEF TimerTypeOK, SetStep
<1>1. ASSUME NEW call \in {"start", "stop", "destroy"}, CallTimer(call) PROVE TimerTypeOK'
  BY <1>1 DEF CallTimer
<1>2. CASE RevokeJob("user")
  BY <1>2 DEF RevokeJob, Revoked
<1>3. CASE RevokeJob("timer")
  BY <1>3 DEF RevokeJob, Revoked
<1>4. CASE CallbackOver
  BY <1>4 DEF CallbackOver
<1>5. CASE ScheduleJob("user")
  BY <1>5 DEF ScheduleJob
<1>6. CASE ScheduleJob("timer")
  BY <1>6 DEF ScheduleJob
<1>7. CASE SetActive("user")
  BY <1>7 DEF SetActive
<1>8. CASE SetActive("timer")
  BY <1>8 DEF SetActive
<1>9. CASE Expire
  BY <1>9 DEF Expire
<1>10. CASE RunCallback
  BY <1>10 DEF RunCallback
<1>11. CASE TestActive
  BY <1>11 DEF TestActive
<1>12. CASE TickEnds
  BY <1>12 DEF TickEnds
<1>13. CASE UNCHANGED timerVars
  BY <1>13 DEF timerVars
<1> QED BY <1>1, <1>2, <1>3, <1>4, <1>5, <1>6, <1>7, <1>8, <1>9, <1>10, <1>11, <1>12, <1>13
        DEF TimerNext, UserThread, TimerThread, Goes

(* Where the threads are.                                                  *)
LEMMA StepsStep == TimerTypeOK /\ StepsOfCalls /\ [TimerNext]_timerVars => StepsOfCalls'
<1> SUFFICES ASSUME TimerTypeOK, StepsOfCalls, [TimerNext]_timerVars PROVE StepsOfCalls'
  OBVIOUS
<1> USE TpTimerAssumption DEF TimerTypeOK, StepsOfCalls, SetStep
<1>1. ASSUME NEW call \in {"start", "stop", "destroy"}, CallTimer(call) PROVE StepsOfCalls'
  BY <1>1 DEF CallTimer
<1>2. CASE RevokeJob("user")
  BY <1>2 DEF RevokeJob, Revoked
<1>3. CASE RevokeJob("timer")
  BY <1>3 DEF RevokeJob, Revoked
<1>4. CASE CallbackOver
  BY <1>4 DEF CallbackOver
<1>5. CASE ScheduleJob("user")
  BY <1>5 DEF ScheduleJob
<1>6. CASE ScheduleJob("timer")
  BY <1>6 DEF ScheduleJob
<1>7. CASE SetActive("user")
  BY <1>7 DEF SetActive
<1>8. CASE SetActive("timer")
  BY <1>8 DEF SetActive
<1>9. CASE Expire
  BY <1>9 DEF Expire
<1>10. CASE RunCallback
  BY <1>10 DEF RunCallback
<1>11. CASE TestActive
  BY <1>11 DEF TestActive
<1>12. CASE TickEnds
  BY <1>12 DEF TickEnds
<1>13. CASE UNCHANGED timerVars
  BY <1>13 DEF timerVars
<1> QED BY <1>1, <1>2, <1>3, <1>4, <1>5, <1>6, <1>7, <1>8, <1>9, <1>10, <1>11, <1>12, <1>13
        DEF TimerNext, UserThread, TimerThread, Goes

(* A stop clears the queue for good.                                       *)
LEMMA StopStep == TimerTypeOK /\ StepsOfCalls /\ StopClears /\ StoppedStaysStopped /\ [TimerNext]_timerVars => (StopClears /\ StoppedStaysStopped)'
<1> SUFFICES ASSUME TimerTypeOK, StepsOfCalls, StopClears, StoppedStaysStopped, [TimerNext]_timerVars PROVE (StopClears /\ StoppedStaysStopped)'
  OBVIOUS
<1>0. entries \in Nat
  BY TimerFacts
<1> USE DEF TimerTypeOK, StepsOfCalls, StopClears, StoppedStaysStopped, SetStep
<1>1. ASSUME NEW call \in {"start", "stop", "destroy"}, CallTimer(call) PROVE (StopClears /\ StoppedStaysStopped)'
  BY <1>1 DEF CallTimer
<1>2. CASE RevokeJob("user")
  BY <1>2 DEF RevokeJob, Revoked
<1>3. CASE RevokeJob("timer")
  BY <1>3 DEF RevokeJob, Revoked
<1>4. CASE CallbackOver
  BY <1>4 DEF CallbackOver
<1>5. CASE ScheduleJob("user")
  BY <1>5 DEF ScheduleJob
<1>6. CASE ScheduleJob("timer")
  BY <1>6 DEF ScheduleJob
<1>7. CASE SetActive("user")
  BY <1>7 DEF SetActive
<1>8. CASE SetActive("timer")
  BY <1>8 DEF SetActive
<1>9. CASE Expire
  <2>1. entries > 0 /\ UNCHANGED <<revoke, singleShot, callback, active, step, lastCall>>
    BY <1>9, Zenon DEF Expire
  <2> HIDE DEF TimerTypeOK, StepsOfCalls, StopClears, StoppedStaysStopped, SetStep
  <2>2. entries # 0
    BY <1>0, <2>1
  <2> QED BY <2>1, <2>2, Zenon DEF StopClears, StoppedStaysStopped
<1>10. CASE RunCallback
  BY <1>10 DEF RunCallback
<1>11. CASE TestActive
  BY <1>11 DEF TestActive
<1>12. CASE TickEnds
  BY <1>12 DEF TickEnds
<1>13. CASE UNCHANGED timerVars
  BY <1>13 DEF timerVars
<1> QED BY <1>1, <1>2, <1>3, <1>4, <1>5, <1>6, <1>7, <1>8, <1>9, <1>10, <1>11, <1>12, <1>13
        DEF TimerNext, UserThread, TimerThread, Goes

(* A single shot that is due has been started.                             *)
LEMMA EntriesStep ==
  TimerTypeOK /\ StepsOfCalls /\ EntriesOfStarts /\ SingleShotOnce /\ [TimerNext]_timerVars
      => EntriesOfStarts' /\ SingleShotOnce'
<1> SUFFICES ASSUME TimerTypeOK, StepsOfCalls, EntriesOfStarts, SingleShotOnce,
                    [TimerNext]_timerVars
             PROVE  EntriesOfStarts' /\ SingleShotOnce'
  OBVIOUS
<1>1. /\ UNCHANGED <<revoke, singleShot>>
      /\ ~singleShot => credit' = credit
  <2>1. ASSUME NEW t, ScheduleJob(t)
        PROVE  UNCHANGED <<revoke, singleShot>> /\ (~singleShot => credit' = credit)
    <3>1. credit + 0 = credit
      BY TimerFacts
    <3>2. /\ revoke' = revoke /\ singleShot' = singleShot
          /\ credit' = credit + IF t = "user" /\ singleShot THEN 1 ELSE 0
      BY <2>1 DEF ScheduleJob
    <3>3. ~singleShot => (IF t = "user" /\ singleShot THEN 1 ELSE 0) = 0
      OBVIOUS
    <3> QED BY <3>1, <3>2, <3>3, Zenon
  <2>2. ASSUME NEW t, RevokeJob(t) \/ SetActive(t)
        PROVE  UNCHANGED <<revoke, singleShot>> /\ (~singleShot => credit' = credit)
    BY <2>2 DEF RevokeJob, SetActive
  <2>3. ASSUME NEW call, CallTimer(call)
        PROVE  UNCHANGED <<revoke, singleShot>> /\ (~singleShot => credit' = credit)
    BY <2>3 DEF CallTimer
  <2>4. CASE CallbackOver \/ Expire \/ RunCallback \/ TestActive \/ TickEnds
    BY <2>4 DEF CallbackOver, Expire, RunCallback, TestActive, TickEnds
  <2> QED BY <2>1, <2>2, <2>3, <2>4 DEF TimerNext, UserThread, TimerThread, Goes, timerVars
<1>2. CASE ~(singleShot /\ revoke # "returns")
  BY <1>1, <1>2 DEF EntriesOfStarts, SingleShotOnce
<1>3. CASE singleShot /\ revoke # "returns"
  <2>0. /\ DueWasStarted /\ credit \in Int /\ credit >= 0 /\ entries \in Nat
        /\ active \in BOOLEAN
        /\ tick \in {"none", "called", "test", "rearm"}
    BY <1>3 DEF EntriesOfStarts, SingleShotOnce, TimerTypeOK
  <2> SUFFICES DueWasStarted' /\ credit' >= 0
    BY <1>1, <1>3 DEF EntriesOfStarts, SingleShotOnce
  <2> USE <2>0, <1>3
  <2>1. ASSUME NEW call \in {"start", "stop", "destroy"}, CallTimer(call)
        PROVE  DueWasStarted' /\ credit' >= 0
    BY <2>1, StepMove DEF CallTimer, DueWasStarted
  <2>2. CASE RevokeJob("user")
    <3>1. /\ tick' = tick
          /\ revoke = "clears and waits" => step'["user"] = "wait"
          /\ revoke = "waits and clears" => tick = "none"
      BY <2>2, StepMove DEF RevokeJob, Revoked, TimerTypeOK
    <3>2. revoke \in {"clears and waits", "waits and clears"}
      BY DEF TimerTypeOK
    <3>3. entries' = 0 /\ credit' = credit
      BY <2>2 DEF RevokeJob
    <3>4. step'["user"] = "wait" \/ tick' = "none"
      BY <3>1, <3>2, Zenon
    <3>5. entries' = 0 /\ credit' >= 0 /\ entries' <= 1 /\ ~(entries' > 0)
      BY <3>3
    <3> QED BY <3>4, <3>5, Zenon DEF DueWasStarted
  <2>3. CASE RevokeJob("timer")
    <3>1. entries' = 0 /\ UNCHANGED <<tick, credit>> /\ step'["user"] = step["user"]
      BY <2>3, StepMove DEF RevokeJob, Revoked
    <3> QED BY <3>1 DEF DueWasStarted
  <2>4. CASE CallbackOver
    BY <2>4, StepMove DEF CallbackOver, DueWasStarted
  <2>5. CASE ScheduleJob("user")
    <3>1. /\ tick = "none" /\ entries = 0 /\ entries' = 1 /\ tick' = tick
          /\ credit' = credit + 1 /\ step'["user"] = "activate"
      BY <2>5, StepMove DEF ScheduleJob, DueWasStarted
    <3> QED BY <3>1 DEF DueWasStarted
  <2>6. CASE ScheduleJob("timer")
    <3>0. step["timer"] = "schedule"
      BY <2>6 DEF ScheduleJob
    <3>3. tick = "test"
      BY <3>0 DEF StepsOfCalls
    <3>1. tick = "test" /\ entries = 0
      BY <3>0, <3>3 DEF DueWasStarted
    <3>2. /\ entries' = entries + 1 /\ tick' = tick /\ credit' = credit
          /\ step'["user"] = step["user"] /\ step'["timer"] = "activate"
      BY <2>6, StepMove DEF ScheduleJob
    <3> QED BY <3>1, <3>2 DEF DueWasStarted
  <2>7. CASE SetActive("user")
    BY <2>7, StepMove DEF SetActive, DueWasStarted
  <2>8. CASE SetActive("timer")
    BY <2>8, StepMove DEF SetActive, DueWasStarted
  <2>9. CASE Expire
    <3>1. /\ entries = 1 /\ entries' = 0 /\ credit' = credit - 1 /\ credit >= 1
          /\ tick = "none" /\ tick' = "called" /\ step' = step
      BY <2>9 DEF Expire, DueWasStarted
    <3> QED BY <3>1 DEF DueWasStarted
  <2>10. CASE RunCallback
    BY <2>10, StepMove DEF RunCallback, DueWasStarted
  <2>11. CASE TestActive
    <3>1. /\ tick = "test" /\ step["timer"] = "idle" /\ UNCHANGED <<entries, credit, active>>
          /\ IF active THEN tick' = "rearm" /\ step'["timer"] = "stop"
             ELSE tick' = "none" /\ step'["timer"] = "idle"
          /\ step'["user"] = step["user"]
      BY <2>11, StepMove DEF TestActive
    <3> QED BY <3>1 DEF DueWasStarted
  <2>12. CASE TickEnds
    <3>1. /\ tick = "rearm" /\ step["timer"] = "idle" /\ tick' = "none"
          /\ UNCHANGED <<entries, credit, active, step>>
      BY <2>12 DEF TickEnds
    <3>2. entries = 0
      BY <3>1 DEF DueWasStarted
    <3> QED BY <3>1, <3>2 DEF DueWasStarted
  <2>13. CASE UNCHANGED timerVars
    BY <2>13 DEF timerVars, DueWasStarted
  <2> QED BY <2>1, <2>2, <2>3, <2>4, <2>5, <2>6, <2>7, <2>8, <2>9, <2>10, <2>11, <2>12, <2>13
          DEF TimerNext, UserThread, TimerThread, Goes
<1> QED BY <1>2, <1>3

(* The inductive invariant holds for any number of calls, whatever Revoke  *)
(* of Thunder does.                                                        *)
THEOREM TimerInvariance == TimerSpec => []TimerIInv
<1>0. 0 \in Nat /\ 0 \in Int /\ 0 \in 0 .. MaxTimerCalls
  BY TpTimerAssumption
<1>1. TimerInit => TimerTypeOK
  <2> SUFFICES ASSUME TimerInit PROVE TimerTypeOK
    OBVIOUS
  <2>1. /\ timerCalls \in 0 .. MaxTimerCalls /\ entries \in Nat /\ credit \in Int
        /\ active \in BOOLEAN /\ early \in BOOLEAN
    BY <1>0, Zenon DEF TimerInit
  <2>2. step \in [{"user", "timer"} ->
                   {"idle", "start", "stop", "wait", "schedule", "activate", "deactivate"}]
    BY DEF TimerInit
  <2> QED BY <2>1, <2>2, Zenon DEF TimerInit, TimerTypeOK
<1>2. TimerInit => StepsOfCalls /\ StopClears /\ StoppedStaysStopped
  BY DEF TimerInit, StepsOfCalls, StopClears, StoppedStaysStopped
<1>3. TimerInit => EntriesOfStarts /\ SingleShotOnce
  <2> SUFFICES ASSUME TimerInit PROVE EntriesOfStarts /\ SingleShotOnce
    OBVIOUS
  <2>1. entries = 0 /\ credit = 0
    BY DEF TimerInit
  <2>2. entries <= 1 /\ ~(entries > 0) /\ credit >= 0
    BY <2>1
  <2> QED BY <2>1, <2>2, Zenon DEF TimerInit, EntriesOfStarts, DueWasStarted, SingleShotOnce
<1>4. TimerIInv <=> /\ TimerTypeOK /\ StepsOfCalls /\ StopClears /\ EntriesOfStarts
                    /\ StoppedStaysStopped /\ SingleShotOnce
  BY DEF TimerIInv, TimerObeysCalls
<1> QED BY <1>1, <1>2, <1>3, <1>4, TimerTypeStep, StepsStep, StopStep, EntriesStep, PTL
        DEF TimerSpec

(* A timer that was stopped has nothing left to expire, and a single shot  *)
(* expires once for each start, on the conditions the property names.      *)
THEOREM TimerIsObeyed == TimerSpec => []TimerObeysCalls
<1>1. TimerIInv => TimerObeysCalls
  BY DEF TimerIInv
<1> QED BY <1>1, TimerInvariance, PTL

-----------------------------------------------------------------------------
(* The values that are validated: InputValidator.                          *)

(* A new object has its description and nothing else.                      *)
LEMMA ConstructFacts ==
  /\ Fresh \in Expectation /\ Fresh.type = "None" /\ Fresh.Discrete = {}
  /\ \A d \in Descriptions :
        /\ Construct(d) \in Expectation
        /\ Construct(d).type = d[1]
<1>1. Fresh \in Expectation /\ Fresh.type = "None" /\ Fresh.Discrete = {}
  BY DEF Fresh, Expectation
<1>2. ASSUME NEW d \in {"Discrete", "RegExp"} \X SUBSET Int
      PROVE  Construct(d) \in Expectation /\ Construct(d).type = d[1]
  BY <1>1, <1>2 DEF Construct, Expectation
<1>3. ASSUME NEW d \in {"Range"} \X (Int \X Int)
      PROVE  Construct(d) \in Expectation /\ Construct(d).type = d[1]
  BY <1>1, <1>3 DEF Construct, Expectation
<1>4. ASSUME NEW d \in {"None"} \X {{}}
      PROVE  Construct(d) \in Expectation /\ Construct(d).type = d[1]
  BY <1>1, <1>4 DEF Construct
<1> QED BY <1>1, <1>2, <1>3, <1>4, InputValidatorAssumption

(* A move makes the object accept what the other one accepts.              *)
LEMMA MoveFacts ==
  ASSUME NEW to \in Expectation, NEW from \in Expectation
  PROVE  /\ MoveAssign(to, from) \in Expectation
         /\ MovedFrom(to, from) \in Expectation
         /\ \A value \in Int : Accepts(MoveAssign(to, from), value) <=> Accepts(from, value)
         /\ from.type # "Discrete" => MoveAssign(to, from).Discrete = to.Discrete
         /\ from.Discrete = {} => MovedFrom(to, from).Discrete = {}
<1>1. from.type \in {"None", "Discrete", "Range", "RegExp"}
  BY DEF Expectation
<1>2. CASE from.type = "None"
  BY <1>2 DEF MoveAssign, MovedFrom, Accepts, Expectation
<1>3. CASE from.type = "Discrete"
  BY <1>3 DEF MoveAssign, MovedFrom, Accepts, Expectation
<1>4. CASE from.type = "Range"
  BY <1>4 DEF MoveAssign, MovedFrom, Accepts, Expectation
<1>5. CASE from.type = "RegExp"
  BY <1>5 DEF MoveAssign, MovedFrom, Accepts, Expectation
<1> QED BY <1>1, <1>2, <1>3, <1>4, <1>5

(* A copy accepts no less, and more only where a set was there before.     *)
LEMMA CopyFacts ==
  ASSUME NEW to \in Expectation, NEW from \in Expectation
  PROVE  /\ CopyAssign(to, from) \in Expectation
         /\ \A value \in Int : Accepts(from, value) => Accepts(CopyAssign(to, from), value)
         /\ (from.type = "Discrete" => to.Discrete = {})
            => \A value \in Int : Accepts(CopyAssign(to, from), value) => Accepts(from, value)
         /\ from.type # "Discrete" => CopyAssign(to, from).Discrete = to.Discrete
<1>1. from.type \in {"None", "Discrete", "Range", "RegExp"}
  BY DEF Expectation
<1>2. CASE from.type = "None"
  BY <1>2 DEF CopyAssign, Accepts, Expectation
<1>3. CASE from.type = "Discrete"
  BY <1>3 DEF CopyAssign, Accepts, Expectation
<1>4. CASE from.type = "Range"
  BY <1>4 DEF CopyAssign, Accepts, Expectation
<1>5. CASE from.type = "RegExp"
  BY <1>5 DEF CopyAssign, Accepts, Expectation
<1> QED BY <1>1, <1>2, <1>3, <1>4, <1>5

(* What is stored in a validator accepts what the object accepts.          *)
LEMMA StoredFacts ==
  ASSUME NEW e \in Expectation
  PROVE  /\ Stored(e) \in Expectation
         /\ \A value \in Int : Accepts(Stored(e), value) <=> Accepts(e, value)
<1>1. Fresh \in Expectation
  BY ConstructFacts
<1>2. /\ MoveAssign(Fresh, e) \in Expectation
      /\ \A value \in Int : Accepts(MoveAssign(Fresh, e), value) <=> Accepts(e, value)
  BY <1>1, MoveFacts
<1> QED BY <1>1, <1>2, MoveFacts DEF Stored

(* The call makes an object of one kind and the meaning that goes with it. *)
LEMMA AcceptedMeans ==
  ASSUME NEW e, NEW more
  PROVE  Means(e, Accepted(e), more) /\ Accepted(e) \in SUBSET Int
BY InputValidatorAssumption DEF Means, Accepted

(* Objects, validators and their meanings stay what they are.              *)
LEMMA ValidatorTypeStep == ValidatorTypeOK /\ [ValidatorNext]_validatorVars => ValidatorTypeOK'
<1> SUFFICES ASSUME ValidatorTypeOK, [ValidatorNext]_validatorVars PROVE ValidatorTypeOK'
  OBVIOUS
<1>1. ASSUME ValidatorCall PROVE validatorCalls' \in 0 .. MaxValidatorCalls
  BY <1>1, InputValidatorAssumption DEF ValidatorCall, ValidatorTypeOK
<1>2. ASSUME NEW o \in ExpectedObjects, NEW condition
      PROVE  /\ Put(held, o, condition) \subseteq ExpectedObjects
             /\ Put(merged, o, condition) \subseteq ExpectedObjects
  BY DEF Put, ValidatorTypeOK
<1>3. ASSUME NEW o \in ExpectedObjects, NEW d \in Descriptions, AssignNew(o, d)
      PROVE  ValidatorTypeOK'
  <2>1. MoveAssign(object[o], Construct(d)) \in Expectation
    BY ConstructFacts, MoveFacts DEF ValidatorTypeOK
  <2>2. object' \in [ExpectedObjects -> Expectation] /\ want' \in [ExpectedObjects -> SUBSET Int]
    BY <1>3, <2>1, AcceptedMeans DEF AssignNew, ValidatorTypeOK
  <2> QED BY <1>1, <1>2, <1>3, <2>2 DEF AssignNew, ValidatorTypeOK
<1>4. ASSUME NEW o \in ExpectedObjects, NEW p \in ExpectedObjects, AssignCopy(o, p)
      PROVE  ValidatorTypeOK'
  <2>1. CopyAssign(object[o], object[p]) \in Expectation
    BY CopyFacts DEF ValidatorTypeOK
  <2>2. object' \in [ExpectedObjects -> Expectation] /\ want' \in [ExpectedObjects -> SUBSET Int]
    BY <1>4, <2>1 DEF AssignCopy, ValidatorTypeOK
  <2> QED BY <1>1, <1>2, <1>4, <2>2 DEF AssignCopy, ValidatorTypeOK
<1>5. ASSUME NEW o \in ExpectedObjects, NEW p \in ExpectedObjects, AssignMove(o, p)
      PROVE  ValidatorTypeOK'
  <2>1. /\ MoveAssign(object[o], object[p]) \in Expectation
        /\ MovedFrom(object[o], object[p]) \in Expectation
    BY MoveFacts DEF ValidatorTypeOK
  <2>2. object' \in [ExpectedObjects -> Expectation] /\ want' \in [ExpectedObjects -> SUBSET Int]
    BY <1>5, <2>1 DEF AssignMove, ValidatorTypeOK
  <2> QED BY <1>1, <1>2, <1>5, <2>2 DEF AssignMove, ValidatorTypeOK
<1>6. ASSUME NEW o \in ExpectedObjects, AddExpected(o) PROVE ValidatorTypeOK'
  <2>1. /\ Stored(object[o]) \in Expectation /\ MovedFrom(Fresh, object[o]) \in Expectation
        /\ want[o] \in SUBSET Int
    BY ConstructFacts, StoredFacts, MoveFacts DEF ValidatorTypeOK
  <2>2. object' \in [ExpectedObjects -> Expectation]
    BY <1>6, <2>1 DEF AddExpected, ValidatorTypeOK
  <2>3. [T |-> "number", expected |-> Stored(object[o]), want |-> want[o], merged |-> o \in merged]
           \in [T : {"number", "text"}, expected : Expectation, want : SUBSET Int, merged : BOOLEAN]
    BY <2>1
  <2>4. validators' \in Seq([T : {"number", "text"}, expected : Expectation,
                             want : SUBSET Int, merged : BOOLEAN])
    BY <1>6, <2>3, AppendProperties DEF AddExpected, ValidatorTypeOK
  <2> QED BY <1>1, <1>6, <2>2, <2>4 DEF AddExpected, ValidatorTypeOK
<1>7. ASSUME NEW d \in Descriptions, d[1] = "RegExp", AddFunction(d[2]) PROVE ValidatorTypeOK'
  <2>1. d[2] \in SUBSET Int
    BY <1>7, InputValidatorAssumption
  <2>2. Construct(<<"RegExp", d[2]>>) \in Expectation
    BY <1>7, ConstructFacts, InputValidatorAssumption
  <2>3. [T |-> "text", expected |-> Construct(<<"RegExp", d[2]>>), want |-> d[2], merged |-> FALSE]
           \in [T : {"number", "text"}, expected : Expectation, want : SUBSET Int, merged : BOOLEAN]
    BY <2>1, <2>2
  <2>4. validators' \in Seq([T : {"number", "text"}, expected : Expectation,
                             want : SUBSET Int, merged : BOOLEAN])
    BY <1>7, <2>3, AppendProperties DEF AddFunction, ValidatorTypeOK
  <2> QED BY <1>1, <1>7, <2>4 DEF AddFunction, ValidatorTypeOK
<1>8. CASE UNCHANGED validatorVars
  BY <1>8 DEF validatorVars, ValidatorTypeOK
<1> QED BY <1>3, <1>4, <1>5, <1>6, <1>7, <1>8 DEF ValidatorNext

(* What an assignment, a move or a registration does to the meaning of the *)
(* objects and of the validators.                                          *)
LEMMA ObjectsMeanStep ==
  ValidatorTypeOK /\ ObjectsMean /\ [ValidatorNext]_validatorVars => ObjectsMean'
<1> DEFINE MeansHere(o) == /\ o \notin held => object[o].Discrete = {}
                           /\ o \notin moved => Means(object[o], want[o], o \in merged)
           MeantAs(i) == Means(validators[i].expected, validators[i].want, validators[i].merged)
<1>0. ObjectsMean <=> /\ \A o \in ExpectedObjects : MeansHere(o)
                      /\ \A i \in DOMAIN validators : MeantAs(i)
  BY DEF ObjectsMean
<1> SUFFICES ASSUME ValidatorTypeOK, ObjectsMean, [ValidatorNext]_validatorVars
             PROVE  /\ \A o \in ExpectedObjects : MeansHere(o)'
                    /\ \A i \in DOMAIN validators' : MeantAs(i)'
  BY DEF ObjectsMean
<1>1. \A o \in ExpectedObjects : object[o] \in Expectation /\ MeansHere(o)
  BY <1>0 DEF ValidatorTypeOK
<1>2. ASSUME UNCHANGED validators PROVE \A i \in DOMAIN validators' : MeantAs(i)'
  BY <1>0, <1>2
<1>3. ASSUME NEW o \in ExpectedObjects, NEW d \in Descriptions, AssignNew(o, d)
      PROVE  \A q \in ExpectedObjects : MeansHere(q)'
  <2>1. MeansHere(o)'
    <3>1. /\ object'[o] = MoveAssign(object[o], Construct(d))
          /\ want'[o] = Accepted(Construct(d))
          /\ o \in held \/ d[1] = "Discrete" => o \in held'
      BY <1>3 DEF AssignNew, ValidatorTypeOK, Put
    <3>2. \A value \in Int : Accepts(object'[o], value) <=> Accepts(Construct(d), value)
      BY <1>1, <3>1, ConstructFacts, MoveFacts
    <3>3. Means(object'[o], want'[o], o \in merged')
      BY <3>1, <3>2, InputValidatorAssumption DEF Means, Accepted
    <3>4. ASSUME o \notin held' PROVE object'[o].Discrete = {}
      <4>1. Construct(d) \in Expectation /\ Construct(d).type # "Discrete"
        BY <3>1, <3>4, ConstructFacts, Zenon
      <4>2. object[o].Discrete = {}
        BY <1>1, <3>1, <3>4, Zenon
      <4>3. MoveAssign(object[o], Construct(d)).Discrete = object[o].Discrete
        BY <1>1, <4>1, MoveFacts, Zenon
      <4> QED BY <3>1, <4>2, <4>3, Zenon
    <3> QED BY <3>3, <3>4
  <2>2. ASSUME NEW q \in ExpectedObjects, q # o PROVE MeansHere(q)'
    BY <1>1, <1>3, <2>2 DEF AssignNew, ValidatorTypeOK, Put
  <2> QED BY <2>1, <2>2
<1>4. ASSUME NEW o \in ExpectedObjects, NEW p \in ExpectedObjects, AssignCopy(o, p)
      PROVE  \A q \in ExpectedObjects : MeansHere(q)'
  <2>1. MeansHere(o)'
    <3>1. /\ object'[o] = CopyAssign(object[o], object[p])
          /\ want'[o] = want[p]
          /\ o \in held \/ object[p].type = "Discrete" => o \in held'
          /\ p \in merged \/ (object[p].type = "Discrete" /\ o \in held) => o \in merged'
          /\ p \notin moved
      BY <1>4 DEF AssignCopy, ValidatorTypeOK, Put
    <3>2. \A value \in InputValues :
             /\ value \in want[p] => Accepts(object[p], value)
             /\ p \notin merged /\ Accepts(object[p], value) => value \in want[p]
      BY <1>1, <3>1 DEF Means
    <3>3. \A value \in InputValues :
             /\ Accepts(object[p], value) => Accepts(object'[o], value)
             /\ o \notin merged' /\ Accepts(object'[o], value) => Accepts(object[p], value)
      BY <1>1, <3>1, CopyFacts, InputValidatorAssumption
    <3>4. Means(object'[o], want'[o], o \in merged')
      BY <3>1, <3>2, <3>3 DEF Means
    <3>5. ASSUME o \notin held' PROVE object'[o].Discrete = {}
      <4>1. object[o].Discrete = {} /\ object[p].type # "Discrete"
        BY <1>1, <3>1, <3>5, Zenon
      <4>2. CopyAssign(object[o], object[p]).Discrete = object[o].Discrete
        BY <1>1, <4>1, CopyFacts, Zenon
      <4> QED BY <3>1, <4>1, <4>2, Zenon
    <3> QED BY <3>4, <3>5
  <2>2. ASSUME NEW q \in ExpectedObjects, q # o PROVE MeansHere(q)'
    BY <1>1, <1>4, <2>2 DEF AssignCopy, ValidatorTypeOK, Put
  <2> QED BY <2>1, <2>2
<1>5. ASSUME NEW o \in ExpectedObjects, NEW p \in ExpectedObjects, AssignMove(o, p)
      PROVE  \A q \in ExpectedObjects : MeansHere(q)'
  <2>1. MeansHere(o)'
    <3>1. /\ object'[o] = MoveAssign(object[o], object[p])
          /\ want'[o] = want[p]
          /\ o \in held \/ object[p].type = "Discrete" => o \in held'
          /\ p \in merged => o \in merged'
          /\ p \notin moved
      BY <1>5 DEF AssignMove, ValidatorTypeOK, Put
    <3>2. \A value \in Int : Accepts(object'[o], value) <=> Accepts(object[p], value)
      BY <1>1, <3>1, MoveFacts
    <3>3. Means(object'[o], want'[o], o \in merged')
      BY <1>1, <3>1, <3>2, InputValidatorAssumption DEF Means
    <3>4. ASSUME o \notin held' PROVE object'[o].Discrete = {}
      <4>1. object[o].Discrete = {} /\ object[p].type # "Discrete"
        BY <1>1, <3>1, <3>4, Zenon
      <4>2. MoveAssign(object[o], object[p]).Discrete = object[o].Discrete
        BY <1>1, <4>1, MoveFacts, Zenon
      <4> QED BY <3>1, <4>1, <4>2, Zenon
    <3> QED BY <3>3, <3>4
  <2>2. MeansHere(p)'
    <3>1. /\ object'[p] = MovedFrom(object[o], object[p])
          /\ p \in moved'
          /\ p \in held => p \in held'
      BY <1>5 DEF AssignMove, ValidatorTypeOK, Put
    <3> QED BY <1>1, <3>1, MoveFacts
  <2>3. ASSUME NEW q \in ExpectedObjects, q # o, q # p PROVE MeansHere(q)'
    BY <1>1, <1>5, <2>3 DEF AssignMove, ValidatorTypeOK, Put
  <2> QED BY <2>1, <2>2, <2>3
<1>6. ASSUME NEW o \in ExpectedObjects, AddExpected(o)
      PROVE  /\ \A q \in ExpectedObjects : MeansHere(q)'
             /\ \A i \in DOMAIN validators' : MeantAs(i)'
  <2>1. MeansHere(o)'
    <3>1. object'[o] = MovedFrom(Fresh, object[o]) /\ o \in moved' /\ held' = held
      BY <1>6 DEF AddExpected, ValidatorTypeOK
    <3> QED BY <1>1, <3>1, ConstructFacts, MoveFacts
  <2>2. ASSUME NEW q \in ExpectedObjects, q # o PROVE MeansHere(q)'
    BY <1>1, <1>6, <2>2 DEF AddExpected, ValidatorTypeOK
  <2> DEFINE new == [T |-> "number", expected |-> Stored(object[o]), want |-> want[o],
                     merged |-> o \in merged]
  <2>3. Means(new.expected, new.want, new.merged)
    <3>1. Means(object[o], want[o], o \in merged)
      BY <1>1, <1>6 DEF AddExpected
    <3>2. \A value \in Int : Accepts(Stored(object[o]), value) <=> Accepts(object[o], value)
      BY <1>1, StoredFacts
    <3> QED BY <3>1, <3>2, InputValidatorAssumption DEF Means
  <2>4. validators' = Append(validators, new)
    BY <1>6 DEF AddExpected
  <2> HIDE DEF new
  <2>5. ASSUME NEW i \in DOMAIN validators' PROVE MeantAs(i)'
    <3>1. \/ i \in DOMAIN validators /\ validators'[i] = validators[i]
          \/ validators'[i] = new
      BY <2>4 DEF ValidatorTypeOK
    <3> QED BY <1>0, <2>3, <3>1
  <2> QED BY <2>1, <2>2, <2>5
<1>7. ASSUME NEW d \in Descriptions, d[1] = "RegExp", AddFunction(d[2])
      PROVE  /\ \A q \in ExpectedObjects : MeansHere(q)'
             /\ \A i \in DOMAIN validators' : MeantAs(i)'
  <2>1. \A q \in ExpectedObjects : MeansHere(q)'
    BY <1>1, <1>7 DEF AddFunction
  <2> DEFINE new == [T |-> "text", expected |-> Construct(<<"RegExp", d[2]>>), want |-> d[2],
                     merged |-> FALSE]
  <2>2. Means(new.expected, new.want, new.merged)
    BY DEF Means, Accepts, Construct, Fresh
  <2>3. validators' = Append(validators, new)
    BY <1>7 DEF AddFunction
  <2> HIDE DEF new
  <2>4. ASSUME NEW i \in DOMAIN validators' PROVE MeantAs(i)'
    <3>1. \/ i \in DOMAIN validators /\ validators'[i] = validators[i]
          \/ validators'[i] = new
      BY <2>3 DEF ValidatorTypeOK
    <3> QED BY <1>0, <2>2, <3>1
  <2> QED BY <2>1, <2>4
<1>8. CASE UNCHANGED validatorVars
  BY <1>1, <1>2, <1>8 DEF validatorVars
<1>9. ASSUME NEW o, NEW p, AssignNew(o, p) \/ AssignCopy(o, p) \/ AssignMove(o, p)
      PROVE  UNCHANGED validators
  BY <1>9 DEF AssignNew, AssignCopy, AssignMove
<1> HIDE DEF MeansHere, MeantAs
<1> QED BY <1>2, <1>3, <1>4, <1>5, <1>6, <1>7, <1>8, <1>9 DEF ValidatorNext

(* The inductive invariant holds for any number of calls and variables.    *)
THEOREM ValidatorInvariance == ValidatorSpec => []ValidatorIInv
<1>1. ValidatorInit => ValidatorTypeOK /\ ObjectsMean
  <2> SUFFICES ASSUME ValidatorInit PROVE ValidatorTypeOK /\ ObjectsMean
    OBVIOUS
  <2>1. Fresh \in Expectation /\ Fresh.Discrete = {} /\ Fresh.type = "None"
    BY ConstructFacts
  <2>2. \A value \in Int : Accepts(Fresh, value)
    BY <2>1 DEF Accepts
  <2>3. ValidatorTypeOK
    BY <2>1, InputValidatorAssumption DEF ValidatorInit, ValidatorTypeOK
  <2>4. DOMAIN validators = {}
    BY DEF ValidatorInit
  <2>5. ASSUME NEW o \in ExpectedObjects
        PROVE  object[o].Discrete = {} /\ Means(object[o], want[o], o \in merged)
    <3>1. object[o] = Fresh /\ want[o] = InputValues
      BY DEF ValidatorInit
    <3> QED BY <2>1, <2>2, <3>1, InputValidatorAssumption DEF Means
  <2>6. ObjectsMean
    BY <2>4, <2>5 DEF ObjectsMean
  <2> QED BY <2>3, <2>6
<1> QED BY <1>1, ValidatorTypeStep, ObjectsMeanStep, PTL DEF ValidatorSpec, ValidatorIInv

(* A key accepts what its validators were meant to accept, however they    *)
(* were assigned, copied and moved; more only where sets were merged.      *)
THEOREM ValidatedAsMeant == ValidatorSpec => []ValidatesAsMeant
<1>1. ValidatorIInv => ValidatesAsMeant
  BY DEF ValidatorIInv, ObjectsMean, ValidatesAsMeant, Validate, Means
<1> QED BY <1>1, ValidatorInvariance, PTL
=============================================================================
