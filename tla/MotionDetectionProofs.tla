----------------------- MODULE MotionDetectionProofs -----------------------
(* What is proved of MotionDetection, for any callers and any bounds.      *)
EXTENDS MotionDetection, TLAPS

(* A call changes nothing but its own state and, by arming or disarming,   *)
(* the detector; it holds memory only between two of its steps.            *)
Called(c) ==
    /\ UNCHANGED <<pluginVars, timeVars, eventVars, up, registered>>
    /\ armed' \in BOOLEAN /\ armedByCall' \in BOOLEAN
    /\ armed' => armed \/ armedByCall'
    /\ armedByCall => armedByCall'
    /\ call' \in [Callers -> [pc : {"idle", "begun", "filled", "ok", "failed"},
                              method : Methods, block : BOOLEAN]]
    /\ calls' \in 0 .. MaxCalls
    /\ \A d \in Callers \ {c} : call'[d] = call[d]
    /\ call'[c].pc # "idle" => call[c].pc # "idle" \/ phase = "active"
    /\ call'[c].block => call'[c].pc = "filled"

(* What the methods may do to their caller and to the detector.            *)
LEMMA CallFrame ==
    ASSUME TypeOK, BlocksReturned, NEW c \in Callers,
           CallStep(c) \/ \E m \in Methods : Begin(c, m)
    PROVE  Called(c)
  <1>0. call \in [Callers -> [pc : {"idle", "begun", "filled", "ok", "failed"},
                              method : Methods, block : BOOLEAN]]
    BY DEF TypeOK, ObjectTypes, EventTypes, CallTypes
  <1>a. armed \in BOOLEAN /\ armedByCall \in BOOLEAN /\ calls \in 0 .. MaxCalls
    BY DEF TypeOK, ObjectTypes, EventTypes, CallTypes
  <1>1. ASSUME NEW m \in Methods, Begin(c, m) PROVE Called(c)
    BY <1>0, <1>a, <1>1, MotionDetectionAssumption
    DEF Begin, Called, platformVars
  <1>2. ASSUME NEW success, call[c].pc # "idle", Answer(c, success),
               UNCHANGED platformVars, Outside
        PROVE  Called(c)
    BY <1>0, <1>a, <1>2 DEF Answer, Outside, Called, platformVars
  <1>3. ASSUME Return(c) PROVE Called(c)
    BY <1>0, <1>a, <1>3 DEF Return, Called, platformVars, BlocksReturned
  <1>4. ASSUME arm(c) PROVE Called(c)
    <2>1. CASE Refuse(c)
      BY <1>2, <1>4, <2>1 DEF arm, In, Refuse
    <2>2. CASE up /\ Answer(c, TRUE) /\ armed' = TRUE /\ armedByCall' = TRUE
                  /\ UNCHANGED <<up, registered>>
      BY <1>0, <1>a, <1>4, <2>2 DEF arm, In, Answer, Outside, Called
    <2> QED
      BY <1>4, <2>1, <2>2 DEF arm
  <1>5. ASSUME disarm(c) PROVE Called(c)
    <2>1. CASE Refuse(c)
      BY <1>2, <1>5, <2>1 DEF disarm, In, Refuse
    <2>2. CASE up /\ Answer(c, TRUE) /\ armed' = FALSE
                  /\ UNCHANGED <<up, registered, armedByCall>>
      BY <1>0, <1>a, <1>5, <2>2 DEF disarm, In, Answer, Outside, Called
    <2> QED
      BY <1>5, <2>1, <2>2 DEF disarm
  <1>6. ASSUME call[c].pc # "idle",
               call' = [call EXCEPT ![c].pc = "filled", ![c].block = TRUE],
               UNCHANGED platformVars, Outside
        PROVE  Called(c)
    BY <1>0, <1>a, <1>6 DEF Outside, Called, platformVars
  <1>7. ASSUME call[c].pc # "idle", Ask(c) \/ Refuse(c), Outside PROVE Called(c)
    BY <1>2, <1>7 DEF Ask, Refuse
  <1>8. ASSUME getSensitivity(c) \/ getSensitivityFrees(c)
               \/ setMotionEventsActivePeriod(c) \/ setActivePeriod(c)
        PROVE  Called(c)
    BY <1>2, <1>6, <1>7, <1>8
    DEF getSensitivity, getSensitivityFrees, setMotionEventsActivePeriod,
        setActivePeriod, In
  <1>9. ASSUME getMotionDetectors(c) \/ isarmed(c) \/ setNoMotionPeriod(c)
               \/ getNoMotionPeriod(c) \/ setSensitivity(c)
               \/ getMotionEventsActivePeriod(c)
               \/ getLastMotionEventElapsedTime(c)
        PROVE  Called(c)
    BY <1>2, <1>7, <1>9
    DEF getMotionDetectors, isarmed, setNoMotionPeriod, getNoMotionPeriod,
        setSensitivity, getMotionEventsActivePeriod,
        getLastMotionEventElapsedTime, In
  <1> QED
    BY <1>1, <1>3, <1>4, <1>5, <1>8, <1>9 DEF CallStep

(* The steps, one by one.                                                  *)
LEMMA StepCases ==
    ASSUME TypeOK, BlocksReturned, Next
    PROVE  /\ ~crashed /\ UNCHANGED settings
           /\ \/ Construct \/ PlatformInit \/ RegisterEventCallback
              \/ DisarmAtStart \/ ReadClock \/ Initialized \/ PlatformTerm
              \/ PlatformTerminated \/ Deinitialized \/ Destroy
              \/ Deliver \/ TestInstance \/ UseInstance \/ Notify
              \/ EventClock \/ EventStore
              \/ \E c \in Callers : Called(c)
  BY CallFrame DEF Next, FrameworkStep, PlatformThreadStep

(* The initial state.                                                      *)
LEMMA InitInvariant == Init => IInv
  <1> SUFFICES ASSUME Init PROVE IInv
    OBVIOUS
  <1>0. 0 \in 0 .. MaxObjects /\ 0 \in 0 .. MaxEvents /\ 0 \in 0 .. MaxCalls
    BY MotionDetectionAssumption
  <1>1. ObjectTypes
    <2>1. /\ phase \in Phases /\ lastTime \in Nat /\ clock \in Nat
          /\ reading \in Nat
      BY DEF Init, Phases
    <2> QED
      BY <1>0, <2>1, Zenon DEF Init, ObjectTypes
  <1>2. EventTypes
    <2>1. 0 \in Nat /\ NoEvent \in Event /\ [last |-> 0, before |-> 0] \in [last : Nat, before : Nat]
      BY MotionDetectionAssumption DEF Event, NoEvent
    <2> QED
      BY <1>0, <2>1, Zenon DEF Init, EventTypes
  <1>3. CallTypes
    BY MotionDetectionAssumption DEF Init, CallTypes, Idle, Methods
  <1>4. TypeOK
    BY <1>1, <1>2, <1>3 DEF TypeOK
  <1>5. CallsOfPhase /\ BlocksReturned
    BY DEF Init, Idle, CallsOfPhase, BlocksReturned
  <1>6. PointerOfPhase /\ PlatformOfPhase /\ EventInLife /\ ArmedByCallOnly
    BY DEF Init, NoEvent, PointerOfPhase, PlatformOfPhase, EventInLife,
           ArmedByCallOnly, Started
  <1>7. TimesPassed /\ TimesInOrder
    BY DEF Init, NoEvent, TimesPassed, TimesInOrder, LastEventLag, LatestDone
  <1> QED
    BY <1>4, <1>5, <1>6, <1>7 DEF IInv

(* A step of the framework: everything but the life of the object, its     *)
(* times and the platform stays; only Construct touches the notices.       *)
Life ==
    \/ Construct \/ PlatformInit \/ RegisterEventCallback \/ DisarmAtStart
    \/ ReadClock \/ Initialized \/ PlatformTerm \/ PlatformTerminated
    \/ Deinitialized \/ Destroy

(* The framework keeps the types.                                          *)
LEMMA LifeTypes ==
    ASSUME TypeOK, Life, UNCHANGED settings
    PROVE  TypeOK'
  <1> USE DEF pluginVars, timeVars, platformVars, eventVars, callVars, settings
  <1>1. CallTypes'
    BY DEF Life, Construct, PlatformInit, RegisterEventCallback, DisarmAtStart,
           ReadClock, Initialized, PlatformTerm, PlatformTerminated,
           Deinitialized, Destroy, TypeOK, CallTypes
  <1>2. EventTypes'
    <2>1. CASE Construct
      BY <2>1 DEF Construct, TypeOK, EventTypes
    <2>2. CASE ~Construct
      BY <2>2
      DEF Life, PlatformInit, RegisterEventCallback, DisarmAtStart,
          ReadClock, Initialized, PlatformTerm, PlatformTerminated,
          Deinitialized, Destroy, TypeOK, EventTypes
    <2> QED
      BY <2>1, <2>2
  <1>3. ObjectTypes'
    <2> USE DEF TypeOK, ObjectTypes, Phases
    <2>1. CASE Construct
      <3>1. object' \in 0 .. MaxObjects /\ instance' \in 0 .. MaxObjects
        BY <2>1, MotionDetectionAssumption DEF Construct
      <3>2. lastTime' \in Nat /\ armedByCall' \in BOOLEAN /\ phase' \in Phases
        BY <2>1 DEF Construct
      <3> QED
        BY <2>1, <3>1, <3>2, Zenon DEF Construct
    <2>2. CASE PlatformInit \/ RegisterEventCallback \/ DisarmAtStart
      BY <2>2 DEF PlatformInit, RegisterEventCallback, DisarmAtStart, Outcomes
    <2>3. CASE ReadClock \/ Initialized
      BY <2>3 DEF ReadClock, Initialized
    <2>4. CASE PlatformTerm
      BY <2>4 DEF PlatformTerm
    <2>5. CASE PlatformTerminated \/ Destroy
      BY <2>5 DEF PlatformTerminated, Destroy
    <2>6. CASE Deinitialized
      <3>1. instance' \in 0 .. MaxObjects /\ phase' \in Phases
        BY <2>6, MotionDetectionAssumption DEF Deinitialized
      <3> QED
        BY <2>6, <3>1, Zenon DEF Deinitialized
    <2> QED
      BY <2>1, <2>2, <2>3, <2>4, <2>5, <2>6 DEF Life
  <1> QED
    BY <1>1, <1>2, <1>3 DEF TypeOK

(* The thread of the platform keeps the types.                             *)
LEMMA EventStepTypes ==
    ASSUME TypeOK, Deliver \/ PlatformThreadStep, UNCHANGED settings
    PROVE  TypeOK'
  <1> USE DEF pluginVars, timeVars, platformVars, callVars, settings
  <1>1. CallTypes'
    BY DEF Deliver, PlatformThreadStep, TestInstance, UseInstance, Notify,
           EventClock, EventStore, TypeOK, CallTypes
  <1>2. event \in Event /\ clock \in Nat /\ instance \in 0 .. MaxObjects
    BY DEF TypeOK, EventTypes, ObjectTypes
  <1>3. event.time \in Nat /\ NoEvent \in Event
    BY <1>2, MotionDetectionAssumption DEF Event, NoEvent
  <1>4. ObjectTypes'
    BY <1>2, <1>3
    DEF Deliver, PlatformThreadStep, TestInstance, UseInstance, Notify,
        EventClock, EventStore, TypeOK, ObjectTypes
  <1>5. event' \in Event
    <2>1. CASE Deliver \/ TestInstance
      BY <1>2, <1>3, <2>1 DEF Deliver, TestInstance, Event
    <2>2. CASE UseInstance \/ Notify
      BY <1>2, <2>2 DEF UseInstance, Notify, Event
    <2>3. CASE EventClock
      <3>1. clock + 1 \in Nat
        BY <1>2
      <3> QED
        BY <1>2, <2>3, <3>1 DEF EventClock, Event
    <2>4. CASE EventStore
      BY <1>2, <1>3, <2>4 DEF EventStore
    <2> QED
      BY <2>1, <2>2, <2>3, <2>4 DEF PlatformThreadStep
  <1>6. noticed' \in [last : Nat, before : Nat]
    BY <1>2
    DEF Deliver, PlatformThreadStep, TestInstance, UseInstance, Notify,
        EventClock, EventStore, TypeOK, EventTypes
  <1>7. events' \in 0 .. MaxEvents /\ ignored' \in Nat
    BY MotionDetectionAssumption
    DEF Deliver, PlatformThreadStep, TestInstance, UseInstance, Notify,
        EventClock, EventStore, TypeOK, EventTypes
  <1>8. overtaken' \in BOOLEAN /\ crashed' \in BOOLEAN
    BY DEF Deliver, PlatformThreadStep, TestInstance, UseInstance, Notify,
           EventClock, EventStore, TypeOK, EventTypes
  <1> QED
    BY <1>1, <1>4, <1>5, <1>6, <1>7, <1>8 DEF TypeOK, EventTypes

(* Every step keeps the types.                                             *)
LEMMA TypeStep ==
    ASSUME TypeOK, BlocksReturned, [Next]_vars
    PROVE  TypeOK'
  <1>1. CASE UNCHANGED vars
    BY <1>1
    DEF vars, pluginVars, timeVars, platformVars, eventVars, callVars, settings,
        TypeOK, ObjectTypes, EventTypes, CallTypes
  <1>2. CASE Next
    <2>1. ASSUME NEW c \in Callers, Called(c), UNCHANGED settings PROVE TypeOK'
      BY <2>1
      DEF Called, pluginVars, timeVars, eventVars, settings,
          TypeOK, ObjectTypes, EventTypes, CallTypes
    <2> QED
      BY <1>2, <2>1, StepCases, LifeTypes, EventStepTypes
      DEF Life, PlatformThreadStep
  <1> QED
    BY <1>1, <1>2

(* The pointer is that of the object from its construction until           *)
(* Deinitialize.                                                           *)
LEMMA PointerStep ==
    ASSUME TypeOK, BlocksReturned, PointerOfPhase, Next
    PROVE  PointerOfPhase'
  <1> USE DEF PointerOfPhase, pluginVars
  <1>1. CASE Construct
    <2>1. object \in Nat
      BY MotionDetectionAssumption DEF TypeOK, ObjectTypes
    <2> QED
      BY <1>1, <2>1 DEF Construct
  <1>2. CASE Life /\ ~Construct
    BY <1>2
    DEF Life, PlatformInit, RegisterEventCallback, DisarmAtStart, ReadClock,
        Initialized, PlatformTerm, PlatformTerminated, Deinitialized, Destroy
  <1>3. CASE Deliver \/ PlatformThreadStep
    BY <1>3
    DEF Deliver, PlatformThreadStep, TestInstance, UseInstance, Notify,
        EventClock, EventStore
  <1>4. CASE \E c \in Callers : Called(c)
    BY <1>4 DEF Called
  <1> QED
    BY <1>1, <1>2, <1>3, <1>4, StepCases DEF Life, PlatformThreadStep

(* The platform is up and has the callback only between Initialize and     *)
(* Deinitialize.                                                           *)
LEMMA PlatformStep ==
    ASSUME TypeOK, BlocksReturned, PlatformOfPhase, Next
    PROVE  PlatformOfPhase'
  <1>0. healthy' = healthy
    BY StepCases DEF settings
  <1> USE <1>0 DEF PlatformOfPhase, pluginVars, platformVars, Started
  <1>1. CASE Construct \/ PlatformTerminated \/ Deinitialized \/ Destroy
    BY <1>1 DEF Construct, PlatformTerminated, Deinitialized, Destroy
  <1>2. CASE PlatformInit
    BY <1>2 DEF PlatformInit, Outcomes
  <1>3. CASE RegisterEventCallback
    BY <1>3 DEF RegisterEventCallback
  <1>4. CASE DisarmAtStart \/ ReadClock \/ Initialized \/ PlatformTerm
    BY <1>4 DEF DisarmAtStart, ReadClock, Initialized, PlatformTerm
  <1>5. CASE Deliver \/ PlatformThreadStep
    BY <1>5
    DEF Deliver, PlatformThreadStep, TestInstance, UseInstance, Notify,
        EventClock, EventStore
  <1>6. CASE \E c \in Callers : Called(c)
    BY <1>6 DEF Called
  <1> QED
    BY <1>1, <1>2, <1>3, <1>4, <1>5, <1>6, StepCases DEF PlatformThreadStep

(* If the platform waits for the callback, it runs within the life of its  *)
(* object.                                                                 *)
LEMMA EventStep ==
    ASSUME TypeOK, BlocksReturned, PointerOfPhase, PlatformOfPhase,
           termWaits, EventInLife, Next
    PROVE  EventInLife'
  <1> USE DEF EventInLife, pluginVars, eventVars, Started
  <1>1. CASE Construct \/ PlatformInit
    BY <1>1 DEF Construct, PlatformInit
  <1>2. CASE RegisterEventCallback \/ DisarmAtStart \/ ReadClock \/ Initialized
    BY <1>2 DEF RegisterEventCallback, DisarmAtStart, ReadClock, Initialized
  <1>3. CASE PlatformTerm \/ PlatformTerminated \/ Deinitialized \/ Destroy
    BY <1>3 DEF PlatformTerm, PlatformTerminated, Deinitialized, Destroy
  <1>4. event \in Event
    BY DEF TypeOK, EventTypes
  <1>5. CASE Deliver
    BY <1>4, <1>5 DEF Deliver, PlatformOfPhase, Event
  <1>6. CASE TestInstance
    <2>1. instance = object /\ object # 0
      BY <1>6 DEF TestInstance, PointerOfPhase
    <2> QED
      BY <1>4, <1>6, <2>1 DEF TestInstance, Event
  <1>7. CASE UseInstance
    <2>1. instance = object
      BY <1>7 DEF UseInstance, PointerOfPhase
    <2> QED
      BY <1>4, <1>7, <2>1 DEF UseInstance, Event
  <1>8. CASE Notify \/ EventStore
    <2>1. There(event.of)
      BY <1>8 DEF Notify, EventStore, There, PointerOfPhase
    <2> QED
      BY <1>4, <1>8, <2>1 DEF Notify, EventStore, Event, NoEvent
  <1>9. CASE EventClock
    BY <1>4, <1>9 DEF EventClock, Event
  <1>10. CASE \E c \in Callers : Called(c)
    BY <1>10 DEF Called
  <1> QED
    BY <1>1, <1>2, <1>3, <1>5, <1>6, <1>7, <1>8, <1>9, <1>10, StepCases

(* Before the notification the callback does nothing to the times.         *)
LEMMA QuietEvent ==
    ASSUME event \in Event, Deliver \/ TestInstance \/ UseInstance
    PROVE  /\ event.pc \notin {"clock", "store"} /\ event'.pc \notin {"clock", "store"}
           /\ event'.time = event.time \/ event'.time = 0
           /\ noticed' = noticed
  <1>1. CASE Deliver
    BY <1>1 DEF Deliver, Event
  <1>2. CASE TestInstance
    <2>1. CASE instance = 0
      BY <1>2, <2>1 DEF TestInstance, NoEvent
    <2>2. CASE instance # 0
      BY <1>2, <2>2 DEF TestInstance, Event
    <2> QED
      BY <2>1, <2>2
  <1>3. CASE UseInstance
    BY <1>3 DEF UseInstance, Event
  <1> QED
    BY <1>1, <1>2, <1>3

(* The times a step may leave, in terms of those before it.                *)
LEMMA TimesPassedStep ==
    ASSUME TypeOK, BlocksReturned, TimesPassed, Next
    PROVE  TimesPassed'
  <1>0. /\ event \in Event /\ noticed \in [last : Nat, before : Nat]
        /\ clock \in Nat /\ lastTime \in Nat /\ reading \in Nat
        /\ event.time \in Nat /\ noticed.last \in Nat /\ noticed.before \in Nat
    BY DEF TypeOK, ObjectTypes, EventTypes, Event
  <1> USE <1>0 DEF TimesPassed, pluginVars, timeVars, eventVars
  <1>1. CASE Construct
    BY <1>1 DEF Construct
  <1>2. CASE PlatformInit \/ RegisterEventCallback \/ DisarmAtStart
             \/ PlatformTerm \/ PlatformTerminated \/ Deinitialized \/ Destroy
    BY <1>2
    DEF PlatformInit, RegisterEventCallback, DisarmAtStart, PlatformTerm,
        PlatformTerminated, Deinitialized, Destroy
  <1>3. CASE ReadClock \/ Initialized
    BY <1>3 DEF ReadClock, Initialized
  <1>4. CASE Deliver \/ TestInstance \/ UseInstance
    <2>1. event'.pc # "store" /\ (event'.time = event.time \/ event'.time = 0)
      BY <1>4, QuietEvent
    <2>2. UNCHANGED <<lastTime, clock, reading, noticed>>
      BY <1>4 DEF Deliver, TestInstance, UseInstance
    <2> QED
      BY <2>1, <2>2
  <1>5. CASE Notify
    BY <1>5 DEF Notify, Event
  <1>6. CASE EventClock
    BY <1>6 DEF EventClock, Event
  <1>7. CASE EventStore
    BY <1>7 DEF EventStore, NoEvent
  <1>8. CASE \E c \in Callers : Called(c)
    BY <1>8 DEF Called
  <1> QED
    BY <1>1, <1>2, <1>3, <1>4, <1>5, <1>6, <1>7, <1>8, StepCases

(* The time of Initialize is later than the notices it does not overwrite, *)
(* and the time stored lags by one notification at most.                   *)
LEMMA TimesInOrderStep ==
    ASSUME TypeOK, BlocksReturned, TimesPassed, TimesInOrder, Next
    PROVE  TimesInOrder'
  <1>0. /\ event \in Event /\ noticed \in [last : Nat, before : Nat]
        /\ clock \in Nat /\ lastTime \in Nat /\ reading \in Nat
        /\ event.time \in Nat /\ noticed.last \in Nat /\ noticed.before \in Nat
    BY DEF TypeOK, ObjectTypes, EventTypes, Event
  <1>a. ~crashed
    BY StepCases
  <1> USE <1>0, <1>a DEF TimesInOrder, LastEventLag
  <1>1. CASE Construct \/ PlatformInit \/ RegisterEventCallback \/ DisarmAtStart
             \/ PlatformTerm \/ PlatformTerminated \/ Deinitialized \/ Destroy
    BY <1>1
    DEF Construct, PlatformInit, RegisterEventCallback, DisarmAtStart,
        PlatformTerm, PlatformTerminated, Deinitialized, Destroy
  <1>2. CASE ReadClock
    <2>1. LatestDone <= clock /\ LatestDone' = LatestDone
      BY <1>2 DEF ReadClock, LatestDone, TimesPassed, eventVars
    <2>2. LatestDone \in Nat
      BY DEF LatestDone
    <2> QED
      BY <1>2, <2>1, <2>2 DEF ReadClock
  <1>3. CASE Initialized
    BY <1>3 DEF Initialized, LatestDone, eventVars
  <1>4. CASE Deliver \/ TestInstance \/ UseInstance \/ EventClock
    <2>1. LatestDone' = LatestDone
      <3>1. CASE EventClock
        BY <3>1 DEF EventClock, Event, LatestDone
      <3>2. CASE ~EventClock
        BY <1>4, <3>2, QuietEvent DEF LatestDone
      <3> QED
        BY <3>1, <3>2
    <2>2. UNCHANGED <<phase, lastTime, reading, overtaken, crashed>>
      BY <1>4
      DEF Deliver, TestInstance, UseInstance, EventClock, pluginVars, timeVars
    <2> QED
      BY <2>1, <2>2
  <1>5. CASE Notify
    <2>1. LatestDone' = LatestDone \/ crashed'
      BY <1>5 DEF Notify, Event, LatestDone
    <2>2. UNCHANGED <<phase, lastTime, reading, overtaken>>
      BY <1>5 DEF Notify, pluginVars, timeVars
    <2>3. crashed' => LatestDone' = LatestDone
      BY <1>5 DEF Notify, LatestDone
    <2> QED
      BY <2>1, <2>2, <2>3
  <1>6. CASE EventStore
    <2>1. CASE There(event.of)
      <3>1. /\ lastTime' > LatestDone' /\ UNCHANGED <<phase, reading>>
            /\ phase = "stamp" => overtaken'
        <4>1. event.time > noticed.last /\ UNCHANGED <<phase, reading, noticed>>
          BY <1>6 DEF EventStore, TimesPassed, pluginVars
        <4>2. /\ lastTime' = event.time /\ event' = NoEvent
              /\ overtaken' = (overtaken \/ phase = "stamp")
          BY <1>6, <2>1 DEF EventStore
        <4>3. LatestDone' = noticed.last
          BY <4>1, <4>2 DEF LatestDone, NoEvent
        <4> QED
          BY <4>1, <4>2, <4>3
      <3> QED
        BY <3>1
    <2>2. CASE ~There(event.of)
      BY <1>6, <2>2 DEF EventStore, LatestDone, pluginVars
    <2> QED
      BY <2>1, <2>2
  <1>7. CASE \E c \in Callers : Called(c)
    BY <1>7 DEF Called, pluginVars, timeVars, eventVars, LatestDone
  <1> QED
    BY <1>1, <1>2, <1>3, <1>4, <1>5, <1>6, <1>7, StepCases

(* Calls run only between the end of Initialize and the destruction, and   *)
(* hold memory only between two of their steps.                            *)
LEMMA CallsStep ==
    ASSUME TypeOK, BlocksReturned, CallsOfPhase, Next
    PROVE  CallsOfPhase' /\ BlocksReturned'
  <1>1. CASE Life
    <2>1. call' = call
      BY <1>1
      DEF Life, Construct, PlatformInit, RegisterEventCallback, DisarmAtStart,
          ReadClock, Initialized, PlatformTerm, PlatformTerminated,
          Deinitialized, Destroy, callVars
    <2>2. BlocksReturned'
      BY <2>1 DEF BlocksReturned
    <2>3. CallsOfPhase'
      BY <1>1, <2>1
      DEF CallsOfPhase, Life, Construct, PlatformInit, RegisterEventCallback,
          DisarmAtStart, ReadClock, Initialized, PlatformTerm,
          PlatformTerminated, Deinitialized, Destroy
    <2> QED
      BY <2>2, <2>3
  <1>2. CASE Deliver \/ PlatformThreadStep
    <2>1. call' = call /\ phase' = phase
      BY <1>2
      DEF Deliver, PlatformThreadStep, TestInstance, UseInstance, Notify,
          EventClock, EventStore, callVars, pluginVars
    <2> QED
      BY <2>1 DEF CallsOfPhase, BlocksReturned
  <1>3. ASSUME NEW c \in Callers, Called(c)
        PROVE  CallsOfPhase' /\ BlocksReturned'
    <2>1. phase' = phase /\ \A d \in Callers \ {c} : call'[d] = call[d]
      BY <1>3 DEF Called, pluginVars
    <2>2. /\ call'[c].pc # "idle" => call[c].pc # "idle" \/ phase = "active"
          /\ call'[c].block => call'[c].pc = "filled"
      BY <1>3 DEF Called
    <2> QED
      BY <2>1, <2>2 DEF CallsOfPhase, BlocksReturned
  <1> QED
    BY <1>1, <1>2, <1>3, StepCases DEF Life, PlatformThreadStep

(* If the platform does not fail, Initialize disarms.                      *)
LEMMA ArmedStep ==
    ASSUME TypeOK, BlocksReturned, PlatformOfPhase, ArmedByCallOnly, Next
    PROVE  ArmedByCallOnly'
  <1>0. healthy' = healthy
    BY StepCases DEF settings
  <1> USE <1>0 DEF ArmedByCallOnly, pluginVars, platformVars
  <1>1. CASE Life /\ ~DisarmAtStart
    <2>1. CASE ReadClock \/ Initialized
      BY <2>1 DEF ReadClock, Initialized
    <2>2. CASE Construct \/ PlatformInit \/ RegisterEventCallback
      BY <2>2 DEF Construct, PlatformInit, RegisterEventCallback
    <2>3. CASE PlatformTerm \/ PlatformTerminated \/ Deinitialized \/ Destroy
      BY <2>3 DEF PlatformTerm, PlatformTerminated, Deinitialized, Destroy
    <2> QED
      BY <1>1, <2>1, <2>2, <2>3 DEF Life
  <1>2. CASE DisarmAtStart
    BY <1>2 DEF DisarmAtStart, Outcomes, PlatformOfPhase, Started
  <1>3. CASE Deliver \/ PlatformThreadStep
    BY <1>3
    DEF Deliver, PlatformThreadStep, TestInstance, UseInstance, Notify,
        EventClock, EventStore
  <1>4. CASE \E c \in Callers : Called(c)
    BY <1>4 DEF Called
  <1> QED
    BY <1>1, <1>2, <1>3, <1>4, StepCases DEF Life, PlatformThreadStep

(* IInv is inductive.                                                      *)
LEMMA StepInvariant == IInv /\ [Next]_vars => IInv'
  <1> SUFFICES ASSUME IInv, [Next]_vars PROVE IInv'
    OBVIOUS
  <1>1. CASE Next
    <2>1. termWaits' = termWaits
      BY <1>1, StepCases DEF IInv, settings
    <2>2. TypeOK' /\ PointerOfPhase' /\ PlatformOfPhase'
      BY <1>1, TypeStep, PointerStep, PlatformStep DEF IInv
    <2>3. termWaits => EventInLife'
      BY <1>1, EventStep DEF IInv
    <2>4. TimesPassed' /\ TimesInOrder'
      BY <1>1, TimesPassedStep, TimesInOrderStep DEF IInv
    <2>5. CallsOfPhase' /\ BlocksReturned' /\ ArmedByCallOnly'
      BY <1>1, CallsStep, ArmedStep DEF IInv
    <2> QED
      BY <2>1, <2>2, <2>3, <2>4, <2>5 DEF IInv
  <1>2. CASE UNCHANGED vars
    <2> USE <1>2 DEF vars, pluginVars, timeVars, platformVars, eventVars,
                     callVars, settings, IInv
    <2>1. TypeOK'
      BY DEF TypeOK, ObjectTypes, EventTypes, CallTypes
    <2>2. PointerOfPhase' /\ PlatformOfPhase' /\ (termWaits' => EventInLife')
      BY DEF PointerOfPhase, PlatformOfPhase, EventInLife, Started
    <2>3. TimesPassed' /\ TimesInOrder'
      BY DEF TimesPassed, TimesInOrder, LastEventLag, LatestDone
    <2>4. CallsOfPhase' /\ BlocksReturned' /\ ArmedByCallOnly'
      BY DEF CallsOfPhase, BlocksReturned, ArmedByCallOnly
    <2> QED
      BY <2>1, <2>2, <2>3, <2>4
  <1> QED
    BY <1>1, <1>2

-----------------------------------------------------------------------------
(* The inductive invariant holds for any number of callers, objects and    *)
(* events, whatever the platform does.                                     *)
THEOREM Invariance == Spec => []IInv
  BY InitInvariant, StepInvariant, PTL DEF Spec

(* If the platform waits for the callback when it ends, the callback uses  *)
(* no null pointer and no object that was destroyed.                       *)
THEOREM CallbackLives == Spec => []LiveInstance
  <1>1. IInv => LiveInstance
    BY DEF IInv, EventInLife, LiveInstance
  <1> QED
    BY <1>1, Invariance, PTL

(* Then no event is ignored either.                                        *)
THEOREM NoneIgnored == Spec => []NoneIgnoredInLife
  <1>1. IInv => NoneIgnoredInLife
    BY DEF IInv, EventInLife, NoneIgnoredInLife
  <1> QED
    BY <1>1, Invariance, PTL

(* The last event time lags by one notification at most.                   *)
THEOREM LastEventTimely == Spec => []LastEventLag
  <1>1. IInv => LastEventLag
    BY DEF IInv, TimesInOrder
  <1> QED
    BY <1>1, Invariance, PTL

(* No call leaves its memory behind, and the detector is armed by calls    *)
(* only, if the platform does not fail.                                    *)
THEOREM NothingLeft == Spec => []NothingLeftBehind
  <1>1. IInv => NothingLeftBehind
    BY DEF IInv, NothingLeftBehind
  <1> QED
    BY <1>1, Invariance, PTL
=============================================================================
