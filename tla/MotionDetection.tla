-------------------------- MODULE MotionDetection --------------------------
(***************************************************************************)
(* MotionDetection/MotionDetection.cpp: the life of the plugin, the events *)
(* of the platform library and the methods of the API.                     *)
(*                                                                         *)
(* The framework constructs an object, initialises, deinitialises and      *)
(* destroys it, then constructs the next one.  Three kinds of threads meet *)
(* in it without any lock: the framework's, the callers' of the API, and   *)
(* the one of the platform library, which knows the object only by the     *)
(* static pointer _instance.                                               *)
(*                                                                         *)
(* A time point is the number of clock readings before it: the clock does  *)
(* not go back, and a time point is stored and read in one piece.          *)
(***************************************************************************)
EXTENDS Naturals

CONSTANTS
    Callers,      \* the threads that call the API
    MaxObjects,   \* bound on the objects constructed
    MaxEvents,    \* bound on the events of the platform
    MaxCalls      \* bound on the calls of the API

ASSUME MotionDetectionAssumption ==
    MaxObjects \in Nat /\ MaxEvents \in Nat /\ MaxCalls \in Nat

VARIABLES
    termWaits,    \* MOTION_DETECTION_Platform_Term waits for a callback that
                  \* runs: the library does or does not, in any behaviour
    healthy,      \* the platform calls of Initialize succeed
    phase,        \* where the framework is in the life of the object
    object,       \* the objects constructed so far: the last one's number
    instance,     \* _instance: the number of an object, 0 for null
    lastTime,     \* m_lastEventTime of the last object
    clock,        \* the readings of the clock so far
    reading,      \* what Initialize has read from the clock
    up,           \* the platform is initialised
    registered,   \* it has the callback
    armed,        \* its detector is armed
    armedByCall,  \* a call has armed it since the object was constructed
    event,        \* what the platform's thread is doing, for which object
    events,       \* events so far
    ignored,      \* events the callback ignored
    noticed,      \* the clock at the last notification and at the one before
    overtaken,    \* an event stored its time between the two steps in which
                  \* Initialize reads the clock and stores what it has read
    crashed,      \* an object has been used that is not there
    call,         \* what a caller is doing
    calls         \* calls so far

pluginVars   == <<phase, object, instance, reading>>
timeVars     == <<lastTime, clock>>
platformVars == <<up, registered, armed, armedByCall>>
eventVars    == <<event, events, ignored, noticed, overtaken, crashed>>
callVars     == <<call, calls>>
settings     == <<termWaits, healthy>>
vars == <<settings, pluginVars, timeVars, platformVars, eventVars, callVars>>

Methods ==
    {"getMotionDetectors", "arm", "disarm", "isarmed", "setNoMotionPeriod",
     "getNoMotionPeriod", "setSensitivity", "getSensitivity",
     "getLastMotionEventElapsedTime", "setMotionEventsActivePeriod",
     "getMotionEventsActivePeriod"}

Phases ==
    {"absent", "constructed", "platform", "callback", "disarmed", "stamp",
     "active", "terminating", "terminated", "cleared"}

ObjectTypes ==
    /\ termWaits \in BOOLEAN /\ healthy \in BOOLEAN
    /\ phase \in Phases
    /\ object \in 0 .. MaxObjects /\ instance \in 0 .. MaxObjects
    /\ lastTime \in Nat /\ clock \in Nat /\ reading \in Nat
    /\ up \in BOOLEAN /\ registered \in BOOLEAN
    /\ armed \in BOOLEAN /\ armedByCall \in BOOLEAN

Event == [pc : {"none", "test", "use", "notify", "clock", "store"},
          of : 0 .. MaxObjects, time : Nat]

EventTypes ==
    /\ event \in Event
    /\ events \in 0 .. MaxEvents /\ ignored \in Nat
    /\ noticed \in [last : Nat, before : Nat]
    /\ overtaken \in BOOLEAN /\ crashed \in BOOLEAN

CallTypes ==
    /\ call \in [Callers -> [pc : {"idle", "begun", "filled", "ok", "failed"},
                             method : Methods, block : BOOLEAN]]
    /\ calls \in 0 .. MaxCalls

TypeOK == ObjectTypes /\ EventTypes /\ CallTypes

Idle == [pc |-> "idle", method |-> "isarmed", block |-> FALSE]

NoEvent == [pc |-> "none", of |-> 0, time |-> 0]

Init ==
    /\ termWaits \in BOOLEAN /\ healthy \in BOOLEAN
    /\ phase = "absent" /\ object = 0 /\ instance = 0 /\ reading = 0
    /\ lastTime = 0 /\ clock = 0
    /\ up = FALSE /\ registered = FALSE
    /\ armed \in BOOLEAN /\ armedByCall = FALSE
    /\ event = NoEvent /\ events = 0 /\ ignored = 0
    /\ noticed = [last |-> 0, before |-> 0]
    /\ overtaken = FALSE /\ crashed = FALSE
    /\ call = [c \in Callers |-> Idle] /\ calls = 0

(* What a call of the platform may return while Initialize makes it.       *)
Outcomes == IF healthy THEN {TRUE} ELSE BOOLEAN

-----------------------------------------------------------------------------
(* The life of an object.                                                  *)

(* m_lastEventTime starts as the epoch.                                    *)
Construct ==
    /\ phase = "absent" /\ object < MaxObjects
    /\ phase' = "constructed"
    /\ object' = object + 1 /\ instance' = object + 1
    /\ lastTime' = 0 /\ armedByCall' = FALSE
    /\ noticed' = [last |-> 0, before |-> 0] /\ overtaken' = FALSE
    /\ UNCHANGED <<reading, clock, up, registered, armed, event, events,
                   ignored, crashed, callVars>>

(* Initialize ignores what the platform returns.                           *)
PlatformInit ==
    /\ phase = "constructed"
    /\ phase' = "platform"
    /\ up' \in Outcomes
    /\ UNCHANGED <<object, instance, reading, timeVars, registered, armed,
                   armedByCall, eventVars, callVars>>

RegisterEventCallback ==
    /\ phase = "platform"
    /\ phase' = "callback"
    /\ \E rc \in Outcomes : registered' = (up /\ rc)
    /\ UNCHANGED <<object, instance, reading, timeVars, up, armed, armedByCall,
                   eventVars, callVars>>

DisarmAtStart ==
    /\ phase = "callback"
    /\ phase' = "disarmed"
    /\ \E rc \in Outcomes : armed' = (armed /\ ~(up /\ rc))
    /\ UNCHANGED <<object, instance, reading, timeVars, up, registered,
                   armedByCall, eventVars, callVars>>

ReadClock ==
    /\ phase = "disarmed"
    /\ phase' = "stamp"
    /\ reading' = clock + 1 /\ clock' = clock + 1
    /\ UNCHANGED <<object, instance, lastTime, platformVars, eventVars, callVars>>

Initialized ==
    /\ phase = "stamp"
    /\ phase' = "active"
    /\ lastTime' = reading
    /\ UNCHANGED <<object, instance, reading, clock, platformVars, eventVars,
                   callVars>>

(* Mutant: Deinitialize resets the pointer before it stops the platform.   *)
PlatformTermLate ==
    /\ phase = "active"
    /\ phase' = "terminating"
    /\ up' = FALSE /\ registered' = FALSE /\ instance' = 0
    /\ UNCHANGED <<object, reading, timeVars, armed, armedByCall, eventVars,
                   callVars>>

(* Mutant: the platform is not stopped.                                    *)
PlatformTermMissing ==
    /\ phase = "active"
    /\ phase' = "terminated"
    /\ UNCHANGED <<object, instance, reading, timeVars, platformVars, eventVars,
                   callVars>>

PlatformTerm ==
    /\ phase = "active"
    /\ phase' = "terminating"
    /\ up' = FALSE /\ registered' = FALSE
    /\ UNCHANGED <<object, instance, reading, timeVars, armed, armedByCall,
                   eventVars, callVars>>

PlatformTerminated ==
    /\ phase = "terminating"
    /\ termWaits => event.pc = "none"
    /\ phase' = "terminated"
    /\ UNCHANGED <<object, instance, reading, timeVars, platformVars, eventVars,
                   callVars>>

(* The methods are unregistered, but calls that run go on.                 *)
Deinitialized ==
    /\ phase = "terminated"
    /\ phase' = "cleared"
    /\ instance' = 0
    /\ UNCHANGED <<object, reading, timeVars, platformVars, eventVars, callVars>>

(* The destructor does nothing: an object that was never initialised stays *)
(* the instance.  Calls that run hold a reference of the framework.        *)
Destroy ==
    /\ phase \in {"constructed", "cleared"}
    /\ \A c \in Callers : call[c].pc = "idle"
    /\ phase' = "absent"
    /\ UNCHANGED <<object, instance, reading, timeVars, platformVars, eventVars,
                   callVars>>

FrameworkStep ==
    \/ Construct \/ PlatformInit \/ RegisterEventCallback \/ DisarmAtStart
    \/ ReadClock \/ Initialized \/ PlatformTerm \/ PlatformTerminated
    \/ Deinitialized \/ Destroy

-----------------------------------------------------------------------------
(* Events, on the thread of the platform.                                  *)

There(o) == o = object /\ o # 0 /\ phase # "absent"

Deliver ==
    /\ up /\ registered
    /\ event.pc = "none" /\ events < MaxEvents
    /\ event' = [event EXCEPT !.pc = "test"]
    /\ events' = events + 1
    /\ UNCHANGED <<pluginVars, timeVars, platformVars, ignored, noticed,
                   overtaken, crashed, callVars>>

(* motiondetection_EventCallback tests the pointer ...                     *)
TestInstance ==
    /\ event.pc = "test"
    /\ IF instance = 0
          THEN event' = NoEvent /\ ignored' = ignored + 1
          ELSE event' = [event EXCEPT !.pc = "use"] /\ UNCHANGED ignored
    /\ UNCHANGED <<pluginVars, timeVars, platformVars, events, noticed,
                   overtaken, crashed, callVars>>

(* ... and reads it again to call onMotionEvent.                           *)
UseInstance ==
    /\ event.pc = "use"
    /\ event' = [event EXCEPT !.pc = "notify", !.of = instance]
    /\ UNCHANGED <<pluginVars, timeVars, platformVars, events, ignored, noticed,
                   overtaken, crashed, callVars>>

Notify ==
    /\ event.pc = "notify"
    /\ IF There(event.of)
          THEN /\ event' = [event EXCEPT !.pc = "clock"]
               /\ noticed' = [last |-> clock, before |-> noticed.last]
               /\ UNCHANGED crashed
          ELSE crashed' = TRUE /\ UNCHANGED <<event, noticed>>
    /\ UNCHANGED <<pluginVars, timeVars, platformVars, events, ignored,
                   overtaken, callVars>>

EventClock ==
    /\ event.pc = "clock"
    /\ event' = [event EXCEPT !.pc = "store", !.time = clock + 1]
    /\ clock' = clock + 1
    /\ UNCHANGED <<pluginVars, lastTime, platformVars, events, ignored, noticed,
                   overtaken, crashed, callVars>>

(* Mutant: the time of the event is not stored.                            *)
EventNotStored ==
    /\ event.pc = "store"
    /\ event' = NoEvent
    /\ UNCHANGED <<pluginVars, timeVars, platformVars, events, ignored, noticed,
                   overtaken, crashed, callVars>>

EventStore ==
    /\ event.pc = "store"
    /\ IF There(event.of)
          THEN /\ lastTime' = event.time
               /\ event' = NoEvent
               /\ overtaken' = (overtaken \/ phase = "stamp")
               /\ UNCHANGED crashed
          ELSE crashed' = TRUE /\ UNCHANGED <<lastTime, event, overtaken>>
    /\ UNCHANGED <<pluginVars, clock, platformVars, events, ignored, noticed,
                   callVars>>

PlatformThreadStep ==
    TestInstance \/ UseInstance \/ Notify \/ EventClock \/ EventStore

-----------------------------------------------------------------------------
(* The methods.  The framework lets calls begin while the plugin is active.*)
(* The platform takes a request or not: it need not know the index, the    *)
(* mode or the value of a request.                                         *)

Begin(c, m) ==
    /\ phase = "active" /\ call[c].pc = "idle"
    /\ calls < MaxCalls
    /\ calls' = calls + 1
    /\ call' = [call EXCEPT ![c] = [pc |-> "begun", method |-> m, block |-> FALSE]]
    /\ UNCHANGED <<pluginVars, timeVars, platformVars, eventVars>>

In(c, m) == call[c].pc = "begun" /\ call[c].method = m

(* returnResponse, with the memory the method allocated freed before it.   *)
Answer(c, success) ==
    call' = [call EXCEPT ![c].pc = IF success THEN "ok" ELSE "failed",
                         ![c].block = FALSE]

Outside == UNCHANGED <<pluginVars, timeVars, eventVars, calls>>

(* The platform is asked and what it returns is the answer.                *)
Ask(c) ==
    \E rc \in {FALSE, up} : Answer(c, rc) /\ UNCHANGED platformVars

getMotionDetectors(c) == In(c, "getMotionDetectors") /\ Ask(c) /\ Outside

isarmed(c) == In(c, "isarmed") /\ Ask(c) /\ Outside

getNoMotionPeriod(c) == In(c, "getNoMotionPeriod") /\ Ask(c) /\ Outside

(* The array of ranges that the platform returns stays the platform's:     *)
(* the method only reads it, and it is no block of the call.               *)
getMotionEventsActivePeriod(c) ==
    In(c, "getMotionEventsActivePeriod") /\ Ask(c) /\ Outside

(* A request with a parameter missing or that is no number is refused.     *)
Refuse(c) == Answer(c, FALSE) /\ UNCHANGED platformVars

arm(c) ==
    /\ In(c, "arm")
    /\ \/ Refuse(c)
       \/ /\ up /\ Answer(c, TRUE)
          /\ armed' = TRUE /\ armedByCall' = TRUE
          /\ UNCHANGED <<up, registered>>
    /\ Outside

disarm(c) ==
    /\ In(c, "disarm")
    /\ \/ Refuse(c)
       \/ /\ up /\ Answer(c, TRUE)
          /\ armed' = FALSE
          /\ UNCHANGED <<up, registered, armedByCall>>
    /\ Outside

setNoMotionPeriod(c) == In(c, "setNoMotionPeriod") /\ (Refuse(c) \/ Ask(c)) /\ Outside

setSensitivity(c) == In(c, "setSensitivity") /\ (Refuse(c) \/ Ask(c)) /\ Outside

(* The platform may hand out a string, which the method frees.             *)
getSensitivity(c) ==
    /\ In(c, "getSensitivity")
    /\ \/ Ask(c)
       \/ /\ up
          /\ call' = [call EXCEPT ![c].pc = "filled", ![c].block = TRUE]
          /\ UNCHANGED platformVars
    /\ Outside

getSensitivityFrees(c) ==
    /\ call[c].pc = "filled" /\ call[c].method = "getSensitivity"
    /\ Answer(c, TRUE) /\ UNCHANGED platformVars
    /\ Outside

(* The array of ranges is allocated and filled from the request; it may be *)
(* empty, and then there may be none.                                      *)
setMotionEventsActivePeriod(c) ==
    /\ In(c, "setMotionEventsActivePeriod")
    /\ \/ Refuse(c)
       \/ /\ call' = [call EXCEPT ![c].pc = "filled", ![c].block = TRUE]
          /\ UNCHANGED platformVars
    /\ Outside

(* Mutant: the array is not freed when the platform refuses it.            *)
setActivePeriodLeaks(c) ==
    /\ call[c].pc = "filled" /\ call[c].method = "setMotionEventsActivePeriod"
    /\ \/ up /\ Answer(c, TRUE)
       \/ call' = [call EXCEPT ![c].pc = "failed"]
    /\ UNCHANGED platformVars
    /\ Outside

setActivePeriod(c) ==
    /\ call[c].pc = "filled" /\ call[c].method = "setMotionEventsActivePeriod"
    /\ Ask(c)
    /\ Outside

(* The method does not use the index of the request.                       *)
getLastMotionEventElapsedTime(c) ==
    /\ In(c, "getLastMotionEventElapsedTime")
    /\ Answer(c, TRUE) /\ UNCHANGED platformVars
    /\ Outside

Return(c) ==
    /\ call[c].pc \in {"ok", "failed"}
    /\ call' = [call EXCEPT ![c].pc = "idle"]
    /\ UNCHANGED <<pluginVars, timeVars, platformVars, eventVars, calls>>

CallStep(c) ==
    \/ getMotionDetectors(c) \/ arm(c) \/ disarm(c) \/ isarmed(c)
    \/ setNoMotionPeriod(c) \/ getNoMotionPeriod(c)
    \/ setSensitivity(c) \/ getSensitivity(c) \/ getSensitivityFrees(c)
    \/ getLastMotionEventElapsedTime(c)
    \/ setMotionEventsActivePeriod(c) \/ setActivePeriod(c)
    \/ getMotionEventsActivePeriod(c)
    \/ Return(c)

Next ==
    /\ ~crashed /\ UNCHANGED settings
    /\ \/ FrameworkStep
       \/ Deliver \/ PlatformThreadStep
       \/ \E c \in Callers : CallStep(c) \/ \E m \in Methods : Begin(c, m)

Spec == Init /\ [][Next]_vars

-----------------------------------------------------------------------------
(* If MOTION_DETECTION_Platform_Term waits for the callback that runs, the *)
(* callback never uses a null pointer or an object that was destroyed:     *)
(* Deinitialize ends the platform before it resets the pointer.            *)
LiveInstance == termWaits => ~crashed

(* The callback ignores an event only if it came too late for Deinitialize *)
(* and the platform did not wait for it: the pointer is set before the     *)
(* callback is registered and reset after the platform has ended.          *)
NoneIgnoredInLife == termWaits => ignored = 0

(* The clock at the last notification that the callback has done with.     *)
LatestDone ==
    IF event.pc \in {"clock", "store"} THEN noticed.before ELSE noticed.last

(* m_lastEventTime lags at most one notification: a client that asks after *)
(* it was notified may get the time before that notification, but never    *)
(* that before the previous one.  Only Initialize may overwrite the time   *)
(* of an event, with one it had read before.                               *)
LastEventLag ==
    phase = "active" /\ ~crashed =>
        \/ lastTime > LatestDone
        \/ overtaken /\ lastTime = reading

(* Every call frees the block that is its to free (the array of            *)
(* setMotionEventsActivePeriod, the string of getSensitivity), whether or  *)
(* not the request was complete and the platform took it.                  *)
BlocksReturned ==
    \A c \in Callers : call[c].block => call[c].pc = "filled"

(* Initialize leaves the detector disarmed: if the platform does not fail  *)
(* in Initialize, whose result the code ignores, only a call arms it.      *)
ArmedByCallOnly ==
    healthy /\ phase \in {"disarmed", "stamp", "active"} /\ armed => armedByCall

(* Nothing is left behind: by a call its memory, whether or not the        *)
(* platform took the request, and by Initialize an armed detector.         *)
NothingLeftBehind == BlocksReturned /\ ArmedByCallOnly

-----------------------------------------------------------------------------
(* What the invariants above rest on.                                      *)

PointerOfPhase ==
    /\ phase # "absent" => object # 0
    /\ phase \notin {"absent", "cleared"} => instance = object

Started == {"callback", "disarmed", "stamp", "active"}

PlatformOfPhase ==
    /\ up => phase \in Started \union {"platform"}
    /\ registered => up /\ phase \in Started
    /\ healthy /\ phase \in Started \union {"platform"} => up

(* Unless the platform does not wait for it, the callback runs only while  *)
(* the platform does, and has the object of that time.                     *)
EventInLife ==
    /\ event.pc # "none" => phase \in Started \union {"terminating"}
    /\ event.pc \in {"notify", "clock", "store"} => event.of = object
    /\ ignored = 0 /\ ~crashed

TimesPassed ==
    /\ lastTime <= clock /\ reading <= clock /\ event.time <= clock
    /\ noticed.before <= noticed.last /\ noticed.last <= clock
    /\ event.pc = "store" => event.time > noticed.last

TimesInOrder ==
    /\ phase = "stamp" => LatestDone < reading \/ overtaken
    /\ LastEventLag

CallsOfPhase ==
    \A c \in Callers :
        call[c].pc # "idle" =>
            phase \in {"active", "terminating", "terminated", "cleared"}

(* The inductive invariant.                                                *)
IInv ==
    /\ TypeOK
    /\ PointerOfPhase
    /\ PlatformOfPhase
    /\ termWaits => EventInLife
    /\ TimesPassed
    /\ TimesInOrder
    /\ CallsOfPhase
    /\ BlocksReturned
    /\ ArmedByCallOnly
=============================================================================
