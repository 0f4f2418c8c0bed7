------------------------------ MODULE TpTimer ------------------------------
(***************************************************************************)
(* helpers/tptimer.h: a timer of a plugin, on a timer thread of Thunder.   *)
(*                                                                         *)
(* start and stop are called by a user thread, and by the callback on the  *)
(* timer thread; the expiry itself ends with one of the two.  No lock is   *)
(* between the threads: a call is taken apart into its revocation, its     *)
(* scheduling and its write of m_isActive.  setSingleShot, setInterval and *)
(* connect come before the first start.  The names here are apart from     *)
(* those of the other helpers that MCHelpers puts beside this one.         *)
(***************************************************************************)
EXTENDS Integers

CONSTANT MaxTimerCalls   \* bound on the user's calls of start and stop

ASSUME TpTimerAssumption == MaxTimerCalls \in Nat

VARIABLES
    revoke,        \* what TimerType::Revoke of another thread does about the callback
                   \* that is running: it "returns", "clears and waits", or "waits and
                   \* clears" the queue; which is a matter of Thunder
    singleShot,    \* m_isSingleShot
    callback,      \* what the callback calls: "start", "stop" or "nothing"
    active,        \* m_isActive
    entries,       \* the entries of the job in the queue of baseTimer
    step,          \* the next step of start or stop, of each thread
    tick,          \* the next step of Timed
    lastCall,      \* the user's last call
    early,         \* a tick has found its start without m_isActive set yet
    credit,        \* starts of the user without an expiry yet, of a single shot
    timerCalls

timerVars == <<revoke, singleShot, callback, active, entries, step, tick, lastCall,
               early, credit, timerCalls>>

TimerInit ==
    /\ revoke \in {"returns", "clears and waits", "waits and clears"} /\ singleShot \in BOOLEAN
    /\ callback \in {"start", "stop", "nothing"}
    /\ active = FALSE /\ entries = 0
    /\ step = [t \in {"user", "timer"} |-> "idle"] /\ tick = "none"
    /\ lastCall = "none" /\ early = FALSE
    /\ credit = 0 /\ timerCalls = 0

SetStep(t, s) == step' = [step EXCEPT ![t] = s]

(* The destructor is a stop after which there are no calls.                *)
CallTimer(kind) ==
    /\ step["user"] = "idle" /\ lastCall # "destroy"
    /\ timerCalls < MaxTimerCalls
    /\ SetStep("user", IF kind = "destroy" THEN "stop" ELSE kind)
    /\ lastCall' = kind /\ timerCalls' = timerCalls + 1
    /\ early' = FALSE
    /\ UNCHANGED <<revoke, singleShot, callback, active, entries, tick, credit>>

Revoked(t) ==
    SetStep(t, IF t = "user" /\ revoke = "clears and waits" THEN "wait"
               ELSE IF step[t] = "start" THEN "schedule" ELSE "deactivate")

(* Mutant: the revocation misses what is in the queue.                     *)
RevokeNothing(t) ==
    /\ step[t] \in {"start", "stop"}
    /\ t = "user" /\ revoke = "waits and clears" => tick = "none"
    /\ Revoked(t)
    /\ UNCHANGED <<revoke, singleShot, callback, active, entries, tick, lastCall, early,
                   credit, timerCalls>>

RevokeJob(t) ==
    /\ step[t] \in {"start", "stop"}
    /\ t = "user" /\ revoke = "waits and clears" => tick = "none"
    /\ entries' = 0
    /\ Revoked(t)
    /\ UNCHANGED <<revoke, singleShot, callback, active, tick, lastCall, early, credit,
                   timerCalls>>

CallbackOver ==
    /\ step["user"] = "wait" /\ tick = "none"
    /\ SetStep("user", IF lastCall = "start" THEN "schedule" ELSE "deactivate")
    /\ UNCHANGED <<revoke, singleShot, callback, active, entries, tick, lastCall, early, credit,
                   timerCalls>>

ScheduleJob(t) ==
    /\ step[t] = "schedule"
    /\ entries' = entries + 1
    /\ SetStep(t, "activate")
    /\ credit' = credit + IF t = "user" /\ singleShot THEN 1 ELSE 0
    /\ UNCHANGED <<revoke, singleShot, callback, active, tick, lastCall, early, timerCalls>>

SetActive(t) ==
    /\ step[t] \in {"activate", "deactivate"}
    /\ active' = (step[t] = "activate")
    /\ SetStep(t, "idle")
    /\ UNCHANGED <<revoke, singleShot, callback, entries, tick, lastCall, early, credit,
                   timerCalls>>

Expire ==
    /\ tick = "none" /\ entries > 0
    /\ entries' = entries - 1
    /\ tick' = "called"
    /\ credit' = IF singleShot /\ credit >= 0 THEN credit - 1 ELSE credit
    /\ UNCHANGED <<revoke, singleShot, callback, active, step, lastCall, early, timerCalls>>

RunCallback ==
    /\ tick = "called"
    /\ tick' = "test"
    /\ SetStep("timer", IF callback = "nothing" THEN "idle" ELSE callback)
    /\ UNCHANGED <<revoke, singleShot, callback, active, entries, lastCall, early, credit,
                   timerCalls>>

(* Mutant: every timer is a single shot.                                   *)
TestAndStop ==
    /\ tick = "test" /\ step["timer"] = "idle"
    /\ tick' = IF active THEN "rearm" ELSE "none"
    /\ SetStep("timer", IF active THEN "stop" ELSE "idle")
    /\ early' = (early \/ (~active /\ step["user"] = "activate" /\ entries = 0))
    /\ UNCHANGED <<revoke, singleShot, callback, active, entries, lastCall, credit,
                   timerCalls>>

(* The expiry goes on with m_isActive: start again, stop, or nothing.      *)
TestActive ==
    /\ tick = "test" /\ step["timer"] = "idle"
    /\ tick' = IF active THEN "rearm" ELSE "none"
    /\ SetStep("timer", IF ~active THEN "idle" ELSE IF singleShot THEN "stop" ELSE "start")
    /\ early' = (early \/ (~active /\ step["user"] = "activate" /\ entries = 0))
    /\ UNCHANGED <<revoke, singleShot, callback, active, entries, lastCall, credit,
                   timerCalls>>

TickEnds ==
    /\ tick = "rearm" /\ step["timer"] = "idle"
    /\ tick' = "none"
    /\ UNCHANGED <<revoke, singleShot, callback, active, entries, step, lastCall, early,
                   credit, timerCalls>>

(* A call of start or stop goes on; the timer thread has its own to do.    *)
Goes(t) == RevokeJob(t) \/ ScheduleJob(t) \/ SetActive(t)
UserThread == Goes("user") \/ CallbackOver
TimerThread == Goes("timer") \/ Expire \/ RunCallback \/ TestActive \/ TickEnds

TimerNext ==
    \/ \E kind \in {"start", "stop", "destroy"} : CallTimer(kind)
    \/ UserThread \/ TimerThread

TimerSpec == TimerInit /\ [][TimerNext]_timerVars

-----------------------------------------------------------------------------
(* A timer that its user has stopped or destroyed has no expiry any more,  *)
(* neither in the queue nor in the middle, if Revoke waits for a running   *)
(* callback and then clears the queue, although the callback may start the *)
(* timer and m_isActive is reset after the revocation.  If Revoke does not *)
(* wait, or clears first, this is so for a single shot only whose callback *)
(* does not start it: any other may run on.                                *)
StoppedStaysStopped ==
    lastCall \in {"stop", "destroy"} /\ step["user"] = "idle" =>
        /\ revoke = "waits and clears" => entries = 0 /\ tick = "none" /\ ~active
        /\ singleShot /\ callback # "start" => entries = 0 /\ ~active

(* If Revoke waits, a single shot expires once at most for each start of   *)
(* its user: what its own callback starts is revoked as the expiry ends.   *)
SingleShotOnce == revoke # "returns" => credit >= 0

(* What the user of a timer may rely on, of the last two.                  *)
TimerObeysCalls == StoppedStaysStopped /\ SingleShotOnce

(* A periodic timer, once started and not stopped, expires again and       *)
(* again, whatever Revoke does; unless its first expiry tests m_isActive   *)
(* before start, which has scheduled it already, sets it.                  *)
PeriodicGoesOn ==
    \/ []<>(tick = "called")
    \/ []<>~(/\ ~singleShot /\ callback = "nothing"
             /\ lastCall = "start" /\ step["user"] = "idle" /\ ~early)

-----------------------------------------------------------------------------
(* What TimerObeysCalls rests on.                                          *)
TimerTypeOK ==
    /\ revoke \in {"returns", "clears and waits", "waits and clears"}
    /\ singleShot \in BOOLEAN /\ active \in BOOLEAN /\ early \in BOOLEAN
    /\ callback \in {"start", "stop", "nothing"}
    /\ entries \in Nat /\ credit \in Int
    /\ step \in [{"user", "timer"} ->
                   {"idle", "start", "stop", "wait", "schedule", "activate", "deactivate"}]
    /\ tick \in {"none", "called", "test", "rearm"}
    /\ lastCall \in {"none", "start", "stop", "destroy"}
    /\ timerCalls \in 0 .. MaxTimerCalls

(* Where the threads are: the user in the middle of its last call, the     *)
(* timer thread in a callback or an expiry.                                *)
StepsOfCalls ==
    /\ step["user"] \in {"start", "schedule", "activate"} => lastCall = "start"
    /\ step["user"] \in {"stop", "deactivate"} => lastCall \in {"stop", "destroy"}
    /\ step["user"] = "wait" => revoke = "clears and waits" /\ lastCall # "none"
    /\ step["timer"] # "wait"
    /\ tick \in {"none", "called"} => step["timer"] = "idle"
    /\ singleShot /\ callback # "start" => step["timer"] \in {"idle", "stop", "deactivate"}
    /\ singleShot /\ tick = "rearm" => step["timer"] \in {"idle", "stop", "deactivate"}

(* Between the revocation of a stop and its end nothing is scheduled any   *)
(* more.                                                                   *)
StopClears ==
    LET stopping == step["user"] = "deactivate"
                    \/ (step["user"] = "wait" /\ lastCall \in {"stop", "destroy"})
    IN  /\ stopping /\ revoke = "waits and clears" => entries = 0 /\ tick = "none"
        /\ stopping /\ singleShot /\ callback # "start" => entries = 0

(* Where Revoke waits, an entry of a single shot that is due has been      *)
(* scheduled by the user; one of the callback does not outlive the expiry. *)
DueWasStarted ==
    /\ entries <= 1
    /\ tick = "none" /\ entries > 0 => credit >= 1
    /\ step["user"] \in {"schedule", "deactivate"} => tick = "none" /\ entries = 0
    /\ step["user"] = "wait" /\ tick = "none" => entries = 0
    /\ tick # "none" /\ entries > 0 =>
          \/ tick = "test" /\ step["timer"] = "activate"
          \/ tick = "test" /\ step["timer"] = "idle" /\ active
          \/ tick = "rearm" /\ step["timer"] = "stop"

EntriesOfStarts ==
    /\ ~singleShot => credit = 0
    /\ singleShot /\ revoke # "returns" => DueWasStarted

TimerIInv == TimerTypeOK /\ StepsOfCalls /\ StopClears /\ EntriesOfStarts /\ TimerObeysCalls
=============================================================================
