-------------------------- MODULE FrontPanelBlink --------------------------
(***************************************************************************)
(* helpers/frontpanel.cpp: the blinking of a front panel LED.              *)
(*                                                                         *)
(* setBlink stores a pattern and shows its first element; every further    *)
(* element is shown by a tick, the callback of an entry in blinkTimer, and *)
(* the tick schedules the next one.  Every operation on a LED first stops  *)
(* the blinking: it resets m_isBlinking and revokes the entries.  There is *)
(* no lock: the operations, which the plugin makes one at a time, run      *)
(* concurrently with the ticks, which the thread of blinkTimer makes one   *)
(* at a time.  A step is one access to a member that both threads use, and *)
(* a tick uses a number again, or the copy it has of it, as the build has  *)
(* it.                                                                     *)
(***************************************************************************)
EXTENDS Integers, Sequences

CONSTANTS
    Elements,      \* the colours and brightnesses an element of a pattern can have
    Patterns,      \* the patterns setBlink is called with
    Repeats,       \* the iterations it is called with
    Steady,        \* what a LED shows after an operation other than setBlink
    Unsure,        \* what it shows after a call of the device library has failed
    MaxCalls,      \* bound on the number of operations
    MaxShown       \* bound on the elements shown since a Revoke by an endless pattern;
                   \* a finite one does not reach its bound of three times as many

ASSUME FrontPanelBlinkAssumption ==
    /\ Patterns \subseteq Seq(Elements)
    /\ Repeats \subseteq Int
    /\ MaxCalls \in Nat

VARIABLES
    revokeWaits,   \* blinkTimer.Revoke waits for the callback that is running: the
                   \* library does or does not, in any behaviour
    blinkList,     \* m_blinkList: the elements stored so far
    isBlinking,    \* m_isBlinking
    blinks,        \* m_numberOfBlinks: how often the pattern has been completed
    maxRepeats,    \* m_maxNumberOfBlinkRepeats; negative is for ever
    index,         \* m_currentBlinkListIndex, from 0
    pending,       \* number of entries scheduled in blinkTimer
    led,           \* what the LED shows by the last call on it
    api,           \* the next step of the operation under way
    after,         \* the step after its stopBlinkTimer
    pattern,       \* the arguments of the last setBlink
    repeats,
    tick,          \* the next step of the tick under way
    copy,          \* its copy of the index, or of the number of rounds
    info,          \* its copy of an element
    replaced,      \* a setBlink has been replacing the list since it began
    shown,         \* elements that ticks have shown since the last Revoke
    outOfRange,    \* m_blinkList.at has thrown on the timer thread: terminate
    calls          \* number of operations

playVars == <<isBlinking, blinks, maxRepeats, index>>
argVars == <<pattern, repeats, calls>>
vars == <<revokeWaits, blinkList, playVars, pending, led, api, after, argVars, tick, copy, info,
          replaced, shown, outOfRange>>

TypeOK ==
    /\ revokeWaits \in BOOLEAN
    /\ blinkList \in Seq(Elements)
    /\ isBlinking \in BOOLEAN
    /\ blinks \in Nat /\ maxRepeats \in Int /\ index \in Nat /\ pending \in Nat
    /\ led \in Elements \union {Steady, Unsure}
    /\ api \in {"idle", "stop", "revoke", "clear", "push", "restart", "flag", "limit",
                "first", "show", "test", "schedule", "write", "delete", "deleted"}
    /\ after \in {"idle", "clear", "restart", "write", "delete"}
    /\ pattern \in Seq(Elements)
    /\ repeats \in Int
    /\ tick \in {"idle", "next", "bump", "check", "wrap", "round", "count", "endless",
                 "last", "get", "show", "test", "schedule"}
    /\ copy \in Nat
    /\ replaced \in BOOLEAN
    /\ info \in Elements \union {Steady}
    /\ shown \in Nat
    /\ outOfRange \in BOOLEAN
    /\ calls \in 0 .. MaxCalls

(* The state after start, the first thing the plugin calls: it sets the    *)
(* counters, once in the life of the process, to what they are initialised *)
(* to.                                                                     *)
Init ==
    /\ revokeWaits \in BOOLEAN
    /\ blinkList = << >> /\ pattern = << >>
    /\ isBlinking = FALSE
    /\ blinks = 0 /\ maxRepeats = 0 /\ index = 0 /\ repeats = 0
    /\ pending = 0
    /\ led = Steady /\ info = Steady
    /\ api = "idle" /\ after = "idle"
    /\ tick = "idle" /\ copy = 0 /\ replaced = FALSE
    /\ shown = 0
    /\ outOfRange = FALSE
    /\ calls = 0

-----------------------------------------------------------------------------
(* The operations.                                                         *)

(* Every operation starts with a stopBlinkTimer.                           *)
Begin(step) ==
    /\ api = "idle" /\ ~outOfRange
    /\ calls < MaxCalls
    /\ calls' = calls + 1
    /\ api' = "stop"
    /\ after' = step
    /\ UNCHANGED <<revokeWaits, blinkList, playVars, pending, led, tick, copy, info, replaced,
                   shown, outOfRange>>

(* stop; setBrightness, setLED, powerOnLed and powerOffLed, which write    *)
(* the LED themselves; deinitialize.                                       *)
Operation ==
    /\ \E step \in {"idle", "write", "delete"} : Begin(step)
    /\ UNCHANGED <<pattern, repeats>>

SetBlink(p, r) ==
    /\ Begin("clear")
    /\ pattern' = p
    /\ repeats' = r

(* stopBlinkTimer, in its two steps.                                       *)
Stop ==
    /\ api = "stop"
    /\ isBlinking' = FALSE
    /\ api' = "revoke"
    /\ UNCHANGED <<blinkList, blinks, maxRepeats, index, pending, led, after, shown>>

(* Mutant: nothing is revoked.                                             *)
RevokeNothing ==
    /\ api = "revoke"
    /\ revokeWaits => tick = "idle"
    /\ shown' = 0
    /\ api' = after
    /\ UNCHANGED <<blinkList, playVars, pending, led, after>>

Revoke ==
    /\ api = "revoke"
    /\ revokeWaits => tick = "idle"
    /\ pending' = 0
    /\ shown' = 0
    /\ api' = after
    /\ UNCHANGED <<blinkList, playVars, led, after>>

Write ==
    /\ api = "write"
    /\ led' \in {Steady, Unsure}
    /\ api' = "idle"
    /\ UNCHANGED <<blinkList, playVars, pending, after, shown>>

(* deinitialize deletes the object: this is the last operation.            *)
Delete ==
    /\ api = "delete"
    /\ api' = "deleted"
    /\ UNCHANGED <<blinkList, playVars, pending, led, after, shown>>

(* setBlink clears and fills the list.                                     *)
Clear ==
    /\ api = "clear"
    /\ blinkList' = << >>
    /\ api' = "push"
    /\ UNCHANGED <<playVars, pending, led, after, shown>>

Push ==
    /\ api = "push"
    /\ IF Len(blinkList) < Len(pattern)
       THEN /\ blinkList' = Append(blinkList, pattern[Len(blinkList) + 1])
            /\ UNCHANGED <<api, after>>
       ELSE api' = "stop" /\ after' = "restart" /\ UNCHANGED blinkList
    /\ UNCHANGED <<playVars, pending, led, shown>>

(* startBlinkTimer, after its stopBlinkTimer.                              *)
Restart ==
    /\ api = "restart"
    /\ blinks' = 0
    /\ api' = "flag"
    /\ UNCHANGED <<blinkList, isBlinking, maxRepeats, index, pending, led, after, shown>>

SetFlag ==
    /\ api = "flag"
    /\ isBlinking' = TRUE
    /\ api' = "limit"
    /\ UNCHANGED <<blinkList, blinks, maxRepeats, index, pending, led, after, shown>>

Limit ==
    /\ api = "limit"
    /\ maxRepeats' = repeats
    /\ api' = "first"
    /\ UNCHANGED <<blinkList, isBlinking, blinks, index, pending, led, after, shown>>

(* Mutant: the index is not reset.                                         *)
FirstKeepsIndex ==
    /\ api = "first"
    /\ api' = IF blinkList = << >> THEN "idle" ELSE "show"
    /\ UNCHANGED <<blinkList, playVars, pending, led, after, shown>>

(* Only the operations change the list, so that they can read it any time. *)
First ==
    /\ api = "first"
    /\ index' = 0
    /\ api' = IF blinkList = << >> THEN "idle" ELSE "show"
    /\ UNCHANGED <<blinkList, isBlinking, blinks, maxRepeats, pending, led, after, shown>>

(* setBlinkLed catches what the device library throws.                     *)
Show ==
    /\ api = "show"
    /\ led' \in {blinkList[1], Unsure}
    /\ api' = "test"
    /\ UNCHANGED <<blinkList, playVars, pending, after, shown>>

Test ==
    /\ api = "test"
    /\ api' = IF isBlinking THEN "schedule" ELSE "idle"
    /\ UNCHANGED <<blinkList, playVars, pending, led, after, shown>>

Schedule ==
    /\ api = "schedule"
    /\ pending' = pending + 1
    /\ api' = "idle"
    /\ UNCHANGED <<blinkList, playVars, led, after, shown>>

(* setBlink has cleared the list and not yet reset the index.              *)
Replacing ==
    \/ api \in {"push", "restart", "flag", "limit", "first"}
    \/ api \in {"stop", "revoke"} /\ after = "restart"

ApiStep ==
    /\ ~outOfRange
    /\ \/ Stop \/ Revoke \/ Write \/ Delete
       \/ Clear \/ Push \/ Restart \/ SetFlag \/ Limit \/ First
       \/ Show \/ Test \/ Schedule
    /\ replaced' = (tick # "idle" /\ (replaced \/ Replacing'))
    /\ UNCHANGED <<revokeWaits, argVars, tick, copy, info, outOfRange>>

-----------------------------------------------------------------------------
(* The ticks: onBlinkTimer on the thread of blinkTimer.                    *)

(* An entry is due: the timer removes it and calls Timed.                  *)
Due ==
    /\ tick = "idle"
    /\ pending > 0
    /\ shown < IF maxRepeats < 0 THEN MaxShown ELSE 3 * MaxShown
    /\ pending' = pending - 1
    /\ tick' = "next"
    /\ UNCHANGED <<blinks, index, led, copy, info, shown, outOfRange>>

(* m_currentBlinkListIndex++ reads and writes.                             *)
NextElement ==
    /\ tick = "next"
    /\ copy' = index
    /\ tick' = "bump"
    /\ UNCHANGED <<blinks, index, pending, led, info, shown, outOfRange>>

Bump ==
    /\ tick = "bump"
    /\ index' = copy + 1
    /\ copy' = copy + 1
    /\ tick' = "check"
    /\ UNCHANGED <<blinks, pending, led, info, shown, outOfRange>>

(* Mutant: the end of the list is one element late.                        *)
CheckOffByOne ==
    /\ tick = "check"
    /\ \E i \in {index, copy} : tick' = IF i <= Len(blinkList) THEN "get" ELSE "wrap"
    /\ UNCHANGED <<blinks, index, pending, led, copy, info, shown, outOfRange>>

Check ==
    /\ tick = "check"
    /\ \E i \in {index, copy} : tick' = IF i < Len(blinkList) THEN "get" ELSE "wrap"
    /\ UNCHANGED <<blinks, index, pending, led, copy, info, shown, outOfRange>>

Wrap ==
    /\ tick = "wrap"
    /\ index' = 0
    /\ tick' = "round"
    /\ UNCHANGED <<blinks, pending, led, copy, info, shown, outOfRange>>

(* m_numberOfBlinks++ reads and writes.                                    *)
Round ==
    /\ tick = "round"
    /\ copy' = blinks
    /\ tick' = "count"
    /\ UNCHANGED <<blinks, index, pending, led, info, shown, outOfRange>>

(* Mutant: the rounds are not counted.                                     *)
CountNothing ==
    /\ tick = "count"
    /\ tick' = "endless"
    /\ UNCHANGED <<blinks, index, pending, led, copy, info, shown, outOfRange>>

Count ==
    /\ tick = "count"
    /\ blinks' = copy + 1
    /\ copy' = copy + 1
    /\ tick' = "endless"
    /\ UNCHANGED <<index, pending, led, info, shown, outOfRange>>

(* m_maxNumberOfBlinkRepeats is read for each of the two comparisons.      *)
TestEndless ==
    /\ tick = "endless"
    /\ IF maxRepeats < 0 THEN tick' = "get" /\ copy' = 0 ELSE tick' = "last" /\ copy' = copy
    /\ UNCHANGED <<blinks, index, pending, led, info, shown, outOfRange>>

TestRounds ==
    /\ tick = "last"
    /\ \E n \in {blinks, copy} : tick' = IF n <= maxRepeats THEN "get" ELSE "idle"
    /\ copy' = 0
    /\ UNCHANGED <<blinks, index, pending, led, info, shown, outOfRange>>

(* at() throws out_of_range, and nothing on this thread catches it.        *)
Get ==
    /\ tick = "get"
    /\ \E i \in {index, copy} :
          IF i < Len(blinkList)
          THEN info' = blinkList[i + 1] /\ tick' = "show" /\ UNCHANGED outOfRange
          ELSE outOfRange' = TRUE /\ UNCHANGED <<info, tick>>
    /\ copy' = 0
    /\ UNCHANGED <<blinks, index, pending, led, shown>>

ShowElement ==
    /\ tick = "show"
    /\ led' \in {info, Unsure}
    /\ shown' = shown + 1
    /\ tick' = "test"
    /\ UNCHANGED <<blinks, index, pending, copy, info, outOfRange>>

(* Mutant: the next tick is scheduled without a test.                      *)
TestAlways ==
    /\ tick = "test"
    /\ tick' = "schedule"
    /\ UNCHANGED <<blinks, index, pending, led, copy, info, shown, outOfRange>>

TestBlinking ==
    /\ tick = "test"
    /\ tick' = IF isBlinking THEN "schedule" ELSE "idle"
    /\ UNCHANGED <<blinks, index, pending, led, copy, info, shown, outOfRange>>

ScheduleNext ==
    /\ tick = "schedule"
    /\ pending' = pending + 1
    /\ tick' = "idle"
    /\ UNCHANGED <<blinks, index, led, copy, info, shown, outOfRange>>

TickStep ==
    /\ ~outOfRange
    /\ \/ Due \/ NextElement \/ Bump \/ Check \/ Wrap \/ Round \/ Count
       \/ TestEndless \/ TestRounds \/ Get \/ ShowElement \/ TestBlinking
       \/ ScheduleNext
    /\ replaced' = (tick' # "idle" /\ (replaced \/ (tick = "idle" /\ Replacing)))
    /\ UNCHANGED <<revokeWaits, blinkList, isBlinking, maxRepeats, api, after, argVars>>

Next ==
    \/ Operation
    \/ \E p \in Patterns, r \in Repeats : SetBlink(p, r)
    \/ ApiStep
    \/ TickStep

(* An operation that has begun goes on, and so does the timer thread.      *)
Spec == Init /\ [][Next]_vars /\ WF_vars(ApiStep) /\ WF_vars(TickStep)

-----------------------------------------------------------------------------
(* Ticks to come: every one of them makes at most one more.                *)
Ticks == pending + IF tick = "idle" THEN 0 ELSE 1

(* The blinking is stopped, from the Revoke on.                            *)
Stopped == ~isBlinking /\ api # "revoke"

(* setBlink is about to schedule the first tick.                           *)
Starting == api \in {"restart", "flag", "limit", "first", "show", "test", "schedule"}

(* Whatever Revoke does about a callback that is running:                  *)

(* A tick that has tested m_isBlinking before a setBlink can schedule its  *)
(* successor after it, and the new pattern then runs twice as fast; but    *)
(* never faster, however often setBlink is called.                         *)
AtMostTwoTicks == Ticks + (IF Starting THEN 1 ELSE 0) <= 2

(* After stopBlinkTimer at most one more element of the pattern is shown,  *)
(* over what the operation itself has written to the LED.                  *)
OneElementAfterStop == Stopped => Ticks <= 1 /\ shown <= 1

(* The timer thread indexes beyond m_blinkList only in a tick in which a   *)
(* setBlink has been replacing the list, or when the stored pattern is     *)
(* empty.                                                                  *)
OutOfRangeInSetBlink == outOfRange => blinkList = << >> \/ replaced

(* A pattern is not lost: between the operations the next tick of a list   *)
(* that blinks is scheduled until the rounds have been played.             *)
PlaysOn ==
    isBlinking /\ api = "idle" /\ blinkList # << >>
        => Ticks >= 1 \/ (0 <= maxRepeats /\ maxRepeats < blinks)

(* After the last operation the ticks end, unless the pattern is for ever. *)
BlinkingEnds ==
    <>[](outOfRange \/ (isBlinking /\ maxRepeats < 0) \/ Ticks = 0)

(* If Revoke waits for the callback:                                       *)

(* There is one tick at a time, no tick of a stopped pattern, and none     *)
(* that uses the object after deinitialize has deleted it.                 *)
TicksOfThePattern ==
    revokeWaits => /\ Ticks <= 1
                   /\ Stopped \/ Starting => Ticks = 0

(* The timer thread never indexes beyond m_blinkList.                      *)
InRange == revokeWaits => ~outOfRange

(* "if not blink again then the led color should stay on the LAST element  *)
(* in the array", after exactly the rounds that were asked for; only if    *)
(* the call that was to show that one failed, it may show anything.        *)
EndsOnLastElement ==
    revokeWaits /\ isBlinking /\ api = "idle" /\ blinkList # << >> /\ Ticks = 0
        => /\ led \in {blinkList[Len(blinkList)], Unsure}
           /\ shown + 1 = Len(blinkList) * (maxRepeats + 1)

-----------------------------------------------------------------------------
(* What the invariants above rest on.                                      *)

(* m_isBlinking, by the step of the operation.                             *)
FlagOfStep ==
    /\ api \in {"revoke", "clear", "push", "restart", "flag", "write", "delete", "deleted"}
          => ~isBlinking
    /\ api \in {"stop", "revoke"} /\ after = "restart" => ~isBlinking
    /\ api \in {"limit", "first", "show", "test", "schedule"} => isBlinking
    /\ api \in {"show", "test", "schedule"} => blinkList # << >>

(* Of the elements still to be shown, a tick that has tested m_isBlinking  *)
(* counts for its successor.                                               *)
LastShow ==
    Stopped => /\ Ticks <= 1
               /\ shown + Ticks <= IF tick = "test" THEN 2 ELSE 1

(* A setBlink during a tick has its own tick scheduled in the end.         *)
ReplacedInTick ==
    /\ Replacing /\ tick # "idle" => replaced
    /\ replaced => tick # "idle" /\ ~revokeWaits
    /\ replaced /\ isBlinking /\ api = "idle" => pending >= 1 \/ blinkList = << >>

(* A tick without one has the index and the rounds for itself.             *)
GetInRange ==
    /\ tick = "check" => index = copy \/ replaced
    /\ tick \in {"round", "count", "endless", "last"} => index = 0 \/ replaced
    /\ tick \in {"count", "endless", "last"} => copy = blinks \/ replaced
    /\ tick = "last" => maxRepeats >= 0 \/ replaced
    /\ tick = "get" => \/ index < Len(blinkList) /\ copy < Len(blinkList)
                       \/ blinkList = << >> \/ replaced

(* If Revoke waits, the ticks play the pattern in order: what the LED      *)
(* shows, and how many elements have been shown, follow from the index and *)
(* the rounds.                                                             *)
Playing == isBlinking /\ api = "idle" /\ blinkList # << >>

LedShows(i) == led \in {blinkList[i], Unsure}

Showing ==
    LET played == blinks * Len(blinkList) + index
    IN  /\ Ticks > 0 =>
               \/ maxRepeats < 0
               \/ blinks <= maxRepeats + IF tick \in {"endless", "last"} THEN 1 ELSE 0
        /\ tick \in {"next", "bump", "test", "schedule"} \/ (tick = "idle" /\ pending > 0) =>
               index < Len(blinkList) /\ shown = played /\ LedShows(index + 1)
        /\ tick \in {"check", "wrap"} =>
               index \in 1 .. Len(blinkList) /\ shown + 1 = played /\ LedShows(index)
        /\ tick = "wrap" => index = Len(blinkList)
        /\ tick \in {"round", "count"} => shown + 1 = played + Len(blinkList)
        /\ tick \in {"endless", "last", "get", "show"} =>
               index < Len(blinkList) /\ shown + 1 = played
        /\ tick \in {"round", "count", "endless", "last"} =>
               index = 0 /\ LedShows(Len(blinkList))
        /\ tick \in {"bump", "check", "get"} => copy = index
        /\ tick \in {"count", "endless", "last"} => copy = blinks
        /\ tick = "last" => maxRepeats >= 0
        /\ tick = "show" => info = blinkList[index + 1]

InOrder ==
    revokeWaits =>
        /\ Starting => shown = 0
        /\ Starting /\ api # "restart" => blinks = 0
        /\ api \in {"show", "test", "schedule"} => index = 0
        /\ api \in {"test", "schedule"} => LedShows(1)
        /\ Playing => Showing

(* The inductive invariant.                                                *)
IInv ==
    /\ TypeOK
    /\ FlagOfStep
    /\ AtMostTwoTicks
    /\ LastShow
    /\ ReplacedInTick
    /\ GetInRange
    /\ OutOfRangeInSetBlink
    /\ PlaysOn
    /\ TicksOfThePattern
    /\ InRange
    /\ revokeWaits /\ Ticks >= 1 => blinkList # << >> /\ ~Replacing
    /\ InOrder /\ EndsOnLastElement
=============================================================================
