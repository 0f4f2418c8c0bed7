--------------------------- MODULE FrontPanelLeds ---------------------------
(***************************************************************************)
(* helpers/frontpanel.cpp: which LEDs are lit, and what the panel has in   *)
(* mind about them.  Colours and brightness are left out, and the blinking *)
(* that every operation stops is in FrontPanelBlink.                       *)
(*                                                                         *)
(* A box has some of the LEDs only: the device library throws for others,  *)
(* and may throw for any.  An operation ends there and catches it.         *)
(***************************************************************************)
EXTENDS Integers

CONSTANTS
    MaxLedCalls,   \* bound on the operations
    MaxLedFaults   \* bound on the failures of the library for LEDs that are there

ASSUME FrontPanelLedsAssumption == MaxLedCalls \in Nat /\ MaxLedFaults \in Nat

(* RfByPass is a LED like Remote; for the others a switch does nothing.    *)
Leds == {"Message", "Record", "Remote", "Power"}
Kept == {"Message", "Record"}   \* those with a flag

VARIABLES
    ledPresent,   \* the LEDs of the box
    isTV,         \* its profile
    ledUp,        \* the panel is there
    indicators,   \* fpIndicators
    ledPower,     \* powerStatus
    isLedOn,      \* the LEDs whose flag, isMessageLedOn or isRecordLedOn, is set
    lit,          \* the LEDs that are lit
    allOn,        \* how powerOnLed(ALL) went, if it was the last operation and had power
    asked,        \* the kept LEDs last switched on by name, with power
    offed,        \* the LEDs last switched off by name, with success
    ledFaults,
    ledCalls

boxVars == <<ledPresent, isTV>>
lifeVars == <<ledUp, indicators, ledPower>>
askVars == <<asked, offed>>
ledVars == <<boxVars, lifeVars, isLedOn, lit, allOn, askVars, ledFaults, ledCalls>>

LedInit ==
    /\ ledPresent \in SUBSET Leds /\ isTV \in BOOLEAN
    /\ ledUp = FALSE /\ indicators = {} /\ ledPower = FALSE
    /\ isLedOn = {} /\ lit = {} /\ allOn = "none"
    /\ asked = {} /\ offed = {}
    /\ ledFaults = 0 /\ ledCalls = 0

LedCall(up) ==
    /\ ledUp = up
    /\ ledCalls < MaxLedCalls /\ ledCalls' = ledCalls + 1
    /\ UNCHANGED boxVars

Fault == ledFaults < MaxLedFaults /\ ledFaults' = ledFaults + 1
NoFault == UNCHANGED ledFaults

(* The library throws for a LED.                                           *)
Throws(led) == IF led \in ledPresent THEN Fault ELSE NoFault

(* The LEDs that powerOnLed(ALL) switches on before another one.           *)
Before(led) ==
    IF led = "Record" THEN {"Message"} ELSE IF led = "Power" THEN {"Message", "Record"} ELSE {}

(* setState of LEDs in their order, up to the first that throws.           *)
SwitchOn(leds, result) ==
    \/ /\ leds \subseteq ledPresent
       /\ lit' = lit \union leds
       /\ NoFault
       /\ allOn' = result["all"]
    \/ \E led \in leds :
        LET done == leds \intersect Before(led)
        IN  /\ done \subseteq ledPresent
            /\ lit' = lit \union done
            /\ Throws(led)
            /\ allOn' = result[IF led \in ledPresent THEN "fault" ELSE "absent"]

Ignored == [all |-> "none", absent |-> "none", fault |-> "none"]
Reported == [all |-> "true", absent |-> "false", fault |-> "fault"]

(* setState(false) of a set of LEDs that are there, in any order.          *)
SwitchOff(leds) ==
    \E done \in SUBSET leds :
        /\ lit' = lit \ done
        /\ IF done = leds THEN NoFault ELSE Fault

-----------------------------------------------------------------------------
(* The first call of instance in a life.  The list of the LEDs and the     *)
(* power are got, then the brightness of the Power LED, which throws where *)
(* there is none; except on a TV all are switched off; with power, the     *)
(* Power LED is lit.                                                       *)
LightsSet ==
    \E dark \in IF isTV THEN {{}} ELSE SUBSET ledPresent :
        \/ /\ isTV \/ dark = ledPresent
           /\ lit' = IF ledPower' THEN (lit \ dark) \union {"Power"} ELSE lit \ dark
           /\ NoFault
        \/ /\ ~isTV /\ dark = ledPresent => ledPower'
           /\ lit' = lit \ dark
           /\ Fault

LedInstance ==
    /\ LedCall(FALSE)
    /\ ledUp' = TRUE
    /\ \/ UNCHANGED <<indicators, ledPower, lit>> /\ Fault
       \/ /\ indicators' = ledPresent
          /\ ledPower' \in {ledPower, TRUE}
          /\ IF "Power" \in ledPresent THEN LightsSet ELSE UNCHANGED lit /\ NoFault
    /\ allOn' = "none"
    /\ UNCHANGED isLedOn

LedDeinitialize ==
    /\ LedCall(TRUE)
    /\ ledUp' = FALSE /\ allOn' = "none"
    /\ UNCHANGED <<indicators, ledPower, isLedOn, lit, ledFaults>>

Start ==
    /\ LedCall(TRUE)
    /\ IF ledPower THEN SwitchOn({"Power"}, Ignored)
       ELSE allOn' = "none" /\ UNCHANGED <<lit, ledFaults>>
    /\ UNCHANGED <<lifeVars, isLedOn>>

LedPowerStatus(status) ==
    /\ LedCall(TRUE)
    /\ ledPower' = status
    /\ allOn' = "none"
    /\ UNCHANGED <<ledUp, indicators, isLedOn, lit, ledFaults>>

(* Without power a LED is not switched on, and not remembered.             *)
PowerOnLed(led) ==
    /\ LedCall(TRUE)
    /\ IF ledPower
       THEN /\ isLedOn' = isLedOn \union ({led} \intersect Kept)
            /\ SwitchOn({led}, Ignored)
       ELSE allOn' = "none" /\ UNCHANGED <<isLedOn, lit, ledFaults>>
    /\ UNCHANGED lifeVars

(* powerOnLed(ALL); powerOnAllLed and setBrightness, which call it and     *)
(* return true whatever it returns.                                        *)
PowerOnAll ==
    /\ LedCall(TRUE)
    /\ IF ledPower
       THEN SwitchOn(isLedOn \union {"Power"}, Reported)
       ELSE allOn' = "none" /\ UNCHANGED <<lit, ledFaults>>
    /\ UNCHANGED <<lifeVars, isLedOn>>

(* The flag is cleared first, and whatever the power is.                   *)
PowerOffLed(led) ==
    /\ LedCall(TRUE)
    /\ isLedOn' = isLedOn \ {led}
    /\ \/ led \in ledPresent /\ lit' = lit \ {led} /\ NoFault
       \/ UNCHANGED lit /\ Throws(led)
    /\ allOn' = "none"
    /\ UNCHANGED lifeVars

(* Mutant: the flags are cleared as for a single LED.                      *)
PowerOffAllForgets ==
    /\ LedCall(TRUE)
    /\ SwitchOff(indicators)
    /\ allOn' = "none" /\ isLedOn' = {}
    /\ UNCHANGED lifeVars

(* powerOffLed(ALL); powerOffAllLed.  The flags stay.                      *)
PowerOffAll ==
    /\ LedCall(TRUE)
    /\ SwitchOff(indicators)
    /\ allOn' = "none"
    /\ UNCHANGED <<lifeVars, isLedOn>>

-----------------------------------------------------------------------------
(* The operations with what the callers have asked for.                    *)
LedNext ==
    \/ /\ \/ LedInstance \/ LedDeinitialize \/ Start \/ PowerOnAll \/ PowerOffAll
          \/ \E status \in BOOLEAN : LedPowerStatus(status)
       /\ UNCHANGED askVars
    \/ \E led \in Leds :
        /\ PowerOnLed(led)
        /\ asked' = IF ledPower THEN asked \union ({led} \intersect Kept) ELSE asked
        /\ offed' = IF ledPower THEN offed \ {led} ELSE offed
    \/ \E led \in Leds :
        /\ PowerOffLed(led)
        /\ asked' = asked \ {led}
        /\ offed' = IF led \in lit' THEN offed ELSE offed \union {led}

LedSpec == LedInit /\ [][LedNext]_ledVars

-----------------------------------------------------------------------------
(* powerOnLed(ALL) brings back, besides the Power LED, the Message and     *)
(* Record LEDs that have been asked for, through powerOffLed(ALL), new     *)
(* panels and changes of the power; it returns false only for a failure or *)
(* because one of these is not in the box, so that a request for a missing *)
(* LED is remembered and makes every later call fail.  A LED switched off  *)
(* by name, other than Power, is lit again by name only.                   *)
LedsRestored ==
    /\ allOn = "true" => asked \union {"Power"} \subseteq lit
    /\ allOn = "false" <=> allOn # "none" /\ allOn # "fault"
                           /\ ~ (asked \union {"Power"} \subseteq ledPresent)
    /\ lit \intersect offed \subseteq {"Power"}

(* The inductive invariant: the flags are what has been asked for, a LED   *)
(* that was switched off has none, and only LEDs of the box are lit.       *)
LedIInv ==
    /\ ledPresent \subseteq Leds /\ isTV \in BOOLEAN
    /\ ledUp \in BOOLEAN /\ ledPower \in BOOLEAN /\ indicators \in {{}, ledPresent}
    /\ allOn \in {"none", "true", "false", "fault"}
    /\ ledFaults \in 0 .. MaxLedFaults /\ ledCalls \in 0 .. MaxLedCalls
    /\ asked = isLedOn /\ isLedOn \subseteq Kept
    /\ offed \subseteq Leds /\ offed \intersect isLedOn = {}
    /\ lit \subseteq ledPresent
    /\ LedsRestored
=============================================================================
