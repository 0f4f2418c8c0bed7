-------------------------- MODULE FrontPanelProofs ----------------------------
(***************************************************************************)
(* Theorems about the front panel, checked by TLAPS: the blinking, for     *)
(* every set of patterns and every number of operations; the LEDs that are *)
(* lit, for every box; the panel object and its reference to the power     *)
(* manager, for every set of threads.                                      *)
(***************************************************************************)
EXTENDS FrontPanelBlink, FrontPanelLeds, PanelInstance, SequenceTheorems, FiniteSetTheorems,
        TLAPS

(* The numbers of a well-typed state.                                      *)
LEMMA Numbers ==
  ASSUME TypeOK
  PROVE  /\ blinks \in Nat /\ maxRepeats \in Int /\ index \in Nat /\ pending \in Nat
         /\ shown \in Nat /\ copy \in Nat /\ Len(blinkList) \in Nat
         /\ blinkList = << >> <=> Len(blinkList) = 0
  BY LenProperties, EmptySeq DEF TypeOK

-----------------------------------------------------------------------------
(* Every step keeps the types.                                             *)
LEMMA TypeStep == TypeOK /\ FlagOfStep /\ [Next]_vars => TypeOK'
<1> SUFFICES ASSUME TypeOK, FlagOfStep, [Next]_vars PROVE TypeOK'
  OBVIOUS
<1> USE FrontPanelBlinkAssumption
<1>1. CASE Operation
  BY <1>1 DEF Operation, Begin, TypeOK, playVars
<1>2. ASSUME NEW p \in Patterns, NEW r \in Repeats, SetBlink(p, r)
      PROVE  TypeOK'
  BY <1>2 DEF SetBlink, Begin, TypeOK, playVars
<1>3. CASE ApiStep
  <2> USE <1>3 DEF TypeOK, playVars, argVars
  <2>1. CASE Stop
    BY <2>1 DEF Stop, ApiStep
  <2>2. CASE Revoke
    BY <2>2 DEF Revoke, ApiStep
  <2>3. CASE Write
    BY <2>3 DEF Write, ApiStep
  <2>4. CASE Delete
    BY <2>4 DEF Delete, ApiStep
  <2>5. CASE Clear
    BY <2>5 DEF Clear, ApiStep
  <2>6. CASE Push
    <3>1. blinkList' \in Seq(Elements)
      <4>1. CASE Len(blinkList) < Len(pattern)
        <5>1. pattern[Len(blinkList) + 1] \in Elements
          BY <4>1, LenProperties, ElementOfSeq DEF ApiStep
        <5> QED BY <2>6, <4>1, <5>1, AppendProperties DEF Push
      <4>2. CASE ~(Len(blinkList) < Len(pattern))
        BY <2>6, <4>2 DEF Push
      <4> QED BY <4>1, <4>2
    <3> QED BY <2>6, <3>1 DEF Push, ApiStep
  <2>7. CASE Restart
    BY <2>7 DEF Restart, ApiStep
  <2>8. CASE SetFlag
    BY <2>8 DEF SetFlag, ApiStep
  <2>9. CASE Limit
    BY <2>9 DEF Limit, ApiStep
  <2>10. CASE First
    BY <2>10 DEF First, ApiStep
  <2>11. CASE Show
    <3>1. blinkList # << >>
      BY <2>11 DEF Show, FlagOfStep
    <3>2. blinkList[1] \in Elements
      BY <3>1, LenProperties, EmptySeq, ElementOfSeq
    <3> QED BY <2>11, <3>2 DEF Show, ApiStep
  <2>12. CASE Test
    BY <2>12 DEF Test, ApiStep
  <2>13. CASE Schedule
    BY <2>13 DEF Schedule, ApiStep
  <2> QED BY <2>1, <2>2, <2>3, <2>4, <2>5, <2>6, <2>7, <2>8, <2>9, <2>10, <2>11, <2>12, <2>13
          DEF ApiStep
<1>4. CASE TickStep
  <2> USE <1>4 DEF TypeOK, argVars
  <2>1. CASE Due
    BY <2>1 DEF Due, TickStep
  <2>2. CASE NextElement
    BY <2>2 DEF NextElement, TickStep
  <2>3. CASE Check
    BY <2>3 DEF Check, TickStep
  <2>4. CASE Get
    <3>1. \A i \in Nat : i < Len(blinkList) => blinkList[i + 1] \in Elements
      BY LenProperties, ElementOfSeq
    <3>2. PICK i \in {index, copy} :
             IF i < Len(blinkList)
             THEN info' = blinkList[i + 1] /\ tick' = "show" /\ UNCHANGED outOfRange
             ELSE outOfRange' = TRUE /\ UNCHANGED <<info, tick>>
      BY <2>4 DEF Get
    <3>3. i \in Nat
      OBVIOUS
    <3>4. info' \in Elements \union {Steady} /\ outOfRange' \in BOOLEAN
      <4>1. CASE i < Len(blinkList)
        BY <3>1, <3>2, <3>3, <4>1
      <4>2. CASE ~(i < Len(blinkList))
        BY <3>2, <4>2
      <4> QED BY <4>1, <4>2
    <3>5. tick' \in {"show", "get"}
      BY <2>4, <3>2 DEF Get
    <3>6. /\ copy' = 0
          /\ UNCHANGED <<blinks, index, pending, led, shown>>
      BY <2>4 DEF Get
    <3> QED BY <3>4, <3>5, <3>6 DEF TickStep
  <2>5. CASE ShowElement
    BY <2>5 DEF ShowElement, TickStep
  <2>6. CASE TestBlinking
    BY <2>6 DEF TestBlinking, TickStep
  <2>7. CASE ScheduleNext
    BY <2>7 DEF ScheduleNext, TickStep
  <2>8. CASE Bump
    BY <2>8 DEF Bump, TickStep
  <2>9. CASE Wrap
    BY <2>9 DEF Wrap, TickStep
  <2>10. CASE Round \/ Count
    BY <2>10 DEF Round, Count, TickStep
  <2>11. CASE TestEndless \/ TestRounds
    BY <2>11 DEF TestEndless, TestRounds, TickStep
  <2> QED BY <2>1, <2>2, <2>3, <2>4, <2>5, <2>6, <2>7, <2>8, <2>9, <2>10, <2>11 DEF TickStep
<1>5. CASE UNCHANGED vars
  BY <1>5 DEF vars, playVars, argVars, TypeOK
<1> QED BY <1>1, <1>2, <1>3, <1>4, <1>5 DEF Next

-----------------------------------------------------------------------------
(* What IInv says besides the types: the ticks that are to come, and where *)
(* in the list the one under way is.                                       *)
Chains ==
    /\ FlagOfStep
    /\ AtMostTwoTicks
    /\ LastShow
    /\ TicksOfThePattern
    /\ revokeWaits /\ Ticks >= 1 => blinkList # << >> /\ ~Replacing

Places ==
    /\ ReplacedInTick
    /\ GetInRange
    /\ OutOfRangeInSetBlink
    /\ PlaysOn
    /\ InRange

(* Every step keeps the former.                                            *)
LEMMA ChainsStep == TypeOK /\ Chains /\ Places /\ [Next]_vars => Chains'
<1> SUFFICES ASSUME TypeOK, Chains, Places, [Next]_vars PROVE Chains'
  OBVIOUS
<1>0. /\ blinks \in Nat /\ maxRepeats \in Int /\ index \in Nat /\ pending \in Nat
      /\ shown \in Nat /\ copy \in Nat /\ Len(blinkList) \in Nat
      /\ blinkList = << >> <=> Len(blinkList) = 0
      /\ after \in {"idle", "clear", "restart", "write", "delete"}
      /\ replaced \in BOOLEAN
  BY Numbers DEF TypeOK
<1> USE <1>0 DEF Chains, AtMostTwoTicks, LastShow,
         FlagOfStep, TicksOfThePattern, Ticks, Stopped, Starting, Replacing, playVars
<1>1. CASE Operation
  BY <1>1 DEF Operation, Begin
<1>2. ASSUME NEW p \in Patterns, NEW r \in Repeats, SetBlink(p, r)
      PROVE  Chains'
  BY <1>2 DEF SetBlink, Begin
<1>3. CASE ApiStep
  <2>1. CASE Stop
    BY <1>3, <2>1 DEF Stop, ApiStep
  <2>2. CASE Revoke
    BY <1>3, <2>2 DEF Revoke, ApiStep
  <2>3. CASE Write
    BY <1>3, <2>3 DEF Write, ApiStep
  <2>4. CASE Delete
    BY <1>3, <2>4 DEF Delete, ApiStep
  <2>5. CASE Clear
    BY <1>3, <2>5 DEF Clear, ApiStep
  <2>6. CASE Push
    BY <1>3, <2>6 DEF Push, ApiStep
  <2>7. CASE Restart
    BY <1>3, <2>7 DEF Restart, ApiStep
  <2>8. CASE SetFlag
    BY <1>3, <2>8 DEF SetFlag, ApiStep
  <2>9. CASE Limit
    BY <1>3, <2>9 DEF Limit, ApiStep
  <2>10. CASE First
    BY <1>3, <2>10 DEF First, ApiStep
  <2>11. CASE Show
    BY <1>3, <2>11 DEF Show, ApiStep
  <2>12. CASE Test
    BY <1>3, <2>12 DEF Test, ApiStep
  <2>13. CASE Schedule
    BY <1>3, <2>13 DEF Schedule, ApiStep
  <2> QED BY <1>3, <2>1, <2>2, <2>3, <2>4, <2>5, <2>6, <2>7, <2>8, <2>9, <2>10, <2>11, <2>12,
             <2>13 DEF ApiStep
<1>4. CASE TickStep
  <2>1. CASE Due
    BY <1>4, <2>1 DEF Due, TickStep
  <2>2. CASE NextElement
    BY <1>4, <2>2 DEF NextElement, TickStep
  <2>3. CASE Bump
    BY <1>4, <2>3 DEF Bump, TickStep
  <2>4. CASE Check
    BY <1>4, <2>4 DEF Check, TickStep
  <2>5. CASE Wrap
    BY <1>4, <2>5 DEF Wrap, TickStep
  <2>6. CASE Round
    BY <1>4, <2>6 DEF Round, TickStep
  <2>7. CASE Count
    BY <1>4, <2>7 DEF Count, TickStep
  <2>8. CASE TestEndless
    BY <1>4, <2>8 DEF TestEndless, TickStep
  <2>9. CASE TestRounds
    BY <1>4, <2>9 DEF TestRounds, TickStep
  <2>10. CASE Get
    BY <1>4, <2>10 DEF Get, TickStep
  <2>11. CASE ShowElement
    BY <1>4, <2>11 DEF ShowElement, TickStep
  <2>12. CASE TestBlinking
    BY <1>4, <2>12 DEF TestBlinking, TickStep
  <2>13. CASE ScheduleNext
    BY <1>4, <2>13 DEF ScheduleNext, TickStep
  <2> QED BY <1>4, <2>1, <2>2, <2>3, <2>4, <2>5, <2>6, <2>7, <2>8, <2>9, <2>10, <2>11, <2>12,
             <2>13 DEF TickStep
<1>5. CASE UNCHANGED vars
  BY <1>5 DEF vars, argVars
<1> QED BY <1>1, <1>2, <1>3, <1>4, <1>5 DEF Next

(* Every step keeps the latter.                                            *)
LEMMA PlacesStep == TypeOK /\ Chains /\ Places /\ [Next]_vars => Places'
<1> SUFFICES ASSUME TypeOK, Chains, Places, [Next]_vars PROVE Places'
  OBVIOUS
<1>0. /\ blinks \in Nat /\ maxRepeats \in Int /\ index \in Nat /\ pending \in Nat
      /\ shown \in Nat /\ copy \in Nat /\ Len(blinkList) \in Nat
      /\ blinkList = << >> <=> Len(blinkList) = 0
      /\ after \in {"idle", "clear", "restart", "write", "delete"}
      /\ replaced \in BOOLEAN
  BY Numbers DEF TypeOK
<1> USE <1>0 DEF Chains, Places, ReplacedInTick, GetInRange, OutOfRangeInSetBlink, PlaysOn, InRange,
         FlagOfStep, TicksOfThePattern, Ticks, Stopped, Starting, Replacing, playVars
<1>1. CASE Operation
  BY <1>1 DEF Operation, Begin
<1>2. ASSUME NEW p \in Patterns, NEW r \in Repeats, SetBlink(p, r)
      PROVE  Places'
  BY <1>2 DEF SetBlink, Begin
<1>3. CASE ApiStep
  <2>1. CASE Stop
    BY <1>3, <2>1 DEF Stop, ApiStep
  <2>2. CASE Revoke
    BY <1>3, <2>2 DEF Revoke, ApiStep
  <2>3. CASE Write
    BY <1>3, <2>3 DEF Write, ApiStep
  <2>4. CASE Delete
    BY <1>3, <2>4 DEF Delete, ApiStep
  <2>5. CASE Clear
    <3>0. tick = "idle" \/ ~revokeWaits
      BY <2>5 DEF Clear
    <3>1. ReplacedInTick'
      BY <1>3, <2>5, <3>0 DEF Clear, ApiStep
    <3>2. GetInRange'
      BY <1>3, <2>5, <3>0 DEF Clear, ApiStep
    <3>3. OutOfRangeInSetBlink' /\ InRange'
      BY <1>3, <2>5, <3>0 DEF Clear, ApiStep
    <3>4. PlaysOn'
      BY <1>3, <2>5, <3>0 DEF Clear, ApiStep
    <3> QED BY <3>1, <3>2, <3>3, <3>4
  <2>6. CASE Push
    BY <1>3, <2>6 DEF Push, ApiStep
  <2>7. CASE Restart
    BY <1>3, <2>7 DEF Restart, ApiStep
  <2>8. CASE SetFlag
    BY <1>3, <2>8 DEF SetFlag, ApiStep
  <2>9. CASE Limit
    BY <1>3, <2>9 DEF Limit, ApiStep
  <2>10. CASE First
    BY <1>3, <2>10 DEF First, ApiStep
  <2>11. CASE Show
    BY <1>3, <2>11 DEF Show, ApiStep
  <2>12. CASE Test
    BY <1>3, <2>12 DEF Test, ApiStep
  <2>13. CASE Schedule
    BY <1>3, <2>13 DEF Schedule, ApiStep
  <2> QED BY <1>3, <2>1, <2>2, <2>3, <2>4, <2>5, <2>6, <2>7, <2>8, <2>9, <2>10, <2>11, <2>12,
             <2>13 DEF ApiStep
<1>4. CASE TickStep
  <2>1. CASE Due
    <3>1. ReplacedInTick'
      <4>1. /\ tick = "idle" /\ Ticks >= 1 /\ Replacing' = Replacing
            /\ UNCHANGED <<api, revokeWaits>>
        BY <1>4, <2>1 DEF Due, TickStep
      <4>2. replaced' => Replacing
        BY <1>4, <2>1, <4>1 DEF Due, TickStep
      <4>3. tick' # "idle" /\ (Replacing => replaced')
        BY <1>4, <2>1, <4>1 DEF Due, TickStep
      <4>4. Replacing => api # "idle" /\ ~revokeWaits
        BY <4>1
      <4> QED BY <4>1, <4>2, <4>3, <4>4
    <3>2. GetInRange'
      BY <1>4, <2>1 DEF Due, TickStep
    <3>3. OutOfRangeInSetBlink' /\ InRange'
      BY <1>4, <2>1 DEF Due, TickStep
    <3>4. PlaysOn'
      BY <1>4, <2>1 DEF Due, TickStep
    <3> QED BY <3>1, <3>2, <3>3, <3>4
  <2>2. CASE NextElement
    BY <1>4, <2>2 DEF NextElement, TickStep
  <2>3. CASE Bump
    BY <1>4, <2>3 DEF Bump, TickStep
  <2>4. CASE Check
    BY <1>4, <2>4 DEF Check, TickStep
  <2>5. CASE Wrap
    BY <1>4, <2>5 DEF Wrap, TickStep
  <2>6. CASE Round
    BY <1>4, <2>6 DEF Round, TickStep
  <2>7. CASE Count
    BY <1>4, <2>7 DEF Count, TickStep
  <2>8. CASE TestEndless
    BY <1>4, <2>8 DEF TestEndless, TickStep
  <2>9. CASE TestRounds
    <3>1. ReplacedInTick'
      BY <1>4, <2>9 DEF TestRounds, TickStep
    <3>2. GetInRange'
      BY <1>4, <2>9 DEF TestRounds, TickStep
    <3>3. OutOfRangeInSetBlink' /\ InRange'
      <4>1. ~outOfRange'
        BY <1>4, <2>9 DEF TestRounds, TickStep
      <4> QED BY <4>1
    <3>4. PlaysOn'
      <4>1. /\ UNCHANGED <<isBlinking, api, blinkList, maxRepeats, blinks, pending>>
            /\ tick = "last" /\ ((copy = blinks /\ maxRepeats >= 0) \/ replaced)
            /\ \E n \in {blinks, copy} : tick' = IF n <= maxRepeats THEN "get" ELSE "idle"
        BY <1>4, <2>9 DEF TestRounds, TickStep
      <4>2. SUFFICES ASSUME isBlinking, api = "idle", blinkList # << >>, pending = 0
                     PROVE  Ticks' >= 1 \/ (0 <= maxRepeats /\ maxRepeats < blinks)
        BY <4>1
      <4>3. copy = blinks /\ maxRepeats >= 0
        BY <4>1, <4>2
      <4>4. CASE blinks <= maxRepeats
        BY <4>1, <4>3, <4>4
      <4>5. CASE maxRepeats < blinks
        BY <4>3, <4>5
      <4> QED BY <4>4, <4>5
    <3> QED BY <3>1, <3>2, <3>3, <3>4
  <2>10. CASE Get
    BY <1>4, <2>10 DEF Get, TickStep
  <2>11. CASE ShowElement
    BY <1>4, <2>11 DEF ShowElement, TickStep
  <2>12. CASE TestBlinking
    BY <1>4, <2>12 DEF TestBlinking, TickStep
  <2>13. CASE ScheduleNext
    <3>1. ReplacedInTick'
      BY <1>4, <2>13 DEF ScheduleNext, TickStep
    <3>2. GetInRange'
      BY <1>4, <2>13 DEF ScheduleNext, TickStep
    <3>3. OutOfRangeInSetBlink' /\ InRange'
      BY <1>4, <2>13 DEF ScheduleNext, TickStep
    <3>4. PlaysOn'
      BY <1>4, <2>13 DEF ScheduleNext, TickStep
    <3> QED BY <3>1, <3>2, <3>3, <3>4
  <2> QED BY <1>4, <2>1, <2>2, <2>3, <2>4, <2>5, <2>6, <2>7, <2>8, <2>9, <2>10, <2>11, <2>12,
             <2>13 DEF TickStep
<1>5. CASE UNCHANGED vars
  BY <1>5 DEF vars, argVars
<1> QED BY <1>1, <1>2, <1>3, <1>4, <1>5 DEF Next

-----------------------------------------------------------------------------
(* Every step keeps the order of the elements, where Revoke waits.         *)
LEMMA OrderStep ==
  TypeOK /\ Chains /\ Places /\ InOrder /\ EndsOnLastElement /\ [Next]_vars
      => InOrder' /\ EndsOnLastElement'
<1> SUFFICES ASSUME TypeOK, Chains, Places, InOrder, EndsOnLastElement, [Next]_vars
             PROVE  InOrder' /\ EndsOnLastElement'
  OBVIOUS
<1>0. /\ blinks \in Nat /\ maxRepeats \in Int /\ index \in Nat /\ pending \in Nat
      /\ shown \in Nat /\ copy \in Nat /\ Len(blinkList) \in Nat
      /\ blinkList = << >> <=> Len(blinkList) = 0
      /\ after \in {"idle", "clear", "restart", "write", "delete"}
  BY Numbers DEF TypeOK
<1>1. revokeWaits' = revokeWaits
  BY DEF Next, Operation, SetBlink, Begin, ApiStep, TickStep, vars
<1>2. CASE ~revokeWaits
  BY <1>1, <1>2 DEF InOrder, EndsOnLastElement
<1>3. CASE revokeWaits
  <2> USE <1>0, <1>3 DEF InOrder, EndsOnLastElement, Playing, Showing, LedShows, Starting, Ticks,
              playVars
  <2>1. CASE Operation
    BY <2>1 DEF Operation, Begin
  <2>2. ASSUME NEW p \in Patterns, NEW r \in Repeats, SetBlink(p, r)
        PROVE  InOrder' /\ EndsOnLastElement'
    BY <2>2 DEF SetBlink, Begin
  <2>3. CASE ApiStep
    <3> USE <2>3 DEF ApiStep
    <3>1. CASE Stop
      BY <3>1 DEF Stop
    <3>2. CASE Revoke
      BY <3>2 DEF Revoke, Chains, FlagOfStep
    <3>3. CASE Write
      BY <3>3 DEF Write, Chains, FlagOfStep
    <3>4. CASE Delete
      BY <3>4 DEF Delete
    <3>5. CASE Clear
      BY <3>5 DEF Clear
    <3>6. CASE Push
      BY <3>6 DEF Push
    <3>7. CASE Restart
      BY <3>7 DEF Restart
    <3>8. CASE SetFlag
      BY <3>8 DEF SetFlag
    <3>9. CASE Limit
      BY <3>9 DEF Limit
    <3>10. CASE First
      BY <3>10 DEF First
    <3>11. CASE Show
      BY <3>11 DEF Show
    <3>12. CASE Test
      BY <3>12 DEF Test, Chains, FlagOfStep
    <3>13. CASE Schedule
      BY <3>13 DEF Schedule, Chains, FlagOfStep, TicksOfThePattern
    <3> QED BY <3>1, <3>2, <3>3, <3>4, <3>5, <3>6, <3>7, <3>8, <3>9, <3>10, <3>11, <3>12, <3>13
  <2>4. CASE TickStep
    <3> USE <2>4 DEF TickStep
    <3>0. ~Starting /\ Ticks <= 1 /\ (tick # "idle" => pending = 0)
      BY DEF Chains, TicksOfThePattern, Due, NextElement, Bump, Check, Wrap, Round, Count,
             TestEndless, TestRounds, Get, ShowElement, TestBlinking, ScheduleNext
    <3>1. CASE Due
      BY <3>0, <3>1 DEF Due
    <3>2. CASE NextElement
      BY <3>0, <3>2 DEF NextElement
    <3>3. CASE Check
      BY <3>0, <3>3 DEF Check
    <3>4. CASE Get
      BY <3>0, <3>4 DEF Get
    <3>5. CASE ShowElement
      BY <3>0, <3>5 DEF ShowElement
    <3>6. CASE TestBlinking
      BY <3>0, <3>6 DEF TestBlinking
    <3>7. CASE ScheduleNext
      BY <3>0, <3>7 DEF ScheduleNext
    <3>8. CASE Bump
      BY <3>0, <3>8 DEF Bump
    <3>9. CASE Wrap
      BY <3>0, <3>9 DEF Wrap
    <3>10. CASE Round
      BY <3>0, <3>10 DEF Round
    <3>11. CASE Count
      BY <3>0, <3>11 DEF Count
    <3>12. CASE TestEndless
      BY <3>0, <3>12 DEF TestEndless
    <3>13. CASE TestRounds
      BY <3>0, <3>13 DEF TestRounds
    <3> QED BY <3>1, <3>2, <3>3, <3>4, <3>5, <3>6, <3>7, <3>8, <3>9, <3>10, <3>11, <3>12, <3>13
  <2>5. CASE UNCHANGED vars
    BY <2>5 DEF vars, argVars
  <2> QED BY <2>1, <2>2, <2>3, <2>4, <2>5 DEF Next
<1> QED BY <1>2, <1>3

(* Nothing blinks at the start.                                            *)
LEMMA InitOK == Init => TypeOK /\ Chains /\ Places
<1> SUFFICES ASSUME Init PROVE TypeOK /\ Chains /\ Places
  OBVIOUS
<1>1. TypeOK
  <2>1. << >> \in Seq(Elements) /\ 0 \in 0 .. MaxCalls
    BY EmptySeq, FrontPanelBlinkAssumption
  <2>2. /\ blinkList \in Seq(Elements) /\ pattern \in Seq(Elements)
        /\ calls \in 0 .. MaxCalls
    BY <2>1 DEF Init
  <2>3. revokeWaits \in BOOLEAN /\ isBlinking \in BOOLEAN /\ outOfRange \in BOOLEAN
    BY DEF Init
  <2>4. /\ blinks \in Nat /\ maxRepeats \in Int /\ index \in Nat /\ pending \in Nat
        /\ repeats \in Int /\ shown \in Nat /\ copy \in Nat
    BY DEF Init
  <2>5. /\ led \in Elements \union {Steady, Unsure} /\ info \in Elements \union {Steady}
        /\ api = "idle" /\ after = "idle" /\ tick = "idle" /\ replaced = FALSE
    BY DEF Init
  <2> QED BY <2>2, <2>3, <2>4, <2>5 DEF TypeOK
<1>2. Chains /\ Places
  BY DEF Init, Chains, Places, FlagOfStep, AtMostTwoTicks, LastShow, ReplacedInTick, GetInRange,
         OutOfRangeInSetBlink, PlaysOn, TicksOfThePattern, InRange, Ticks, Stopped,
         Starting, Replacing
<1> QED BY <1>1, <1>2

(* The pattern is in order at the start.                                   *)
LEMMA InitOrder == Init => InOrder /\ EndsOnLastElement
BY DEF Init, InOrder, EndsOnLastElement, Playing, Showing, LedShows, Starting, Ticks

(* Every state is well typed.                                              *)
THEOREM BlinkTypes == Spec => []TypeOK
<1>1. Chains => FlagOfStep
  BY DEF Chains
<1> QED BY <1>1, InitOK, TypeStep, ChainsStep, PlacesStep, PTL DEF Spec

(* The inductive invariant holds for every set of patterns.                *)
THEOREM BlinkInvariance == Spec => []IInv
<1>1. TypeOK /\ Chains /\ Places /\ InOrder /\ EndsOnLastElement => IInv
  BY DEF Chains, Places, IInv
<1>2. Chains => FlagOfStep
  BY DEF Chains
<1> QED BY <1>1, <1>2, InitOK, InitOrder, TypeStep, ChainsStep, PlacesStep, OrderStep, PTL DEF Spec

(* However often setBlink is called, at most two ticks of it are pending.  *)
THEOREM TwoTicks == Spec => []AtMostTwoTicks
<1>1. IInv => AtMostTwoTicks
  BY DEF IInv
<1> QED BY <1>1, BlinkInvariance, PTL

(* At most one element is shown after the blinking has been stopped.       *)
THEOREM StopStops == Spec => []OneElementAfterStop
<1>1. IInv => OneElementAfterStop
  <2> SUFFICES ASSUME IInv, Stopped PROVE Ticks <= 1 /\ shown <= 1
    BY DEF OneElementAfterStop
  <2>1. TypeOK /\ LastShow
    BY DEF IInv
  <2> QED BY <2>1, Numbers DEF LastShow, Ticks
<1> QED BY <1>1, BlinkInvariance, PTL

(* The list is overrun only while setBlink replaces it.                    *)
THEOREM OverrunInSetBlink == Spec => []OutOfRangeInSetBlink
<1>1. IInv => OutOfRangeInSetBlink
  BY DEF IInv
<1> QED BY <1>1, BlinkInvariance, PTL

(* A pattern that blinks is never lost.                                    *)
THEOREM PatternPlaysOn == Spec => []PlaysOn
<1>1. IInv => PlaysOn
  BY DEF IInv
<1> QED BY <1>1, BlinkInvariance, PTL

(* With a Revoke that waits for the callback, a stopped pattern has no     *)
(* tick, a pattern has one, and the list is never overrun.                 *)
THEOREM WaitingRevokeIsEnough == Spec => []TicksOfThePattern /\ []InRange
<1>1. IInv => TicksOfThePattern /\ InRange
  BY DEF IInv
<1> QED BY <1>1, BlinkInvariance, PTL

(* With such a Revoke, a pattern that is over has been played exactly as   *)
(* often as setBlink was asked to, and leaves its last element on the LED. *)
THEOREM LastElementStays == Spec => []EndsOnLastElement
<1>1. IInv => EndsOnLastElement
  BY DEF IInv
<1> QED BY <1>1, BlinkInvariance, PTL

-----------------------------------------------------------------------------
(* Which LEDs are lit: FrontPanelLeds.                                     *)

(* Before names LEDs that have a flag, and not Power.                      *)
LEMMA BeforeKept == \A x \in Leds : Before(x) \subseteq Kept
BY DEF Before, Kept, Leds

(* What switching on LEDs does, whichever of them throws.                  *)
LEMMA SwitchOnEffect ==
  ASSUME NEW leds, leds \subseteq Leds, NEW result, LedIInv, SwitchOn(leds, result)
  PROVE  /\ lit' \subseteq lit \union leds
         /\ lit' \subseteq ledPresent
         /\ allOn' \in {result["all"], result["absent"], result["fault"]}
         /\ leds \subseteq ledPresent =>
               \/ allOn' = result["all"] /\ leds \subseteq lit'
               \/ allOn' = result["fault"]
         /\ ~(leds \subseteq ledPresent) => allOn' \in {result["absent"], result["fault"]}
         /\ ledFaults' \in 0 .. MaxLedFaults
BY FrontPanelLedsAssumption DEF SwitchOn, LedIInv, Throws, Fault, NoFault

LEMMA IgnoredResults ==
  Ignored["all"] = "none" /\ Ignored["absent"] = "none" /\ Ignored["fault"] = "none"
BY DEF Ignored

(* A call is counted, and a failure, if there is one.                      *)
LEMMA LedCounts ==
  ASSUME LedIInv, NEW up, LedCall(up)
  PROVE  /\ ledCalls' \in 0 .. MaxLedCalls
         /\ NoFault \/ Fault => ledFaults' \in 0 .. MaxLedFaults
BY FrontPanelLedsAssumption DEF LedIInv, LedCall, NoFault, Fault

(* An operation without a result that may light the Power LED only.        *)
LEMMA LedQuiet ==
  ASSUME LedIInv, UNCHANGED <<boxVars, isLedOn, askVars>>,
         ledUp' \in BOOLEAN, ledPower' \in BOOLEAN, indicators' \in {{}, ledPresent},
         ledFaults' \in 0 .. MaxLedFaults, ledCalls' \in 0 .. MaxLedCalls,
         lit' \subseteq ledPresent, lit' \subseteq lit \union {"Power"}, allOn' = "none"
  PROVE  LedIInv'
<1>1. UNCHANGED <<ledPresent, isTV, isLedOn, asked, offed>>
  BY DEF boxVars, askVars
<1>2. lit' \intersect offed \subseteq {"Power"}
  BY DEF LedIInv, LedsRestored
<1>3. LedsRestored'
  BY <1>1, <1>2 DEF LedsRestored
<1> QED BY <1>1, <1>3 DEF LedIInv

(* Every operation keeps the invariant, with what its callers asked for.   *)
LEMMA LedStep == LedIInv /\ [LedNext]_ledVars => LedIInv'
<1> SUFFICES ASSUME LedIInv, [LedNext]_ledVars PROVE LedIInv'
  OBVIOUS
<1> USE FrontPanelLedsAssumption
<1>1. CASE LedInstance /\ UNCHANGED askVars
  <2>1. \/ lit' = lit
        \/ /\ "Power" \in ledPresent
           /\ \E dark : lit' = (lit \ dark) \union {"Power"} \/ lit' = lit \ dark
    <3>1. CASE LightsSet /\ "Power" \in ledPresent
      BY <3>1, Zenon DEF LightsSet
    <3>2. CASE lit' = lit
      BY <3>2
    <3> QED BY <1>1, <3>1, <3>2 DEF LedInstance
  <2>3. lit' \subseteq lit \union {"Power"} /\ lit' \subseteq ledPresent
    BY <2>1 DEF LedIInv
  <2>2. NoFault \/ Fault
    BY <1>1, Zenon DEF LedInstance, LightsSet
  <2>4. /\ ledUp' \in BOOLEAN /\ ledPower' \in BOOLEAN /\ indicators' \in {{}, ledPresent}
        /\ allOn' = "none" /\ UNCHANGED isLedOn /\ LedCall(FALSE)
    BY <1>1 DEF LedIInv, LedInstance
  <2>5. UNCHANGED boxVars
    BY <2>4 DEF LedCall
  <2> QED BY <1>1, <2>2, <2>3, <2>4, <2>5, LedCounts, LedQuiet
<1>2. CASE LedDeinitialize /\ UNCHANGED askVars
  <2>1. LedCall(TRUE) /\ UNCHANGED <<boxVars, ledFaults>>
    BY <1>2 DEF LedDeinitialize, LedCall
  <2>2. ledCalls' \in 0 .. MaxLedCalls
    BY <2>1, LedCounts
  <2> QED BY <1>2, <2>1, <2>2, LedQuiet DEF LedDeinitialize, LedIInv
<1>3. CASE Start /\ UNCHANGED askVars
  <2>1. CASE ledPower
    <3>1. SwitchOn({"Power"}, Ignored)
      BY <1>3, <2>1 DEF Start
    <3>2. {"Power"} \subseteq Leds
      BY DEF Leds
    <3>3. /\ lit' \subseteq lit \union {"Power"} /\ lit' \subseteq ledPresent
          /\ allOn' = "none" /\ ledFaults' \in 0 .. MaxLedFaults
      BY <3>1, <3>2, SwitchOnEffect, IgnoredResults
    <3>4. LedCall(TRUE) /\ UNCHANGED <<boxVars, lifeVars, isLedOn>>
      BY <1>3 DEF Start, LedCall
    <3>5. ledCalls' \in 0 .. MaxLedCalls
      BY <3>4, LedCounts
    <3>6. ledUp' \in BOOLEAN /\ ledPower' \in BOOLEAN /\ indicators' \in {{}, ledPresent}
      BY <3>4 DEF LedIInv, lifeVars
    <3> QED BY <1>3, <3>3, <3>4, <3>5, <3>6, LedQuiet
  <2>2. CASE ~ledPower
    BY <1>3, <2>2 DEF LedIInv, Start, LedCall, LedsRestored, boxVars, lifeVars, askVars
  <2> QED BY <2>1, <2>2
<1>4. CASE PowerOnAll /\ UNCHANGED askVars
  <2>1. CASE ledPower
    <3> DEFINE leds == isLedOn \union {"Power"}
    <3>1. SwitchOn(leds, Reported) /\ leds \subseteq Leds
      BY <1>4, <2>1 DEF PowerOnAll, LedIInv, Leds, Kept
    <3>2. /\ lit' \subseteq lit \union leds /\ lit' \subseteq ledPresent
          /\ allOn' \in {"true", "false", "fault"} /\ ledFaults' \in 0 .. MaxLedFaults
          /\ leds \subseteq ledPresent =>
                (allOn' = "true" /\ leds \subseteq lit') \/ allOn' = "fault"
          /\ ~(leds \subseteq ledPresent) => allOn' \in {"false", "fault"}
      BY <3>1, SwitchOnEffect DEF Reported
    <3> QED
      BY <1>4, <3>2 DEF LedIInv, PowerOnAll, LedCall, LedsRestored, boxVars, lifeVars, askVars
  <2>2. CASE ~ledPower
    BY <1>4, <2>2 DEF LedIInv, PowerOnAll, LedCall, LedsRestored, boxVars, lifeVars, askVars
  <2> QED BY <2>1, <2>2
<1>5. CASE PowerOffAll /\ UNCHANGED askVars
  <2>1. PICK done \in SUBSET indicators : lit' = lit \ done /\ (NoFault \/ Fault)
    BY <1>5 DEF PowerOffAll, SwitchOff
  <2> QED
    BY <1>5, <2>1 DEF LedIInv, PowerOffAll, Fault, NoFault, LedCall, LedsRestored, boxVars, lifeVars, askVars
<1>6. ASSUME NEW status \in BOOLEAN, LedPowerStatus(status), UNCHANGED askVars
      PROVE  LedIInv'
  BY <1>6 DEF LedIInv, LedPowerStatus, LedCall, LedsRestored, boxVars, askVars
<1>7. ASSUME NEW x \in Leds, PowerOnLed(x),
             asked' = IF ledPower THEN asked \union ({x} \intersect Kept) ELSE asked,
             offed' = IF ledPower THEN offed \ {x} ELSE offed
      PROVE  LedIInv'
  <2>1. CASE ledPower
    <3>1. SwitchOn({x}, Ignored)
      BY <1>7, <2>1 DEF PowerOnLed
    <3>2. /\ lit' \subseteq lit \union {x} /\ lit' \subseteq ledPresent
          /\ allOn' = "none" /\ ledFaults' \in 0 .. MaxLedFaults
      BY <3>1, SwitchOnEffect, IgnoredResults
    <3>3. LedCall(TRUE) /\ UNCHANGED <<ledPresent, isTV, ledUp, indicators, ledPower>>
      BY <1>7 DEF PowerOnLed, LedCall, boxVars, lifeVars
    <3>4. /\ ledCalls' \in 0 .. MaxLedCalls
          /\ ledUp' \in BOOLEAN /\ ledPower' \in BOOLEAN /\ indicators' \in {{}, ledPresent'}
      BY <3>3, LedCounts DEF LedIInv
    <3>5. /\ asked' = asked \union ({x} \intersect Kept) /\ offed' = offed \ {x}
          /\ isLedOn' = isLedOn \union ({x} \intersect Kept)
      BY <1>7, <2>1 DEF PowerOnLed
    <3>6. LedsRestored'
      BY <3>2, <3>5 DEF LedIInv, LedsRestored
    <3> QED BY <3>2, <3>3, <3>4, <3>5, <3>6 DEF LedIInv
  <2>2. CASE ~ledPower
    BY <1>7, <2>2 DEF LedIInv, PowerOnLed, LedCall, LedsRestored, boxVars, lifeVars
  <2> QED BY <2>1, <2>2
<1>8. ASSUME NEW x \in Leds, PowerOffLed(x),
             asked' = asked \ {x},
             offed' = IF x \in lit' THEN offed ELSE offed \union {x}
      PROVE  LedIInv'
  <2>1. lit' \subseteq lit /\ ledFaults' \in 0 .. MaxLedFaults
    BY <1>8 DEF LedIInv, PowerOffLed, Throws, Fault, NoFault
  <2> QED
    BY <1>8, <2>1 DEF LedIInv, PowerOffLed, LedCall, LedsRestored, boxVars, lifeVars
<1>9. CASE UNCHANGED ledVars
  BY <1>9 DEF LedIInv, LedsRestored, ledVars, boxVars, lifeVars, askVars
<1> QED BY <1>1, <1>2, <1>3, <1>4, <1>5, <1>6, <1>7, <1>8, <1>9 DEF LedNext

(* No LED is lit at the start.                                             *)
LEMMA LedStart == LedInit => LedIInv
<1> SUFFICES ASSUME LedInit PROVE LedIInv
  OBVIOUS
<1>1. /\ ledFaults \in 0 .. MaxLedFaults /\ ledCalls \in 0 .. MaxLedCalls
      /\ ledPresent \subseteq Leds
  BY FrontPanelLedsAssumption DEF LedInit
<1>2. LedsRestored
  BY DEF LedInit, LedsRestored
<1> QED BY <1>1, <1>2 DEF LedInit, LedIInv

(* The flags of the panel are what has been asked for, for every box.      *)
THEOREM LedInvariance == LedSpec => []LedIInv
BY LedStart, LedStep, PTL DEF LedSpec

(* powerOnLed(ALL) brings back the LEDs that have been asked for, and no   *)
(* LED but Power is lit again after it has been switched off by name.      *)
THEOREM AskedLedsComeBack == LedSpec => []LedsRestored
<1>1. LedIInv => LedsRestored
  BY DEF LedIInv
<1> QED BY <1>1, LedInvariance, PTL

-----------------------------------------------------------------------------
(* The panel object and its reference: PanelInstance.                      *)

(* The threads at some of the steps are finitely many, and when one thread *)
(* moves their number changes with it.                                     *)
LEMMA AtCount ==
  ASSUME PanelTypeOK, NEW steps
  PROVE  /\ IsFiniteSet(At(steps)) /\ Cardinality(At(steps)) \in Nat
         /\ At(steps) # {} => Cardinality(At(steps)) >= 1
         /\ At(steps) = {} => Cardinality(At(steps)) = 0
<1>1. IsFiniteSet(At(steps))
  BY PanelInstanceAssumption, FS_Subset DEF At
<1> QED BY <1>1, FS_CardinalityType, FS_EmptySet

LEMMA AtMove ==
  ASSUME PanelTypeOK, NEW t \in Threads, NEW to, pc' = [pc EXCEPT ![t] = to], NEW steps
  PROVE  Cardinality(At(steps))' =
           Cardinality(At(steps)) + (IF to \in steps THEN 1 ELSE 0)
                                  - (IF pc[t] \in steps THEN 1 ELSE 0)
<1>1. IsFiniteSet(At(steps)) /\ Cardinality(At(steps)) \in Nat
  BY AtCount
<1>2. pc[t] \in steps <=> t \in At(steps)
  BY DEF At
<1>3. CASE to \in steps
  <2>1. At(steps)' = At(steps) \union {t}
    BY <1>3 DEF At, PanelTypeOK
  <2>2. Cardinality(At(steps))' = IF t \in At(steps) THEN Cardinality(At(steps)) ELSE Cardinality(At(steps)) + 1
    BY <1>1, <2>1, FS_AddElement, Zenon
  <2> QED BY <1>1, <1>2, <1>3, <2>2
<1>4. CASE to \notin steps
  <2>1. At(steps)' = At(steps) \ {t}
    BY <1>4 DEF At, PanelTypeOK
  <2>2. Cardinality(At(steps))' = IF t \in At(steps) THEN Cardinality(At(steps)) - 1 ELSE Cardinality(At(steps))
    BY <1>1, <2>1, FS_RemoveElement, Zenon
  <2> QED BY <1>1, <1>2, <1>4, <2>2
<1> QED BY <1>3, <1>4

(* So do the references of the threads.                                    *)
Fetched == {t \in Threads : fetched[t]}

LEMMA FetchedCount ==
  ASSUME PanelTypeOK
  PROVE  IsFiniteSet(Fetched) /\ Cardinality(Fetched) \in Nat
BY PanelInstanceAssumption, FS_Subset, FS_CardinalityType DEF Fetched

LEMMA FetchedMove ==
  ASSUME PanelTypeOK, NEW t \in Threads, NEW b \in BOOLEAN,
         fetched' = [fetched EXCEPT ![t] = b]
  PROVE  Cardinality(Fetched)' =
           Cardinality(Fetched) + (IF b THEN 1 ELSE 0) - (IF fetched[t] THEN 1 ELSE 0)
<1>1. IsFiniteSet(Fetched) /\ Cardinality(Fetched) \in Nat
  BY FetchedCount
<1>2. fetched[t] <=> t \in Fetched
  BY DEF Fetched
<1>3. CASE b
  <2>1. Fetched' = Fetched \union {t}
    BY <1>3 DEF Fetched, PanelTypeOK
  <2>2. Cardinality(Fetched)' = IF t \in Fetched THEN Cardinality(Fetched) ELSE Cardinality(Fetched) + 1
    BY <1>1, <2>1, FS_AddElement, Zenon
  <2> QED BY <1>1, <1>2, <1>3, <2>2
<1>4. CASE ~b
  <2>1. Fetched' = Fetched \ {t}
    BY <1>4 DEF Fetched, PanelTypeOK
  <2>2. Cardinality(Fetched)' = IF t \in Fetched THEN Cardinality(Fetched) - 1 ELSE Cardinality(Fetched)
    BY <1>1, <2>1, FS_RemoveElement, Zenon
  <2> QED BY <1>1, <1>2, <1>4, <2>2
<1> QED BY <1>3, <1>4

(* Every step keeps the types.                                             *)
LEMMA PanelTypeStep == PanelTypeOK /\ Pointers /\ [PanelNext]_panelVars => PanelTypeOK'
<1> SUFFICES ASSUME PanelTypeOK, Pointers, [PanelNext]_panelVars PROVE PanelTypeOK'
  OBVIOUS
<1> USE PanelInstanceAssumption DEF PanelTypeOK, Step, PanelCall, objectVars, powerVars, threadVars
<1>1. ASSUME NEW t \in Threads, Instance(t) PROVE PanelTypeOK'
  BY <1>1 DEF Instance
<1>2. ASSUME NEW t \in Threads, Found(t) PROVE PanelTypeOK'
  BY <1>2 DEF Found
<1>3. ASSUME NEW t \in Threads, NotFound(t) PROVE PanelTypeOK'
  BY <1>3 DEF NotFound
<1>4. ASSUME NEW t \in Threads, Assign(t) PROVE PanelTypeOK'
  BY <1>4 DEF Assign
<1>5. ASSUME NEW t \in Threads, TestInstance(t) PROVE PanelTypeOK'
  BY <1>5 DEF TestInstance
<1>6. ASSUME NEW t \in Threads, NewPanel(t) PROVE PanelTypeOK'
  BY <1>6 DEF NewPanel
<1>7. ASSUME NEW t \in Threads, GetPowerState(t) PROVE PanelTypeOK'
  BY <1>7 DEF GetPowerState
<1>8. ASSUME NEW t \in Threads, InitDone(t) PROVE PanelTypeOK'
  BY <1>8 DEF InitDone
<1>9. ASSUME NEW status \in BOOLEAN, SetPowerStatus(status) PROVE PanelTypeOK'
  BY <1>9 DEF SetPowerStatus
<1>10. CASE Deinitialize
  <2>1. references' \in Int /\ live' \subseteq 1 .. made' /\ panel' \in Nat
    BY <1>10 DEF Deinitialize
  <2>2. panelCalls' \in 0 .. MaxPanelCalls
    BY <1>10 DEF Deinitialize
  <2> QED BY <1>10, <2>1, <2>2 DEF Deinitialize
<1>11. CASE DeinitializeNothing
  BY <1>11 DEF DeinitializeNothing
<1>12. CASE UNCHANGED panelVars
  BY <1>12 DEF panelVars
<1>13. ASSUME NEW t \in Threads, AssertFails(t) PROVE PanelTypeOK'
  BY <1>13 DEF AssertFails
<1> QED BY <1>1, <1>2, <1>3, <1>4, <1>5, <1>6, <1>7, <1>8, <1>9, <1>10, <1>11, <1>12,
            <1>13 DEF PanelNext

(* The pointers are those of objects that live, and a life begins with     *)
(* nothing.                                                                *)
LEMMA PointersStep == PanelTypeOK /\ Pointers /\ [PanelNext]_panelVars => Pointers'
<1> SUFFICES ASSUME PanelTypeOK, Pointers, [PanelNext]_panelVars PROVE Pointers'
  OBVIOUS
<1> USE DEF PanelTypeOK, Pointers, At, Inside, Step, PanelCall, objectVars, powerVars, threadVars
<1>1. ASSUME NEW t \in Threads, Instance(t) PROVE Pointers'
  BY <1>1 DEF Instance
<1>2. ASSUME NEW t \in Threads, Found(t) PROVE Pointers'
  BY <1>2 DEF Found
<1>3. ASSUME NEW t \in Threads, NotFound(t) PROVE Pointers'
  BY <1>3 DEF NotFound
<1>4. ASSUME NEW t \in Threads, Assign(t) PROVE Pointers'
  BY <1>4 DEF Assign
<1>5. ASSUME NEW t \in Threads, TestInstance(t) PROVE Pointers'
  BY <1>5 DEF TestInstance
<1>6. ASSUME NEW t \in Threads, NewPanel(t) PROVE Pointers'
  BY <1>6 DEF NewPanel
<1>7. ASSUME NEW t \in Threads, GetPowerState(t) PROVE Pointers'
  BY <1>7 DEF GetPowerState
<1>8. ASSUME NEW t \in Threads, InitDone(t) PROVE Pointers'
  BY <1>8 DEF InitDone
<1>9. ASSUME NEW status \in BOOLEAN, SetPowerStatus(status) PROVE Pointers'
  BY <1>9 DEF SetPowerStatus
<1>10. CASE Deinitialize
  BY <1>10 DEF Deinitialize
<1>11. CASE DeinitializeNothing
  BY <1>11 DEF DeinitializeNothing
<1>12. CASE UNCHANGED panelVars
  BY <1>12 DEF panelVars
<1>13. ASSUME NEW t \in Threads, AssertFails(t) PROVE Pointers'
  BY <1>13 DEF AssertFails
<1> QED BY <1>1, <1>2, <1>3, <1>4, <1>5, <1>6, <1>7, <1>8, <1>9, <1>10, <1>11, <1>12,
            <1>13 DEF PanelNext

(* How many references are held, and how many threads are to assign one    *)
(* and may make a panel.                                                   *)
Holding == Cardinality(Fetched)
Assigning == Cardinality(ToAssign)
Making == Cardinality(ToMake)

LEMMA Counters ==
  ASSUME PanelTypeOK
  PROVE  /\ Holding \in Nat /\ Assigning \in Nat /\ Making \in Nat
         /\ references \in Int /\ overlaps \in Nat /\ ref \in BOOLEAN
         /\ Inside = {} => Assigning = 0 /\ Making = 0
         /\ Owned = Holding + IF ref THEN 1 ELSE 0
<1>1. Inside = {} => ToAssign = {} /\ ToMake = {}
  BY DEF Inside, ToAssign, ToMake, At
<1>2. Owned = Holding + IF ref THEN 1 ELSE 0
  BY DEF Owned, Holding, Fetched
<1>3. Holding \in Nat /\ Assigning \in Nat /\ Making \in Nat
  BY FetchedCount, AtCount DEF Holding, Assigning, Making, ToAssign, ToMake
<1>4. Inside = {} => Assigning = 0 /\ Making = 0
  BY <1>1, FS_EmptySet DEF Assigning, Making
<1> QED BY <1>2, <1>3, <1>4 DEF PanelTypeOK

LEMMA Moves ==
  ASSUME PanelTypeOK, NEW t \in Threads, NEW to, pc' = [pc EXCEPT ![t] = to]
  PROVE  /\ Assigning' = Assigning + (IF to \in {"query", "assign"} THEN 1 ELSE 0)
                                   - (IF pc[t] \in {"query", "assign"} THEN 1 ELSE 0)
         /\ Making' = Making + (IF to \in {"query", "assign", "test", "new"} THEN 1 ELSE 0)
                             - (IF pc[t] \in {"query", "assign", "test", "new"} THEN 1 ELSE 0)
         /\ pc[t] \in {"query", "assign"} => Assigning >= 1
         /\ pc[t] \in {"query", "assign", "test", "new"} => Making >= 1
<1>1. pc[t] \in {"query", "assign"} => ToAssign # {}
  BY DEF ToAssign, At
<1>2. pc[t] \in {"query", "assign", "test", "new"} => ToMake # {}
  BY DEF ToMake, At
<1>3. /\ ToAssign # {} => Assigning >= 1
      /\ ToMake # {} => Making >= 1
  BY AtCount DEF ToAssign, ToMake, Assigning, Making
<1>4. \A steps : Cardinality(At(steps))' =
                   Cardinality(At(steps)) + (IF to \in steps THEN 1 ELSE 0)
                                          - (IF pc[t] \in steps THEN 1 ELSE 0)
  BY AtMove, Zenon
<1> DEFINE assigning == {"query", "assign"}
           making == {"query", "assign", "test", "new"}
<1>5. /\ ToAssign = At(assigning) /\ ToAssign' = At(assigning)'
      /\ ToMake = At(making) /\ ToMake' = At(making)'
  BY DEF ToAssign, ToMake
<1>6. /\ Assigning' = Assigning + (IF to \in assigning THEN 1 ELSE 0)
                                - (IF pc[t] \in assigning THEN 1 ELSE 0)
      /\ Making' = Making + (IF to \in making THEN 1 ELSE 0)
                          - (IF pc[t] \in making THEN 1 ELSE 0)
  <2> HIDE DEF assigning, making
  <2> QED BY <1>4, <1>5 DEF Assigning, Making
<1> QED BY <1>1, <1>2, <1>3, <1>6

LEMMA StepMoves ==
  ASSUME PanelTypeOK, NEW t \in Threads, NEW from, NEW to, Step(t, from, to)
  PROVE  /\ Assigning' = Assigning + (IF to \in {"query", "assign"} THEN 1 ELSE 0)
                                   - (IF from \in {"query", "assign"} THEN 1 ELSE 0)
         /\ Making' = Making + (IF to \in {"query", "assign", "test", "new"} THEN 1 ELSE 0)
                             - (IF from \in {"query", "assign", "test", "new"} THEN 1 ELSE 0)
         /\ from \in {"query", "assign"} => Assigning >= 1
         /\ from \in {"query", "assign", "test", "new"} => Making >= 1
         /\ overlaps' = overlaps
<1>1. pc[t] = from /\ pc' = [pc EXCEPT ![t] = to] /\ overlaps' = overlaps
  BY DEF Step
<1> QED BY <1>1, Moves, Zenon

LEMMA HoldingMove ==
  ASSUME PanelTypeOK, NEW t \in Threads, NEW b \in BOOLEAN,
         fetched' = [fetched EXCEPT ![t] = b]
  PROVE  Holding' = Holding + (IF b THEN 1 ELSE 0) - (IF fetched[t] THEN 1 ELSE 0)
BY FetchedMove, Zenon DEF Holding

(* Every reference and every panel that is lost is accounted for by a call *)
(* that overlapped another one.                                            *)
LEMMA ReferencesStep ==
  PanelTypeOK /\ Pointers /\ ReferencesToLose /\ [PanelNext]_panelVars => ReferencesToLose'
<1> SUFFICES ASSUME PanelTypeOK, Pointers, ReferencesToLose, [PanelNext]_panelVars
             PROVE  ReferencesToLose'
  OBVIOUS
<1>0. /\ Holding \in Nat /\ Assigning \in Nat /\ references \in Int /\ overlaps \in Nat
      /\ ref \in BOOLEAN
      /\ Inside = {} => Assigning = 0
      /\ Owned = Holding + IF ref THEN 1 ELSE 0
      /\ Owned' = Holding' + IF ref' THEN 1 ELSE 0
  BY Counters DEF Owned, Holding, Fetched
<1> USE DEF ReferencesToLose
<1>1. ASSUME NEW t \in Threads, Instance(t) PROVE ReferencesToLose'
  <2>1. PICK first \in {"query", "test"} : pc' = [pc EXCEPT ![t] = first]
    BY <1>1 DEF Instance
  <2>0. pc[t] = "idle"
    BY <1>1 DEF Instance
  <2>2. Assigning' = Assigning + (IF first \in {"query", "assign"} THEN 1 ELSE 0)
                               - (IF pc[t] \in {"query", "assign"} THEN 1 ELSE 0)
    BY <2>1, Moves, Zenon
  <2>3. /\ Holding' = Holding /\ ref' = ref /\ references' = references
        /\ overlaps' = overlaps + IF Inside = {} THEN 0 ELSE 1
    BY <1>1 DEF Instance, Holding, Fetched, powerVars
  <2>4. Inside = {} => ~ref
    BY <1>1 DEF Instance, Pointers
  <2>5. Assigning' \in Nat
    BY <1>0, <2>0, <2>2
  <2> QED BY <1>0, <2>0, <2>2, <2>3, <2>4, <2>5 DEF Assigning
<1>2. ASSUME NEW t \in Threads, Found(t) PROVE ReferencesToLose'
  <2>1. Assigning' = Assigning
    BY <1>0, <1>2, StepMoves DEF Found
  <2>4. Holding' = Holding + (IF TRUE THEN 1 ELSE 0) - (IF fetched[t] THEN 1 ELSE 0)
    BY <1>2, HoldingMove, Zenon DEF Found
  <2>2. Holding' = Holding + 1
    BY <1>0, <1>2, <2>4 DEF Found, Step, Pointers
  <2>3. references' = references + 1 /\ UNCHANGED <<ref, overlaps>>
    BY <1>2 DEF Found, Step
  <2> QED BY <1>0, <2>1, <2>2, <2>3 DEF Assigning
<1>3. ASSUME NEW t \in Threads, NotFound(t) PROVE ReferencesToLose'
  <2>1. Assigning' = Assigning
    BY <1>0, <1>3, StepMoves DEF NotFound
  <2>2. Holding' = Holding /\ UNCHANGED <<ref, references, overlaps>>
    BY <1>3 DEF NotFound, Step, Holding, Fetched, powerVars
  <2> QED BY <1>0, <2>1, <2>2 DEF Assigning
<1>4. ASSUME NEW t \in Threads, Assign(t) PROVE ReferencesToLose'
  <2>1. Assigning' = Assigning - 1 /\ Assigning >= 1
    BY <1>0, <1>4, StepMoves DEF Assign
  <2>4. Holding' = Holding + (IF FALSE THEN 1 ELSE 0) - (IF fetched[t] THEN 1 ELSE 0)
    BY <1>4, HoldingMove, Zenon DEF Assign
  <2>2. fetched[t] \in BOOLEAN /\ Holding' = Holding - IF fetched[t] THEN 1 ELSE 0
    BY <1>0, <2>4 DEF PanelTypeOK
  <2>3. ref' = fetched[t] /\ UNCHANGED <<references, overlaps>>
    BY <1>4 DEF Assign, Step
  <2> QED BY <1>0, <2>1, <2>2, <2>3 DEF Assigning
<1>5. ASSUME NEW t \in Threads, NEW from, NEW to, Step(t, from, to),
             from \notin {"query", "assign"}, to \notin {"query", "assign"},
             UNCHANGED <<ref, references, fetched>>
      PROVE  ReferencesToLose'
  <2>1. Assigning' = Assigning
    BY <1>0, <1>5, StepMoves
  <2>2. Holding' = Holding /\ UNCHANGED overlaps
    BY <1>5 DEF Holding, Fetched, Step
  <2> QED BY <1>0, <1>5, <2>1, <2>2 DEF Assigning
<1>6. ASSUME NEW t \in Threads, \/ TestInstance(t) \/ NewPanel(t) \/ GetPowerState(t)
             \/ AssertFails(t) \/ InitDone(t)
      PROVE  ReferencesToLose'
  BY <1>5, <1>6 DEF TestInstance, NewPanel, GetPowerState, AssertFails, InitDone, powerVars
<1>7. CASE Deinitialize
  <2>1. Assigning' = Assigning /\ Holding' = Holding /\ Assigning = 0
    BY <1>0, <1>7 DEF Deinitialize, Assigning, ToAssign, At, Holding, Fetched, threadVars
  <2> QED BY <1>0, <1>7, <2>1 DEF Deinitialize, Assigning
<1>8. ASSUME UNCHANGED <<ref, references, threadVars, overlaps>> PROVE ReferencesToLose'
  BY <1>8 DEF ReferencesToLose, Owned, ToAssign, At, threadVars
<1>9. ASSUME NEW status \in BOOLEAN, SetPowerStatus(status) PROVE ReferencesToLose'
  BY <1>8, <1>9 DEF SetPowerStatus
<1>10. CASE DeinitializeNothing
  BY <1>8, <1>10 DEF DeinitializeNothing, powerVars
<1>11. CASE UNCHANGED panelVars
  BY <1>8, <1>11 DEF panelVars, powerVars
<1> QED BY <1>1, <1>2, <1>3, <1>4, <1>6, <1>7, <1>9, <1>10, <1>11 DEF PanelNext

(* The panels that are not the panel.                                      *)
Others == Cardinality(live \ {panel})

LEMMA OthersCount ==
  ASSUME PanelTypeOK, Pointers
  PROVE  /\ IsFiniteSet(live) /\ Others \in Nat
         /\ Cardinality(live) = Others + IF panel = 0 THEN 0 ELSE 1
<1>1. IsFiniteSet(1 .. made)
  BY FS_Interval DEF PanelTypeOK
<1>2. IsFiniteSet(live)
  BY <1>1, FS_Subset DEF PanelTypeOK
<1>3. /\ IsFiniteSet(live \ {panel})
      /\ Cardinality(live \ {panel}) =
            IF panel \in live THEN Cardinality(live) - 1 ELSE Cardinality(live)
  BY <1>2, FS_RemoveElement, Zenon
<1>4. Others \in Nat /\ Cardinality(live) \in Nat
  BY <1>2, <1>3, FS_CardinalityType DEF Others
<1>5. panel \in live <=> panel # 0
  BY DEF PanelTypeOK, Pointers
<1> QED BY <1>2, <1>3, <1>4, <1>5 DEF Others

LEMMA PanelsStep ==
  PanelTypeOK /\ Pointers /\ PanelsToLose /\ [PanelNext]_panelVars => PanelsToLose'
<1> SUFFICES ASSUME PanelTypeOK, Pointers, PanelsToLose, [PanelNext]_panelVars
             PROVE  PanelsToLose'
  OBVIOUS
<1>0. /\ Others \in Nat /\ Making \in Nat /\ overlaps \in Nat /\ panel \in Nat
      /\ Inside = {} => Making = 0
      /\ Others <= overlaps
      /\ Others + Making <= overlaps + IF panel = 0 THEN 1 ELSE 0
  BY Counters, OthersCount DEF PanelsToLose, Others, Making, PanelTypeOK
<1>1. SUFFICES /\ Others' <= overlaps'
               /\ Others' + Making' <= overlaps' + IF panel' = 0 THEN 1 ELSE 0
  BY DEF PanelsToLose, Others, Making
<1>2. ASSUME UNCHANGED <<live, panel>> PROVE Others' = Others
  BY <1>2 DEF Others
<1>3. ASSUME NEW t \in Threads, Instance(t)
      PROVE  /\ Others' <= overlaps'
             /\ Others' + Making' <= overlaps' + IF panel' = 0 THEN 1 ELSE 0
  <2>1. PICK first \in {"query", "test"} : pc' = [pc EXCEPT ![t] = first]
    BY <1>3 DEF Instance
  <2>2. /\ pc[t] = "idle" /\ UNCHANGED <<live, panel>>
        /\ overlaps' = overlaps + IF Inside = {} THEN 0 ELSE 1
    BY <1>3 DEF Instance, objectVars
  <2>3. Making' = Making + (IF first \in {"query", "assign", "test", "new"} THEN 1 ELSE 0)
                         - (IF pc[t] \in {"query", "assign", "test", "new"} THEN 1 ELSE 0)
    BY <2>1, Moves, Zenon
  <2>4. Making' = Making + 1
    BY <1>0, <2>2, <2>3
  <2>5. Inside = {} => panel = 0
    BY <1>3 DEF Instance, Pointers
  <2> QED BY <1>0, <1>2, <2>2, <2>4, <2>5
<1>4. ASSUME NEW t \in Threads, NEW from, NEW to, Step(t, from, to), UNCHANGED <<live, panel>>,
             to \in {"query", "assign", "test", "new"} => from \in {"query", "assign", "test", "new"}
      PROVE  /\ Others' <= overlaps'
             /\ Others' + Making' <= overlaps' + IF panel' = 0 THEN 1 ELSE 0
  <2>1. (Making' = Making \/ Making' = Making - 1) /\ overlaps' = overlaps
    BY <1>0, <1>4, StepMoves
  <2>2. Others' = Others /\ panel' = panel
    BY <1>2, <1>4
  <2> QED BY <1>0, <2>1, <2>2
<1>5. ASSUME NEW t \in Threads,
             \/ Found(t) \/ NotFound(t) \/ Assign(t) \/ TestInstance(t) \/ GetPowerState(t)
             \/ AssertFails(t) \/ InitDone(t)
      PROVE  /\ Others' <= overlaps'
             /\ Others' + Making' <= overlaps' + IF panel' = 0 THEN 1 ELSE 0
  BY <1>4, <1>5 DEF Found, NotFound, Assign, TestInstance, GetPowerState, AssertFails, InitDone,
                objectVars
<1>6. ASSUME NEW t \in Threads, NewPanel(t)
      PROVE  /\ Others' <= overlaps'
             /\ Others' + Making' <= overlaps' + IF panel' = 0 THEN 1 ELSE 0
  <2>1. /\ Step(t, "new", "power") /\ panel' = made + 1
        /\ live' = live \union {made + 1}
    BY <1>6 DEF NewPanel
  <2>2. Making' = Making - 1 /\ Making >= 1 /\ overlaps' = overlaps
    BY <1>0, <2>1, StepMoves
  <2>3. live' \ {panel'} = live /\ panel' # 0
    BY <2>1 DEF PanelTypeOK
  <2>4. Others' = Others + IF panel = 0 THEN 0 ELSE 1
    BY <2>3, OthersCount DEF Others
  <2> QED BY <1>0, <2>2, <2>3, <2>4
<1>7. CASE Deinitialize
  <2>1. /\ Inside = {} /\ panel # 0 /\ panel' = 0 /\ live' = live \ {panel}
        /\ UNCHANGED <<pc, overlaps>>
    BY <1>7 DEF Deinitialize, threadVars
  <2>2. live' \ {panel'} = live \ {panel}
    BY <2>1 DEF PanelTypeOK
  <2>3. Others' = Others /\ Making' = Making
    BY <2>1, <2>2 DEF Others, Making, ToMake, At
  <2> QED BY <1>0, <2>1, <2>3
<1>8. ASSUME UNCHANGED <<live, panel, pc, overlaps>>
      PROVE  /\ Others' <= overlaps'
             /\ Others' + Making' <= overlaps' + IF panel' = 0 THEN 1 ELSE 0
  <2>1. Making' = Making
    BY <1>8 DEF Making, ToMake, At
  <2> QED BY <1>0, <1>2, <1>8, <2>1
<1>9. ASSUME NEW status \in BOOLEAN, SetPowerStatus(status)
      PROVE  UNCHANGED <<live, panel, pc, overlaps>>
  BY <1>9 DEF SetPowerStatus, objectVars, threadVars
<1>10. CASE DeinitializeNothing
  BY <1>8, <1>10 DEF DeinitializeNothing, objectVars, threadVars
<1>11. CASE UNCHANGED panelVars
  BY <1>8, <1>11 DEF panelVars, objectVars, threadVars
<1> QED BY <1>3, <1>5, <1>6, <1>7, <1>8, <1>9, <1>10, <1>11 DEF PanelNext

(* There is no panel and no reference at the start.                        *)
LEMMA PanelStart == PanelInit => PanelIInv
<1> SUFFICES ASSUME PanelInit PROVE PanelIInv
  OBVIOUS
<1>1. PanelTypeOK /\ Pointers
  <2>1. panelCalls \in 0 .. MaxPanelCalls /\ live \subseteq 1 .. made
    BY PanelInstanceAssumption DEF PanelInit
  <2>2. /\ pc \in [Threads -> {"idle", "query", "assign", "test", "new", "power", "done",
                              "aborted"}]
        /\ tries \in [Threads -> Nat] /\ fetched \in [Threads -> BOOLEAN]
    BY DEF PanelInit
  <2>3. Pointers
    BY DEF PanelInit, Pointers, At
  <2>4. /\ initDone = FALSE /\ ref = FALSE /\ crashed = FALSE /\ powerStatus = FALSE
        /\ panel = 0 /\ made = 0 /\ references = 0 /\ overlaps = 0
    BY Zenon DEF PanelInit
  <2>6. /\ initDone \in BOOLEAN /\ ref \in BOOLEAN /\ crashed \in BOOLEAN
        /\ powerStatus \in BOOLEAN
    BY <2>4, Zenon
  <2>7. panel \in Nat /\ made \in Nat /\ references \in Int /\ overlaps \in Nat
    BY <2>4
  <2>5. PanelTypeOK
    BY <2>1, <2>2, <2>6, <2>7, Zenon DEF PanelTypeOK
  <2> QED BY <2>3, <2>5
<1>2. Inside = {} /\ Fetched = {} /\ live \ {panel} = {}
  BY DEF PanelInit, Inside, Fetched
<1>3. Assigning = 0 /\ Making = 0 /\ Holding = 0 /\ Others = 0
  BY <1>1, <1>2, Counters, FS_EmptySet DEF Holding, Others
<1>4. ReferencesToLose
  BY <1>1, <1>3, Counters DEF PanelInit, ReferencesToLose, Assigning
<1>5. PanelsToLose
  BY <1>3 DEF PanelInit, PanelsToLose, Others, Making
<1> QED BY <1>1, <1>4, <1>5 DEF PanelIInv

(* Every state has the inductive invariant, for every set of threads.      *)
THEOREM PanelInvariance == PanelSpec => []PanelIInv
<1>1. PanelIInv /\ [PanelNext]_panelVars => PanelIInv'
  BY PanelTypeStep, PointersStep, ReferencesStep, PanelsStep DEF PanelIInv
<1> QED BY <1>1, PanelStart, PTL DEF PanelSpec

(* Over any number of lives, for every call of instance that overlapped    *)
(* another one at most one panel and one reference are lost, and the       *)
(* pointer is that of an object that lives.                                *)
THEOREM PanelsAndReferences == PanelSpec => []PanelAccounted
<1>1. PanelIInv => PanelAccounted
  BY DEF PanelIInv, Pointers, ReferencesToLose, PanelsToLose, PanelAccounted
<1> QED BY <1>1, PanelInvariance, PTL
=============================================================================
