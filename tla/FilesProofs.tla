---------------------------- MODULE FilesProofs ----------------------------
(***************************************************************************)
(* The inductive invariants of the settings file, the JSON file and the    *)
(* file that moves, of imageEncoder, of readPropertyFromFile with          *)
(* ExpandPropertiesInString, and of searchFiles, with the properties that  *)
(* they imply.                                                             *)
(***************************************************************************)
EXTENDS SettingsFiles, ImageEncoder, PropertyFile, FileSearch,
        FiniteSetTheorems, SequenceTheorems, WellFoundedInduction, TLAPS

-----------------------------------------------------------------------------
(* What readFromFile makes of lines.                                       *)

(* Of some indices of a sequence one is the last: the sets of indices from *)
(* each of them on are finite, and one of them is the smallest.            *)
LEMMA LastIndex ==
  ASSUME NEW n \in Nat, NEW I, I \subseteq 1 .. n, I # {}
  PROVE  \E i \in I : \A j \in I : j <= i
<1> DEFINE R == StrictSubsetOrdering(Int)
           F == FiniteSubsetsOf(Int)
           Tails == {i .. n : i \in I}
<1>1. Tails \subseteq F /\ Tails # {}
  <2>1. \A i \in I : IsFiniteSet(i .. n) /\ i .. n \subseteq Int
    BY FS_Interval
  <2> QED BY <2>1 DEF FiniteSubsetsOf
<1>2. PICK x \in Tails : \A y \in Tails : ~(<<y, x>> \in R)
  <2> HIDE DEF R, F, Tails
  <2>1. IsWellFoundedOn(R, F)
    BY FS_StrictSubsetOrderingWellFounded DEF R, F
  <2> QED BY <1>1, <2>1, WFMin, Zenon
<1>3. PICK i \in I : x = i .. n
  BY <1>2
<1>4. ASSUME NEW j \in I, i < j PROVE FALSE
  <2>1. j .. n \subseteq i .. n /\ i \in i .. n /\ i \notin j .. n
    BY <1>4
  <2>2. <<j .. n, i .. n>> \in R
    BY <2>1 DEF StrictSubsetOrdering
  <2> QED BY <1>2, <1>3, <2>2
<1> QED BY <1>4

(* The label and the text of a line with a "=".                            *)
LEMMA LineParts ==
  ASSUME NEW l \in Seq(Parts), Len(l) > 1
  PROVE  Label(l) \in Labels /\ Text(l) \in Seq(Parts)
<1>1. Len(l) \in Nat /\ \A n \in 1 .. Len(l) : l[n] \in Parts
  BY ElementOfSeq, LenProperties
<1>2. \A n \in 1 .. Len(l) - 1 : l[n] \in Parts
  BY <1>1
<1>3. SubSeq(l, 1, Len(l) - 1) \in Seq(Parts)
  BY <1>1, <1>2, SubSeqProperties
<1> QED BY <1>1, <1>3 DEF Label, Text, Labels

(* A text is read for a label exactly if a line has the label, and it is   *)
(* the text of such a line.                                                *)
LEMMA ReadFacts ==
  ASSUME NEW ls \in Seq(Seq(Parts))
  PROVE  /\ \A i \in Pairs(ls) : Label(ls[i]) \in DOMAIN Read(ls)
         /\ \A k \in DOMAIN Read(ls) : \E i \in Pairs(ls) :
               Label(ls[i]) = k /\ Read(ls)[k] = Text(ls[i])
<1>1. DOMAIN Read(ls) = {Label(ls[i]) : i \in Pairs(ls)}
  BY DEF Read
<1>2. ASSUME NEW k \in DOMAIN Read(ls)
      PROVE  \E i \in Pairs(ls) : Label(ls[i]) = k /\ Read(ls)[k] = Text(ls[i])
  <2> DEFINE I == {i \in Pairs(ls) : Label(ls[i]) = k}
             IsLast(i) == Label(ls[i]) = k /\ \A j \in Pairs(ls) : Label(ls[j]) = k => j <= i
  <2>1. Len(ls) \in Nat /\ I \subseteq 1 .. Len(ls) /\ I # {}
    BY <1>1 DEF Pairs
  <2>2. PICK i \in I : \A j \in I : j <= i
    <3> HIDE DEF I
    <3> QED BY <2>1, LastIndex
  <2>3. \E m \in Pairs(ls) : IsLast(m)
    BY <2>2
  <2> DEFINE m == CHOOSE m \in Pairs(ls) : IsLast(m)
  <2>4. m \in Pairs(ls) /\ IsLast(m)
    <3> HIDE DEF IsLast
    <3> QED BY <2>3
  <2>5. Read(ls)[k] = Text(ls[m])
    BY <1>1 DEF Read
  <2> QED BY <2>4, <2>5
<1> QED BY <1>1, <1>2

(* It is read as what it is.                                               *)
LEMMA ReadTypes ==
  ASSUME NEW ls \in Seq(Seq(Parts))
  PROVE  DOMAIN Read(ls) \subseteq Labels /\ \A k \in DOMAIN Read(ls) : Read(ls)[k] \in Seq(Parts)
<1>1. ASSUME NEW k \in DOMAIN Read(ls) PROVE k \in Labels /\ Read(ls)[k] \in Seq(Parts)
  <2>1. PICK i \in Pairs(ls) : Label(ls[i]) = k /\ Read(ls)[k] = Text(ls[i])
    BY ReadFacts
  <2>2. ls[i] \in Seq(Parts) /\ Len(ls[i]) > 1
    BY DEF Pairs
  <2> QED BY <2>1, <2>2, LineParts
<1> QED BY <1>1

(* The line of a label and a text without a "=" is split into them.        *)
LEMMA SimpleLine ==
  ASSUME NEW key \in Parts, NEW t \in Seq(Parts), Len(t) = 1
  PROVE  /\ <<key>> \o t \in Seq(Parts) /\ Len(<<key>> \o t) > 1
         /\ Label(<<key>> \o t) = <<key>> /\ Text(<<key>> \o t) = t
<1> DEFINE l == <<key>> \o t
<1>1. <<key>> \in Seq(Parts) /\ Len(<<key>>) = 1 /\ <<key>>[1] = key
  OBVIOUS
<1>2. l \in Seq(Parts) /\ Len(l) = 2 /\ l[1] = key /\ l[2] = t[1]
  BY <1>1, ConcatProperties
<1> HIDE DEF l
<1>3. SubSeq(l, 1, 1) \in Seq(Parts) /\ Len(SubSeq(l, 1, 1)) = 1 /\ SubSeq(l, 1, 1)[1] = key
  BY <1>2, SubSeqProperties
<1>4. SubSeq(l, 1, 1) = <<key>>
  <2> DEFINE sub == SubSeq(l, 1, 1)
             first == <<key>>
  <2>1. /\ sub \in Seq(Parts) /\ first \in Seq(Parts) /\ Len(sub) = 1 /\ Len(first) = 1
        /\ sub[1] = first[1]
    BY <1>1, <1>3, Zenon
  <2> HIDE DEF sub, first
  <2>2. sub = first
    BY <2>1, SeqEqual
  <2> QED BY <2>2 DEF sub, first
<1>5. <<l[2]>> = t
  <2>1. t[1] \in Parts
    BY ElementOfSeq
  <2>2. <<t[1]>> \in Seq(Parts) /\ Len(<<t[1]>>) = 1 /\ <<t[1]>>[1] = t[1]
    BY <2>1
  <2> QED BY <1>2, <2>2, SeqEqual
<1>6. Len(l) - 1 = 1
  BY <1>2
<1>7. Label(l) = <<key>> /\ Text(l) = t
  BY <1>2, <1>4, <1>5, <1>6 DEF Label, Text
<1>8. l \in Seq(Parts) /\ Len(l) > 1
  BY <1>2
<1> QED BY <1>7, <1>8 DEF l

(* Lines that are those of the settings are read as the settings.          *)
LEMMA ReadBack ==
  ASSUME ConfTypes, Simple, NEW f, settings = NonEmpty(f),
         {lines[i] : i \in DOMAIN lines} = {k \o settings[k] : k \in DOMAIN settings}
  PROVE  NonEmpty(Read(lines)) = settings
<1>1. ASSUME NEW k \in DOMAIN settings
      PROVE  /\ k \o settings[k] \in Seq(Parts) /\ Len(k \o settings[k]) > 1
             /\ Label(k \o settings[k]) = k /\ Text(k \o settings[k]) = settings[k]
  <2>1. PICK key \in Parts : k = <<key>>
    BY SettingsFilesAssumption DEF ConfTypes
  <2>2. settings[k] \in Seq(Parts) /\ Len(settings[k]) = 1
    BY SettingsFilesAssumption DEF ConfTypes, Simple
  <2> QED BY <2>1, <2>2, SimpleLine
<1>2. lines \in Seq(Seq(Parts))
  BY DEF ConfTypes
<1>3. \A i \in DOMAIN lines : \E k \in DOMAIN settings : lines[i] = k \o settings[k]
  OBVIOUS
<1>4. \A k \in DOMAIN settings : \E i \in DOMAIN lines : lines[i] = k \o settings[k]
  <2>1. \A k \in DOMAIN settings : k \o settings[k] \in {lines[i] : i \in DOMAIN lines}
    OBVIOUS
  <2> QED BY <2>1, Zenon
<1>5. ASSUME NEW k \in DOMAIN Read(lines)
      PROVE  k \in DOMAIN settings /\ Read(lines)[k] = settings[k]
  <2>1. PICK i \in Pairs(lines) : Label(lines[i]) = k /\ Read(lines)[k] = Text(lines[i])
    BY <1>2, ReadFacts, Zenon
  <2>2. PICK l \in DOMAIN settings : lines[i] = l \o settings[l]
    BY <1>3 DEF Pairs
  <2> QED BY <1>1, <2>1, <2>2
<1>6. ASSUME NEW k \in DOMAIN settings
      PROVE  k \in DOMAIN Read(lines)
  <2>1. PICK i \in DOMAIN lines : lines[i] = k \o settings[k]
    BY <1>4
  <2>2. i \in Pairs(lines) /\ Label(lines[i]) = k
    BY <1>1, <2>1 DEF Pairs
  <2> QED BY <1>2, <2>2, ReadFacts, Zenon
<1>7. \A k \in DOMAIN settings : settings[k] # <<Empty>>
  BY DEF NonEmpty
<1>8. {k \in DOMAIN Read(lines) : Read(lines)[k] # <<Empty>>} = DOMAIN settings
  BY <1>5, <1>6, <1>7
<1>9. settings = [k \in DOMAIN settings |-> settings[k]]
  BY DEF NonEmpty
<1>10. NonEmpty(Read(lines)) = [k \in DOMAIN settings |-> Read(lines)[k]]
  BY <1>8, Zenon DEF NonEmpty
<1> QED BY <1>5, <1>6, <1>9, <1>10

-----------------------------------------------------------------------------
(* The calls and steps of cSettings.                                       *)
ConfStep ==
    \/ Start \/ ReadFails \/ OpenForOutput \/ CannotWrite \/ WriteLine \/ Written
    \/ \E k \in Keys : Remove(k) \/ \E text \in Texts : SetValue(k, text)

(* Those of persistJsonSettings.                                           *)
JsonStep ==
    \/ \E k \in JsonKeys, v \in JsonValues : PersistJsonSettings(k, v)
    \/ Load \/ CannotLoad \/ DestroyFile \/ CreateFile \/ WriteDocument \/ Synced

(* Those of MoveFile.                                                      *)
MoveStep ==
    \/ MoveFile \/ DoNotMoveFile \/ ReadBuffer \/ NothingRead \/ WriteBuffer \/ CannotCopy
    \/ Finish

(* Next has these cases.                                                   *)
LEMMA StepCases == Next => ConfStep \/ JsonStep \/ MoveStep \/ Crash
BY DEF Next, ConfStep, JsonStep, MoveStep

(* The invariant of the moving file, with what it needs of the types.      *)
MoveInv ==
    /\ source \in BOOLEAN /\ target \in {"none", "copy", "other"}
    /\ copied \in 0 .. FileLength /\ taken \in 0 .. FileLength /\ held \in 0 .. BufLen
    /\ moving \in BOOLEAN /\ readFailed \in BOOLEAN
    /\ Copying /\ MoveKeepsFile

(* That of the JSON file.                                                  *)
JsonInv ==
    /\ json \in {"none", "torn", "whole"}
    /\ doc \in Docs /\ newDoc \in Docs /\ wanted \in Docs
    /\ argument \in JsonKeys \X JsonValues
    /\ hurt \in BOOLEAN
    /\ Rewriting /\ JsonKept

(* That of the settings file.                                              *)
ConfInv == ConfTypes /\ Remembered /\ BeingWritten /\ SettingsKept

(* The rest of the types.                                                  *)
ControlTypes ==
    /\ pc \in {"off", "stuck", "idle", "open", "line", "load", "destroy", "create", "write",
               "sync", "read", "copy", "finish"}
    /\ calls \in 0 .. MaxCalls /\ crashes \in 0 .. MaxCrashes

(* These make up the invariant.                                            *)
LEMMA Groups == IInv <=> ControlTypes /\ MoveInv /\ JsonInv /\ ConfInv
BY DEF IInv, TypeOK, FileTypes, ControlTypes, MoveInv, JsonInv, ConfInv

(* And in the next state.                                                  *)
LEMMA GroupsNext == IInv' <=> ControlTypes' /\ MoveInv' /\ JsonInv' /\ ConfInv'
BY DEF IInv, TypeOK, FileTypes, ControlTypes, MoveInv, JsonInv, ConfInv

(* The empty document is one.                                              *)
LEMMA NoDocIsDoc == NoDoc \in Docs
BY DEF NoDoc, Docs

(* A document stays one with a pair of the arguments.                      *)
LEMMA DocWithPair ==
    ASSUME NEW d \in Docs, NEW p \in JsonKeys \X JsonValues
    PROVE  [d EXCEPT ![p[1]] = p[2]] \in Docs
BY DEF Docs

(* Nothing is a length.                                                    *)
LEMMA ZeroLength == 0 \in 0 .. FileLength /\ 0 \in 0 .. BufLen
BY SettingsFilesAssumption

(* Initially the invariant holds.                                          *)
LEMMA InitInv == Init => IInv
<1> SUFFICES ASSUME Init PROVE IInv
  OBVIOUS
<1>1. AnyPair \in JsonKeys \X JsonValues
  <2>1. PICK k \in JsonKeys : TRUE
    BY SettingsFilesAssumption
  <2>2. PICK v \in JsonValues : TRUE
    BY SettingsFilesAssumption
  <2>3. <<k, v>> \in JsonKeys \X JsonValues
    BY <2>1, <2>2
  <2> QED BY <2>3, Zenon DEF AnyPair
<1>2. ControlTypes
  BY SettingsFilesAssumption DEF Init, ControlTypes
<1>3. MoveInv
  BY ZeroLength, Zenon DEF Init, MoveInv, Copying, MoveKeepsFile, MoveSteps
<1>4. JsonInv
  BY <1>1, NoDocIsDoc DEF Init, JsonInv, Rewriting, JsonKept, Window, NoDoc
<1>5. ConfInv
  <2>1. data = << >> /\ lines = << >> /\ settings = << >> /\ toWrite = {} /\ pc = "off"
    BY DEF Init
  <2>2. DOMAIN data = {} /\ DOMAIN lines = {} /\ DOMAIN settings = {}
    BY <2>1
  <2>3. lines \in Seq(Seq(Parts))
    BY <2>1
  <2>4. ConfTypes
    BY <2>1, <2>2, <2>3, Zenon DEF Init, ConfTypes
  <2>5. Pairs(lines) = {}
    BY <2>2 DEF Pairs
  <2>6. DOMAIN Read(lines) = {}
    BY <2>5 DEF Read
  <2>7. NonEmpty(Read(lines)) = << >>
    BY <2>6 DEF NonEmpty
  <2> QED BY <2>1, <2>4, <2>7 DEF ConfInv, Remembered, BeingWritten, SettingsKept
<1> QED BY <1>2, <1>3, <1>4, <1>5, Groups

(* The steps keep the types of the control variables.                      *)
LEMMA ControlStep == ControlTypes /\ Next => ControlTypes'
<1> SUFFICES ASSUME ControlTypes, Next PROVE ControlTypes'
  OBVIOUS
<1> USE SettingsFilesAssumption DEF ControlTypes, Goto, Call
<1>1. CASE ConfStep
  <2>1. /\ crashes' = crashes
        /\ calls' = calls \/ (calls < MaxCalls /\ calls' = calls + 1)
        /\ pc' \in {"stuck", "idle", "open", "line"}
    BY <1>1, Zenon DEF ConfStep, Start, ReadFails, OpenForOutput, CannotWrite, WriteLine, Written, Remove,
                       SetValue
  <2> QED BY <2>1
<1>2. CASE JsonStep
  BY <1>2 DEF JsonStep, PersistJsonSettings, Load, CannotLoad, DestroyFile, CreateFile,
              WriteDocument, Synced
<1>3. CASE MoveStep
  BY <1>3 DEF MoveStep, MoveFile, DoNotMoveFile, ReadBuffer, NothingRead, WriteBuffer,
              CannotCopy, Finish
<1>4. CASE Crash
  BY <1>4 DEF Crash
<1> QED BY <1>1, <1>2, <1>3, <1>4, StepCases

(* What the steps outside MoveFile keep of it.                             *)
LEMMA MoveFrame ==
    ASSUME MoveInv, pc \notin MoveSteps, pc' \notin MoveSteps, UNCHANGED moveVars
    PROVE  MoveInv'
BY DEF MoveInv, moveVars, Copying, MoveKeepsFile, MoveSteps

(* The steps keep the invariant of the moving file.                        *)
LEMMA MoveInvStep == MoveInv /\ Next => MoveInv'
<1> SUFFICES ASSUME MoveInv, Next PROVE MoveInv'
  OBVIOUS
<1>1. CASE ConfStep
  BY <1>1, MoveFrame DEF ConfStep, Start, ReadFails, OpenForOutput, CannotWrite, WriteLine, Written,
              Remove, SetValue, Goto, Call, MoveSteps
<1>2. CASE JsonStep
  BY <1>2, MoveFrame DEF JsonStep, PersistJsonSettings, Load, CannotLoad, DestroyFile,
              CreateFile, WriteDocument, Synced, Goto, Call, MoveSteps
<1>3. CASE MoveStep
  <2> USE SettingsFilesAssumption DEF MoveInv, Copying, MoveKeepsFile, MoveSteps, Goto, Call
  <2>1. CASE MoveFile
    BY <2>1 DEF MoveFile
  <2>2. CASE DoNotMoveFile
    BY <2>2 DEF DoNotMoveFile
  <2>3. CASE ReadBuffer
    BY <2>3 DEF ReadBuffer
  <2>4. CASE NothingRead
    <3>1. taken < FileLength \/ copied = FileLength
      BY <2>4 DEF NothingRead
    <3> QED BY <2>4, <3>1, Zenon DEF NothingRead
  <2>5. CASE WriteBuffer
    BY <2>5 DEF WriteBuffer
  <2>6. CASE CannotCopy
    BY <2>6 DEF CannotCopy
  <2>7. CASE Finish
    BY <2>7, ZeroLength, Zenon DEF Finish
  <2> QED BY <1>3, <2>1, <2>2, <2>3, <2>4, <2>5, <2>6, <2>7 DEF MoveStep
<1>4. CASE Crash
  BY <1>4, ZeroLength, Zenon DEF Crash, MoveInv, Copying, MoveKeepsFile, MoveSteps
<1> QED BY <1>1, <1>2, <1>3, <1>4, StepCases

(* What the steps outside persistJsonSettings keep of the JSON file.       *)
LEMMA JsonFrame ==
    ASSUME JsonInv, UNCHANGED jsonVars,
           pc \notin {"destroy"} \union Window, pc' \notin {"destroy"} \union Window
    PROVE  JsonInv'
BY DEF JsonInv, jsonVars, Rewriting, JsonKept, Window

(* The steps keep the invariant of the JSON file.                          *)
LEMMA JsonInvStep == JsonInv /\ Next => JsonInv'
<1> SUFFICES ASSUME JsonInv, Next PROVE JsonInv'
  OBVIOUS
<1>1. CASE ConfStep
  BY <1>1, JsonFrame DEF ConfStep, Start, ReadFails, OpenForOutput, CannotWrite, WriteLine, Written,
              Remove, SetValue, Goto, Call, Window
<1>2. CASE JsonStep
  <2> USE DEF JsonInv, Rewriting, JsonKept, Window, Goto, Call
  <2>1. CASE \E k \in JsonKeys, v \in JsonValues : PersistJsonSettings(k, v)
    BY <2>1 DEF PersistJsonSettings
  <2>2. CASE Load
    <3>1. newDoc' \in Docs
      BY <2>2 DEF Load, PartsOf
    <3>2. (hurt' <=> hurt \/ newDoc' # doc) /\ hurt' \in BOOLEAN
      BY <2>2 DEF Load
    <3> QED BY <2>2, <3>1, <3>2 DEF Load
  <2>3. CASE CannotLoad
    BY <2>3, NoDocIsDoc DEF CannotLoad
  <2>4. CASE DestroyFile
    BY <2>4, NoDocIsDoc DEF DestroyFile
  <2>5. CASE CreateFile
    BY <2>5, NoDocIsDoc DEF CreateFile
  <2>6. CASE WriteDocument
    <3> DEFINE d == [newDoc EXCEPT ![argument[1]] = argument[2]]
    <3>1. d \in Docs /\ wanted' \in Docs
      BY <2>6, DocWithPair DEF WriteDocument
    <3>2. doc' \in Docs
      BY <2>6, <3>1 DEF WriteDocument, PartsOf
    <3>3. ~hurt' => ~hurt /\ doc' = d /\ json' = "whole"
      BY <2>6 DEF WriteDocument
    <3>4. \A k \in JsonKeys : ~hurt' /\ wanted'[k] # Absent => doc'[k] = wanted'[k]
      BY <2>6, <3>3 DEF WriteDocument, Docs
    <3> HIDE DEF d
    <3> QED BY <2>6, <3>1, <3>2, <3>3, <3>4 DEF WriteDocument
  <2>7. CASE Synced
    BY <2>7 DEF Synced, jsonVars
  <2> QED BY <1>2, <2>1, <2>2, <2>3, <2>4, <2>5, <2>6, <2>7 DEF JsonStep
<1>3. CASE MoveStep
  BY <1>3, JsonFrame DEF MoveStep, MoveFile, DoNotMoveFile, ReadBuffer, NothingRead,
              WriteBuffer, CannotCopy, Finish, Goto, Call, Window
<1>4. CASE Crash
  BY <1>4, NoDocIsDoc DEF Crash, JsonInv, Rewriting, JsonKept, Window
<1> QED BY <1>1, <1>2, <1>3, <1>4, StepCases

(* The steps outside cSettings keep its part.                              *)
LEMMA ConfFrame ==
    ASSUME ConfInv, UNCHANGED confVars,
           pc \notin {"off", "stuck", "open", "line"}, pc' \notin {"off", "stuck", "open", "line"}
    PROVE  ConfInv'
BY DEF ConfInv, confVars, fileVars, ConfTypes, Remembered, BeingWritten, SettingsKept, Simple

(* What is not empty, when a text is put to a label or dropped.            *)
LEMMA PutNonEmpty ==
    ASSUME NEW f, NEW k, NEW text
    PROVE  NonEmpty(Put(f, k, text)) =
             IF text = <<Empty>> THEN Drop(NonEmpty(f), k) ELSE Put(NonEmpty(f), k, text)
BY DEF NonEmpty, Put, Drop

LEMMA DropNonEmpty ==
    ASSUME NEW f, NEW k
    PROVE  NonEmpty(Drop(f, k)) = Drop(NonEmpty(f), k)
BY DEF NonEmpty, Drop

(* The steps keep the types of the settings and their file.                *)
LEMMA ConfTypeStep == ConfTypes /\ BeingWritten /\ ConfStep => ConfTypes'
<1> SUFFICES ASSUME ConfTypes, BeingWritten, ConfStep PROVE ConfTypes'
  OBVIOUS
<1>1. CASE Start
  <2>1. DOMAIN data' \subseteq Labels /\ \A k \in DOMAIN data' : data'[k] \in Seq(Parts)
    <3>1. CASE data' = Read(lines)
      BY <3>1, ReadTypes DEF ConfTypes
    <3>2. CASE data' = << >>
      BY <3>2
    <3> QED BY <1>1, <3>1, <3>2 DEF Start
  <2>2. toWrite' = {}
    BY <1>1 DEF Start, BeingWritten
  <2> QED BY <1>1, <2>1, <2>2 DEF Start, ConfTypes
<1>2. CASE OpenForOutput
  <2>1. << >> \in Seq(Seq(Parts))
    OBVIOUS
  <2> QED BY <1>2, <2>1, Zenon DEF OpenForOutput, ConfTypes
<1>3. CASE CannotWrite \/ ReadFails
  BY <1>3 DEF CannotWrite, ReadFails, confVars, fileVars, ConfTypes
<1>4. CASE WriteLine
  <2>1. PICK k \in toWrite :
          /\ toWrite' = toWrite \ {k}
          /\ IF failed \/ data[k] = <<Empty>>
             THEN UNCHANGED <<lines, failed>>
             ELSE \/ lines' = Append(lines, k \o data[k]) /\ UNCHANGED failed
                  \/ failed' = TRUE /\ \E l \in Pieces(k \o data[k]) : lines' = Append(lines, l)
    BY <1>4 DEF WriteLine
  <2>2. k \o data[k] \in Seq(Parts)
    BY ConcatProperties DEF ConfTypes, Labels
  <2>3. \A l \in Pieces(k \o data[k]) : l \in Seq(Parts)
    <3> DEFINE whole == k \o data[k]
               Piece(n, p) == SubSeq(whole, 1, n - 1) \o <<p>>
    <3>1. ASSUME NEW n \in DOMAIN whole, NEW p \in {Cut, Empty}
          PROVE  Piece(n, p) \in Seq(Parts)
      <4> HIDE DEF whole
      <4>1. whole \in Seq(Parts) /\ n \in 1 .. Len(whole) /\ n - 1 \in Int /\ Len(whole) \in Nat
        BY <2>2, LenProperties DEF whole
      <4>2. \A i \in 1 .. n - 1 : whole[i] \in Parts
        BY <4>1, ElementOfSeq
      <4>3. SubSeq(whole, 1, n - 1) \in Seq(Parts)
        BY <4>1, <4>2, SubSeqProperties
      <4>4. <<p>> \in Seq(Parts)
        BY SettingsFilesAssumption
      <4>5. \A s1, s2 \in Seq(Parts) : s1 \o s2 \in Seq(Parts)
        BY ConcatProperties
      <4> QED BY <4>3, <4>4, <4>5, Zenon
    <3>2. Pieces(whole) = {Piece(n, p) : n \in DOMAIN whole, p \in {Cut, Empty}}
      BY DEF Pieces
    <3>3. \A l \in {Piece(n, p) : n \in DOMAIN whole, p \in {Cut, Empty}} : l \in Seq(Parts)
      <4> HIDE DEF Piece, whole
      <4> QED BY <3>1
    <3>4. \A l \in Pieces(whole) : l \in Seq(Parts)
      <4> HIDE DEF Piece, whole
      <4> QED BY <3>2, <3>3
    <3> QED BY <3>4, Zenon
  <2>4. lines' \in Seq(Seq(Parts))
    <3>1. lines \in Seq(Seq(Parts))
      BY DEF ConfTypes
    <3>2. lines' = lines \/ \E l \in Seq(Parts) : lines' = Append(lines, l)
      BY <2>1, <2>2, <2>3, Zenon
    <3> QED BY <3>1, <3>2, AppendProperties
  <2>5. toWrite' \subseteq DOMAIN data /\ failed' \in BOOLEAN
    BY <2>1 DEF ConfTypes
  <2> QED BY <1>4, <2>4, <2>5 DEF WriteLine, ConfTypes
<1>5. CASE Written
  BY <1>5 DEF Written, fileVars, ConfTypes
<1>6. ASSUME NEW k \in Keys, Remove(k) PROVE ConfTypes'
  <2>1. toWrite' = {} /\ <<k>> \in Labels /\ <<Empty>> \in Seq(Parts)
    BY <1>6, SettingsFilesAssumption DEF Remove, Call, fileVars, BeingWritten, Labels
  <2>2. DOMAIN data' \subseteq Labels /\ \A l \in DOMAIN data' : data'[l] \in Seq(Parts)
    BY <1>6, <2>1 DEF Remove, Put, Drop, ConfTypes
  <2>3. /\ DOMAIN settings' \subseteq {<<key>> : key \in Keys}
        /\ \A l \in DOMAIN settings' : settings'[l] \in Texts
    BY <1>6 DEF Remove, Drop, ConfTypes
  <2> QED BY <1>6, <2>1, <2>2, <2>3 DEF Remove, fileVars, ConfTypes
<1>7. ASSUME NEW k \in Keys, NEW text \in Texts, SetValue(k, text) PROVE ConfTypes'
  <2>1. toWrite' = {} /\ <<k>> \in Labels /\ text \in Seq(Parts)
    BY <1>7, SettingsFilesAssumption DEF SetValue, Call, fileVars, BeingWritten, Labels
  <2>2. DOMAIN data' \subseteq Labels /\ \A l \in DOMAIN data' : data'[l] \in Seq(Parts)
    BY <1>7, <2>1 DEF SetValue, Put, ConfTypes
  <2>3. /\ DOMAIN settings' \subseteq {<<key>> : key \in Keys}
        /\ \A l \in DOMAIN settings' : settings'[l] \in Texts
    BY <1>7 DEF SetValue, Put, Drop, ConfTypes
  <2> QED BY <1>7, <2>1, <2>2, <2>3 DEF SetValue, fileVars, ConfTypes
<1> QED BY <1>1, <1>2, <1>3, <1>4, <1>5, <1>6, <1>7 DEF ConfStep

(* A process that starts from everything has what the calls have set in    *)
(* memory, and each call changes both.                                     *)
LEMMA RememberedStep ==
    ConfTypes /\ Remembered /\ SettingsKept /\ ConfStep => Remembered'
<1> SUFFICES ASSUME ConfTypes, Remembered, SettingsKept, ConfStep,
                    pc' \notin {"off", "stuck"}, ~lost'
             PROVE  NonEmpty(data') = settings'
  BY DEF Remembered, NonEmpty
<1>1. CASE Start
  <2>1. CASE /\ data' = Read(lines)
             /\ lost' = (lost \/ ~saved \/ \E k \in DOMAIN settings : Len(settings[k]) > 1)
    <3>1. saved /\ ~lost /\ \A k \in DOMAIN settings : ~(Len(settings[k]) > 1)
      BY <2>1, Zenon
    <3>2. \A k \in DOMAIN settings : settings[k] \in Seq(Parts) /\ settings[k] # << >>
      BY SettingsFilesAssumption DEF ConfTypes
    <3>3. \A k \in DOMAIN settings : Len(settings[k]) \in Nat \ {0}
      BY <3>2, EmptySeq, Zenon
    <3>4. \A n \in Nat \ {0} : n > 1 \/ n = 1
      OBVIOUS
    <3>5. Simple
      BY <3>1, <3>3, <3>4, Zenon DEF Simple
    <3> QED BY <1>1, <2>1, <3>1, <3>5 DEF Start, SettingsKept
  <2>2. CASE data' = << >> /\ lost' = (lost \/ ~saved \/ settings # << >>)
    <3>1. settings = << >>
      BY <2>2, Zenon
    <3>2. settings' = settings
      BY <1>1 DEF Start
    <3>3. NonEmpty(<< >>) = << >>
      BY DEF NonEmpty
    <3> QED BY <2>2, <3>1, <3>2, <3>3
  <2> QED BY <1>1, <2>1, <2>2, Zenon DEF Start
<1>2. ASSUME UNCHANGED <<data, settings, lost>>, pc \notin {"off", "stuck"}
      PROVE  NonEmpty(data') = settings'
  BY <1>2 DEF Remembered
<1>3. CASE OpenForOutput \/ CannotWrite \/ WriteLine \/ Written
  BY <1>2, <1>3 DEF OpenForOutput, CannotWrite, WriteLine, Written, confVars
<1>4. ASSUME NEW k \in Keys, Remove(k) PROVE NonEmpty(data') = settings'
  <2>1. /\ data' = Put(data, k, <<Empty>>) \/ data' = Drop(data, k)
        /\ settings' = Drop(settings, k)
        /\ NonEmpty(data) = settings
    BY <1>4 DEF Remove, Call, Remembered
  <2>2. NonEmpty(Put(data, k, <<Empty>>)) = Drop(NonEmpty(data), k)
    BY PutNonEmpty
  <2>3. NonEmpty(Drop(data, k)) = Drop(NonEmpty(data), k)
    BY DropNonEmpty
  <2> QED BY <2>1, <2>2, <2>3
<1>5. ASSUME NEW k \in Keys, NEW text \in Texts, SetValue(k, text) PROVE NonEmpty(data') = settings'
  <2>1. /\ data' = Put(data, k, text)
        /\ settings' = IF text = <<Empty>> THEN Drop(settings, k) ELSE Put(settings, k, text)
        /\ NonEmpty(data) = settings
    BY <1>5 DEF SetValue, Call, Remembered
  <2> QED BY <2>1, PutNonEmpty
<1>6. ~ReadFails
  BY DEF ReadFails, Goto
<1> QED BY <1>1, <1>3, <1>4, <1>5, <1>6 DEF ConfStep

(* A line that is appended is added to the lines.                          *)
LinesOf(ls) == {ls[i] : i \in DOMAIN ls}

LEMMA LinesOfAppend ==
    ASSUME NEW S, NEW ls \in Seq(S), NEW l
    PROVE  LinesOf(Append(ls, l)) = LinesOf(ls) \union {l}
<1>1. /\ Len(ls) \in Nat /\ DOMAIN ls = 1 .. Len(ls)
      /\ DOMAIN Append(ls, l) = 1 .. Len(ls) + 1
      /\ \A i \in 1 .. Len(ls) : Append(ls, l)[i] = ls[i]
      /\ Append(ls, l)[Len(ls) + 1] = l
  OBVIOUS
<1> DEFINE longer == Append(ls, l)
<1> HIDE DEF longer
<1>2. DOMAIN longer = DOMAIN ls \union {Len(ls) + 1}
  BY <1>1 DEF longer
<1>3. longer[Len(ls) + 1] = l /\ \A i \in DOMAIN ls : longer[i] = ls[i]
  BY <1>1 DEF longer
<1>4. LinesOf(longer) = LinesOf(ls) \union {l}
  BY <1>2, <1>3 DEF LinesOf
<1> QED BY <1>4 DEF longer

(* The file that is written has the settings that have been looked at.     *)
LEMMA BeingWrittenStep == ConfTypes /\ Remembered /\ BeingWritten /\ ConfStep => BeingWritten'
<1> SUFFICES ASSUME ConfTypes, Remembered, BeingWritten, ConfStep PROVE BeingWritten'
  OBVIOUS
<1>1. ASSUME pc' \notin {"open", "line"}, toWrite' = {} PROVE BeingWritten'
  BY <1>1 DEF BeingWritten
<1>2. CASE Start \/ ReadFails \/ CannotWrite \/ Written
  BY <1>1, <1>2 DEF Start, ReadFails, CannotWrite, Written, Goto, confVars, fileVars, BeingWritten
<1>3. ASSUME NEW k \in Keys, NEW text, Remove(k) \/ SetValue(k, text) PROVE BeingWritten'
  BY <1>3 DEF Remove, SetValue, Call, fileVars, BeingWritten
<1>4. CASE OpenForOutput
  <2>1. /\ pc = "open" /\ pc' = "line" /\ lines' = << >> /\ toWrite' = DOMAIN data
        /\ UNCHANGED <<settings, saved, lost>>
    BY <1>4 DEF OpenForOutput, Goto
  <2>2. ASSUME ~lost
        PROVE  DOMAIN settings \ toWrite' = {}
    BY <2>1, <2>2 DEF Remembered, NonEmpty
  <2>3. {lines'[i] : i \in DOMAIN lines'} = {}
    BY <2>1
  <2> QED BY <2>1, <2>2, <2>3 DEF BeingWritten
<1>5. CASE WriteLine
  <2>1. PICK k \in toWrite :
          /\ toWrite' = toWrite \ {k}
          /\ IF failed \/ data[k] = <<Empty>>
             THEN UNCHANGED <<lines, failed>>
             ELSE \/ lines' = Append(lines, k \o data[k]) /\ UNCHANGED failed
                  \/ failed' = TRUE /\ \E l \in Pieces(k \o data[k]) : lines' = Append(lines, l)
    BY <1>5 DEF WriteLine
  <2>2. pc = "line" /\ pc' = "line" /\ UNCHANGED <<settings, saved, lost>>
    BY <1>5 DEF WriteLine, Goto
  <2> DEFINE Looked(K) == {l \o settings[l] : l \in K}
  <2>3. ASSUME ~failed', ~lost, Simple
        PROVE  LinesOf(lines') = Looked(DOMAIN settings \ toWrite')
    <3>1. /\ LinesOf(lines) = Looked(DOMAIN settings \ toWrite)
          /\ ~failed /\ NonEmpty(data) = settings
      BY <2>1, <2>2, <2>3 DEF BeingWritten, Remembered, LinesOf
    <3>2. k \in DOMAIN settings <=> data[k] # <<Empty>>
      BY <2>1, <3>1 DEF NonEmpty, ConfTypes
    <3>3. CASE data[k] = <<Empty>>
      <4>1. DOMAIN settings \ toWrite' = DOMAIN settings \ toWrite /\ lines' = lines
        BY <2>1, <3>2, <3>3
      <4> QED BY <3>1, <4>1
    <3>4. CASE data[k] # <<Empty>>
      <4>1. settings[k] = data[k] /\ k \in DOMAIN settings
        BY <3>1, <3>2, <3>4 DEF NonEmpty
      <4>2. lines' = Append(lines, k \o settings[k])
        BY <2>1, <2>3, <3>1, <3>4, <4>1
      <4>3. LinesOf(lines') = LinesOf(lines) \union {k \o settings[k]}
        <5>1. lines \in Seq(Seq(Parts))
          BY DEF ConfTypes
        <5> QED BY <4>2, <5>1, LinesOfAppend, Zenon
      <4>4. DOMAIN settings \ toWrite' = (DOMAIN settings \ toWrite) \union {k}
        BY <2>1, <4>1
      <4> QED BY <3>1, <4>3, <4>4
    <3> QED BY <3>3, <3>4
  <2> QED BY <2>2, <2>3 DEF BeingWritten, Simple, LinesOf
<1> QED BY <1>2, <1>3, <1>4, <1>5 DEF ConfStep

(* The end of the writing saves the settings, and nothing else does.       *)
LEMMA KeptStep ==
    ConfTypes /\ Remembered /\ BeingWritten /\ SettingsKept /\ ConfStep => SettingsKept'
<1> SUFFICES ASSUME ConfTypes, Remembered, BeingWritten, SettingsKept, ConfStep,
                    saved', ~lost', Simple'
             PROVE  NonEmpty(Read(lines')) = settings'
  BY DEF SettingsKept, NonEmpty, Read, Pairs
<1>1. ASSUME UNCHANGED <<lines, settings, saved>>, lost => lost'
      PROVE  NonEmpty(Read(lines')) = settings'
  <2>1. Simple
    BY <1>1 DEF Simple
  <2>2. NonEmpty(Read(lines)) = settings
    BY <1>1, <2>1 DEF SettingsKept
  <2> QED BY <1>1, <2>2
<1>2. CASE Start \/ ReadFails \/ CannotWrite
  BY <1>1, <1>2 DEF Start, ReadFails, CannotWrite, confVars, fileVars
<1>3. CASE WriteLine \/ OpenForOutput
  BY <1>3 DEF WriteLine, OpenForOutput, BeingWritten
<1>4. ASSUME NEW k \in Keys, NEW text, Remove(k) \/ SetValue(k, text)
      PROVE  NonEmpty(Read(lines')) = settings'
  BY <1>4 DEF Remove, SetValue
<1>5. CASE Written
  <2>1. /\ pc = "line" /\ toWrite = {} /\ ~failed
        /\ UNCHANGED <<lines, settings, lost>>
    BY <1>5 DEF Written, fileVars
  <2>2. Simple
    BY <2>1 DEF Simple
  <2>3. DOMAIN settings \ toWrite = DOMAIN settings
    BY <2>1
  <2>4. {lines[i] : i \in DOMAIN lines} = {k \o settings[k] : k \in DOMAIN settings}
    BY <2>1, <2>2, <2>3 DEF BeingWritten
  <2>5. settings = NonEmpty(data)
    BY <2>1 DEF Remembered
  <2>6. NonEmpty(Read(lines)) = settings
    BY <2>2, <2>4, <2>5, ReadBack
  <2> QED BY <2>1, <2>6
<1> QED BY <1>2, <1>3, <1>4, <1>5 DEF ConfStep

(* The steps keep the invariant of the settings file.                      *)
LEMMA ConfInvStep == ConfInv /\ Next => ConfInv'
<1> SUFFICES ASSUME ConfInv, Next PROVE ConfInv'
  OBVIOUS
<1>1. CASE ConfStep
  BY <1>1, ConfTypeStep, RememberedStep, BeingWrittenStep, KeptStep DEF ConfInv
<1>2. CASE JsonStep
  BY <1>2, ConfFrame DEF JsonStep, PersistJsonSettings, Load, CannotLoad, DestroyFile,
              CreateFile, WriteDocument, Synced, Goto, Call
<1>3. CASE MoveStep
  BY <1>3, ConfFrame DEF MoveStep, MoveFile, DoNotMoveFile, ReadBuffer, NothingRead,
              WriteBuffer, CannotCopy, Finish, Goto, Call
<1>4. CASE Crash
  <2>1. /\ data' = << >> /\ toWrite' = {} /\ failed' = FALSE /\ pc' = "off"
        /\ UNCHANGED <<conf, lines, settings, saved, lost>>
    BY <1>4 DEF Crash
  <2>2. DOMAIN data' = {}
    BY <2>1
  <2>3. ConfTypes'
    BY <2>1, <2>2, Zenon DEF ConfInv, ConfTypes
  <2>4. SettingsKept'
    <3>1. SettingsKept' <=> (saved' /\ ~lost' /\ Simple' => NonEmpty(Read(lines')) = settings')
      BY DEF SettingsKept, NonEmpty, Read, Pairs
    <3>2. Simple' <=> Simple
      BY <2>1 DEF Simple
    <3> QED BY <2>1, <3>1, <3>2 DEF ConfInv, SettingsKept
  <2> QED BY <2>1, <2>3, <2>4 DEF ConfInv, Remembered, BeingWritten
<1> QED BY <1>1, <1>2, <1>3, <1>4, StepCases

(* The three files satisfy the inductive invariant for any texts, lengths, *)
(* keys and numbers of calls and crashes.                                  *)
THEOREM Invariance == Spec => []IInv
<1>1. ASSUME IInv, UNCHANGED vars PROVE IInv'
  <2>1. UNCHANGED <<pc, data, conf, lines, toWrite, failed, settings, saved, lost>>
    BY <1>1 DEF vars, confVars, fileVars
  <2>2. ConfTypes' /\ Remembered' /\ BeingWritten'
    <3>1. ConfTypes' <=> ConfTypes
      BY <2>1 DEF ConfTypes
    <3>2. Remembered' <=> Remembered
      BY <2>1 DEF Remembered, NonEmpty
    <3>3. BeingWritten' <=> BeingWritten
      BY <2>1 DEF BeingWritten, Simple
    <3> QED BY <1>1, <3>1, <3>2, <3>3 DEF IInv, TypeOK
  <2>3. SettingsKept'
    <3>1. SettingsKept' <=> (saved' /\ ~lost' /\ Simple' => NonEmpty(Read(lines')) = settings')
      BY DEF SettingsKept, NonEmpty, Read, Pairs
    <3>2. Simple' <=> Simple
      BY <2>1 DEF Simple
    <3> QED BY <1>1, <2>1, <3>1, <3>2 DEF IInv, SettingsKept
  <2>4. FileTypes' /\ Copying' /\ MoveKeepsFile' /\ Rewriting' /\ JsonKept'
    BY <1>1 DEF IInv, TypeOK, FileTypes, Copying, MoveKeepsFile, Rewriting, JsonKept, Window,
                MoveSteps, vars, jsonVars, moveVars
  <2> QED BY <2>2, <2>3, <2>4 DEF IInv, TypeOK
<1>2. IInv /\ [Next]_vars => IInv'
  BY <1>1, Groups, ControlStep, MoveInvStep, JsonInvStep, ConfInvStep, GroupsNext
<1> QED BY InitInv, <1>2, PTL DEF Spec

(* Data, lines, documents and counts have their types in every state.      *)
THEOREM TypeCorrect == Spec => []TypeOK
<1>1. IInv => TypeOK
  BY DEF IInv
<1> QED BY <1>1, Invariance, PTL

(* What was set and written as a whole is what the next process will read, *)
(* over any number of calls, restarts and crashes.                         *)
THEOREM SettingsSurvive == Spec => []SettingsKept
<1>1. IInv => SettingsKept
  BY DEF IInv
<1> QED BY <1>1, Invariance, PTL

(* MoveFile loses nothing, whenever the process crashes, unless a read     *)
(* fails.                                                                  *)
THEOREM NothingLost == Spec => []MoveKeepsFile
<1>1. IInv => MoveKeepsFile
  BY DEF IInv
<1> QED BY <1>1, Invariance, PTL

(* The pairs that were persisted are in the JSON file but for the two      *)
(* steps of its rewriting.                                                 *)
THEOREM PairsKept == Spec => []JsonKept
<1>1. IInv => JsonKept
  BY DEF IInv
<1> QED BY <1>1, Invariance, PTL

-----------------------------------------------------------------------------
(* imageEncoder.                                                           *)

(* The bits of what the code makes of a byte b and of bits s left over.    *)
LEMMA WeightValues ==
    /\ Weight[1] = 128 /\ Weight[2] = 64 /\ Weight[3] = 32 /\ Weight[4] = 16
    /\ Weight[5] = 8 /\ Weight[6] = 4 /\ Weight[7] = 2 /\ Weight[8] = 1
  BY DEF Weight

LEMMA FirstByteBits ==
  ASSUME NEW b \in 0 .. 255, NEW j \in 0 .. 5
  PROVE  /\ BitOfChar(b \div 4, j) = BitOfByte(b, j)
         /\ BitOfChar((b % 4) * 16, j) = IF j < 2 THEN BitOfByte(b, j + 6) ELSE 0
<1>1. BitOfChar(b \div 4, j) = BitOfByte(b, j)
  BY WeightValues, SMT DEF BitOfChar, BitOfByte
<1>2. BitOfChar((b % 4) * 16, j) = IF j < 2 THEN BitOfByte(b, j + 6) ELSE 0
  BY WeightValues, SMT DEF BitOfChar, BitOfByte
<1> QED BY <1>1, <1>2

LEMMA SecondByteBits ==
  ASSUME NEW b \in 0 .. 255, NEW s \in 0 .. 60, s % 16 = 0, NEW j \in 0 .. 5
  PROVE  /\ BitOfChar(b \div 16 + s, j) =
               IF j < 2 THEN BitOfChar(s, j) ELSE BitOfByte(b, j - 2)
         /\ BitOfChar((b % 16) * 4, j) = IF j < 4 THEN BitOfByte(b, j + 4) ELSE 0
<1> PICK t \in 0 .. 3 : s = 16 * t
  BY SMT
<1>1. BitOfChar(b \div 16 + s, j) = IF j < 2 THEN BitOfChar(s, j) ELSE BitOfByte(b, j - 2)
  <2>1. CASE j = 0
    BY <2>1, WeightValues, SMT DEF BitOfChar, BitOfByte
  <2>2. CASE j = 1
    BY <2>2, WeightValues, SMT DEF BitOfChar, BitOfByte
  <2>3. CASE j = 2
    BY <2>3, WeightValues, SMT DEF BitOfChar, BitOfByte
  <2>4. CASE j = 3
    BY <2>4, WeightValues, SMT DEF BitOfChar, BitOfByte
  <2>5. CASE j = 4
    BY <2>5, WeightValues, SMT DEF BitOfChar, BitOfByte
  <2>6. CASE j = 5
    BY <2>6, WeightValues, SMT DEF BitOfChar, BitOfByte
  <2> QED BY <2>1, <2>2, <2>3, <2>4, <2>5, <2>6
<1>2. BitOfChar((b % 16) * 4, j) = IF j < 4 THEN BitOfByte(b, j + 4) ELSE 0
  BY SMTT(30), WeightValues DEF BitOfChar, BitOfByte
<1> QED BY <1>1, <1>2

LEMMA ThirdByteBits ==
  ASSUME NEW b \in 0 .. 255, NEW s \in 0 .. 60, s % 4 = 0, NEW j \in 0 .. 5
  PROVE  /\ BitOfChar(b \div 64 + s, j) =
               IF j < 4 THEN BitOfChar(s, j) ELSE BitOfByte(b, j - 4)
         /\ BitOfChar(b % 64, j) = BitOfByte(b, j + 2)
<1> PICK t \in 0 .. 15 : s = 4 * t
  BY SMT
<1>1. BitOfChar(b \div 64 + s, j) = IF j < 4 THEN BitOfChar(s, j) ELSE BitOfByte(b, j - 4)
  <2>0. CASE j = 0
    BY <2>0, WeightValues, SMT DEF BitOfChar, BitOfByte
  <2>1. CASE j = 1
    BY <2>1, WeightValues, SMT DEF BitOfChar, BitOfByte
  <2>2. CASE j = 2
    BY <2>2, WeightValues, SMT DEF BitOfChar, BitOfByte
  <2>3. CASE j = 3
    BY <2>3, WeightValues, SMT DEF BitOfChar, BitOfByte
  <2>4. CASE j = 4
    BY <2>4, WeightValues, SMT DEF BitOfChar, BitOfByte
  <2>5. CASE j = 5
    BY <2>5, WeightValues, SMT DEF BitOfChar, BitOfByte
  <2> QED BY <2>0, <2>1, <2>2, <2>3, <2>4, <2>5
<1>2. BitOfChar(b % 64, j) = BitOfByte(b, j + 2)
  <2>0. CASE j = 0
    BY <2>0, WeightValues, SMT DEF BitOfChar, BitOfByte
  <2>1. CASE j = 1
    BY <2>1, WeightValues, SMT DEF BitOfChar, BitOfByte
  <2>2. CASE j = 2
    BY <2>2, WeightValues, SMT DEF BitOfChar, BitOfByte
  <2>3. CASE j = 3
    BY <2>3, WeightValues, SMT DEF BitOfChar, BitOfByte
  <2>4. CASE j = 4
    BY <2>4, WeightValues, SMT DEF BitOfChar, BitOfByte
  <2>5. CASE j = 5
    BY <2>5, WeightValues, SMT DEF BitOfChar, BitOfByte
  <2> QED BY <2>0, <2>1, <2>2, <2>3, <2>4, <2>5
<1> QED BY <1>1, <1>2

LEMMA BitPlaces ==
  ASSUME NEW n \in Nat
  PROVE  /\ \A j \in 0 .. 5 : (6 * n + j) \div 6 = n /\ (6 * n + j) % 6 = j
         /\ \A j \in 0 .. 7 : (8 * n + j) \div 8 = n /\ (8 * n + j) % 8 = j
BY SMT

LEMMA BitOfNext ==
  ASSUME NEW n \in Nat, NEW i \in Int, i >= 6 * n, i < 6 * (n + 1)
  PROVE  \E j \in 0 .. 5 : i = 6 * n + j
<1>1. i - 6 * n \in 0 .. 5 /\ i = 6 * n + (i - 6 * n)
  BY SMT
<1> QED BY <1>1, Zenon

LEMMA ObjectBits ==
  ASSUME EncoderTypeOK, NEW n \in 0 .. Len(bytes) - 1, NEW j \in 0 .. 7
  PROVE  ObjectBit(8 * n + j) = BitOfByte(bytes[n + 1], j)
<1>1. bytes \in Seq(0 .. 255) /\ Len(bytes) \in Nat
  BY EncoderAssumption DEF EncoderTypeOK
<1>2. (8 * n + j) \div 8 = n /\ (8 * n + j) % 8 = j /\ 8 * n + j < 8 * Len(bytes)
  BY <1>1, BitPlaces
<1> QED BY <1>2, Zenon DEF ObjectBit

(* A text that has the first bits of the bytes, six in each character.    *)
Holds(text) ==
    /\ text \in Seq(0 .. 64) /\ \A k \in 1 .. Len(text) : text[k] \in 0 .. 63
    /\ \A i \in 0 .. 6 * Len(text) - 1 :
          BitOfChar(text[(i \div 6) + 1], i % 6) = ObjectBit(i)

(* Another character with the next six bits.                               *)
LEMMA HoldsMore ==
  ASSUME NEW text, Holds(text), NEW c \in 0 .. 63,
         \A j \in 0 .. 5 : BitOfChar(c, j) = ObjectBit(6 * Len(text) + j)
  PROVE  Holds(Append(text, c))
<1> DEFINE more == Append(text, c)
<1>1. text \in Seq(0 .. 64) /\ Len(text) \in Nat
  BY DEF Holds
<1>2. /\ more \in Seq(0 .. 64) /\ Len(more) = Len(text) + 1
      /\ more[Len(text) + 1] = c /\ \A k \in 1 .. Len(text) : more[k] = text[k]
  BY <1>1
<1> HIDE DEF more
<1>3. ASSUME NEW i \in 0 .. 6 * Len(more) - 1
      PROVE  BitOfChar(more[(i \div 6) + 1], i % 6) = ObjectBit(i)
  <2>1. CASE i < 6 * Len(text)
    <3>1. (i \div 6) + 1 \in 1 .. Len(text) /\ i \in 0 .. 6 * Len(text) - 1
      BY <1>1, <2>1
    <3>2. more[(i \div 6) + 1] = text[(i \div 6) + 1]
      BY <1>2, <3>1, Zenon
    <3>3. BitOfChar(text[(i \div 6) + 1], i % 6) = ObjectBit(i)
      BY <3>1 DEF Holds
    <3> QED BY <3>2, <3>3, Zenon
  <2>2. CASE i >= 6 * Len(text)
    <3>1. PICK j \in 0 .. 5 : i = 6 * Len(text) + j
      <4>1. i \in Int /\ i < 6 * (Len(text) + 1)
        BY <1>1, <1>2
      <4> QED BY <1>1, <2>2, <4>1, BitOfNext, Zenon
    <3>2. i \div 6 = Len(text) /\ i % 6 = j
      BY <1>1, <3>1, BitPlaces
    <3>3. more[(i \div 6) + 1] = c
      BY <1>2, <3>2, Zenon
    <3> QED BY <3>1, <3>2, <3>3, Zenon
  <2> QED BY <1>1, <1>2, <2>1, <2>2
<1>4. ASSUME NEW k \in 1 .. Len(more) PROVE more[k] \in 0 .. 63
  <2>1. k \in 1 .. Len(text) \/ k = Len(text) + 1
    BY <1>1, <1>2
  <2> QED BY <1>2, <2>1, Zenon DEF Holds
<1>5. \A i \in 0 .. 6 * Len(more) - 1 :
         BitOfChar(more[(i \div 6) + 1], i % 6) = ObjectBit(i)
  BY <1>3, Zenon
<1> QED BY <1>2, <1>4, <1>5, Zenon DEF Holds, more

LEMMA EncodeByteStep == EncoderIInv /\ EncodeByte => EncoderIInv'
<1> SUFFICES ASSUME EncoderIInv, EncodeByte PROVE EncoderIInv'
  OBVIOUS
<1> DEFINE byte == bytes[index + 1]
           n == Len(result)
<1>1. /\ bytes \in Seq(0 .. 255) /\ Len(bytes) \in Nat /\ index \in Nat
      /\ index < Len(bytes) /\ index' = index + 1
      /\ UNCHANGED <<bytes, padding, encoded>>
      /\ state = index % 3 /\ state' = (state + 1) % 3
  BY EncoderAssumption DEF EncoderIInv, EncoderTypeOK, EncodeByte
<1>2. /\ byte \in 0 .. 255 /\ n \in Nat
      /\ lastStuff \in 0 .. 60 /\ lastStuff % 4 = 0 /\ (state = 1 => lastStuff % 16 = 0)
  <2>1. index + 1 \in 1 .. Len(bytes)
    BY <1>1
  <2>2. byte \in 0 .. 255
    BY <1>1, <2>1, ElementOfSeq
  <2>3. n \in Nat
    BY DEF EncoderIInv, EncoderTypeOK
  <2>4. lastStuff \in 0 .. 60 /\ lastStuff % 4 = 0 /\ (state = 1 => lastStuff % 16 = 0)
    BY DEF EncoderIInv, EncoderTypeOK
  <2> QED BY <2>2, <2>3, <2>4
<1>3. ~encoded
  BY <1>1 DEF EncoderIInv, EncoderTypeOK
<1>4. Holds(result) /\ n = (4 * index) \div 3
  <2>1. result \in Seq(0 .. 64) /\ \A k \in 1 .. Len(result) : result[k] \in 0 .. 63
    BY <1>3 DEF EncoderIInv, EncoderTypeOK, TextSoFar
  <2>2. \A i \in 0 .. 6 * Len(result) - 1 :
           BitOfChar(result[(i \div 6) + 1], i % 6) = ObjectBit(i)
    BY <1>3 DEF EncoderIInv, TextSoFar, ResultBit
  <2>3. n = (4 * index) \div 3
    BY <1>3 DEF EncoderIInv, TextSoFar
  <2> QED BY <2>1, <2>2, <2>3 DEF Holds
<1>5. \A j \in 0 .. 7 : ObjectBit(8 * index + j) = BitOfByte(byte, j)
  <2>1. index \in 0 .. Len(bytes) - 1
    BY <1>1
  <2> QED BY <2>1, ObjectBits, Zenon DEF EncoderIInv
<1>6. state # 0 => \A j \in 0 .. 5 : BitOfChar(lastStuff, j) =
         IF 6 * n + j < 8 * index THEN ObjectBit(6 * n + j) ELSE 0
  BY <1>3 DEF EncoderIInv, BitsLeftOver
<1> DEFINE Goal ==
             /\ Holds(result') /\ Len(result') = (4 * index') \div 3
             /\ lastStuff' \in 0 .. 60 /\ lastStuff' % 4 = 0 /\ (state' = 1 => lastStuff' % 16 = 0)
             /\ state' # 0 => \A j \in 0 .. 5 : BitOfChar(lastStuff', j) =
                   IF 6 * Len(result') + j < 8 * index' THEN ObjectBit(6 * Len(result') + j) ELSE 0
<1> HIDE DEF byte, n
<1>7. ASSUME state = 0 PROVE Goal
  <2>1. PICK q \in Nat : index = 3 * q
    BY <1>1, <1>7
  <2>2. n = 4 * q /\ index' = 3 * q + 1 /\ state' = 1
    BY <1>1, <1>4, <1>7, <2>1
  <2>3. result' = Append(result, byte \div 4) /\ lastStuff' = (byte % 4) * 16
    BY <1>7 DEF EncodeByte, byte
  <2>4. byte \div 4 \in 0 .. 63 /\ (byte % 4) * 16 \in 0 .. 60
    BY <1>2
  <2>9. ((byte % 4) * 16) % 16 = 0 /\ ((byte % 4) * 16) % 4 = 0
    BY <1>2
  <2>5. \A j \in 0 .. 5 : BitOfChar(byte \div 4, j) = ObjectBit(6 * n + j)
    BY <1>2, <1>5, <2>1, <2>2, FirstByteBits
  <2>6. Holds(result') /\ Len(result') = n + 1
    <3>1. Holds(result')
      BY <1>4, <2>3, <2>4, <2>5, HoldsMore, Zenon DEF n
    <3>2. Len(result') = n + 1
      BY <1>4, <2>3 DEF Holds, n
    <3> QED BY <3>1, <3>2
  <2>7. ASSUME NEW j \in 0 .. 5
        PROVE  BitOfChar(lastStuff', j) =
                 IF 6 * Len(result') + j < 8 * index' THEN ObjectBit(6 * Len(result') + j) ELSE 0
    <3>1. 6 * Len(result') + j = 8 * index + (j + 6) /\ (6 * Len(result') + j < 8 * index' <=> j < 2)
      BY <2>1, <2>2, <2>6
    <3>2. j < 2 => ObjectBit(8 * index + (j + 6)) = BitOfByte(byte, j + 6)
      BY <1>5
    <3>3. BitOfChar(lastStuff', j) = IF j < 2 THEN BitOfByte(byte, j + 6) ELSE 0
      BY <1>2, <2>3, FirstByteBits
    <3> QED BY <3>1, <3>2, <3>3
  <2>8. Len(result') = (4 * index') \div 3
    BY <2>2, <2>6
  <2> QED BY <2>2, <2>3, <2>4, <2>9, <2>6, <2>7, <2>8, Zenon
<1>8. ASSUME state = 1 PROVE Goal
  <2>1. PICK q \in Nat : index = 3 * q + 1
    BY <1>1, <1>8
  <2>2. n = 4 * q + 1 /\ index' = 3 * q + 2 /\ state' = 2
    BY <1>1, <1>4, <1>8, <2>1
  <2>3. result' = Append(result, byte \div 16 + lastStuff) /\ lastStuff' = (byte % 16) * 4
    BY <1>8 DEF EncodeByte, byte
  <2>4. lastStuff <= 48
    BY <1>2, <1>8
  <2>5. byte \div 16 + lastStuff \in 0 .. 63 /\ (byte % 16) * 4 \in 0 .. 60 /\ ((byte % 16) * 4) % 4 = 0
    BY <1>2, <2>4
  <2>6. ASSUME NEW j \in 0 .. 5
        PROVE  BitOfChar(byte \div 16 + lastStuff, j) = ObjectBit(6 * n + j)
    <3>1. 6 * n + j = 8 * index + (j - 2) /\ (6 * n + j < 8 * index <=> j < 2)
      BY <2>1, <2>2
    <3>2. j >= 2 => ObjectBit(8 * index + (j - 2)) = BitOfByte(byte, j - 2)
      BY <1>5
    <3>3. j < 2 => ObjectBit(6 * n + j) = BitOfChar(lastStuff, j)
      BY <1>6, <1>8, <3>1
    <3>4. BitOfChar(byte \div 16 + lastStuff, j) =
             IF j < 2 THEN BitOfChar(lastStuff, j) ELSE BitOfByte(byte, j - 2)
      BY <1>2, <1>8, SecondByteBits
    <3> QED BY <3>1, <3>2, <3>3, <3>4
  <2>7. Holds(result') /\ Len(result') = n + 1
    <3>1. Holds(result')
      BY <1>4, <2>3, <2>5, <2>6, HoldsMore, Zenon DEF n
    <3>2. Len(result') = n + 1
      BY <1>4, <2>3 DEF Holds, n
    <3> QED BY <3>1, <3>2
  <2>8. ASSUME NEW j \in 0 .. 5
        PROVE  BitOfChar(lastStuff', j) =
                 IF 6 * Len(result') + j < 8 * index' THEN ObjectBit(6 * Len(result') + j) ELSE 0
    <3>1. 6 * Len(result') + j = 8 * index + (j + 4) /\ (6 * Len(result') + j < 8 * index' <=> j < 4)
      BY <2>1, <2>2, <2>7
    <3>2. j < 4 => ObjectBit(8 * index + (j + 4)) = BitOfByte(byte, j + 4)
      BY SMTT(30), <1>5
    <3>3. BitOfChar(lastStuff', j) = IF j < 4 THEN BitOfByte(byte, j + 4) ELSE 0
      BY <1>2, <1>8, <2>3, SecondByteBits
    <3> QED BY <3>1, <3>2, <3>3
  <2>9. Len(result') = (4 * index') \div 3
    BY <2>2, <2>7
  <2>10. state' # 1
    BY <2>2
  <2> QED BY <2>3, <2>5, <2>7, <2>8, <2>9, <2>10, Zenon
<1>9. ASSUME state = 2 PROVE Goal
  <2>1. PICK q \in Nat : index = 3 * q + 2
    BY <1>1, <1>9
  <2>2. n = 4 * q + 2 /\ index' = 3 * q + 3 /\ state' = 0
    BY <1>1, <1>4, <1>9, <2>1
  <2> DEFINE half == Append(result, byte \div 64 + lastStuff)
  <2>3. result' = Append(half, byte % 64) /\ lastStuff' = lastStuff
    BY <1>9 DEF EncodeByte, byte
  <2>4. byte \div 64 + lastStuff \in 0 .. 63 /\ byte % 64 \in 0 .. 63
    BY <1>2
  <2>5. ASSUME NEW j \in 0 .. 5
        PROVE  /\ BitOfChar(byte \div 64 + lastStuff, j) = ObjectBit(6 * n + j)
               /\ BitOfChar(byte % 64, j) = ObjectBit(6 * (n + 1) + j)
    <3>1. /\ 6 * n + j = 8 * index + (j - 4) /\ (6 * n + j < 8 * index <=> j < 4)
          /\ 6 * (n + 1) + j = 8 * index + (j + 2)
      BY <2>1, <2>2
    <3>2. /\ j >= 4 => ObjectBit(8 * index + (j - 4)) = BitOfByte(byte, j - 4)
          /\ ObjectBit(8 * index + (j + 2)) = BitOfByte(byte, j + 2)
      BY <1>5
    <3>3. j < 4 => ObjectBit(6 * n + j) = BitOfChar(lastStuff, j)
      BY SMTT(30), <1>6, <1>9, <3>1
    <3>4. /\ BitOfChar(byte \div 64 + lastStuff, j) =
                IF j < 4 THEN BitOfChar(lastStuff, j) ELSE BitOfByte(byte, j - 4)
          /\ BitOfChar(byte % 64, j) = BitOfByte(byte, j + 2)
      BY <1>2, ThirdByteBits, Zenon
    <3> QED BY <3>1, <3>2, <3>3, <3>4
  <2>6. Holds(half) /\ Len(half) = n + 1
    <3>1. Holds(half)
      BY <1>4, <2>4, <2>5, HoldsMore, Zenon DEF n
    <3>2. Len(half) = n + 1
      BY <1>4 DEF Holds, n
    <3> QED BY <3>1, <3>2
  <2> HIDE DEF half
  <2>7. Holds(result') /\ Len(result') = n + 2
    <3>1. Holds(result')
      BY <2>3, <2>4, <2>5, <2>6, HoldsMore, Zenon
    <3>2. Len(result') = Len(half) + 1
      BY <2>3, <2>6 DEF Holds
    <3> QED BY <1>2, <2>6, <3>1, <3>2
  <2>8. Len(result') = (4 * index') \div 3
    BY <2>2, <2>7
  <2>9. state' # 1 /\ state' = 0
    BY <2>2
  <2> QED BY <1>2, <2>3, <2>7, <2>8, <2>9, Zenon
<1>10. Goal
  <2>1. state = 0 \/ state = 1 \/ state = 2
    BY <1>1
  <2> QED BY <1>7, <1>8, <1>9, <2>1, Zenon
<1> HIDE DEF Goal
<1>11. EncoderTypeOK'
  <2>1. index' \in 0 .. Len(bytes) /\ state' = index' % 3
    BY <1>1
  <2>2. lastStuff' \in {k \in 0 .. 60 : k % 4 = 0} /\ (state' = 1 => lastStuff' % 16 = 0)
    BY <1>10, Zenon DEF Goal
  <2>3. result' \in Seq(0 .. 64)
    BY <1>10, Zenon DEF Goal, Holds
  <2>4. bytes' \in Objects /\ padding' \in BOOLEAN /\ encoded' \in BOOLEAN /\ ~encoded'
    BY <1>1, <1>3 DEF EncoderIInv, EncoderTypeOK
  <2> QED BY <1>1, <2>1, <2>2, <2>3, <2>4, Zenon DEF EncoderTypeOK
<1>12. ASSUME NEW i PROVE ObjectBit(i)' = ObjectBit(i)
  BY <1>1, Zenon DEF ObjectBit
<1>13. TextSoFar' /\ BitsLeftOver'
  BY <1>1, <1>10, <1>12, Zenon DEF Goal, Holds, TextSoFar, BitsLeftOver, ResultBit
<1>14. EncodedBytes'
  BY <1>1, <1>3, Zenon DEF EncodedBytes
<1> QED BY <1>11, <1>13, <1>14 DEF EncoderIInv

LEMMA TextLengths ==
  ASSUME NEW L \in Nat
  PROVE  LET n == (4 * L) \div 3  t == (8 * L + 5) \div 6
         IN /\ t \in Nat
            /\ L % 3 = 0 => t = n /\ t % 4 = 0
            /\ L % 3 = 1 => t = n + 1 /\ (t + 2) % 4 = 0
            /\ L % 3 = 2 => t = n + 1 /\ (t + 1) % 4 = 0
<1>1. PICK q \in Nat : L = 3 * q \/ L = 3 * q + 1 \/ L = 3 * q + 2
  <2>1. L \div 3 \in Nat /\ (L = 3 * (L \div 3) \/ L = 3 * (L \div 3) + 1 \/ L = 3 * (L \div 3) + 2)
    BY SMT
  <2> QED BY <2>1, Zenon
<1>2. CASE L = 3 * q
  BY <1>2, SMT
<1>3. CASE L = 3 * q + 1
  BY <1>3, SMT
<1>4. CASE L = 3 * q + 2
  BY <1>4, SMT
<1> QED BY <1>1, <1>2, <1>3, <1>4, Zenon

(* The bits left over are followed by zeros, and that by "=".              *)
LEMMA EncodeEndStep == EncoderIInv /\ EncodeEnd => EncoderIInv'
<1> SUFFICES ASSUME EncoderIInv, EncodeEnd PROVE EncoderIInv'
  OBVIOUS
<1> DEFINE n == Len(result)
           text == IF state = 0 THEN result ELSE Append(result, lastStuff)
<1>1. /\ UNCHANGED <<bytes, padding, index, state, lastStuff>> /\ encoded' = TRUE
      /\ index = Len(bytes) /\ ~encoded
      /\ result' = IF state = 0 THEN result ELSE text \o Padding
  BY DEF EncodeEnd
<1>2. /\ bytes \in Seq(0 .. 255) /\ Len(bytes) \in Nat
      /\ result \in Seq(0 .. 64) /\ n \in Nat
      /\ state = index % 3 /\ lastStuff \in 0 .. 60
      /\ padding \in BOOLEAN
  BY EncoderAssumption DEF EncoderIInv, EncoderTypeOK
<1>3. Holds(result) /\ n = (4 * index) \div 3
  <2>1. \A k \in 1 .. Len(result) : result[k] \in 0 .. 63
    BY <1>1 DEF EncoderIInv, TextSoFar
  <2>2. \A i \in 0 .. 6 * Len(result) - 1 :
           BitOfChar(result[(i \div 6) + 1], i % 6) = ObjectBit(i)
    BY <1>1 DEF EncoderIInv, TextSoFar, ResultBit
  <2>3. n = (4 * index) \div 3
    BY <1>1 DEF EncoderIInv, TextSoFar
  <2> QED BY <1>2, <2>1, <2>2, <2>3 DEF Holds
<1>4. state # 0 => Holds(Append(result, lastStuff))
  <2> SUFFICES ASSUME state # 0 PROVE Holds(Append(result, lastStuff))
    OBVIOUS
  <2>1. \A j \in 0 .. 5 : BitOfChar(lastStuff, j) =
           IF 6 * n + j < 8 * index THEN ObjectBit(6 * n + j) ELSE 0
    BY <1>1 DEF EncoderIInv, BitsLeftOver
  <2>2. \A j \in 0 .. 5 : BitOfChar(lastStuff, j) = ObjectBit(6 * n + j)
    BY <1>1, <2>1, Zenon DEF ObjectBit
  <2>3. lastStuff \in 0 .. 63
    BY <1>2
  <2> QED BY <1>3, <2>2, <2>3, HoldsMore, Zenon
<1>51. /\ TextLength \in Nat
       /\ state = 0 => TextLength = n /\ TextLength % 4 = 0
       /\ state = 1 => TextLength = n + 1 /\ (TextLength + 2) % 4 = 0
       /\ state = 2 => TextLength = n + 1 /\ (TextLength + 1) % 4 = 0
  BY <1>1, <1>2, <1>3, TextLengths, Zenon DEF TextLength
<1>52. state \in {0, 1, 2}
  BY <1>1, <1>2
<1>5. Holds(text) /\ Len(text) = TextLength /\ Len(text) \in Nat
  <2>1. CASE state = 0
    <3>1. n = TextLength
      BY <1>51, <2>1, Zenon
    <3> QED BY <1>2, <1>3, <2>1, <3>1
  <2>2. CASE state # 0
    <3>1. n + 1 = TextLength
      BY <1>51, <1>52, <2>2, Zenon
    <3>2. Len(text) = n + 1
      BY <1>2, <2>2
    <3> QED BY <1>2, <1>4, <2>2, <3>1, <3>2
  <2> QED BY <2>1, <2>2
<1> HIDE DEF text, n
<1> DEFINE pad == IF state = 0 THEN << >> ELSE Padding
<1>6. /\ pad \in Seq(0 .. 64) /\ \A k \in 1 .. Len(pad) : pad[k] = 64
      /\ IF padding THEN (TextLength + Len(pad)) % 4 = 0 ELSE Len(pad) = 0
      /\ Len(pad) \in Nat
  <2>1. CASE state = 0
    <3>1. pad = << >>
      BY <2>1, Zenon
    <3>2. TextLength % 4 = 0 /\ TextLength \in Nat
      BY <1>51, <2>1, Zenon
    <3> HIDE DEF pad
    <3> QED BY <3>1, <3>2
  <2>2. CASE state # 0 /\ ~padding
    <3>1. pad = << >>
      BY <2>2 DEF Padding
    <3> QED BY <2>2, <3>1
  <2>3. CASE state = 1 /\ padding
    <3>1. state # 0 /\ Padding = <<64, 64>>
      BY <2>3 DEF Padding
    <3>2. pad = <<64, 64>>
      BY <3>1, Zenon
    <3> HIDE DEF pad
    <3>3. pad \in Seq(0 .. 64)
      BY <3>2
    <3>4. Len(pad) = 2
      BY <3>2
    <3>5. \A k \in 1 .. 2 : pad[k] = 64
      BY <3>2
    <3>6. (TextLength + 2) % 4 = 0
      BY <1>51, <2>3, Zenon
    <3> QED BY <2>3, <3>3, <3>4, <3>5, <3>6
  <2>4. CASE state = 2 /\ padding
    <3>1. state # 0 /\ Padding = <<64>>
      BY <2>4 DEF Padding
    <3>2. pad = <<64>>
      BY <3>1, Zenon
    <3> HIDE DEF pad
    <3>3. pad \in Seq(0 .. 64)
      BY <3>2
    <3>4. Len(pad) = 1
      BY <3>2
    <3>5. \A k \in 1 .. 1 : pad[k] = 64
      BY <3>2
    <3>6. (TextLength + 1) % 4 = 0
      BY <1>51, <2>4, Zenon
    <3> QED BY <2>4, <3>3, <3>4, <3>5, <3>6
  <2> QED BY <1>2, <1>52, <2>1, <2>2, <2>3, <2>4
<1>7. result' = text \o pad
  BY SMTT(30), <1>1, <1>2, ConcatEmptySeq DEF text
<1> HIDE DEF pad
<1>8. /\ result' \in Seq(0 .. 64) /\ Len(result') = TextLength + Len(pad)
      /\ \A k \in 1 .. TextLength : result'[k] = text[k]
      /\ \A k \in TextLength + 1 .. TextLength + Len(pad) : result'[k] = 64
  <2>1. text \in Seq(0 .. 64)
    BY <1>5 DEF Holds
  <2>2. result' \in Seq(0 .. 64) /\ Len(result') = TextLength + Len(pad)
    BY <1>5, <1>6, <1>7, <2>1, ConcatProperties, Zenon
  <2>3. ASSUME NEW k \in 1 .. TextLength PROVE result'[k] = text[k]
    <3>1. k \in 1 .. Len(text) /\ k \in 1 .. Len(text) + Len(pad)
      BY <1>5, <1>6, <2>3
    <3> QED BY <1>5, <1>6, <1>7, <2>1, <3>1
  <2>4. ASSUME NEW k \in TextLength + 1 .. TextLength + Len(pad) PROVE result'[k] = 64
    <3>1. k \in Len(text) + 1 .. Len(text) + Len(pad) /\ k - Len(text) \in 1 .. Len(pad)
      BY <1>5, <1>6, <2>4
    <3>2. result'[k] = pad[k - Len(text)]
      BY <1>5, <1>6, <1>7, <2>1, <3>1
    <3> QED BY <1>6, <3>1, <3>2, Zenon
  <2> QED BY <2>2, <2>3, <2>4
<1>9. \A i \in 0 .. 6 * TextLength - 1 : BitOfChar(result'[(i \div 6) + 1], i % 6) = ObjectBit(i)
  <2> SUFFICES ASSUME NEW i \in 0 .. 6 * TextLength - 1
               PROVE  BitOfChar(result'[(i \div 6) + 1], i % 6) = ObjectBit(i)
    OBVIOUS
  <2>1. (i \div 6) + 1 \in 1 .. TextLength
    BY <1>5
  <2>2. BitOfChar(text[(i \div 6) + 1], i % 6) = ObjectBit(i)
    BY <1>5, Zenon DEF Holds
  <2> QED BY <1>8, <2>1, <2>2, Zenon
<1>10. \A k \in 1 .. Len(result') :
          IF k <= TextLength THEN result'[k] \in 0 .. 63 ELSE result'[k] = 64
  BY <1>5, <1>6, <1>8 DEF Holds
<1>11. TextLength' = TextLength /\ \A i : ObjectBit(i)' = ObjectBit(i)
  BY <1>1 DEF TextLength, ObjectBit
<1>12. EncodedBytes'
  <2>1. Len(result') >= TextLength
        /\ IF padding THEN Len(result') % 4 = 0 ELSE Len(result') = TextLength
    BY <1>5, <1>6, <1>8
  <2> QED BY <1>1, <1>9, <1>10, <1>11, <2>1, Zenon DEF EncodedBytes, ResultBit
<1>13. EncoderTypeOK'
  BY <1>1, <1>8 DEF EncoderIInv, EncoderTypeOK
<1> QED BY <1>1, <1>12, <1>13 DEF EncoderIInv, TextSoFar, BitsLeftOver

(* The inductive invariant of the encoder, for any bytes.                  *)
THEOREM EncoderInvariance == EncoderSpec => []EncoderIInv
<1>1. EncoderInit => EncoderIInv
  <2> SUFFICES ASSUME EncoderInit PROVE EncoderIInv
    OBVIOUS
  <2>1. Len(bytes) \in Nat
    BY EncoderAssumption DEF EncoderInit
  <2>2. EncoderTypeOK
    <3>1. lastStuff \in {n \in 0 .. 60 : n % 4 = 0} /\ index % 3 = 0 /\ state # 1
      BY DEF EncoderInit
    <3>2. index \in 0 .. Len(bytes) /\ result \in Seq(0 .. 64)
      BY <2>1 DEF EncoderInit
    <3> QED BY <3>1, <3>2, Zenon DEF EncoderInit, EncoderTypeOK
  <2>3. TextSoFar
    BY DEF EncoderInit, TextSoFar
  <2> QED BY <2>2, <2>3 DEF EncoderInit, EncoderIInv, BitsLeftOver, EncodedBytes
<1>2. EncoderIInv /\ UNCHANGED encoderVars => EncoderIInv'
  BY DEF encoderVars, EncoderIInv, EncoderTypeOK, TextSoFar, BitsLeftOver, EncodedBytes,
         ResultBit, ObjectBit, TextLength
<1> QED BY <1>1, <1>2, EncodeByteStep, EncodeEndStep, PTL DEF EncoderSpec, EncoderNext

(* imageEncoder loses no bit and adds none but zeros, and pads to a        *)
(* multiple of four characters, for any bytes.                             *)
THEOREM BytesEncoded == EncoderSpec => []EncodedBytes
<1>1. EncoderIInv => EncodedBytes
  BY DEF EncoderIInv
<1> QED BY <1>1, EncoderInvariance, PTL

-----------------------------------------------------------------------------
(* readPropertyFromFile and ExpandPropertiesInString.                      *)

(* The file can be opened once.                                            *)
LEMMA CanOpen == MaxOpen \in Nat /\ MaxOpen >= 1 /\ 0 <= MaxOpen
<1>1. MaxOpen \in Nat \ {0}
  BY PropertyFileAssumption, Zenon
<1> QED BY <1>1

(* What the closure of references is: it holds the names it starts from,   *)
(* is closed, and adds nothing to what is already in such a closure.       *)
LEMMA FromIsClosed ==
  ASSUME NEW F, NEW start
  PROVE  /\ start \subseteq From(F, start)
         /\ From(F, start) \subseteq start \union ReferredNames(F)
         /\ \A p \in From(F, start) : Refs(F, p) \subseteq From(F, start)
<1> DEFINE names == start \union ReferredNames(F)
<1>1. start \subseteq From(F, start) /\ From(F, start) \subseteq names
  BY Zenon DEF From
<1>2. ASSUME NEW p \in From(F, start), NEW n \in Refs(F, p) PROVE n \in From(F, start)
  <2>1. n \in names
    BY DEF Refs, ReferredNames
  <2>2. ASSUME NEW S \in SUBSET names, start \subseteq S, Closed(F, S) PROVE n \in S
    <3>1. p \in S
      BY <2>2, Zenon DEF From
    <3> QED BY <2>2, <3>1, Zenon DEF Closed
  <2> HIDE DEF names
  <2> QED BY <2>1, <2>2, Zenon DEF From, names
<1> QED BY <1>1, <1>2, Zenon

(* A name of which no line has a text, nor leads to one, leads to none.    *)
LEMMA LeadsToNoText ==
  ASSUME NEW F, NEW p,
         \A l \in LinesOfFile(F) :
            Matches(l, p) => Refers(l) /\ TextsOf(F, From(F, {Referred(F, l)})) = {}
  PROVE  TextsOf(F, From(F, {p})) = {}
<1> DEFINE next == {l \in LinesOfFile(F) : Matches(l, p) /\ Refers(l)}
           names == {p} \union ReferredNames(F)
           S == {q \in names : q = p \/ \E l \in next : q \in From(F, {Referred(F, l)})}
<1>1. Closed(F, S)
  <2> SUFFICES ASSUME NEW q \in S, NEW n \in Refs(F, q) PROVE n \in S
    BY Zenon DEF Closed
  <2>1. n \in names
    BY DEF Refs, ReferredNames
  <2>2. CASE q = p
    <3>1. PICK l \in next : n = Referred(F, l)
      BY <2>2 DEF Refs
    <3>2. n \in From(F, {Referred(F, l)})
      BY <3>1, FromIsClosed
    <3> QED BY <2>1, <3>1, <3>2
  <2>3. CASE q # p
    <3>1. PICK l \in next : q \in From(F, {Referred(F, l)})
      BY <2>3
    <3>2. n \in From(F, {Referred(F, l)})
      BY <3>1, FromIsClosed, Zenon
    <3> QED BY <2>1, <3>2
  <2> QED BY <2>2, <2>3
<1>2. From(F, {p}) \subseteq S
  <2>1. {p} \subseteq S /\ S \in SUBSET names
    OBVIOUS
  <2> HIDE DEF S
  <2> QED BY <1>1, <2>1, Zenon DEF From
<1>3. ASSUME NEW m \in LinesOfFile(F), ~Refers(m), NEW q \in From(F, {p}), Matches(m, q)
      PROVE  FALSE
  <2>1. q = p \/ \E l \in next : q \in From(F, {Referred(F, l)})
    BY <1>2
  <2>2. q # p
    BY <1>3
  <2>3. PICK l \in next : q \in From(F, {Referred(F, l)})
    BY <2>1, <2>2
  <2>4. Value(m) \in TextsOf(F, From(F, {Referred(F, l)}))
    BY <1>3, <2>3 DEF TextsOf
  <2> QED BY <2>3, <2>4
<1> HIDE DEF S, next, names
<1> QED BY <1>3, Zenon DEF TextsOf

(* The calls that are open, and the lines they are at.                     *)
Calls(F) == [property : PropertyNames, line : 1 .. Len(F.lines) + 1]

LEMMA LineFacts ==
  ASSUME PropertyIInv
  PROVE  /\ file.lines \in Seq(Lines) /\ file.crlf \in BOOLEAN
         /\ Len(file.lines) \in Nat
         /\ \A k \in 1 .. Len(file.lines) : /\ file.lines[k] \in Lines
                                            /\ file.lines[k] \in LinesOfFile(file)
         /\ reading \in Seq(Calls(file)) /\ Len(reading) \in Nat
         /\ \A i \in 1 .. Len(reading) : reading[i] \in Calls(file)
<1>1. file \in [lines : Seq(Lines), crlf : BOOLEAN]
  BY PropertyFileAssumption, Zenon DEF PropertyIInv, PropertyTypeOK
<1>2. reading \in Seq(Calls(file))
  BY Zenon DEF PropertyIInv, PropertyTypeOK, Calls
<1>3. file.lines \in Seq(Lines) /\ file.crlf \in BOOLEAN
  BY <1>1
<1> HIDE DEF Lines
<1>4. Len(file.lines) \in Nat /\ \A k \in 1 .. Len(file.lines) : file.lines[k] \in Lines
  BY <1>3, ElementOfSeq, LenProperties
<1>5. Len(reading) \in Nat /\ \A i \in 1 .. Len(reading) : reading[i] \in Calls(file)
  BY <1>2, ElementOfSeq, LenProperties
<1> QED BY <1>2, <1>3, <1>4, <1>5, Zenon DEF LinesOfFile

LEMMA StringFacts ==
  ASSUME PropertyIInv
  PROVE  /\ Len(string) \in Nat /\ round \in 1 .. Len(string) + 1
         /\ \A i \in 1 .. Len(string) : string[i].name \in PropertyNames
<1> DEFINE Variables == [name : Seq(Words), delimited : BOOLEAN]
<1>1. string \in Seq(Variables) /\ round \in 1 .. Len(string) + 1
  BY PropertyFileAssumption, Zenon DEF PropertyIInv, PropertyTypeOK
<1>2. \A v \in Variables : v.name \in PropertyNames
  BY DEF PropertyNames
<1> HIDE DEF Variables
<1>3. Len(string) \in Nat /\ \A i \in 1 .. Len(string) : string[i] \in Variables
  BY <1>1, ElementOfSeq, LenProperties
<1> QED BY <1>1, <1>2, <1>3, Zenon

LEMMA ReferredName ==
  ASSUME NEW F, NEW l \in Lines PROVE Referred(F, l) \in PropertyNames
<1>1. l.value \in Seq(Words)
  BY DEF Lines
<1>2. l.value \in PropertyNames /\ Append(l.value, CR) \in PropertyNames
  BY <1>1 DEF PropertyNames
<1> QED BY <1>2 DEF Referred

LEMMA PropertyInitInv == PropertyInit => PropertyIInv
<1> SUFFICES ASSUME PropertyInit PROVE PropertyIInv
  OBVIOUS
<1>1. file \in Files /\ string \in Strings /\ Len(string) \in Nat
  BY PropertyFileAssumption DEF PropertyInit
<1>2. /\ round = 1 /\ forms = << >> /\ expanded = "none" /\ reading = << >>
      /\ found = Nothing /\ refused = FALSE
  BY DEF PropertyInit
<1>3. PropertyTypeOK
  <2>1. /\ reading \in Seq(Calls(file)) /\ round \in 1 .. Len(string) + 1
        /\ forms \in Seq({"as it was", "value", "without $"})
    BY <1>1, <1>2
  <2>2. Len(reading) = 0
    BY <1>2
  <2>3. Len(reading) <= MaxOpen
    BY <2>2, CanOpen, Zenon
  <2>4. refused \in BOOLEAN
    BY <1>2, Zenon
  <2> QED BY <1>1, <1>2, <2>1, <2>3, <2>4, Zenon DEF PropertyTypeOK, Calls
<1>4. CallsFollowReferences /\ CallsLead /\ PassedOver
  BY <1>2 DEF CallsFollowReferences, CallsLead, PassedOver
<1> QED BY <1>2, <1>3, <1>4, Zenon DEF PropertyIInv, PropertyResolved, RefusedRightly

-----------------------------------------------------------------------------
(* The innermost call, which may have become so as an inner one failed,    *)
(* goes on to the next line.                                               *)
LEMMA PassLine ==
  ASSUME PropertyIInv, UNCHANGED <<file, expandVars, found>>,
         refused' \in BOOLEAN, refused => refused', 
         refused' => refused \/ NeedsMoreFiles(file, From(file, {string[round].name})),
         NEW n \in 1 .. Len(reading), reading' = NextLine(SubSeq(reading, 1, n)),
         reading[n].line <= Len(file.lines),
         LET l == file.lines[reading[n].line]
         IN ~refused' /\ Matches(l, reading[n].property) =>
               Refers(l) /\ TextsOf(file, From(file, {Referred(file, l)})) = {}
  PROVE  PropertyIInv'
<1> DEFINE F == file name == string[round].name
<1>1. /\ F' = F /\ string' = string /\ round' = round /\ forms' = forms
      /\ expanded' = expanded /\ found' = found
  BY DEF expandVars
<1>2. /\ reading \in Seq(Calls(F)) /\ Len(reading) \in Nat /\ Len(F.lines) \in Nat
      /\ \A i \in 1 .. Len(reading) : reading[i] \in Calls(F)
  BY LineFacts
<1> DEFINE top == [reading[n] EXCEPT !.line = @ + 1]
<1>3. top \in Calls(F) /\ top.property = reading[n].property /\ top.line = reading[n].line + 1
  <2>1. /\ reading[n] \in [property : PropertyNames, line : 1 .. Len(F.lines) + 1]
        /\ reading[n].line + 1 \in 1 .. Len(F.lines) + 1
    BY <1>2 DEF Calls
  <2> HIDE DEF F
  <2> QED BY <2>1, Zenon DEF Calls
<1>4. /\ reading' \in Seq(Calls(F)) /\ Len(reading') = n /\ reading'[n] = top
      /\ \A i \in 1 .. n - 1 : reading'[i] = reading[i]
  <2> DEFINE cut == SubSeq(reading, 1, n)
  <2> HIDE DEF top
  <2>1. /\ cut \in Seq(Calls(F)) /\ Len(cut) = n
        /\ \A i \in 1 .. n : cut[i] = reading[i]
    BY <1>2, SubSeqProperties
  <2> HIDE DEF cut
  <2>2. reading' = [cut EXCEPT ![n] = top]
    <3>1. reading' = [cut EXCEPT ![Len(cut)] =
                         [cut[Len(cut)] EXCEPT !.line = cut[Len(cut)].line + 1]]
      BY Zenon DEF NextLine, cut
    <3>2. cut[n] = reading[n]
      BY <2>1
    <3> QED BY <2>1, <3>1, <3>2, Zenon DEF top
  <2>3. reading' \in Seq(Calls(F)) /\ Len(reading') = n
    BY <1>3, <2>1, <2>2, ExceptSeq
  <2>4. /\ reading'[n] = top
        /\ \A i \in 1 .. n - 1 : reading'[i] = cut[i]
    BY <1>3, <2>1, <2>2
  <2> QED BY <2>1, <2>3, <2>4
<1>5. \A i \in 1 .. n : reading'[i].property = reading[i].property
  <2> HIDE DEF top
  <2> SUFFICES ASSUME NEW i \in 1 .. n PROVE reading'[i].property = reading[i].property
    OBVIOUS
  <2>1. i = n \/ i \in 1 .. n - 1
    OBVIOUS
  <2> QED BY <1>3, <1>4, <2>1, Zenon
<1>6. PropertyTypeOK'
  <2>1. reading # << >> /\ reading' # << >> /\ reading'[1].property = reading[1].property
    BY <1>2, <1>4, <1>5
  <2>2. PropertyTypeOK
    BY Zenon DEF PropertyIInv
  <2>3. Len(reading') <= MaxOpen
    <3>1. Len(reading) <= MaxOpen
      BY <2>2, Zenon DEF PropertyTypeOK
    <3> QED BY <1>2, <1>4, <3>1, CanOpen
  <2> HIDE DEF top, name
  <2> QED BY <1>1, <1>4, <2>1, <2>2, <2>3, Zenon DEF PropertyTypeOK, Calls
<1>7. CallsFollowReferences'
  <2> SUFFICES ASSUME NEW i \in 1 .. n - 1
               PROVE  LET c == reading[i] l == F.lines[c.line] IN
                         /\ c.line <= Len(F.lines) /\ Matches(l, c.property) /\ Refers(l)
                         /\ Referred(F, l) = reading'[i + 1].property
    BY <1>1, <1>4, Zenon DEF CallsFollowReferences
  <2>1. i \in 1 .. Len(reading) - 1 /\ i + 1 \in 1 .. n
    BY <1>2
  <2> QED BY <1>5, <2>1, Zenon DEF PropertyIInv, CallsFollowReferences
<1>8. CallsLead'
  <2>1. ASSUME NEW i \in 1 .. n
        PROVE  /\ i \in 1 .. Len(reading)
               /\ \A j \in i + 1 .. n : j \in 1 .. n /\ j \in i + 1 .. Len(reading)
    BY <1>2
  <2> QED BY <1>1, <1>4, <1>5, <2>1, Zenon DEF PropertyIInv, CallsLead
<1>9. PassedOver'
  <2> SUFFICES ASSUME ~refused', NEW i \in 1 .. n, NEW k \in 1 .. reading'[i].line - 1,
                      Matches(F.lines[k], reading[i].property)
               PROVE  /\ Refers(F.lines[k])
                      /\ TextsOf(F, From(F, {Referred(F, F.lines[k])})) = {}
    BY <1>1, <1>4, <1>5, Zenon DEF PassedOver
  <2>1. i \in 1 .. Len(reading) /\ reading[i] \in Calls(F)
    BY <1>2
  <2>2. CASE k \in 1 .. reading[i].line - 1
    BY <2>1, <2>2, Zenon DEF PropertyIInv, PassedOver
  <2>3. CASE k \notin 1 .. reading[i].line - 1
    <3> HIDE DEF top
    <3>1. i = n
      BY <1>4, <2>3
    <3>2. reading[n].line \in Nat
      BY <2>1, <3>1 DEF Calls
    <3>3. k \in 1 .. reading[n].line /\ k \notin 1 .. reading[n].line - 1
      <4>1. reading'[i].line = reading[n].line + 1
        BY <1>3, <1>4, <3>1, Zenon
      <4> QED BY <2>3, <3>1, <3>2, <4>1
    <3>4. k = reading[n].line
      BY <3>2, <3>3
    <3> QED BY <3>1, <3>4
  <2> QED BY <2>2, <2>3
<1>10. PropertyResolved'
  <2>0. reading # << >>
    BY <1>2
  <2>1. found = Nothing
    BY <2>0, Zenon DEF PropertyIInv, PropertyTypeOK
  <2> QED BY <1>1, <2>1, Zenon DEF PropertyResolved
<1>11. RefusedRightly'
  <2>1. reading # << >>
    BY <1>2
  <2> QED BY <1>1, <2>1, Zenon DEF PropertyIInv, RefusedRightly
<1> QED BY <1>6, <1>7, <1>8, <1>9, <1>10, <1>11, Zenon DEF PropertyIInv

LEMMA SkipLineStep == PropertyIInv /\ SkipLine => PropertyIInv'
<1> SUFFICES ASSUME PropertyIInv, SkipLine PROVE PropertyIInv'
  OBVIOUS
<1> DEFINE n == Len(reading)
<1>1. n \in 1 .. Len(reading) /\ SubSeq(reading, 1, n) = reading
  BY LineFacts DEF SkipLine, ReadsLine
<1>2. /\ reading' = NextLine(reading) /\ UNCHANGED <<file, expandVars, found, refused>>
      /\ reading[n].line <= Len(file.lines)
      /\ ~Matches(file.lines[reading[n].line], reading[n].property)
  BY Zenon DEF SkipLine, ReadsLine, Top, Line
<1>3. refused \in BOOLEAN
  BY Zenon DEF PropertyIInv, PropertyTypeOK
<1> HIDE DEF n
<1> QED BY <1>1, <1>2, <1>3, PassLine, Zenon

(* The file ends for the innermost call, of which no line leads to a text. *)
LEMMA FileEndStep == PropertyIInv /\ FileEnd => PropertyIInv'
<1> SUFFICES ASSUME PropertyIInv, FileEnd PROVE PropertyIInv'
  OBVIOUS
<1> DEFINE n == Len(reading) p == reading[n].property
<1>1. /\ n \in 1 .. Len(reading) /\ reading[n].line > Len(file.lines)
      /\ reading[n] \in Calls(file) /\ Len(file.lines) \in Nat
      /\ n \in Nat /\ reading # << >> /\ UNCHANGED <<file, expandVars, refused>>
  BY LineFacts DEF FileEnd, Top
<1>2. ~refused => TextsOf(file, From(file, {p})) = {}
  <2> SUFFICES ASSUME ~refused PROVE TextsOf(file, From(file, {p})) = {}
    OBVIOUS
  <2>1. ASSUME NEW l \in LinesOfFile(file), Matches(l, p)
        PROVE  Refers(l) /\ TextsOf(file, From(file, {Referred(file, l)})) = {}
    <3>1. PICK k \in 1 .. Len(file.lines) : l = file.lines[k]
      BY Zenon DEF LinesOfFile
    <3>2. k \in 1 .. reading[n].line - 1
      BY <1>1 DEF Calls
    <3> HIDE DEF n
    <3> QED BY <1>1, <2>1, <3>1, <3>2, Zenon DEF PropertyIInv, PassedOver
  <2> HIDE DEF n
  <2> QED BY <2>1, LeadsToNoText, Zenon
<1>3. CASE n = 1
  <2>1. /\ reading' = << >> /\ found' = Missing /\ file' = file /\ string' = string
        /\ round' = round /\ forms' = forms /\ expanded' = expanded /\ refused' = refused
    BY <1>3 DEF FileEnd, expandVars
  <2>2. /\ reading # << >> /\ p = string[round].name
        /\ round <= Len(string) /\ string[round].delimited
    BY <1>3, <1>1, Zenon DEF PropertyIInv, PropertyTypeOK
  <2>3. PropertyTypeOK'
    <3>1. reading' \in Seq(Calls(file)) /\ Len(reading') <= MaxOpen
      BY <2>1, CanOpen
    <3>2. PropertyTypeOK
      BY Zenon DEF PropertyIInv
    <3> HIDE DEF n
    <3> QED BY <2>1, <2>2, <3>1, <3>2, Zenon DEF PropertyTypeOK, Calls
  <2>4. CallsFollowReferences' /\ CallsLead' /\ PassedOver'
    BY <2>1 DEF CallsFollowReferences, CallsLead, PassedOver
  <2>5. PropertyResolved'
    <3>1. found'.is = "missing"
      BY <2>1 DEF Missing
    <3>2. found'.is # "text"
      BY <3>1
    <3>3. ~refused => TextsOf(file, From(file, {string[round].name})) = {}
      BY <1>2, <2>2, Zenon
    <3>4. refused => NeedsMoreFiles(file, From(file, {string[round].name}))
      BY <1>1, Zenon DEF PropertyIInv, RefusedRightly
    <3>5. /\ found'.is # "text" /\ refused' = refused
          /\ file' = file /\ string' = string /\ round' = round
      BY <1>1, <2>1, <3>2
    <3> QED BY <3>3, <3>4, <3>5, Zenon DEF PropertyResolved
  <2>6. RefusedRightly'
    <3>1. refused => NeedsMoreFiles(file, From(file, {string[round].name}))
      BY <1>1, Zenon DEF PropertyIInv, RefusedRightly
    <3> QED BY <2>1, <3>1 DEF RefusedRightly
  <2> QED BY <2>3, <2>4, <2>5, <2>6, Zenon DEF PropertyIInv
<1>4. CASE n # 1
  <2> DEFINE m == n - 1
  <2>1. /\ m \in 1 .. Len(reading) /\ m \in 1 .. Len(reading) - 1 /\ m + 1 = n
    <3>1. Len(reading) \in Nat /\ Len(reading) >= 1 /\ Len(reading) # 1
      BY <1>1, <1>4
    <3>2. \A a \in Nat : a >= 1 /\ a # 1 => a - 1 \in 1 .. a /\ a - 1 \in 1 .. a - 1 /\ a - 1 + 1 = a
      OBVIOUS
    <3> QED BY <3>1, <3>2, Zenon
  <2>2. reading' = NextLine(SubSeq(reading, 1, m)) /\ UNCHANGED found
    BY <1>4 DEF FileEnd
  <2> DEFINE l == file.lines[reading[m].line]
  <2>3. reading[m].line <= Len(file.lines) /\ Refers(l) /\ Referred(file, l) = p
                   /\ refused \in BOOLEAN
    <3> HIDE DEF n, m
    <3> QED BY <2>1, Zenon DEF PropertyIInv, PropertyTypeOK, CallsFollowReferences
  <2> HIDE DEF n, m
  <2> QED BY <1>1, <1>2, <2>1, <2>2, <2>3, PassLine, Zenon
<1> QED BY <1>3, <1>4

LEMMA TakeValueStep == PropertyIInv /\ TakeValue => PropertyIInv'
<1> SUFFICES ASSUME PropertyIInv, TakeValue PROVE PropertyIInv'
  OBVIOUS
<1> DEFINE n == Len(reading) p == reading[n].property l == file.lines[reading[n].line]
           name == string[round].name
<1>1. /\ reading # << >> /\ n \in 1 .. Len(reading) /\ reading[n].line <= Len(file.lines)
      /\ Matches(l, p) /\ ~Refers(l)
      /\ reading' = << >> /\ found' = TextIs(Value(l)) /\ file' = file /\ string' = string
      /\ round' = round /\ forms' = forms /\ expanded' = expanded /\ refused' = refused
  BY LineFacts DEF TakeValue, ReadsLine, Top, Line, expandVars
<1>2. l \in Lines /\ l \in LinesOfFile(file)
  <2>1. reading[n].line \in 1 .. Len(file.lines)
    BY <1>1, LineFacts DEF Calls
  <2> QED BY <2>1, LineFacts, Zenon
<1>3. p \in From(file, {name})
  <2> HIDE DEF n
  <2> QED BY <1>1, Zenon DEF PropertyIInv, CallsLead
<1>4. found'.is = "text" /\ found'.value = Value(l)
  BY <1>1 DEF TextIs
<1> HIDE DEF n
<1>5. PropertyTypeOK'
  <2>1. Value(l) \in Seq(Words)
    BY <1>2 DEF Value, Lines
  <2>2. found' \in [is : {"text"}, value : Seq(Words)]
    BY <1>1, <2>1 DEF TextIs
  <2>3. reading' \in Seq(Calls(file)) /\ reading' = << >> /\ Len(reading') <= MaxOpen
    BY <1>1, CanOpen
  <2>4. PropertyTypeOK
    BY Zenon DEF PropertyIInv
  <2>5. found = Nothing /\ round <= Len(string) /\ string[round].delimited
    BY <1>1, <2>4, Zenon DEF PropertyTypeOK
  <2> HIDE DEF l, name
  <2> QED BY <1>1, <2>2, <2>3, <2>4, <2>5, Zenon DEF PropertyTypeOK, Calls
<1>6. CallsFollowReferences' /\ CallsLead' /\ PassedOver'
  BY <1>1 DEF CallsFollowReferences, CallsLead, PassedOver
<1>7. PropertyResolved'
  <2>1. Value(l) \in TextsOf(file, From(file, {name}))
    <3> HIDE DEF l, name, p
    <3> QED BY <1>1, <1>2, <1>3 DEF TextsOf
  <2>2. found'.is # "missing"
    BY <1>4
  <2>3. refused => NeedsMoreFiles(file, From(file, {string[round].name}))
    BY <1>1, Zenon DEF PropertyIInv, RefusedRightly
  <2> HIDE DEF l
  <2> QED BY <1>1, <1>4, <2>1, <2>2, <2>3, Zenon DEF PropertyResolved
<1>8. RefusedRightly'
  BY <1>1, Zenon DEF PropertyIInv, RefusedRightly
<1> QED BY <1>5, <1>6, <1>7, <1>8, Zenon DEF PropertyIInv

(* Only finitely many names can be led to.                                 *)
LEMMA LeadsAreFinite ==
  ASSUME PropertyIInv, NEW p
  PROVE  IsFiniteSet(From(file, {p}))
<1> DEFINE f == [k \in 1 .. Len(file.lines) |-> Referred(file, file.lines[k])]
           names == ReferredNames(file)
<1>1. f \in Surjection(1 .. Len(file.lines), names)
  <2>1. names = {f[k] : k \in 1 .. Len(file.lines)}
    BY DEF ReferredNames, LinesOfFile
  <2> HIDE DEF names
  <2> QED BY <2>1 DEF Surjection
<1>2. IsFiniteSet(1 .. Len(file.lines))
  BY LineFacts, FS_Interval
<1> HIDE DEF f, names
<1>3. IsFiniteSet(names)
  BY <1>1, <1>2, FS_Surjection
<1>4. IsFiniteSet({p}) /\ IsFiniteSet({p} \union names)
  BY <1>3, FS_Singleton, FS_Union
<1>5. From(file, {p}) \subseteq {p} \union names
  BY FromIsClosed, Zenon DEF names
<1> QED BY <1>4, <1>5, FS_Subset

(* A reference is followed while files can be opened: the call can then be *)
(* made.  If not, the names of the open calls and the next one are more    *)
(* than there are names, or one of them is there twice and leads to itself.*)
LEMMA FollowReferenceStep == PropertyIInv /\ FollowReference => PropertyIInv'
<1> SUFFICES ASSUME PropertyIInv, FollowReference PROVE PropertyIInv'
  OBVIOUS
<1> DEFINE n == Len(reading) p == reading[n].property l == file.lines[reading[n].line]
           name == string[round].name q == Referred(file, l)
<1>1. /\ reading # << >> /\ n \in Nat /\ n \in 1 .. Len(reading)
      /\ reading[n].line <= Len(file.lines)
      /\ Matches(l, p) /\ Refers(l)
      /\ file' = file /\ string' = string
      /\ round' = round /\ forms' = forms /\ expanded' = expanded
  BY LineFacts DEF FollowReference, ReadsLine, Top, Line, expandVars
<1>2. l \in Lines /\ l \in LinesOfFile(file) /\ Len(file.lines) \in Nat
  <2>1. reading[n].line \in 1 .. Len(file.lines) /\ Len(file.lines) \in Nat
    BY <1>1, LineFacts DEF Calls
  <2> QED BY <2>1, LineFacts, Zenon
<1>3. q \in Refs(file, p)
  <2> HIDE DEF l, p
  <2> QED BY <1>1, <1>2, Zenon DEF Refs
<1> HIDE DEF q
<1>4. p \in From(file, {name}) /\ q \in From(file, {name})
  <2>1. p \in From(file, {name})
    <3> HIDE DEF n
    <3> QED BY <1>1, Zenon DEF PropertyIInv, CallsLead
  <2> HIDE DEF p
  <2> QED BY <1>3, <2>1, FromIsClosed, Zenon
<1>5. \A i \in 1 .. n : q \in From(file, Refs(file, reading[i].property))
  <2> SUFFICES ASSUME NEW i \in 1 .. n
               PROVE  q \in From(file, Refs(file, reading[i].property))
    OBVIOUS
  <2>1. CASE i = n
    BY <1>3, <2>1, FromIsClosed, Zenon
  <2>2. CASE i # n
    <3>1. n \in i + 1 .. Len(reading)
      BY <1>1, <2>2
    <3>2. p \in From(file, Refs(file, reading[i].property))
      BY <3>1, Zenon DEF PropertyIInv, CallsLead
    <3> HIDE DEF p
    <3> QED BY <1>3, <3>2, FromIsClosed, Zenon
  <2> QED BY <2>1, <2>2
<1>6. /\ PropertyTypeOK /\ found = Nothing /\ expanded = "none"
      /\ round <= Len(string) /\ string[round].delimited
  BY <1>1, Zenon DEF PropertyIInv, PropertyTypeOK
<1>7. CASE ~(Len(reading) < MaxOpen)
  <2>1. /\ reading' = NextLine(reading) /\ refused' = TRUE /\ UNCHANGED <<file, expandVars, found>>
    BY <1>7, Zenon DEF FollowReference
  <2>2. n = MaxOpen /\ SubSeq(reading, 1, n) = reading
    <3>1. Len(reading) <= MaxOpen /\ MaxOpen \in Nat
      BY <1>6, CanOpen, Zenon DEF PropertyTypeOK
    <3> QED BY <1>1, <1>7, <3>1, LineFacts
  <2> DEFINE leads == From(file, {name})
             f == [i \in 1 .. n + 1 |-> IF i = n + 1 THEN q ELSE reading[i].property]
  <2>3. ASSUME Cardinality(leads) <= MaxOpen PROVE \E a \in leads : a \in From(file, Refs(file, a))
    <3>1. \A i \in 1 .. n : f[i] = reading[i].property /\ f[i] \in leads
      <4> SUFFICES ASSUME NEW i \in 1 .. n
                   PROVE  f[i] = reading[i].property /\ f[i] \in leads
        OBVIOUS
      <4>1. i # n + 1 /\ i \in 1 .. n + 1
        BY <1>1
      <4>2. i \in 1 .. Len(reading)
        OBVIOUS
      <4> HIDE DEF n
      <4> QED BY <4>1, <4>2, Zenon DEF PropertyIInv, CallsLead
    <3>2. f[n + 1] = q /\ q \in leads
      <4>1. n + 1 \in 1 .. n + 1
        BY <1>1
      <4> QED BY <1>4, <4>1, Zenon
    <3>3. \A i \in 1 .. n + 1 : i \in 1 .. n \/ i = n + 1
      BY <1>1
    <3>4. f \in [1 .. n + 1 -> leads]
      <4>1. \A i \in 1 .. n + 1 : f[i] \in leads
        BY <3>1, <3>2, <3>3, Zenon
      <4> HIDE DEF leads, n, q, name
      <4> QED BY <4>1
    <3>5. /\ IsFiniteSet(1 .. n + 1) /\ Cardinality(1 .. n + 1) = n + 1
          /\ IsFiniteSet(leads) /\ Cardinality(leads) < Cardinality(1 .. n + 1)
      <4>1. IsFiniteSet(1 .. n + 1) /\ Cardinality(1 .. n + 1) = n + 1
        BY <1>1, FS_Interval
      <4>2. IsFiniteSet(leads)
        BY LeadsAreFinite, Zenon
      <4>3. Cardinality(leads) \in Nat
        BY <4>2, FS_CardinalityType
      <4> HIDE DEF leads, n
      <4> QED BY <1>1, <2>2, <2>3, <4>1, <4>2, <4>3
    <3> HIDE DEF f, leads, n, q, name
    <3>6. PICK x \in 1 .. n + 1, y \in 1 .. n + 1 : x # y /\ f[x] = f[y]
      BY <3>4, <3>5, FS_PigeonHole, Zenon
    <3>7. ASSUME NEW i \in 1 .. n + 1, NEW j \in 1 .. n + 1, i < j, f[i] = f[j]
          PROVE  \E a \in leads : a \in From(file, Refs(file, a))
      <4>1. i \in 1 .. n /\ (j = n + 1 \/ j \in i + 1 .. n) /\ j \in Nat
        BY <1>1, <3>7
      <4>2. f[i] \in leads /\ f[i] = reading[i].property
        BY <3>1, <4>1
      <4>3. CASE j = n + 1
        BY <1>5, <3>2, <3>7, <4>1, <4>2, <4>3, Zenon
      <4>4. CASE j \in i + 1 .. n
        <5>1. j \in 1 .. n
          BY <4>1, <4>4
        <5>2. i \in 1 .. Len(reading) /\ j \in i + 1 .. Len(reading)
          BY <4>1, <4>4 DEF n
        <5>3. reading[j].property \in From(file, Refs(file, reading[i].property))
          BY <5>2, Zenon DEF PropertyIInv, CallsLead
        <5> QED BY <3>1, <3>7, <4>2, <5>1, <5>3, Zenon
      <4> QED BY <4>1, <4>3, <4>4
    <3>8. x < y \/ y < x
      BY <1>1, <3>6
    <3> QED BY <3>6, <3>7, <3>8
  <2>4. NeedsMoreFiles(file, leads)
    <3>1. Cardinality(leads) \in Nat /\ MaxOpen \in Nat
      BY LeadsAreFinite, FS_CardinalityType, CanOpen
    <3> HIDE DEF leads, f, n, q
    <3> QED BY <2>3, <3>1 DEF NeedsMoreFiles
  <2> HIDE DEF n, p, l
  <2> QED BY <1>1, <2>1, <2>2, <2>4, PassLine
<1>8. CASE Len(reading) < MaxOpen
  <2> DEFINE call == Opened(q)
  <2>1. reading' = Append(reading, call) /\ found' = found /\ refused' = refused
    BY <1>8, Zenon DEF FollowReference, Top, Line, q
  <2>2. call \in Calls(file) /\ call.property = q /\ call.line = 1
    <3>1. q \in PropertyNames
      BY <1>2, ReferredName, Zenon DEF q
    <3>2. 1 \in 1 .. Len(file.lines) + 1
      BY <1>2
    <3> QED BY <3>1, <3>2 DEF Opened, Calls
  <2> HIDE DEF call, l
  <2>3. /\ reading' \in Seq(Calls(file)) /\ Len(reading') = n + 1 /\ reading'[n + 1] = call
        /\ \A i \in 1 .. n : reading'[i] = reading[i]
    <3>1. reading \in Seq(Calls(file))
      BY LineFacts
    <3> QED BY <2>1, <2>2, <3>1, AppendProperties
  <2>4. PropertyTypeOK'
    <3>1. reading'[1] = reading[1] /\ reading' # << >> /\ Len(reading') <= MaxOpen
      BY <1>1, <1>8, <2>3, CanOpen
    <3> HIDE DEF n, name
    <3> QED BY <1>1, <1>6, <2>1, <2>3, <3>1, Zenon DEF PropertyTypeOK, Calls
  <2>5. CallsFollowReferences'
    <3> SUFFICES ASSUME NEW i \in 1 .. n
                 PROVE  LET c == reading[i] m == file.lines[c.line] IN
                           /\ c.line <= Len(file.lines) /\ Matches(m, c.property) /\ Refers(m)
                           /\ Referred(file, m) = reading'[i + 1].property
      <4>1. (Len(reading') - 1) = n
        BY <1>1, <2>3
      <4> HIDE DEF n
      <4> QED BY <1>1, <2>3, <4>1, Zenon DEF CallsFollowReferences
    <3>1. CASE i = n
      BY <1>1, <2>2, <2>3, <3>1, Zenon DEF l, q
    <3>2. CASE i # n
      <4>1. i \in 1 .. Len(reading) - 1 /\ i + 1 \in 1 .. n
        BY <1>1, <3>2
      <4> QED BY <2>3, <4>1, Zenon DEF PropertyIInv, CallsFollowReferences
    <3> QED BY <3>1, <3>2
  <2>6. CallsLead'
    <3> SUFFICES ASSUME NEW i \in 1 .. n + 1
                 PROVE  /\ reading'[i].property \in From(file, {name})
                        /\ \A j \in i + 1 .. n + 1 :
                              reading'[j].property \in From(file, Refs(file, reading'[i].property))
      BY <1>1, <2>3, Zenon DEF CallsLead
    <3>1. CASE i = n + 1
      <4>1. i + 1 .. n + 1 = {}
        BY <1>1, <3>1
      <4> QED BY <1>4, <2>2, <2>3, <3>1, <4>1, Zenon
    <3>2. CASE i # n + 1
      <4>1. i \in 1 .. n /\ \A j \in i + 1 .. n + 1 :
                               j = n + 1 \/ (j \in i + 1 .. Len(reading) /\ j \in 1 .. n)
        BY <1>1, <3>2
      <4>2. i \in 1 .. Len(reading)
        BY <4>1
      <4> HIDE DEF n
      <4> QED BY <1>5, <2>2, <2>3, <4>1, <4>2, Zenon DEF PropertyIInv, CallsLead
    <3> QED BY <3>1, <3>2
  <2>7. PassedOver'
    <3> SUFFICES ASSUME ~refused, NEW i \in 1 .. n + 1, NEW k \in 1 .. reading'[i].line - 1,
                        Matches(file.lines[k], reading'[i].property)
                 PROVE  /\ Refers(file.lines[k])
                        /\ TextsOf(file, From(file, {Referred(file, file.lines[k])})) = {}
      BY <1>1, <2>1, <2>3, Zenon DEF PassedOver
    <3>1. i \in 1 .. n
      <4>1. i # n + 1
        BY <2>2, <2>3
      <4> QED BY <1>1, <4>1
    <3> QED BY <2>3, <3>1, Zenon DEF PropertyIInv, PassedOver
  <2>8. PropertyResolved' /\ RefusedRightly'
    BY <1>1, <1>6, <2>1, Zenon DEF PropertyIInv, PropertyResolved, RefusedRightly
  <2> QED BY <2>4, <2>5, <2>6, <2>7, <2>8, Zenon DEF PropertyIInv
<1> QED BY <1>7, <1>8

-----------------------------------------------------------------------------
LEMMA AskForVariableStep == PropertyIInv /\ AskForVariable => PropertyIInv'
<1> SUFFICES ASSUME PropertyIInv, AskForVariable PROVE PropertyIInv'
  OBVIOUS
<1> DEFINE name == string[round].name call == Opened(name)
<1>1. /\ file' = file /\ string' = string /\ round' = round /\ forms' = forms
      /\ expanded' = expanded /\ found' = found
      /\ expanded = "none" /\ found = Nothing
      /\ round <= Len(string) /\ string[round].delimited
      /\ reading' = <<call>> /\ refused' = FALSE
  BY DEF AskForVariable, Expands, expandVars
<1>2. PropertyTypeOK
  BY Zenon DEF PropertyIInv
<1>3. name \in PropertyNames
  <2>1. round \in 1 .. Len(string)
    BY <1>1, StringFacts
  <2> QED BY <2>1, StringFacts, Zenon
<1>4. call \in Calls(file) /\ call.property = name /\ call.line = 1
  <2>1. 1 \in 1 .. Len(file.lines) + 1
    BY LineFacts
  <2> HIDE DEF name
  <2> QED BY <1>3, <2>1 DEF Opened, Calls
<1> HIDE DEF call
<1>5. reading' \in Seq(Calls(file)) /\ Len(reading') = 1 /\ reading'[1] = call /\ reading' # << >>
  BY <1>1, <1>4
<1>6. PropertyTypeOK'
  <2>1. reading'[1].property = string[round].name
    BY <1>4, <1>5
  <2>2. Len(reading') <= MaxOpen /\ refused' \in BOOLEAN
    BY <1>1, <1>5, CanOpen
  <2> HIDE DEF name
  <2> QED BY <1>1, <1>2, <1>5, <2>1, <2>2, Zenon DEF PropertyTypeOK, Calls
<1>7. CallsFollowReferences' /\ PassedOver'
  BY <1>1, <1>4, <1>5 DEF CallsFollowReferences, PassedOver
<1>8. CallsLead'
  <2> SUFFICES ASSUME NEW i \in 1 .. 1
               PROVE  /\ reading'[i].property \in From(file, {name})
                      /\ \A j \in i + 1 .. 1 :
                            reading'[j].property \in From(file, Refs(file, reading'[i].property))
    BY <1>1, <1>5, Zenon DEF CallsLead
  <2>1. name \in From(file, {name})
    BY FromIsClosed, Zenon
  <2>2. i = 1 /\ i + 1 .. 1 = {}
    OBVIOUS
  <2> QED BY <1>4, <1>5, <2>1, <2>2, Zenon
<1>9. PropertyResolved' /\ RefusedRightly'
  BY <1>1, Zenon DEF PropertyResolved, RefusedRightly
<1> QED BY <1>6, <1>7, <1>8, <1>9, Zenon DEF PropertyIInv

LEMMA RoundBounds ==
  ASSUME NEW n \in Nat, NEW r \in 1 .. n + 1
  PROVE  /\ r > n => ~(r <= n)
         /\ r <= n => r - 1 \in Nat /\ r + 1 \in 1 .. n + 1
  OBVIOUS

(* The other steps of ExpandPropertiesInString are made with no call open. *)
LEMMA ExpandStep ==
  PropertyIInv /\ (PutValue \/ CannotPut \/ DropSign \/ ExpandEnd) => PropertyIInv'
<1> SUFFICES ASSUME PropertyIInv, PutValue \/ CannotPut \/ DropSign \/ ExpandEnd
             PROVE  PropertyIInv'
  OBVIOUS
<1> DEFINE Forms == {"as it was", "value", "without $"}
<1>1. PropertyTypeOK
  BY Zenon DEF PropertyIInv
<1>2. round \in 1 .. Len(string) + 1 /\ Len(string) \in Nat /\ forms \in Seq(Forms)
  BY <1>1, StringFacts, Zenon DEF PropertyTypeOK
<1>3. reading = << >>
  <2>1. reading # << >> => round <= Len(string)
    BY <1>1, Zenon DEF PropertyTypeOK
  <2>2. CASE ExpandEnd
    <3>1. round > Len(string)
      BY <2>2, Zenon DEF ExpandEnd
    <3>2. ~(round <= Len(string))
      BY <1>2, <3>1, RoundBounds, Zenon
    <3> QED BY <2>1, <3>2, Zenon
  <2> QED BY <2>2, Zenon DEF PutValue, CannotPut, DropSign, Expands
<1>4. reading' = << >> /\ file' = file /\ string' = string /\ refused' = refused
  BY <1>3, Zenon DEF PutValue, CannotPut, DropSign, ExpandEnd
<1>5. CallsFollowReferences' /\ CallsLead' /\ PassedOver'
  BY <1>4 DEF CallsFollowReferences, CallsLead, PassedOver
<1>6. found' = Nothing \/ (found' = found /\ round' = round)
  <2>1. DropSign => found' = found /\ found = Nothing
    BY <1>1, Zenon DEF DropSign, PropertyTypeOK
  <2>2. PutValue => found' = Nothing
    BY Zenon DEF PutValue
  <2>3. CannotPut \/ ExpandEnd => found' = found /\ round' = round
    BY DEF CannotPut, ExpandEnd
  <2> QED BY <2>1, <2>2, <2>3, Zenon
<1>7. PropertyResolved' /\ RefusedRightly'
  BY <1>4, <1>6, Zenon DEF PropertyIInv, PropertyResolved, RefusedRightly
<1>8. forms' \in Seq(Forms) /\ round' \in 1 .. Len(string) + 1
  <2>1. ASSUME round <= Len(string)
        PROVE  /\ Raw \in Seq(Forms) /\ round + 1 \in 1 .. Len(string) + 1
               /\ Append(Raw, "value") \in Seq(Forms) /\ Append(Raw, "without $") \in Seq(Forms)
    <3>1. round - 1 \in Nat /\ round + 1 \in 1 .. Len(string) + 1
      BY <1>2, <2>1, RoundBounds, Zenon
    <3>2. Raw \in Seq(Forms)
      <4>1. \A i \in 1 .. round - 1 : "as it was" \in Forms
        OBVIOUS
      <4>2. Raw \in [1 .. round - 1 -> Forms]
        BY <4>1, Zenon DEF Raw
      <4> HIDE DEF Forms
      <4> QED BY <3>1, <4>2, SeqDef
    <3>3. "value" \in Forms /\ "without $" \in Forms
      OBVIOUS
    <3> HIDE DEF Forms
    <3> QED BY <3>1, <3>2, <3>3, AppendProperties
  <2> HIDE DEF Forms
  <2> QED BY <1>2, <2>1, Zenon DEF PutValue, CannotPut, DropSign, ExpandEnd, Expands
<1>9. PropertyTypeOK'
  <2>1. found' \in {Nothing, Missing} \union [is : {"text"}, value : Seq(Words)]
    BY <1>1, <1>6, Zenon DEF PropertyTypeOK
  <2>2. expanded' \in {"none", "true", "false"}
    BY <1>1, Zenon DEF PropertyTypeOK, PutValue, CannotPut, DropSign, ExpandEnd
  <2>3. reading' \in Seq([property : PropertyNames, line : 1 .. Len(file.lines) + 1])
        /\ Len(reading') <= MaxOpen
    BY <1>4, CanOpen
  <2>4. found' # Nothing => round' <= Len(string) /\ string[round'].delimited
    BY <1>1, <1>6, Zenon DEF PropertyTypeOK
  <2> QED BY <1>1, <1>4, <1>8, <2>1, <2>2, <2>3, <2>4, Zenon DEF PropertyTypeOK
<1> QED BY <1>5, <1>7, <1>9, Zenon DEF PropertyIInv

(* The inductive invariant of the search for properties, for any file and  *)
(* any string.                                                             *)
THEOREM PropertyInvariance == PropertySpec => []PropertyIInv
<1>1. PropertyInit => PropertyIInv
  BY PropertyInitInv
<1>2. PropertyIInv /\ [PropertyNext]_propertyVars => PropertyIInv'
  <2> SUFFICES ASSUME PropertyIInv, [PropertyNext]_propertyVars PROVE PropertyIInv'
    OBVIOUS
  <2>1. CASE PropertyNext
    BY <2>1, SkipLineStep, TakeValueStep, FollowReferenceStep, FileEndStep, AskForVariableStep,
       ExpandStep, Zenon DEF PropertyNext
  <2>2. CASE UNCHANGED propertyVars
    BY <2>2 DEF propertyVars, expandVars, PropertyIInv, PropertyTypeOK, CallsFollowReferences,
                CallsLead, PassedOver, RefusedRightly, PropertyResolved
  <2> QED BY <2>1, <2>2
<1> QED BY <1>1, <1>2, PTL DEF PropertySpec

(* readPropertyFromFile finds a text exactly if the lines of the property, *)
(* and those that their references lead to, have one, and then one of      *)
(* these; one is missed only for want of open files, on references that    *)
(* lead back to themselves or to more names than files can be opened.      *)
THEOREM PropertiesResolved == PropertySpec => []PropertyResolved
<1>1. PropertyIInv => PropertyResolved
  BY DEF PropertyIInv
<1> QED BY <1>1, PropertyInvariance, PTL

-----------------------------------------------------------------------------
(* searchFiles.                                                            *)

(* Files, directories and levels.                                          *)
LEMMA PartFacts ==
  ASSUME NEW f \in Seq(FileName), NEW n \in 0 .. Len(f)
  PROVE  /\ Part(f, n) \in Seq(FileName) /\ Len(Part(f, n)) = n
         /\ \A i \in 1 .. n : Part(f, n)[i] = f[i]
         /\ \A m \in 0 .. n : Part(Part(f, n), m) = Part(f, m)
<1> HIDE DEF FileName
<1>1. n \in Nat /\ Len(f) \in Nat /\ \A i \in 1 .. n : i \in 1 .. Len(f) /\ f[i] \in FileName
  BY ElementOfSeq, LenProperties
<1>2. \A i \in 1 .. n : Part(f, n)[i] = f[i]
  BY DEF Part
<1>3. Part(f, n) \in Seq(FileName) /\ Len(Part(f, n)) = n
  <2>1. Part(f, n) \in [1 .. n -> FileName]
    BY <1>1 DEF Part
  <2> QED BY <1>1, <2>1
<1>4. ASSUME NEW m \in 0 .. n PROVE Part(Part(f, n), m) = Part(f, m)
  <2>1. \A i \in 1 .. m : i \in 1 .. n
    BY <1>1
  <2> QED BY <2>1 DEF Part
<1> QED BY <1>2, <1>3, <1>4

LEMMA PartIsAbove ==
  ASSUME NEW f, NEW levels, NEW n
  PROVE  Part(f, n - 1) = Above(levels, n) <=> \A i \in 1 .. n - 1 : f[i] = levels[i].name
<1>1. ASSUME Part(f, n - 1) = Above(levels, n), NEW i \in 1 .. n - 1
      PROVE  f[i] = levels[i].name
  <2>1. Part(f, n - 1)[i] = f[i] /\ Above(levels, n)[i] = levels[i].name
    BY Zenon DEF Part, Above
  <2> QED BY <1>1, <2>1
<1> QED BY <1>1, Zenon DEF Part, Above

LEMMA PartIsNext ==
  ASSUME NEW levels, NEW m \in Nat, NEW n \in 1 .. m
  PROVE  \A f : Part(f, (n + 1) - 1) = Above(levels, n + 1) <=>
                   Part(f, n - 1) = Above(levels, n) /\ f[n] = levels[n].name
<1> TAKE f
<1>1. \A i : i \in 1 .. (n + 1) - 1 <=> i \in 1 .. n - 1 \/ i = n
  OBVIOUS
<1> DEFINE here == n next == n + 1
<1> HIDE DEF here, next
<1>2. Part(f, here - 1) = Above(levels, here) <=> \A i \in 1 .. here - 1 : f[i] = levels[i].name
  BY PartIsAbove
<1>3. Part(f, next - 1) = Above(levels, next) <=> \A i \in 1 .. next - 1 : f[i] = levels[i].name
  BY PartIsAbove
<1>4. Part(f, next - 1) = Above(levels, next) <=>
      Part(f, here - 1) = Above(levels, here) /\ f[here] = levels[here].name
  <2>1. \A i : i \in 1 .. next - 1 <=> i \in 1 .. here - 1 \/ i = here
    BY <1>1 DEF next, here
  <2> QED BY <1>2, <1>3, <2>1, Zenon
<1> QED BY <1>4 DEF next, here

LEMMA AboveFacts ==
  ASSUME NEW levels \in Seq(Level), NEW n \in 1 .. Len(levels) + 1
  PROVE  /\ Above(levels, n) \in Seq(FileName) /\ Len(Above(levels, n)) = n - 1
         /\ \A i \in 1 .. n - 1 : Above(levels, n)[i] = levels[i].name
<1>1. n - 1 \in Nat /\ \A i \in 1 .. n - 1 : i \in 1 .. Len(levels)
  BY LenProperties
<1>2. \A i \in 1 .. n - 1 : levels[i].name \in FileName
  <2>1. \A l \in Level : l.name \in FileName
    BY DEF Level
  <2> HIDE DEF Level
  <2> QED BY <1>1, <2>1, ElementOfSeq
<1> HIDE DEF FileName
<1>3. Above(levels, n) \in [1 .. n - 1 -> FileName]
  BY <1>2, Zenon DEF Above
<1>4. \A i \in 1 .. n - 1 : Above(levels, n)[i] = levels[i].name
  BY Zenon DEF Above
<1> QED BY <1>1, <1>3, <1>4

LEMMA DirOfAppend ==
  ASSUME NEW dir \in Seq(FileName), NEW name \in FileName
  PROVE  /\ Append(dir, name) \in Seq(FileName) /\ Len(Append(dir, name)) = Len(dir) + 1
         /\ Dir(Append(dir, name)) = dir /\ Append(dir, name)[Len(dir) + 1] = name
         /\ \A i \in 1 .. Len(dir) : Append(dir, name)[i] = dir[i]
<1> HIDE DEF FileName
<1> DEFINE f == Append(dir, name)
<1>1. /\ f \in Seq(FileName) /\ Len(f) = Len(dir) + 1 /\ f[Len(dir) + 1] = name
      /\ \A i \in 1 .. Len(dir) : f[i] = dir[i]
      /\ Len(dir) \in Nat /\ Len(f) - 1 = Len(dir)
  BY AppendProperties, LenProperties
<1>2. dir = [i \in 1 .. Len(dir) |-> dir[i]]
  BY LenProperties
<1> HIDE DEF f
<1>3. Dir(f) = dir
  BY <1>1, <1>2, Zenon DEF Dir, Part
<1> QED BY <1>1, <1>3 DEF f

(* What is found in a directory when another file is found.                *)
LEMMA InDirOfAppend ==
  ASSUME NEW files \in Seq(Seq(FileName)), NEW f \in Seq(FileName), NEW dir
  PROVE  /\ Cardinality(InDir(files, dir)) \in Nat
         /\ Dir(f) # dir => InDir(Append(files, f), dir) = InDir(files, dir)
         /\ Dir(f) = dir =>
               /\ InDir(Append(files, f), dir) = InDir(files, dir) \union {Len(files) + 1}
               /\ Cardinality(InDir(Append(files, f), dir)) = Cardinality(InDir(files, dir)) + 1
         /\ Cardinality(InDir(files, dir)) = 0 => InDir(files, dir) = {}
<1> DEFINE n == Len(files) S == InDir(files, dir)
<1>1. /\ n \in Nat /\ Len(Append(files, f)) = n + 1 /\ Append(files, f)[n + 1] = f
      /\ \A k \in 1 .. n : Append(files, f)[k] = files[k]
  BY AppendProperties, LenProperties
<1>2. S \subseteq 1 .. n /\ n + 1 \notin S
  BY <1>1 DEF InDir
<1>3. IsFiniteSet(S)
  <2>1. IsFiniteSet(1 .. n)
    BY <1>1, FS_Interval
  <2> QED BY <1>2, <2>1, FS_Subset, Zenon
<1>4. Dir(f) # dir => InDir(Append(files, f), dir) = S
  BY <1>1 DEF InDir
<1>5. Dir(f) = dir => InDir(Append(files, f), dir) = S \union {n + 1}
  BY <1>1 DEF InDir
<1>6. Cardinality(S \union {n + 1}) = Cardinality(S) + 1 /\ Cardinality(S) \in Nat
  <2> HIDE DEF S, n
  <2> QED BY <1>2, <1>3, FS_AddElement, FS_CardinalityType, Zenon
<1>7. Cardinality(S) = 0 => S = {}
  BY <1>3, FS_EmptySet, Zenon
<1> HIDE DEF S, n
<1> QED BY <1>4, <1>5, <1>6, <1>7, Zenon DEF S, n

-----------------------------------------------------------------------------
(* What SearchTypeOK says of the variables.                                *)
LEMMA PathTypes ==
  ASSUME SearchIInv
  PROVE  /\ path \in Seq(Level) /\ Len(path) \in Nat
         /\ pathList \in Seq(Level) /\ Len(pathList) = Len(path)
         /\ \A i \in 1 .. Len(path) : path[i] \in Level /\ pathList[i] \in Level
         /\ calling \in Nat /\ (calling > Len(path) => path = << >>)
<1> HIDE DEF Level
<1>1. /\ path \in Seq(Level) /\ pathList \in Seq(Level) /\ Len(pathList) = Len(path)
      /\ calling \in 0 .. Len(path) \/ (path = << >> /\ calling = 1)
  BY FileSearchAssumption, Zenon DEF SearchIInv, SearchTypeOK
<1>2. Len(path) \in Nat
  BY <1>1, LenProperties
<1>3. \A i \in 1 .. Len(path) : path[i] \in Level /\ pathList[i] \in Level
  BY <1>1, ElementOfSeq
<1>4. calling \in Nat /\ (calling > Len(path) => path = << >>)
  BY <1>1, <1>2
<1> QED BY <1>1, <1>2, <1>3, <1>4

LEMMA TreeTypes ==
  ASSUME SearchIInv
  PROVE  /\ \A f \in tree : /\ f \in Seq(FileName) /\ Len(f) \in Nat \ {0}
                            /\ \A n \in 1 .. Len(f) : Part(f, n) \in tree
         /\ reported \in Seq(Seq(FileName)) /\ Len(reported) \in Nat
         /\ searching \in Seq(Loops) /\ Len(searching) \in Nat
         /\ \A k \in 1 .. Len(searching) : searching[k] \in Loops
         /\ ResultCap \in Nat \ {0}
<1>1. /\ reported \in Seq(Seq(FileName)) /\ searching \in Seq(Loops) /\ tree \in Trees
  BY Zenon DEF SearchIInv, SearchTypeOK
<1>2. \A f \in tree : f \in Seq(FileName) /\ f # << >> /\ \A n \in 1 .. Len(f) : Part(f, n) \in tree
  BY <1>1, FileSearchAssumption
<1> HIDE DEF FileName, Loops
<1>3. \A f \in tree : Len(f) \in Nat \ {0}
  BY <1>2, EmptySeq
<1>4. /\ Len(reported) \in Nat /\ Len(searching) \in Nat
      /\ \A k \in 1 .. Len(searching) : searching[k] \in Loops
  BY <1>1, ElementOfSeq, LenProperties
<1> QED BY <1>1, <1>2, <1>3, <1>4, FileSearchAssumption

LEMMA LoopTypes ==
  ASSUME NEW s \in Loops
  PROVE  /\ s.level \in 1 .. Len(path) /\ s.dir \in Seq(FileName) /\ s.pattern \in Level
         /\ s.left \subseteq FileName /\ s.tail \in FileName /\ s.count \in 0 .. ResultCap
<1> HIDE DEF FileName, Level
<1> QED BY DEF Loops

(* The entries of a directory and the files of the tree.                   *)
LEMMA EntryIsThere ==
  ASSUME SearchIInv, NEW dir \in Seq(FileName), NEW name \in Entries(dir)
  PROVE  name \in FileName /\ Append(dir, name) \in tree
<1> HIDE DEF FileName
<1>1. PICK g \in tree : Len(g) = Len(dir) + 1 /\ Dir(g) = dir /\ name = g[Len(g)]
  BY Zenon DEF Entries
<1>2. g \in Seq(FileName) /\ Len(dir) \in Nat
  BY TreeTypes, LenProperties
<1>3. name \in FileName
  <2>1. Len(g) \in 1 .. Len(g)
    BY <1>1, <1>2
  <2> QED BY <1>1, <1>2, <2>1, ElementOfSeq
<1>4. \A i \in 1 .. Len(dir) : g[i] = dir[i]
  <2>1. Len(g) - 1 = Len(dir)
    BY <1>1, <1>2
  <2>2. dir = [i \in 1 .. Len(dir) |-> g[i]]
    BY <1>1, <2>1, Zenon DEF Dir, Part
  <2> QED BY <2>2
<1> DEFINE f == Append(dir, name)
<1>5. /\ f \in Seq(FileName) /\ Len(f) = Len(dir) + 1 /\ f[Len(dir) + 1] = name
      /\ \A i \in 1 .. Len(dir) : f[i] = dir[i]
  BY <1>3, DirOfAppend
<1> HIDE DEF f
<1>6. f = g
  <2>1. \A i \in 1 .. Len(f) : f[i] = g[i]
    BY <1>1, <1>2, <1>4, <1>5
  <2> QED BY <1>1, <1>2, <1>5, <2>1, SeqEqual
<1> QED BY <1>3, <1>6 DEF f

LEMMA NameIsEntry ==
  ASSUME SearchIInv, NEW f \in tree, NEW n \in 1 .. Len(f)
  PROVE  f[n] \in Entries(Part(f, n - 1))
<1> HIDE DEF FileName
<1> DEFINE g == Part(f, n) dir == Part(f, n - 1)
<1>1. f \in Seq(FileName) /\ g \in tree /\ Len(f) \in Nat
  BY TreeTypes
<1>2. n \in 0 .. Len(f) /\ n - 1 \in 0 .. Len(f) /\ n - 1 \in 0 .. n /\ n \in 1 .. n
  BY <1>1
<1>3. Len(g) = n /\ g[n] = f[n] /\ Part(g, n - 1) = dir
  BY <1>1, <1>2, PartFacts, Zenon
<1>4. Len(dir) = n - 1
  BY <1>1, <1>2, PartFacts, Zenon
<1>5. Len(g) = Len(dir) + 1 /\ Dir(g) = dir
  BY <1>2, <1>3, <1>4 DEF Dir
<1> HIDE DEF g, dir
<1> QED BY <1>1, <1>3, <1>5, Zenon DEF Entries, dir

LEMMA SearchInitInv == SearchInit => SearchIInv
<1> SUFFICES ASSUME SearchInit PROVE SearchIInv
  OBVIOUS
<1>1. /\ tree \in Trees /\ excluded \in Exclusions /\ path \in Paths /\ pathList = path
      /\ calling = 1 /\ searching = << >> /\ reported = << >>
  BY DEF SearchInit
<1>2. path \in Seq(Level)
  BY <1>1, FileSearchAssumption
<1>3. SearchTypeOK
  <2>1. calling \in 0 .. Len(path) \/ (path = << >> /\ calling = 1)
    BY <1>1, <1>2, EmptySeq
  <2>2. reported \in Seq(Seq(FileName)) /\ searching \in Seq(Loops)
    BY <1>1
  <2> QED BY <1>1, <1>2, <2>1, <2>2, Zenon DEF SearchTypeOK
<1>4. Len(reported) = 0 /\ Len(searching) = 0 /\ 1 .. 0 = {} /\ 1 .. 1 - 1 = {}
  BY <1>1
<1>5. PathFits /\ CallPlain /\ LoopsFit /\ LoopsNest /\ NoneTwice /\ ReportedRight
  BY <1>1, <1>4, Zenon DEF PathFits, CallPlain, Plain, LoopsFit, LoopsNest, NoneTwice,
                           ReportedRight
<1>6. NoneMissed
  <2> SUFFICES ASSUME NEW f \in tree, Len(f) = Len(path) PROVE Ahead(f)
    BY Zenon DEF NoneMissed
  <2>1. Len(f) \in Nat \ {0}
    <3>1. f \in Seq(FileName) /\ f # << >>
      BY <1>1, FileSearchAssumption
    <3> QED BY <3>1, EmptySeq
  <2>2. calling \in 1 .. Len(path)
    BY <1>1, <2>1
  <2>3. Part(f, calling - 1) = Above(pathList, calling)
    BY <1>1, <1>4, PartIsAbove, Zenon
  <2> QED BY <1>1, <2>2, <2>3, Zenon DEF Ahead
<1> QED BY <1>3, <1>5, <1>6, Zenon DEF SearchIInv

-----------------------------------------------------------------------------
(* What no step changes, and the parts of the invariant that a step leaves *)
(* alone with the variables that they are about.                           *)
LEMMA Unchanged == SearchNext => tree' = tree /\ excluded' = excluded /\ path' = path
  BY Zenon DEF SearchNext, NoPath, PlainLevel, PlainFile, OpenDirectory, CannotOpen, PassOver,
               Report, Descend, CloseDirectory

LEMMA SameFits ==
  ASSUME PathFits, excluded' = excluded, path' = path, pathList' = pathList
  PROVE  PathFits'
  BY Zenon DEF PathFits, Right

LEMMA SameLoops ==
  ASSUME LoopsFit, tree' = tree, path' = path, pathList' = pathList, reported' = reported,
         searching' = searching
  PROVE  LoopsFit'
  BY Zenon DEF LoopsFit, Plain, Entries

LEMMA SameReported ==
  ASSUME ReportedRight, tree' = tree, excluded' = excluded, path' = path, reported' = reported
  PROVE  ReportedRight'
  BY Zenon DEF ReportedRight, Leads, Right

LEMMA MissedStep ==
  ASSUME NoneMissed, tree' = tree, excluded' = excluded, path' = path,
         \A f \in tree :
            /\ \A i, j \in WildAbove : i = j
            /\ Len(f) = Len(path) /\ Leads(f, 1 .. Len(path))
            /\ InDir(reported, Dir(f)) # {} \/ Ahead(f)
            => InDir(reported', Dir(f)) # {} \/ Ahead(f)'
  PROVE  NoneMissed'
<1>1. WildAbove' = WildAbove
  BY Zenon DEF WildAbove
<1>2. ASSUME NEW f PROVE Leads(f, 1 .. Len(path))' <=> Leads(f, 1 .. Len(path))
  BY Zenon DEF Leads, Right
<1> QED BY <1>1, <1>2, Zenon DEF NoneMissed

-----------------------------------------------------------------------------
(* Calls.                                                                  *)

(* A call ends that has nothing to search.                                 *)
LEMMA CallEnds ==
  ASSUME SearchIInv, UNCHANGED <<tree, excluded, path, pathList, searching, reported>>,
         calling' = 0,
         \A f \in tree : Len(f) = Len(path) /\ Leads(f, 1 .. Len(path)) =>
            ~(/\ calling \in 1 .. Len(path) /\ Part(f, calling - 1) = Above(pathList, calling)
              /\ \A i \in calling .. Len(path) : pathList[i] = path[i])
  PROVE  SearchIInv'
<1>1. /\ tree' = tree /\ excluded' = excluded /\ path' = path /\ pathList' = pathList
      /\ searching' = searching /\ reported' = reported
  OBVIOUS
<1>2. SearchTypeOK'
  <2>1. 0 \in 0 .. Len(path)
    BY PathTypes
  <2> QED BY <1>1, <2>1, Zenon DEF SearchIInv, SearchTypeOK, Loops
<1>3. PathFits' /\ LoopsFit' /\ ReportedRight'
  BY <1>1, SameFits, SameLoops, SameReported, Zenon DEF SearchIInv
<1>4. ~(calling' > 0) /\ calling' \notin 1 .. Len(path)
  OBVIOUS
<1>5. CallPlain' /\ LoopsNest' /\ NoneTwice'
  <2>1. CallPlain'
    BY <1>4, Zenon DEF CallPlain
  <2>2. LoopsNest'
    BY <1>1, <1>4, Zenon DEF SearchIInv, LoopsNest
  <2>3. NoneTwice'
    BY <1>1, <1>4, Zenon DEF SearchIInv, NoneTwice, Open
  <2> QED BY <2>1, <2>2, <2>3
<1>6. NoneMissed'
  <2>1. ASSUME NEW f \in tree, Len(f) = Len(path), Leads(f, 1 .. Len(path)), Ahead(f)
        PROVE  Ahead(f)'
    BY <1>1, <2>1, Zenon DEF Ahead, Open
  <2> QED BY <1>1, <2>1, MissedStep, Zenon DEF SearchIInv
<1> QED BY <1>2, <1>3, <1>5, <1>6, Zenon DEF SearchIInv

LEMMA NoPathStep == SearchIInv /\ NoPath => SearchIInv'
<1> SUFFICES ASSUME SearchIInv, NoPath PROVE SearchIInv'
  OBVIOUS
<1>1. calling \notin 1 .. Len(path)
  BY PathTypes DEF NoPath
<1> QED BY <1>1, CallEnds, Zenon DEF NoPath

LEMMA CannotOpenStep == SearchIInv /\ CannotOpen => SearchIInv'
<1> SUFFICES ASSUME SearchIInv, CannotOpen PROVE SearchIInv'
  OBVIOUS
<1>1. ASSUME NEW f \in tree, Len(f) = Len(path), calling \in 1 .. Len(path),
             Part(f, calling - 1) = Above(pathList, calling)
      PROVE  FALSE
  <2>1. calling - 1 = 0 => Part(f, calling - 1) = << >>
    BY DEF Part
  <2>2. calling - 1 # 0 => calling - 1 \in 1 .. Len(f)
    BY <1>1, PathTypes
  <2>3. Part(f, calling - 1) \in tree \union {<< >>}
    BY <2>1, <2>2, TreeTypes, Zenon
  <2> QED BY <1>1, <2>3, Zenon DEF CannotOpen
<1> QED BY <1>1, CallEnds, Zenon DEF CannotOpen

LEMMA PlainLevelStep == SearchIInv /\ PlainLevel => SearchIInv'
<1> SUFFICES ASSUME SearchIInv, PlainLevel PROVE SearchIInv'
  OBVIOUS
<1>1. /\ tree' = tree /\ excluded' = excluded /\ path' = path /\ pathList' = pathList
      /\ searching' = searching /\ reported' = reported /\ calling' = calling + 1
      /\ ~pathList[calling].wild
  BY Zenon DEF PlainLevel, Begins
<1>2. calling \in 1 .. Len(path) /\ calling + 1 \in 1 .. Len(path)
  BY PathTypes DEF PlainLevel, Begins
<1>3. SearchTypeOK'
  <2>1. calling' \in 0 .. Len(path)
    BY <1>1, <1>2
  <2> QED BY <1>1, <2>1, Zenon DEF SearchIInv, SearchTypeOK, Loops
<1>4. PathFits' /\ LoopsFit' /\ ReportedRight'
  BY <1>1, SameFits, SameLoops, SameReported, Zenon DEF SearchIInv
<1>5. calling > 0 /\ \A i \in 1 .. calling' - 1 : i = calling \/ i \in 1 .. calling - 1
  BY <1>1, <1>2
<1>6. CallPlain'
  BY <1>1, <1>5, Zenon DEF SearchIInv, CallPlain, Plain
<1>7. LoopsNest'
  <2> SUFFICES ASSUME NEW k \in 1 .. Len(searching)
               PROVE  LET s == searching[k] IN
                         /\ \A j \in k + 1 .. Len(searching) : s.level < searching[j].level
                         /\ s.level < calling'
                         /\ s.level < Len(path) /\ pathList[s.level].name \notin s.left
    BY <1>1, Zenon DEF LoopsNest
  <2> DEFINE s == searching[k]
  <2>1. /\ \A j \in k + 1 .. Len(searching) : s.level < searching[j].level
        /\ s.level < calling /\ s.level < Len(path) /\ pathList[s.level].name \notin s.left
    BY <1>5, Zenon DEF SearchIInv, LoopsNest
  <2>2. s.level \in 1 .. Len(path)
    BY TreeTypes, LoopTypes, Zenon
  <2> HIDE DEF s
  <2>3. s.level < calling'
    BY <1>1, <1>2, <2>1, <2>2
  <2> QED BY <2>1, <2>3 DEF s
<1>8. \A f : Part(f, (calling + 1) - 1) = Above(pathList, calling + 1) <=>
              Part(f, calling - 1) = Above(pathList, calling) /\ f[calling] = pathList[calling].name
  BY <1>2, PathTypes, PartIsNext, Zenon
<1>9. NoneTwice'
  BY <1>1, <1>2, <1>8, Zenon DEF SearchIInv, NoneTwice, Open
<1>10. NoneMissed'
  <2>1. ASSUME NEW f \in tree, Leads(f, 1 .. Len(path)), Ahead(f) PROVE Ahead(f)'
    <3>1. CASE /\ Part(f, calling - 1) = Above(pathList, calling)
               /\ \A i \in calling .. Len(path) : pathList[i] = path[i]
      <4>1. calling \in calling .. Len(path)
        BY <1>2
      <4>2. pathList[calling] = path[calling] /\ ~path[calling].wild
        BY <1>1, <3>1, <4>1, Zenon
      <4>3. f[calling] = pathList[calling].name
        BY <1>2, <2>1, <4>2, Zenon DEF Leads, Right, Fits
      <4>4. \A i \in calling' .. Len(path) : i \in calling .. Len(path)
        BY <1>1, <1>2
      <4> QED BY <1>1, <1>2, <1>8, <3>1, <4>3, <4>4, Zenon DEF Ahead
    <3>2. CASE \E k \in 1 .. Len(searching) : searching[k].count = 0 /\ Open(searching[k], f)
      BY <1>1, <3>2, Zenon DEF Ahead, Open
    <3> QED BY <2>1, <3>1, <3>2, Zenon DEF Ahead
  <2> QED BY <1>1, <2>1, MissedStep, Zenon DEF SearchIInv
<1> QED BY <1>3, <1>4, <1>6, <1>7, <1>9, <1>10, Zenon DEF SearchIInv

(* One more file is found, which is right, in a directory with few enough. *)
LEMMA ReportedMore ==
  ASSUME SearchIInv, tree' = tree, excluded' = excluded, path' = path,
         NEW f \in tree, Len(f) = Len(path), Leads(f, 1 .. Len(path) - 1),
         reported' = Append(reported, f),
         Cardinality(InDir(reported, Dir(f))) < ResultCap,
         InDir(reported, Dir(f)) = {} => Right(f[Len(path)], Len(path))
  PROVE  /\ ReportedRight' /\ reported' \in Seq(Seq(FileName))
         /\ Len(reported') = Len(reported) + 1 /\ reported'[Len(reported) + 1] = f
         /\ \A k \in 1 .. Len(reported) : reported'[k] = reported[k]
         /\ \A dir : InDir(reported, dir) \subseteq InDir(reported', dir)
         /\ InDir(reported', Dir(f)) # {}
<1> DEFINE n == Len(reported) last == Len(path)
<1> HIDE DEF FileName, last
<1>1. reported \in Seq(Seq(FileName)) /\ n \in Nat /\ f \in Seq(FileName) /\ ResultCap \in Nat
  BY TreeTypes
<1>2. /\ reported' \in Seq(Seq(FileName)) /\ Len(reported') = n + 1 /\ reported'[n + 1] = f
      /\ \A k \in 1 .. n : reported'[k] = reported[k]
  BY <1>1, AppendProperties
<1>3. \A dir : /\ Cardinality(InDir(reported, dir)) \in Nat
               /\ Dir(f) # dir => InDir(reported', dir) = InDir(reported, dir)
               /\ Dir(f) = dir =>
                     /\ InDir(reported', dir) = InDir(reported, dir) \union {n + 1}
                     /\ Cardinality(InDir(reported', dir)) = Cardinality(InDir(reported, dir)) + 1
  BY <1>1, InDirOfAppend, ZenonT(60)
<1> HIDE DEF n
<1>4. \A dir : InDir(reported, dir) \subseteq InDir(reported', dir)
  BY <1>3, Zenon
<1>5. n + 1 \in InDir(reported', Dir(f))
  BY <1>3, Zenon
<1>6. ASSUME NEW dir, Cardinality(InDir(reported, dir)) <= ResultCap
      PROVE  Cardinality(InDir(reported', dir)) <= ResultCap
  <2>1. CASE Dir(f) # dir
    BY <1>3, <1>6, <2>1, Zenon
  <2>2. CASE Dir(f) = dir
    <3>1. Cardinality(InDir(reported', dir)) = Cardinality(InDir(reported, dir)) + 1
      BY <1>3, <2>2, Zenon
    <3>2. Cardinality(InDir(reported, dir)) \in Nat /\ Cardinality(InDir(reported, dir)) < ResultCap
      BY <1>3, <2>2, Zenon
    <3> QED BY <1>1, <3>1, <3>2
  <2> QED BY <2>1, <2>2
<1>7. ASSUME NEW k \in 1 .. n + 1
      PROVE  LET g == reported'[k] IN
                /\ g \in tree /\ Len(g) = last /\ Leads(g, 1 .. last - 1)
                /\ FirstOfDir(reported', k) => Right(g[last], last)
                /\ Cardinality(InDir(reported', Dir(g))) <= ResultCap
  <2>1. CASE k \in 1 .. n
    <3>1. /\ reported[k] \in tree /\ Len(reported[k]) = last
          /\ Leads(reported[k], 1 .. last - 1)
          /\ FirstOfDir(reported, k) => Right(reported[k][last], last)
          /\ Cardinality(InDir(reported, Dir(reported[k]))) <= ResultCap
      BY <2>1, Zenon DEF SearchIInv, ReportedRight, n, last
    <3>2. FirstOfDir(reported', k) => FirstOfDir(reported, k)
      BY <1>2, <1>4, <2>1, Zenon DEF FirstOfDir
    <3> QED BY <1>2, <1>6, <2>1, <3>1, <3>2, Zenon
  <2>2. CASE k = n + 1
    <3>1. ASSUME FirstOfDir(reported', k), NEW j \in InDir(reported, Dir(f)) PROVE FALSE
      <4>1. j \in 1 .. n /\ k <= j
        BY <1>2, <1>4, <2>2, <3>1, Zenon DEF FirstOfDir, InDir, n
      <4> QED BY <1>1, <2>2, <4>1
    <3>2. Cardinality(InDir(reported, Dir(f))) <= ResultCap
      <4>1. Cardinality(InDir(reported, Dir(f))) \in Nat
        BY <1>3, Zenon
      <4> QED BY <1>1, <4>1
    <3>3. InDir(reported, Dir(f)) = {} => Right(f[last], last)
      BY DEF last
    <3>4. Cardinality(InDir(reported', Dir(f))) <= ResultCap
      BY <1>6, <3>2, Zenon
    <3>5. f \in tree /\ Len(f) = last /\ Leads(f, 1 .. last - 1)
      BY DEF last
    <3>6. FirstOfDir(reported', k) => Right(f[last], last)
      BY <3>1, <3>3, Zenon
    <3>7. reported'[k] = f
      BY <1>2, <2>2
    <3> QED BY <3>4, <3>5, <3>6, <3>7, Zenon
  <2>3. k \in 1 .. n \/ k = n + 1
    BY <1>1
  <2> QED BY <2>1, <2>2, <2>3, Zenon
<1>8. ReportedRight'
  BY <1>2, <1>7, Zenon DEF ReportedRight, Leads, Right, last
<1> QED BY <1>2, <1>4, <1>5, <1>8, Zenon DEF n

(* The names in the path fit it.                                           *)
LEMMA PlainIsRight ==
  ASSUME SearchIInv, NEW i \in 1 .. Len(path), ~pathList[i].wild
  PROVE  Right(pathList[i].name, i)
<1>1. CASE pathList[i] = path[i]
  BY <1>1, Zenon DEF Right, Fits
<1>2. CASE pathList[i] # path[i]
  BY <1>2, Zenon DEF SearchIInv, PathFits
<1> QED BY <1>1, <1>2

(* Of what is called for last, nothing has been reported.                  *)
LEMMA NothingInLast ==
  ASSUME SearchIInv, calling = Len(path), Len(path) > 0
  PROVE  InDir(reported, Above(pathList, calling)) = {}
<1> SUFFICES ASSUME NEW r \in 1 .. Len(reported), Dir(reported[r]) = Above(pathList, calling)
             PROVE  FALSE
  BY Zenon DEF InDir
<1>1. Len(reported[r]) = calling
  BY Zenon DEF SearchIInv, ReportedRight
<1>2. calling \in 1 .. Len(path)
  BY PathTypes
<1> QED BY <1>1, <1>2, Zenon DEF SearchIInv, NoneTwice, Dir

LEMMA PlainFileStep == SearchIInv /\ PlainFile => SearchIInv'
<1> SUFFICES ASSUME SearchIInv, PlainFile PROVE SearchIInv'
  OBVIOUS
<1> HIDE DEF FileName
<1> DEFINE last == Len(path) f == Above(pathList, calling + 1)
<1>1. /\ tree' = tree /\ excluded' = excluded /\ path' = path /\ pathList' = pathList
      /\ searching' = searching /\ calling' = 0 /\ ~pathList[calling].wild
      /\ reported' = IF f \in tree THEN Append(reported, f) ELSE reported
  BY Zenon DEF PlainFile, Begins
<1>2. calling = last /\ last \in Nat /\ calling > 0 /\ calling \in 1 .. last /\ last > 0
  BY PathTypes DEF PlainFile, Begins
<1>3. f \in Seq(FileName) /\ Len(f) = last /\ \A i \in 1 .. last : f[i] = pathList[i].name
  <2>1. calling + 1 \in 1 .. Len(pathList) + 1 /\ (calling + 1) - 1 = last
    BY <1>2, PathTypes
  <2> QED BY <2>1, AboveFacts, PathTypes, Zenon
<1> HIDE DEF f
<1>4. ASSUME NEW g \in tree, Len(g) = last, Leads(g, 1 .. last),
             Part(g, calling - 1) = Above(pathList, calling), pathList[calling] = path[calling]
      PROVE  f = g
  <2>1. g \in Seq(FileName)
    BY TreeTypes
  <2>2. g[last] = pathList[last].name
    BY <1>1, <1>2, <1>4, Zenon DEF Leads, Right, Fits
  <2>3. \A i \in 1 .. calling - 1 : g[i] = pathList[i].name
    BY <1>4, PartIsAbove
  <2>4. \A i \in 1 .. last : f[i] = g[i]
    BY <1>2, <1>3, <2>2, <2>3
  <2> QED BY <1>3, <1>4, <2>1, <2>4, SeqEqual
<1>5. CASE f \notin tree
  <2>1. calling \in calling .. last
    BY <1>2
  <2> QED BY <1>1, <1>4, <1>5, <2>1, CallEnds, Zenon
<1>6. CASE f \in tree
  <2>1. reported' = Append(reported, f)
    BY <1>1, <1>6
  <2>2. Dir(f) = Above(pathList, calling)
    <3>1. \A i \in 1 .. calling - 1 : i \in 1 .. last
      BY <1>2
    <3>2. Part(f, calling - 1) = Above(pathList, calling)
      BY <1>3, <3>1, PartIsAbove
    <3> QED BY <1>2, <1>3, <3>2, Zenon DEF Dir
  <2>3. InDir(reported, Dir(f)) = {} /\ Cardinality(InDir(reported, Dir(f))) < ResultCap
    <3>1. InDir(reported, Dir(f)) = {}
      BY <1>2, <2>2, NothingInLast, Zenon
    <3> QED BY <3>1, FS_EmptySet, FileSearchAssumption
  <2>4. Leads(f, 1 .. last - 1) /\ Right(f[last], last)
    <3>1. \A i \in 1 .. last - 1 : i \in 1 .. last /\ i \in 1 .. calling - 1
      BY <1>2
    <3>2. \A i \in 1 .. last - 1 : ~pathList[i].wild
      BY <1>2, <3>1, Zenon DEF SearchIInv, CallPlain, Plain
    <3> QED BY <1>1, <1>2, <1>3, <3>1, <3>2, PlainIsRight, Zenon DEF Leads
  <2>5. /\ ReportedRight' /\ reported' \in Seq(Seq(FileName))
        /\ Len(reported') = Len(reported) + 1 /\ reported'[Len(reported) + 1] = f
        /\ \A k \in 1 .. Len(reported) : reported'[k] = reported[k]
        /\ \A dir : InDir(reported, dir) \subseteq InDir(reported', dir)
        /\ InDir(reported', Dir(f)) # {}
    BY <1>1, <1>3, <1>6, <2>1, <2>3, <2>4, ReportedMore, Zenon
  <2>6. SearchTypeOK'
    <3>1. 0 \in 0 .. Len(path)
      BY <1>2
    <3> QED BY <1>1, <2>5, <3>1, Zenon DEF SearchIInv, SearchTypeOK, Loops
  <2>7. PathFits'
    BY <1>1, SameFits, Zenon DEF SearchIInv
  <2>8. ~(calling' > 0) /\ calling' \notin 1 .. Len(path)
    BY <1>1
  <2>9. CallPlain' /\ LoopsNest'
    <3>1. CallPlain'
      BY <2>8, Zenon DEF CallPlain
    <3>2. LoopsNest'
      BY <1>1, <2>8, Zenon DEF SearchIInv, LoopsNest
    <3> QED BY <3>1, <3>2
  <2>10. ASSUME NEW k \in 1 .. Len(searching)
         PROVE  /\ searching[k].level \in 1 .. last /\ searching[k].level # last
                /\ pathList[searching[k].level].name \notin searching[k].left
    <3>1. /\ searching[k].level < Len(path)
          /\ pathList[searching[k].level].name \notin searching[k].left
      BY <1>2, Zenon DEF SearchIInv, LoopsNest
    <3>2. searching[k].level \in 1 .. last
      BY TreeTypes, LoopTypes, Zenon
    <3> QED BY <1>2, <3>1, <3>2
  <2>11. LoopsFit'
    BY <1>1, <2>10, Zenon DEF SearchIInv, LoopsFit, Plain, Entries
  <2>12. NoneTwice'
    <3>1. ASSUME NEW r \in 1 .. Len(reported'), NEW k \in 1 .. Len(searching),
                 searching[k].level < Len(path)
          PROVE  ~Open(searching[k], reported'[r])
      <4>1. CASE r \in 1 .. Len(reported)
        BY <2>5, <3>1, <4>1, Zenon DEF SearchIInv, NoneTwice
      <4>2. CASE r \notin 1 .. Len(reported)
        <5>1. r = Len(reported) + 1
          BY <2>5, <4>2, TreeTypes
        <5> QED BY <1>3, <2>5, <2>10, <5>1, Zenon DEF Open
      <4> QED BY <4>1, <4>2
    <3> QED BY <1>1, <2>8, <3>1, Zenon DEF NoneTwice, Open
  <2>13. NoneMissed'
    <3>1. ASSUME NEW g \in tree, Len(g) = last, Leads(g, 1 .. last), Ahead(g)
          PROVE  InDir(reported', Dir(g)) # {} \/ Ahead(g)'
      <4>1. CASE /\ Part(g, calling - 1) = Above(pathList, calling)
                 /\ \A i \in calling .. Len(path) : pathList[i] = path[i]
        <5>1. calling \in calling .. Len(path)
          BY <1>2
        <5>2. f = g
          BY <1>4, <3>1, <4>1, <5>1, Zenon
        <5> QED BY <2>5, <5>2
      <4>2. CASE \E k \in 1 .. Len(searching) : searching[k].count = 0 /\ Open(searching[k], g)
        BY <1>1, <4>2, Zenon DEF Ahead, Open
      <4> QED BY <3>1, <4>1, <4>2, Zenon DEF Ahead
    <3>2. ASSUME NEW g, InDir(reported, Dir(g)) # {} PROVE InDir(reported', Dir(g)) # {}
      BY <2>5, <3>2, Zenon
    <3> QED BY <1>1, <3>1, <3>2, MissedStep, Zenon DEF SearchIInv
  <2> QED BY <2>5, <2>6, <2>7, <2>9, <2>11, <2>12, <2>13, Zenon DEF SearchIInv
<1> QED BY <1>5, <1>6

LEMMA OpenDirectoryStep == SearchIInv /\ OpenDirectory => SearchIInv'
<1> SUFFICES ASSUME SearchIInv, OpenDirectory PROVE SearchIInv'
  OBVIOUS
<1> HIDE DEF FileName, Level
<1> DEFINE last == Len(path) n == Len(searching) dir == Above(pathList, calling)
           new == [level |-> calling, dir |-> dir, pattern |-> pathList[calling],
                   left |-> Entries(dir), tail |-> << >>, count |-> 0]
<1>1. /\ tree' = tree /\ excluded' = excluded /\ path' = path /\ pathList' = pathList
      /\ reported' = reported /\ calling' = 0 /\ pathList[calling].wild
      /\ searching' = Append(searching, new)
  BY Zenon DEF OpenDirectory, Begins
<1>2. calling \in 1 .. last /\ last \in Nat /\ calling > 0
  BY PathTypes DEF OpenDirectory, Begins
<1>3. dir \in Seq(FileName)
  <2>1. calling \in 1 .. Len(pathList) + 1
    BY <1>2, PathTypes
  <2> QED BY <2>1, AboveFacts, PathTypes, Zenon
<1>4. pathList[calling] = path[calling]
  BY <1>1, <1>2, Zenon DEF SearchIInv, PathFits
<1> HIDE DEF dir
<1>5. /\ new \in Loops /\ new.level = calling /\ new.dir = dir /\ new.pattern = path[calling]
      /\ new.left = Entries(dir) /\ new.tail = << >> /\ new.count = 0
  <2>1. Entries(dir) \in SUBSET FileName
    BY <1>3, EntryIsThere
  <2>2. << >> \in FileName
    BY DEF FileName
  <2>3. pathList[calling] \in Level
    BY <1>2, PathTypes, Zenon
  <2>4. 0 \in 0 .. ResultCap
    BY FileSearchAssumption
  <2> QED BY <1>2, <1>3, <1>4, <2>1, <2>2, <2>3, <2>4 DEF Loops
<1> HIDE DEF new
<1>6. /\ searching' \in Seq(Loops) /\ Len(searching') = n + 1 /\ searching'[n + 1] = new
      /\ \A k \in 1 .. n : searching'[k] = searching[k]
      /\ n \in Nat
  <2>1. searching \in Seq(Loops) /\ n \in Nat
    BY TreeTypes
  <2> HIDE DEF Loops
  <2> QED BY <1>1, <1>5, <2>1, AppendProperties
<1>7. \A k \in 1 .. n + 1 : k \in 1 .. n \/ k = n + 1
  BY <1>6
<1>8. SearchTypeOK'
  <2>1. 0 \in 0 .. Len(path)
    BY <1>2
  <2> QED BY <1>1, <1>6, <2>1, Zenon DEF SearchIInv, SearchTypeOK, Loops
<1>9. PathFits' /\ ReportedRight'
  BY <1>1, SameFits, SameReported, Zenon DEF SearchIInv
<1>10. ~(calling' > 0) /\ calling' \notin 1 .. Len(path)
  BY <1>1
<1>11. CallPlain'
  BY <1>10, Zenon DEF CallPlain
<1>12. LoopsFit'
  <2>1. new.level = last => Cardinality(InDir(reported, new.dir)) = new.count
    <3>1. ASSUME calling = last PROVE InDir(reported, dir) = {}
      BY <1>2, <3>1, NothingInLast, Zenon DEF dir
    <3> QED BY <1>5, <3>1, FS_EmptySet
  <2>2. /\ path[calling].wild /\ dir = Above(pathList, calling) /\ Plain(pathList, calling)
        /\ new.left \subseteq Entries(dir)
    BY <1>1, <1>2, <1>4, <1>5, Zenon DEF SearchIInv, CallPlain, dir
  <2>3. ASSUME NEW k \in 1 .. n + 1
        PROVE  LET s == searching'[k] IN
                  /\ path[s.level].wild /\ s.pattern = path[s.level]
                  /\ s.dir = Above(pathList', s.level) /\ Plain(pathList', s.level)
                  /\ s.left \subseteq Entries(s.dir)
                  /\ s.count = 0 => s.tail = << >>
                  /\ s.level < Len(path) => s.count = 0
                  /\ s.level = Len(path) => Cardinality(InDir(reported', s.dir)) = s.count
    <3>1. CASE k \in 1 .. n
      BY <1>1, <1>6, <3>1, ZenonT(60) DEF SearchIInv, LoopsFit
    <3>2. CASE k = n + 1
      BY <1>1, <1>5, <1>6, <2>1, <2>2, <3>2, Zenon
    <3> QED BY <1>7, <3>1, <3>2, Zenon
  <2>4. \A k \in 1 .. Len(searching') : k \in 1 .. n + 1
    BY <1>6
  <2>5. tree' = tree /\ path' = path
    BY <1>1
  <2> HIDE DEF n
  <2> QED BY <2>3, <2>4, <2>5, Zenon DEF LoopsFit, Plain, Entries
<1>13. LoopsNest'
  <2>1. ASSUME NEW k \in 1 .. n + 1
        PROVE  LET s == searching'[k] IN
                  /\ \A j \in k + 1 .. n + 1 : s.level < searching'[j].level
                  /\ k < n + 1 => s.level < Len(path) /\ pathList[s.level].name \notin s.left
    <3>1. CASE k \in 1 .. n
      <4>1. \A j \in k + 1 .. n + 1 : j = n + 1 \/ (j \in k + 1 .. n /\ j \in 1 .. n)
        BY <1>6, <3>1
      <4> QED BY <1>2, <1>5, <1>6, <3>1, <4>1, Zenon DEF SearchIInv, LoopsNest
    <3>2. CASE k = n + 1
      <4>1. k + 1 .. n + 1 = {} /\ ~(k < n + 1)
        BY <1>6, <3>2
      <4> QED BY <4>1, Zenon
    <3> QED BY <1>7, <3>1, <3>2, Zenon
  <2> QED BY <1>1, <1>6, <1>10, <2>1, Zenon DEF LoopsNest
<1>14. NoneTwice'
  <2>1. ASSUME NEW r \in 1 .. Len(reported), NEW k \in 1 .. n + 1, searching'[k].level < Len(path)
        PROVE  ~Open(searching'[k], reported[r])
    <3>1. CASE k \in 1 .. n
      BY <1>6, <2>1, <3>1, Zenon DEF SearchIInv, NoneTwice
    <3>2. CASE k = n + 1
      <4>1. Part(reported[r], calling - 1) # dir
        BY <1>2, Zenon DEF SearchIInv, NoneTwice, dir
      <4> QED BY <1>5, <1>6, <3>2, <4>1, Zenon DEF Open
    <3> QED BY <1>7, <3>1, <3>2, Zenon
  <2> QED BY <1>1, <1>6, <1>10, <2>1, Zenon DEF NoneTwice, Open
<1>15. NoneMissed'
  <2>1. ASSUME NEW f \in tree, Len(f) = last, Ahead(f) PROVE Ahead(f)'
    <3>1. CASE Part(f, calling - 1) = dir
      <4>1. f[calling] \in Entries(dir)
        BY <1>2, <2>1, <3>1, NameIsEntry, Zenon
      <4>2. Open(new, f) /\ new.count = 0
        BY <1>5, <3>1, <4>1, Zenon DEF Open
      <4>3. n + 1 \in 1 .. Len(searching')
        BY <1>6
      <4> QED BY <1>6, <4>2, <4>3, Zenon DEF Ahead, Open
    <3>2. CASE \E k \in 1 .. n : searching[k].count = 0 /\ Open(searching[k], f)
      <4>1. \A k \in 1 .. n : k \in 1 .. Len(searching')
        BY <1>6
      <4> QED BY <1>6, <3>2, <4>1, Zenon DEF Ahead, Open
    <3> QED BY <2>1, <3>1, <3>2, Zenon DEF Ahead, dir
  <2> QED BY <1>1, <2>1, MissedStep, Zenon DEF SearchIInv
<1> QED BY <1>8, <1>9, <1>11, <1>12, <1>13, <1>14, <1>15, Zenon DEF SearchIInv

-----------------------------------------------------------------------------
(* Rounds of the loop over a directory.                                    *)

(* The innermost loop, and those around it.                                *)
LEMMA LoopFacts ==
  ASSUME SearchIInv, searching # << >>
  PROVE  /\ Len(searching) \in Nat /\ Len(searching) \in 1 .. Len(searching)
         /\ Loop \in Loops /\ Loop = searching[Len(searching)]
         /\ \A k \in 1 .. Len(searching) : k \in 1 .. Len(searching) - 1 \/ k = Len(searching)
         /\ \A k \in 1 .. Len(searching) - 1 :
               /\ k \in 1 .. Len(searching)
               /\ searching[k].level \in 1 .. Len(path) /\ searching[k].level < Loop.level
               /\ searching[k].level < Len(path) /\ searching[k].level # Len(path)
               /\ pathList[searching[k].level].name \notin searching[k].left
<1> DEFINE n == Len(searching)
<1>1. n \in Nat /\ n \in 1 .. n /\ \A k \in 1 .. n : k \in 1 .. n - 1 \/ k = n
  <2>1. n \in Nat \ {0}
    BY TreeTypes, EmptySeq
  <2> HIDE DEF n
  <2> QED BY <2>1
<1>2. Loop \in Loops /\ Loop = searching[n]
  BY <1>1, TreeTypes, Zenon DEF Loop
<1>3. ASSUME NEW k \in 1 .. n - 1
      PROVE  /\ k \in 1 .. n
             /\ searching[k].level \in 1 .. Len(path) /\ searching[k].level < Loop.level
             /\ searching[k].level < Len(path) /\ searching[k].level # Len(path)
             /\ pathList[searching[k].level].name \notin searching[k].left
  <2>1. k \in 1 .. n /\ k < n /\ n \in k + 1 .. n
    <3> HIDE DEF n
    <3> QED BY <1>1
  <2>2. /\ searching[k].level < Loop.level /\ searching[k].level < Len(path)
        /\ pathList[searching[k].level].name \notin searching[k].left
    BY <1>2, <2>1, Zenon DEF SearchIInv, LoopsNest
  <2>3. searching[k].level \in 1 .. Len(path)
    BY <2>1, TreeTypes, LoopTypes, Zenon
  <2>4. searching[k].level # Len(path)
    <3>1. Len(path) \in Nat
      BY PathTypes
    <3> QED BY <2>2, <2>3, <3>1
  <2> QED BY <2>1, <2>2, <2>3, <2>4
<1> HIDE DEF n
<1> QED BY <1>1, <1>2, <1>3, Zenon DEF n

LEMMA RoundShape ==
  ASSUME SearchIInv, searching # << >>, NEW new \in Loops, searching' = Append(Outer, new)
  PROVE  /\ searching' \in Seq(Loops) /\ Len(searching') = Len(searching)
         /\ searching'[Len(searching)] = new
         /\ \A k \in 1 .. Len(searching) - 1 : searching'[k] = searching[k]
<1> HIDE DEF Loops
<1> DEFINE n == Len(searching)
<1>1. searching \in Seq(Loops) /\ n \in Nat /\ n \in 1 .. n
  BY TreeTypes, LoopFacts
<1>2. n - 1 \in 0 .. n /\ \A k \in 1 .. n - 1 : k \in 1 .. n /\ 1 + k - 1 = k
  <2> HIDE DEF n
  <2> QED BY <1>1
<1>3. /\ Outer \in Seq(Loops) /\ Len(Outer) = n - 1
      /\ \A k \in 1 .. n - 1 : Outer[k] = searching[k]
  <2>1. \A k \in 1 .. n - 1 : searching[k] \in Loops
    BY <1>1, <1>2, ElementOfSeq, Zenon
  <2> DEFINE m == n - 1
  <2>2. m \in Nat /\ 1 .. m \subseteq 1 .. n
    BY <1>1, <1>2
  <2> HIDE DEF m, n
  <2>3. Outer = SubSeq(searching, 1, m) /\ \A k \in 1 .. m : searching[k] \in Loops
    BY <2>1, Zenon DEF Outer, m, n
  <2>4. /\ Outer \in Seq(Loops) /\ Len(Outer) = IF 1 <= m THEN m - 1 + 1 ELSE 0
        /\ \A k \in 1 .. m - 1 + 1 : Outer[k] = searching[1 + k - 1]
    BY <2>2, <2>3, SubSeqProperties
  <2>5. Len(Outer) = m /\ \A k \in 1 .. m : Outer[k] = searching[k]
    BY <2>2, <2>4
  <2> QED BY <2>4, <2>5, Zenon DEF m
<1> HIDE DEF n
<1>4. n - 1 + 1 = n
  BY <1>1
<1> QED BY <1>3, <1>4, AppendProperties DEF n

(* A loop that goes on to another entry still searches what it did.        *)
LEMMA LoopsGoOn ==
  ASSUME SearchIInv, tree' = tree, path' = path, calling = 0, searching # << >>,
         NEW name, NEW new \in Loops, new.level = Loop.level, new.dir = Loop.dir,
         new.pattern = Loop.pattern, new.left = Loop.left \ {name},
         searching' = Append(Outer, new),
         new.count = 0 => new.tail = << >>, new.level < Len(path) => new.count = 0,
         new.level = Len(path) => Cardinality(InDir(reported', new.dir)) = new.count,
         \A i \in 1 .. Loop.level - 1 : pathList'[i] = pathList[i],
         \/ calling' = 0
         \/ /\ calling' = Loop.level + 1 /\ Loop.level < Len(path)
            /\ pathList'[Loop.level].name = name
  PROVE  LoopsFit' /\ LoopsNest'
<1> DEFINE n == Len(searching) top == Loop
<1>1. /\ n \in Nat /\ n \in 1 .. n /\ top \in Loops /\ top = searching[n]
      /\ \A k \in 1 .. n : k \in 1 .. n - 1 \/ k = n
      /\ \A k \in 1 .. n - 1 :
               /\ k \in 1 .. n
               /\ searching[k].level \in 1 .. Len(path) /\ searching[k].level < top.level
               /\ searching[k].level < Len(path) /\ searching[k].level # Len(path)
               /\ pathList[searching[k].level].name \notin searching[k].left
  BY LoopFacts, Zenon
<1>2. /\ Len(searching') = n /\ searching'[n] = new
      /\ \A k \in 1 .. n - 1 : searching'[k] = searching[k]
  BY RoundShape, Zenon
<1>3. top.level \in 1 .. Len(path) /\ Len(path) \in Nat
  BY <1>1, LoopTypes, PathTypes, Zenon
<1> HIDE DEF n, top
<1>4. ASSUME NEW m \in 1 .. Len(path), m <= top.level
      PROVE  Above(pathList', m) = Above(pathList, m) /\ (Plain(pathList, m) => Plain(pathList', m))
  <2>1. \A i \in 1 .. m - 1 : pathList'[i] = pathList[i]
    BY <1>3, <1>4 DEF top
  <2> QED BY <2>1, Zenon DEF Above, Plain
<1>5. \A k \in 1 .. n - 1 : searching[k].level <= top.level
  BY <1>1, <1>3
<1>6. LoopsFit'
  <2>1. ASSUME NEW k \in 1 .. n
        PROVE  LET s == searching'[k] IN
                  /\ path[s.level].wild /\ s.pattern = path[s.level]
                  /\ s.dir = Above(pathList', s.level) /\ Plain(pathList', s.level)
                  /\ s.left \subseteq Entries(s.dir)
                  /\ s.count = 0 => s.tail = << >>
                  /\ s.level < Len(path) => s.count = 0
                  /\ s.level = Len(path) => Cardinality(InDir(reported', s.dir)) = s.count
    <3>1. CASE k \in 1 .. n - 1
      <4> DEFINE s == searching[k]
      <4>1. /\ path[s.level].wild /\ s.pattern = path[s.level]
            /\ s.dir = Above(pathList, s.level) /\ Plain(pathList, s.level)
            /\ s.left \subseteq Entries(s.dir)
            /\ s.count = 0 => s.tail = << >>
            /\ s.level < Len(path) => s.count = 0
        BY <1>1, <3>1, Zenon DEF SearchIInv, LoopsFit, n
      <4>2. /\ s.level # Len(path) /\ s.level \in 1 .. Len(path) /\ s.level <= top.level
            /\ searching'[k] = s
        BY <1>1, <1>2, <1>5, <3>1, Zenon
      <4> HIDE DEF s
      <4>3. Above(pathList', s.level) = Above(pathList, s.level) /\ Plain(pathList', s.level)
        BY <1>4, <4>1, <4>2, Zenon
      <4> QED BY <4>1, <4>2, <4>3, Zenon
    <3>2. CASE k = n
      <4>1. /\ path[top.level].wild /\ top.pattern = path[top.level]
            /\ top.dir = Above(pathList, top.level) /\ Plain(pathList, top.level)
            /\ top.left \subseteq Entries(top.dir)
        BY <1>1, Zenon DEF SearchIInv, LoopsFit, n
      <4>2. top.level <= top.level
        BY <1>3
      <4>3. Above(pathList', top.level) = Above(pathList, top.level) /\ Plain(pathList', top.level)
        BY <1>3, <1>4, <4>1, <4>2, Zenon
      <4>4. new.left \subseteq Entries(new.dir) /\ searching'[k] = new
        BY <1>2, <3>2, <4>1, Zenon DEF top
      <4> QED BY <4>1, <4>3, <4>4, Zenon DEF top
    <3> QED BY <1>1, <3>1, <3>2, Zenon
  <2> QED BY <1>2, <2>1, Zenon DEF LoopsFit, Plain, Entries
<1>7. LoopsNest'
  <2>1. ASSUME NEW k \in 1 .. n
        PROVE  LET s == searching'[k] IN
                  /\ \A j \in k + 1 .. n : s.level < searching'[j].level
                  /\ calling' > 0 => s.level < calling'
                  /\ k < n \/ calling' > 0 =>
                        s.level < Len(path) /\ pathList'[s.level].name \notin s.left
    <3>1. CASE k \in 1 .. n - 1
      <4> DEFINE s == searching[k]
      <4>1. \A j \in k + 1 .. n : j \in 1 .. n - 1 \/ j = n
        BY <1>1, <3>1
      <4>2. \A j \in k + 1 .. n : s.level < searching[j].level
        BY <1>1, <3>1, Zenon DEF SearchIInv, LoopsNest, n
      <4>3. \A j \in k + 1 .. n : searching'[j].level = searching[j].level
        BY <1>1, <1>2, <4>1, Zenon DEF top
      <4>4. /\ s.level \in 1 .. Len(path) /\ s.level < top.level /\ s.level < Len(path)
            /\ pathList[s.level].name \notin s.left /\ searching'[k] = s
        BY <1>1, <1>2, <3>1, Zenon
      <4> HIDE DEF s
      <4>5. s.level \in 1 .. top.level - 1 /\ (calling' > 0 => s.level < calling')
        <5>1. calling' > 0 => calling' = top.level + 1
          BY DEF top
        <5> QED BY <1>3, <4>4, <5>1
      <4>6. pathList'[s.level] = pathList[s.level]
        BY <4>5, Zenon DEF top
      <4> QED BY <4>2, <4>3, <4>4, <4>5, <4>6, Zenon
    <3>2. CASE k = n
      <4>1. k + 1 .. n = {} /\ ~(k < n)
        BY <1>1, <3>2
      <4>2. calling' > 0 => /\ calling' = top.level + 1 /\ top.level < Len(path)
                            /\ pathList'[top.level].name = name
        BY DEF top
      <4>3. new.level = top.level /\ name \notin new.left /\ searching'[k] = new
        BY <1>2, <3>2 DEF top
      <4>4. calling' > 0 => top.level < calling'
        BY <1>3, <4>2
      <4> QED BY <4>1, <4>2, <4>3, <4>4, Zenon
    <3> QED BY <1>1, <3>1, <3>2, Zenon
  <2> QED BY <1>2, <2>1, Zenon DEF LoopsNest
<1> QED BY <1>6, <1>7

(* What a loop is after a round.                                           *)
LEMMA RestTypes ==
  ASSUME SearchIInv, searching # << >>, NEW name
  PROVE  /\ Rest(name) \in Loops /\ Rest(name).level = Loop.level /\ Rest(name).dir = Loop.dir
         /\ Rest(name).pattern = Loop.pattern /\ Rest(name).left = Loop.left \ {name}
         /\ Rest(name).tail = Loop.tail /\ Rest(name).count = Loop.count
<1> HIDE DEF FileName, Level
<1> DEFINE s == Loop
<1>1. s \in Loops
  BY LoopFacts
<1>2. s.left \ {name} \in SUBSET FileName
  BY <1>1, LoopTypes
<1>3. Rest(name) = [s EXCEPT !.left = s.left \ {name}]
  BY DEF Rest
<1> HIDE DEF s
<1>4. /\ Rest(name) \in Loops /\ Rest(name).level = s.level /\ Rest(name).dir = s.dir
      /\ Rest(name).pattern = s.pattern /\ Rest(name).left = s.left \ {name}
      /\ Rest(name).tail = s.tail /\ Rest(name).count = s.count
  BY <1>1, <1>2, <1>3 DEF Loops
<1> QED BY <1>4 DEF s

Matched(s, tail, count) == [s EXCEPT !.tail = tail, !.count = count]

LEMMA MatchTypes ==
  ASSUME NEW s \in Loops, NEW tail \in FileName, NEW count \in 0 .. ResultCap
  PROVE  LET new == Matched(s, tail, count)
         IN /\ new \in Loops /\ new.level = s.level /\ new.dir = s.dir
            /\ new.pattern = s.pattern /\ new.left = s.left /\ new.count = count
<1> HIDE DEF FileName, Level
<1> QED BY DEF Loops, Matched

(* The innermost loop and what it searches.                                *)
LEMMA LoopFits ==
  ASSUME SearchIInv, searching # << >>
  PROVE  /\ path[Loop.level].wild /\ Loop.pattern = path[Loop.level]
         /\ Loop.dir = Above(pathList, Loop.level) /\ Plain(pathList, Loop.level)
         /\ Loop.left \subseteq Entries(Loop.dir)
         /\ Loop.count = 0 => Loop.tail = << >>
         /\ Loop.level < Len(path) => Loop.count = 0
         /\ Loop.level = Len(path) => Cardinality(InDir(reported, Loop.dir)) = Loop.count
<1>1. Len(searching) \in 1 .. Len(searching) /\ Loop = searching[Len(searching)]
  BY LoopFacts, Zenon
<1> QED BY <1>1, Zenon DEF SearchIInv, LoopsFit

LEMMA PassOverStep ==
  SearchIInv /\ searching # << >> /\ (\E name \in Loop.left : PassOver(name)) => SearchIInv'
<1> SUFFICES ASSUME SearchIInv, searching # << >>, NEW name \in Loop.left, PassOver(name)
             PROVE  SearchIInv'
  OBVIOUS
<1> DEFINE n == Len(searching) new == Rest(name)
<1>1. /\ tree' = tree /\ excluded' = excluded /\ path' = path /\ pathList' = pathList
      /\ calling' = 0 /\ calling = 0 /\ reported' = reported /\ ~Wanted(name)
      /\ searching' = Append(Outer, new)
  BY Zenon DEF PassOver, Reads
<1>2. /\ n \in 1 .. n /\ Loop = searching[n] /\ Loop \in Loops
      /\ \A k \in 1 .. n : k \in 1 .. n - 1 \/ k = n
      /\ \A k \in 1 .. n - 1 : k \in 1 .. n
  BY LoopFacts, Zenon
<1>3. /\ new \in Loops /\ new.level = Loop.level /\ new.dir = Loop.dir
      /\ new.pattern = Loop.pattern /\ new.left = Loop.left \ {name}
      /\ new.tail = Loop.tail /\ new.count = Loop.count
  BY RestTypes, Zenon
<1> HIDE DEF new
<1>4. /\ searching' \in Seq(Loops) /\ Len(searching') = n /\ searching'[n] = new
      /\ \A k \in 1 .. n - 1 : searching'[k] = searching[k]
  BY <1>1, <1>3, RoundShape, Zenon
<1> HIDE DEF n
<1>5. LoopsFit' /\ LoopsNest'
  BY <1>1, <1>3, LoopFits, LoopsGoOn, Zenon
<1>6. SearchTypeOK'
  BY <1>1, <1>4, Zenon DEF SearchIInv, SearchTypeOK, Loops
<1>7. PathFits' /\ ReportedRight'
  BY <1>1, SameFits, SameReported, Zenon DEF SearchIInv
<1>8. ~(calling' > 0) /\ calling' \notin 1 .. Len(path)
  BY <1>1
<1>9. CallPlain'
  BY <1>8, Zenon DEF CallPlain
<1>10. \A f : \A k \in 1 .. n : Open(searching'[k], f) =>
          Open(searching[k], f) /\ searching[k].level = searching'[k].level
  BY <1>2, <1>3, <1>4, ZenonT(60) DEF Open
<1>11. NoneTwice'
  <2>1. ASSUME NEW r \in 1 .. Len(reported), NEW k \in 1 .. n, searching'[k].level < Len(path)
        PROVE  ~Open(searching'[k], reported[r])
    <3>1. CASE Open(searching'[k], reported[r])
      <4>1. Open(searching[k], reported[r]) /\ searching[k].level < Len(path)
        BY <1>10, <2>1, <3>1, Zenon
      <4> QED BY <4>1, Zenon DEF SearchIInv, NoneTwice, n
    <3> QED BY <3>1
  <2> QED BY <1>1, <1>4, <1>8, <2>1, Zenon DEF NoneTwice, Open
<1>12. NoneMissed'
  <2>1. ASSUME NEW f \in tree, Len(f) = Len(path), Leads(f, 1 .. Len(path)), Ahead(f)
        PROVE  Ahead(f)'
    <3>1. PICK k \in 1 .. n : searching[k].count = 0 /\ Open(searching[k], f)
      BY <1>1, <1>8, <2>1, Zenon DEF Ahead, n
    <3>2. CASE k \in 1 .. n - 1
      BY <1>4, <3>1, <3>2, Zenon DEF Ahead, Open
    <3>3. CASE k = n
      <4>1. Loop.level \in 1 .. Len(path)
        BY <1>2, LoopTypes, Zenon
      <4>2. f[Loop.level] # name
        BY <1>1, <2>1, <4>1, LoopFits, Zenon DEF Leads, Right, Wanted
      <4>3. Open(new, f) /\ new.count = 0
        BY <1>2, <1>3, <3>1, <3>3, <4>2, Zenon DEF Open
      <4> QED BY <1>2, <1>4, <4>3, Zenon DEF Ahead, Open
    <3> QED BY <1>2, <3>2, <3>3, Zenon
  <2> QED BY <1>1, <2>1, MissedStep, Zenon DEF SearchIInv
<1> QED BY <1>5, <1>6, <1>7, <1>9, <1>11, <1>12, Zenon DEF SearchIInv

(* The first match of a directory is there, as its name is alone in tail.  *)
LEMMA ReportStep ==
  SearchIInv /\ searching # << >> /\ (\E name \in Loop.left : Report(name)) => SearchIInv'
<1> SUFFICES ASSUME SearchIInv, searching # << >>, NEW name \in Loop.left, Report(name)
             PROVE  SearchIInv'
  OBVIOUS
<1> HIDE DEF FileName
<1> DEFINE n == Len(searching) last == Len(path) top == Loop dir == top.dir
           tail == top.tail \o name f == Append(dir, tail)
           new == searching'[n]
<1>1. /\ tree' = tree /\ excluded' = excluded /\ path' = path /\ pathList' = pathList
      /\ calling' = 0 /\ calling = 0 /\ Wanted(name) /\ top.level = last /\ top.count < ResultCap
  <2>1. /\ UNCHANGED <<tree, excluded, path, pathList, calling>> /\ calling = 0 /\ Wanted(name)
        /\ Loop.level = Len(pathList) /\ Loop.count < ResultCap
    BY Zenon DEF Report, Reads
  <2> QED BY <2>1, PathTypes
<1>2. /\ n \in 1 .. n /\ top = searching[n] /\ top \in Loops
      /\ \A k \in 1 .. n : k \in 1 .. n - 1 \/ k = n
      /\ \A k \in 1 .. n - 1 :
            /\ k \in 1 .. n /\ searching[k].level \in 1 .. last /\ searching[k].level < top.level
            /\ searching[k].level < last /\ searching[k].level # last
            /\ pathList[searching[k].level].name \notin searching[k].left
  BY LoopFacts, Zenon
<1>3. /\ path[top.level].wild /\ top.pattern = path[top.level]
      /\ dir = Above(pathList, top.level) /\ Plain(pathList, top.level)
      /\ top.left \subseteq Entries(dir)
      /\ top.count = 0 => top.tail = << >>
      /\ Cardinality(InDir(reported, dir)) = top.count
  BY <1>1, LoopFits, Zenon
<1> HIDE DEF top, n, last
<1>4. /\ dir \in Seq(FileName) /\ top.tail \in FileName /\ top.count \in 0 .. ResultCap
      /\ last \in Nat /\ last \in 1 .. last /\ ResultCap \in Nat
  <2>1. top.level \in 1 .. last /\ last \in Nat
    BY <1>2, LoopTypes, PathTypes, Zenon DEF last
  <2>2. last \in 1 .. last
    BY <1>1, <2>1
  <2> QED BY <1>2, <2>1, <2>2, LoopTypes, TreeTypes
<1>5. name \in FileName /\ Append(dir, name) \in tree
  BY <1>3, <1>4, EntryIsThere, Zenon DEF top
<1>6. tail \in FileName /\ (top.count = 0 => tail = name)
  <2>1. tail \in FileName
    BY <1>4, <1>5, ConcatProperties DEF FileName
  <2>2. << >> \o name = name
    BY <1>5, ConcatEmptySeq DEF FileName
  <2> QED BY <1>3, <2>1, <2>2
<1>7. /\ f \in Seq(FileName) /\ Len(f) = last /\ Dir(f) = dir /\ f[last] = tail
      /\ \A i \in 1 .. last - 1 : f[i] = pathList[i].name
  <2>1. top.level \in 1 .. Len(pathList) + 1
    BY <1>1, <1>4, PathTypes DEF last
  <2>2. Len(dir) = last - 1 /\ \A i \in 1 .. last - 1 : dir[i] = pathList[i].name
    <3>1. Len(dir) = top.level - 1 /\ \A i \in 1 .. top.level - 1 : dir[i] = pathList[i].name
      BY <1>3, <2>1, AboveFacts, PathTypes, ZenonT(60)
    <3> QED BY <1>1, <3>1, Zenon
  <2>3. /\ f \in Seq(FileName) /\ Len(f) = Len(dir) + 1 /\ Dir(f) = dir
        /\ f[Len(dir) + 1] = tail /\ \A i \in 1 .. Len(dir) : f[i] = dir[i]
    BY <1>4, <1>6, DirOfAppend, Zenon
  <2>4. Len(dir) + 1 = last
    BY <1>4, <2>2
  <2> QED BY <2>2, <2>3, <2>4, Zenon
<1> HIDE DEF f
<1>8. top.count = 0 => f \in tree
  BY <1>5, <1>6, Zenon DEF f
<1> HIDE DEF tail
<1>9. CASE f \notin tree
  <2> DEFINE rest == [Rest(name) EXCEPT !.tail = tail]
  <2>1. searching' = Append(Outer, rest) /\ reported' = reported
    BY <1>9, Zenon DEF Report, f, tail, top
  <2>2. /\ rest \in Loops /\ rest.level = top.level /\ rest.dir = dir
        /\ rest.pattern = top.pattern /\ rest.left = top.left \ {name}
        /\ rest.count = top.count
    <3>1. /\ Rest(name) \in Loops /\ Rest(name).level = top.level /\ Rest(name).dir = dir
          /\ Rest(name).pattern = top.pattern /\ Rest(name).left = top.left \ {name}
          /\ Rest(name).count = top.count
      BY RestTypes, Zenon DEF top
    <3> DEFINE s == Rest(name)
    <3> HIDE DEF s
    <3>2. rest = [s EXCEPT !.tail = tail, !.count = s.count] /\ s.count \in 0 .. ResultCap
      <4>1. s \in [level : 1 .. Len(path), dir : Seq(FileName), pattern : Level,
                   left : SUBSET FileName, tail : FileName, count : 0 .. ResultCap]
        BY <3>1, Zenon DEF s, Loops
      <4> HIDE DEF Level
      <4>2. [s EXCEPT !.tail = tail] = [s EXCEPT !.tail = tail, !.count = s.count]
        BY <4>1
      <4> QED BY <4>1, <4>2 DEF s
    <3>3. rest \in Loops /\ rest.level = s.level /\ rest.dir = s.dir /\ rest.pattern = s.pattern
          /\ rest.left = s.left /\ rest.count = s.count
      <4>1. s \in Loops
        BY <3>1, Zenon DEF s
      <4>2. rest = Matched(s, tail, s.count)
        BY <3>2, Zenon DEF Matched
      <4>3. s.count \in 0 .. ResultCap
        BY <3>2
      <4> HIDE DEF rest
      <4> QED BY <1>6, <4>1, <4>2, <4>3, MatchTypes, Zenon
    <3> QED BY <3>1, <3>3, Zenon DEF s
  <2> HIDE DEF rest
  <2>3. /\ searching' \in Seq(Loops) /\ Len(searching') = n /\ searching'[n] = rest
        /\ \A k \in 1 .. n - 1 : searching'[k] = searching[k]
    BY <2>1, <2>2, RoundShape, Zenon DEF n
  <2>4. top.count # 0
    BY <1>8, <1>9
  <2>5. LoopsFit' /\ LoopsNest'
    <3>1. ~(rest.level < Len(path)) /\ rest.count # 0
      BY <1>1, <1>4, <2>2, <2>4 DEF last
    <3>2. Cardinality(InDir(reported', rest.dir)) = rest.count
      BY <1>3, <2>1, <2>2, Zenon
    <3> QED BY <1>1, <2>1, <2>2, <3>1, <3>2, LoopsGoOn, Zenon DEF top
  <2>6. SearchTypeOK'
    BY <1>1, <2>1, <2>3, Zenon DEF SearchIInv, SearchTypeOK, Loops
  <2>7. PathFits' /\ ReportedRight'
    BY <1>1, <2>1, SameFits, SameReported, Zenon DEF SearchIInv
  <2>8. ~(calling' > 0) /\ calling' \notin 1 .. Len(path)
    BY <1>1
  <2>9. CallPlain'
    BY <2>8, Zenon DEF CallPlain
  <2>10. \A g : \A k \in 1 .. n : Open(searching'[k], g) =>
            Open(searching[k], g) /\ searching[k].level = searching'[k].level
    BY <1>2, <2>2, <2>3, ZenonT(60) DEF Open
  <2>11. NoneTwice'
    <3>1. ASSUME NEW r \in 1 .. Len(reported), NEW k \in 1 .. n, searching'[k].level < Len(path)
          PROVE  ~Open(searching'[k], reported[r])
      <4>1. CASE Open(searching'[k], reported[r])
        <5>1. Open(searching[k], reported[r]) /\ searching[k].level < Len(path)
          BY <2>10, <3>1, <4>1, Zenon
        <5> QED BY <5>1, Zenon DEF SearchIInv, NoneTwice, n
      <4> QED BY <4>1
    <3> QED BY <1>1, <2>1, <2>3, <2>8, <3>1, Zenon DEF NoneTwice, Open
  <2>12. NoneMissed'
    <3>1. ASSUME NEW g \in tree, Ahead(g) PROVE Ahead(g)'
      <4>1. PICK k \in 1 .. n : searching[k].count = 0 /\ Open(searching[k], g)
        BY <1>1, <2>8, <3>1, Zenon DEF Ahead, n
      <4>2. k \in 1 .. n - 1
        BY <1>2, <2>4, <4>1, Zenon
      <4> QED BY <1>2, <2>3, <4>1, <4>2, Zenon DEF Ahead, Open
    <3> QED BY <1>1, <2>1, <3>1, MissedStep, Zenon DEF SearchIInv
  <2> QED BY <2>5, <2>6, <2>7, <2>9, <2>11, <2>12, Zenon DEF SearchIInv
<1>10. CASE f \in tree
  <2> DEFINE more == [Rest(name) EXCEPT !.tail = tail, !.count = top.count + 1]
  <2>1. searching' = Append(Outer, more) /\ reported' = Append(reported, f)
    <3>1. searching' = Append(Outer, [Rest(name) EXCEPT !.tail = tail, !.count = @ + 1])
      BY <1>10, Zenon DEF Report, f, tail, top
    <3>2. Rest(name).count = top.count
      BY RestTypes, Zenon DEF top
    <3> QED BY <1>10, <3>1, <3>2, Zenon DEF Report, f, tail, top
  <2>2. /\ more \in Loops /\ more.level = top.level /\ more.dir = dir
        /\ more.pattern = top.pattern /\ more.left = top.left \ {name}
        /\ more.count = top.count + 1 /\ more.count # 0
    <3>1. top.count + 1 \in 0 .. ResultCap /\ top.count + 1 # 0
      BY <1>1, <1>4
    <3> DEFINE count == top.count + 1
    <3> HIDE DEF count
    <3>2. /\ more \in Loops /\ more.level = top.level /\ more.dir = dir
          /\ more.pattern = top.pattern /\ more.left = top.left \ {name} /\ more.count = count
      <4>1. /\ Rest(name) \in Loops /\ Rest(name).level = top.level /\ Rest(name).dir = dir
            /\ Rest(name).pattern = top.pattern /\ Rest(name).left = top.left \ {name}
        BY RestTypes, Zenon DEF top
      <4> DEFINE s == Rest(name)
      <4> HIDE DEF s
      <4>2. more = Matched(s, tail, count)
        BY Zenon DEF s, count, Matched
      <4> HIDE DEF more
      <4>3. s \in Loops /\ count \in 0 .. ResultCap
        BY <3>1, <4>1, Zenon DEF s, count
      <4>4. /\ more \in Loops /\ more.level = s.level /\ more.dir = s.dir
            /\ more.pattern = s.pattern /\ more.left = s.left /\ more.count = count
        BY <1>6, <4>2, <4>3, MatchTypes, Zenon
      <4> QED BY <4>1, <4>4, Zenon DEF s
    <3> QED BY <3>1, <3>2 DEF count
  <2> HIDE DEF more
  <2>3. /\ searching' \in Seq(Loops) /\ Len(searching') = n /\ searching'[n] = more
        /\ \A k \in 1 .. n - 1 : searching'[k] = searching[k]
    BY <2>1, <2>2, RoundShape, Zenon DEF n
  <2>4. Leads(f, 1 .. last - 1) /\ (InDir(reported, dir) = {} => Right(f[last], last))
    <3>1. ASSUME NEW i \in 1 .. last - 1 PROVE Right(f[i], i)
      <4>1. i \in 1 .. last /\ ~pathList[i].wild
        BY <1>1, <1>3, <1>4 DEF Plain
      <4> QED BY <1>7, <4>1, PlainIsRight, Zenon DEF last
    <3>2. ASSUME InDir(reported, dir) = {} PROVE Right(f[last], last)
      <4>1. top.count = 0
        BY <1>3, <3>2, FS_EmptySet, Zenon
      <4>2. f[last] = name
        BY <1>6, <1>7, <4>1, Zenon
      <4> QED BY <1>1, <1>3, <4>2, Zenon DEF Right, Wanted, top
    <3> QED BY <3>1, <3>2, Zenon DEF Leads
  <2>5. /\ ReportedRight' /\ reported' \in Seq(Seq(FileName))
        /\ Len(reported') = Len(reported) + 1 /\ reported'[Len(reported) + 1] = f
        /\ \A k \in 1 .. Len(reported) : reported'[k] = reported[k]
        /\ \A d : InDir(reported, d) \subseteq InDir(reported', d)
        /\ InDir(reported', dir) # {}
    <3>1. Cardinality(InDir(reported, Dir(f))) < ResultCap
      BY <1>1, <1>3, <1>7, Zenon
    <3> QED BY <1>1, <1>7, <1>10, <2>1, <2>4, <3>1, ReportedMore, Zenon DEF last
  <2>6. LoopsFit' /\ LoopsNest'
    <3>1. ~(more.level < Len(path))
      BY <1>1, <1>4, <2>2 DEF last
    <3>2. Cardinality(InDir(reported', more.dir)) = more.count
      <4>1. reported \in Seq(Seq(FileName))
        BY TreeTypes
      <4>2. Cardinality(InDir(Append(reported, f), dir)) = Cardinality(InDir(reported, dir)) + 1
        BY <1>7, <4>1, InDirOfAppend, ZenonT(60)
      <4> QED BY <1>3, <2>1, <2>2, <4>2, Zenon
    <3> QED BY <1>1, <2>1, <2>2, <3>1, <3>2, LoopsGoOn, Zenon DEF top
  <2>7. SearchTypeOK'
    BY <1>1, <2>3, <2>5, Zenon DEF SearchIInv, SearchTypeOK, Loops
  <2>8. PathFits'
    BY <1>1, SameFits, Zenon DEF SearchIInv
  <2>9. ~(calling' > 0) /\ calling' \notin 1 .. Len(path)
    BY <1>1
  <2>10. CallPlain'
    BY <2>9, Zenon DEF CallPlain
  <2>11. NoneTwice'
    <3>1. ASSUME NEW r \in 1 .. Len(reported'), NEW k \in 1 .. n, searching'[k].level < Len(path)
          PROVE  ~Open(searching'[k], reported'[r])
      <4>1. k \in 1 .. n - 1 /\ searching'[k] = searching[k]
        <5>1. ~(more.level < Len(path))
          BY <1>1, <1>4, <2>2 DEF last
        <5> QED BY <1>2, <2>3, <3>1, <5>1, Zenon
      <4>2. CASE r \in 1 .. Len(reported)
        BY <1>2, <2>5, <3>1, <4>1, <4>2, Zenon DEF SearchIInv, NoneTwice, n
      <4>3. CASE r \notin 1 .. Len(reported)
        <5>1. r = Len(reported) + 1
          BY <2>5, <4>3, TreeTypes
        <5>2. searching[k].level \in 1 .. last - 1
          BY <1>2, <1>4, <4>1
        <5> QED BY <1>2, <1>7, <2>5, <4>1, <5>1, <5>2, Zenon DEF Open
      <4> QED BY <4>2, <4>3
    <3> QED BY <1>1, <2>3, <2>9, <3>1, Zenon DEF NoneTwice, Open
  <2>12. NoneMissed'
    <3>1. ASSUME NEW g \in tree, Len(g) = last, Ahead(g)
          PROVE  InDir(reported', Dir(g)) # {} \/ Ahead(g)'
      <4>1. PICK k \in 1 .. n : searching[k].count = 0 /\ Open(searching[k], g)
        BY <1>1, <2>9, <3>1, Zenon DEF Ahead, n
      <4>2. CASE k \in 1 .. n - 1
        BY <1>2, <2>3, <4>1, <4>2, Zenon DEF Ahead, Open
      <4>3. CASE k = n
        <5>1. Dir(g) = dir
          BY <1>1, <1>2, <3>1, <4>1, <4>3, Zenon DEF Open, Dir
        <5> QED BY <2>5, <5>1, Zenon
      <4> QED BY <1>2, <4>2, <4>3, Zenon
    <3>2. ASSUME NEW g, InDir(reported, Dir(g)) # {} PROVE InDir(reported', Dir(g)) # {}
      BY <2>5, <3>2, Zenon
    <3> QED BY <1>1, <3>1, <3>2, MissedStep, Zenon DEF SearchIInv, last
  <2> QED BY <2>5, <2>6, <2>7, <2>8, <2>10, <2>11, <2>12, Zenon DEF SearchIInv
<1> QED BY <1>9, <1>10

(* The match takes the place of the wildcard: what is below the directory  *)
(* of that name is now ahead in the call.                                  *)
LEMMA DescendStep ==
  SearchIInv /\ searching # << >> /\ (\E name \in Loop.left : Descend(name)) => SearchIInv'
<1> SUFFICES ASSUME SearchIInv, searching # << >>, NEW name \in Loop.left, Descend(name)
             PROVE  SearchIInv'
  OBVIOUS
<1> HIDE DEF FileName, Level
<1> DEFINE n == Len(searching) last == Len(path) top == Loop m == top.level new == Rest(name)
           plain == [wild |-> FALSE, name |-> name]
<1>1. /\ tree' = tree /\ excluded' = excluded /\ path' = path /\ reported' = reported
      /\ calling' = m + 1 /\ calling = 0 /\ Wanted(name) /\ m < last
      /\ searching' = Append(Outer, new) /\ pathList' = [pathList EXCEPT ![m] = plain]
  <2>1. /\ UNCHANGED <<tree, excluded, path, reported>> /\ calling' = m + 1
        /\ Reads /\ Wanted(name) /\ m < Len(pathList) /\ searching' = Append(Outer, new)
        /\ pathList' = [pathList EXCEPT ![m] = plain]
    BY Zenon DEF Descend
  <2>2. Len(pathList) = Len(path)
    BY PathTypes
  <2> HIDE DEF plain, new, m
  <2> QED BY <2>1, <2>2 DEF Reads
<1>2. /\ n \in 1 .. n /\ top = searching[n] /\ top \in Loops
      /\ \A k \in 1 .. n : k \in 1 .. n - 1 \/ k = n
      /\ \A k \in 1 .. n - 1 : k \in 1 .. n
  BY LoopFacts, Zenon
<1>3. /\ new \in Loops /\ new.level = m /\ new.dir = top.dir
      /\ new.pattern = top.pattern /\ new.left = top.left \ {name}
      /\ new.tail = top.tail /\ new.count = top.count
  BY RestTypes, Zenon
<1> HIDE DEF new
<1>4. /\ searching' \in Seq(Loops) /\ Len(searching') = n /\ searching'[n] = new
      /\ \A k \in 1 .. n - 1 : searching'[k] = searching[k]
  BY <1>1, <1>3, RoundShape, Zenon
<1>5. /\ path[m].wild /\ top.pattern = path[m] /\ top.dir = Above(pathList, m)
      /\ Plain(pathList, m) /\ top.left \subseteq Entries(top.dir) /\ top.count = 0
      /\ top.count = 0 => top.tail = << >>
  BY <1>1, LoopFits, Zenon
<1>6. /\ m \in 1 .. last /\ last \in Nat /\ m # last /\ m + 1 \in 1 .. last /\ m + 1 > 0
      /\ m \in 1 .. last - 1 /\ name \in FileName
  <2>1. m \in 1 .. last /\ last \in Nat /\ name \in FileName
    BY <1>2, LoopTypes, PathTypes
  <2> HIDE DEF m
  <2> QED BY <1>1, <2>1
<1>7. plain \in Level /\ plain.wild = FALSE /\ plain.name = name
  BY <1>6 DEF Level
<1> HIDE DEF n, m, plain
<1>8. /\ pathList' \in Seq(Level) /\ Len(pathList') = last /\ pathList'[m] = plain
      /\ \A i \in 1 .. last : i # m => pathList'[i] = pathList[i]
  <2>1. pathList \in Seq(Level) /\ Len(pathList) = last
    BY PathTypes
  <2>2. m \in 1 .. Len(pathList)
    BY <1>6, <2>1
  <2> QED BY <1>1, <1>7, <2>1, <2>2, ExceptSeq
<1>9. \A i \in 1 .. m - 1 : i \in 1 .. last /\ i # m
  BY <1>6
<1>10. LoopsFit' /\ LoopsNest'
  <2>1. new.level # last
    BY <1>3, <1>6
  <2>2. \A i \in 1 .. m - 1 : pathList'[i] = pathList[i]
    BY <1>8, <1>9, Zenon
  <2> QED BY <1>1, <1>3, <1>5, <1>7, <1>8, <2>1, <2>2, LoopsGoOn, Zenon DEF m
<1>11. SearchTypeOK'
  <2>1. calling' \in 0 .. Len(path)
    BY <1>1, <1>6
  <2> QED BY <1>1, <1>4, <1>8, <2>1, Zenon DEF SearchIInv, SearchTypeOK, Loops
<1>12. PathFits'
  <2>1. Right(name, m)
    BY <1>1, <1>5, Zenon DEF Right, Wanted
  <2>2. ASSUME NEW i \in 1 .. last
        PROVE  \/ pathList'[i] = path[i]
               \/ /\ path[i].wild /\ i < last
                  /\ ~pathList'[i].wild /\ Right(pathList'[i].name, i)
    <3>1. CASE i = m
      BY <1>1, <1>5, <1>7, <1>8, <2>1, <3>1, Zenon
    <3>2. CASE i # m
      BY <1>8, <3>2, Zenon DEF SearchIInv, PathFits
    <3> QED BY <3>1, <3>2
  <2> QED BY <1>1, <2>2, Zenon DEF PathFits, Right
<1>13. ReportedRight'
  BY <1>1, SameReported, Zenon DEF SearchIInv
<1>14. \A i \in 1 .. calling' - 1 : i = m \/ i \in 1 .. m - 1
  BY <1>1, <1>6
<1>15. CallPlain'
  BY <1>5, <1>7, <1>8, <1>9, <1>14, Zenon DEF CallPlain, Plain
<1>16. \A f : Part(f, (m + 1) - 1) = Above(pathList', m + 1) <=>
              Part(f, m - 1) = top.dir /\ f[m] = name
  <2>1. Above(pathList', m) = Above(pathList, m)
    BY <1>8, <1>9, Zenon DEF Above
  <2>2. \A f : Part(f, (m + 1) - 1) = Above(pathList', m + 1) <=>
               Part(f, m - 1) = Above(pathList', m) /\ f[m] = pathList'[m].name
    BY <1>6, PartIsNext, Zenon
  <2> QED BY <1>5, <1>7, <1>8, <2>1, <2>2, Zenon
<1>17. \A f : \A k \in 1 .. n : Open(searching'[k], f) =>
          Open(searching[k], f) /\ searching[k].level = searching'[k].level
  BY <1>2, <1>3, <1>4, ZenonT(60) DEF Open, m
<1>18. NoneTwice'
  <2>1. ASSUME NEW r \in 1 .. Len(reported), NEW k \in 1 .. n, searching'[k].level < Len(path)
        PROVE  ~Open(searching'[k], reported[r])
    <3>1. CASE Open(searching'[k], reported[r])
      <4>1. Open(searching[k], reported[r]) /\ searching[k].level < Len(path)
        BY <1>17, <2>1, <3>1, Zenon
      <4> QED BY <4>1, Zenon DEF SearchIInv, NoneTwice, n
    <3> QED BY <3>1
  <2>2. ASSUME NEW r \in 1 .. Len(reported)
        PROVE  Part(reported[r], calling' - 1) # Above(pathList', calling')
    <3>1. ~Open(top, reported[r])
      BY <1>1, <1>2, Zenon DEF SearchIInv, NoneTwice, n, m
    <3>2. ~(Part(reported[r], m - 1) = top.dir /\ reported[r][m] = name)
      BY <3>1, Zenon DEF Open, m
    <3> QED BY <1>1, <1>16, <3>2, Zenon
  <2> QED BY <1>1, <1>4, <2>1, <2>2, Zenon DEF NoneTwice, Open
<1>19. NoneMissed'
  <2>1. ASSUME \A i, j \in WildAbove : i = j, NEW i \in m + 1 .. last
        PROVE  pathList'[i] = path[i]
    <3>1. i \in 1 .. last /\ i # m /\ (i < last => i \in 1 .. last - 1)
      BY <1>6
    <3>2. ~(path[i].wild /\ i < last)
      BY <1>5, <1>6, <2>1, <3>1, Zenon DEF WildAbove
    <3> QED BY <1>8, <3>1, <3>2, Zenon DEF SearchIInv, PathFits
  <2>2. ASSUME \A i, j \in WildAbove : i = j, NEW f \in tree, Ahead(f)
        PROVE  Ahead(f)'
    <3>1. PICK k \in 1 .. n : searching[k].count = 0 /\ Open(searching[k], f)
      <4>1. calling \notin 1 .. Len(path)
        BY <1>1
      <4> QED BY <2>2, <4>1, Zenon DEF Ahead, n
    <3>2. CASE k \in 1 .. n - 1
      BY <1>2, <1>4, <3>1, <3>2, Zenon DEF Ahead, Open
    <3>3. CASE k = n /\ f[m] # name
      <4>1. Open(new, f) /\ new.count = 0
        BY <1>2, <1>3, <3>1, <3>3, Zenon DEF Open, m
      <4> QED BY <1>2, <1>4, <4>1, Zenon DEF Ahead, Open
    <3>4. CASE k = n /\ f[m] = name
      <4>1. Part(f, m - 1) = top.dir
        BY <1>2, <3>1, <3>4, Zenon DEF Open, m
      <4>2. Part(f, calling' - 1) = Above(pathList', calling')
        BY <1>1, <1>16, <3>4, <4>1, Zenon
      <4>3. \A i \in calling' .. last : pathList'[i] = path[i]
        BY <1>1, <2>1, <2>2, Zenon
      <4> QED BY <1>1, <1>6, <4>2, <4>3, Zenon DEF Ahead
    <3> QED BY <1>2, <3>2, <3>3, <3>4, Zenon
  <2> QED BY <1>1, <2>2, MissedStep, Zenon DEF SearchIInv
<1> QED BY <1>10, <1>11, <1>12, <1>13, <1>15, <1>18, <1>19, Zenon DEF SearchIInv

(* Of what is left when a loop ends nothing is still to be found.          *)
LEMMA CloseDirectoryStep == SearchIInv /\ CloseDirectory => SearchIInv'
<1> SUFFICES ASSUME SearchIInv, CloseDirectory PROVE SearchIInv'
  OBVIOUS
<1> DEFINE n == Len(searching) m == n - 1
<1>1. /\ tree' = tree /\ excluded' = excluded /\ path' = path /\ pathList' = pathList
      /\ reported' = reported /\ calling' = 0 /\ calling = 0 /\ searching # << >>
      /\ searching' = Outer /\ (Loop.left = {} \/ Loop.count >= ResultCap)
  BY Zenon DEF CloseDirectory
<1>2. /\ n \in Nat /\ n \in 1 .. n /\ Loop = searching[n] /\ Loop \in Loops
      /\ \A k \in 1 .. n : k \in 1 .. m \/ k = n
      /\ \A k \in 1 .. m : k \in 1 .. n
  BY <1>1, LoopFacts, Zenon
<1>3. searching' \in Seq(Loops) /\ Len(searching') = m /\ \A k \in 1 .. m : searching'[k] = searching[k]
  <2> HIDE DEF Loops
  <2>1. m \in Nat
    <3> HIDE DEF n
    <3> QED BY <1>2
  <2>2. Outer = SubSeq(searching, 1, m) /\ \A k \in 1 .. m : searching[k] \in Loops
    BY <1>2, TreeTypes, Zenon DEF Outer
  <2> HIDE DEF m
  <2>3. /\ Outer \in Seq(Loops) /\ Len(Outer) = IF 1 <= m THEN m - 1 + 1 ELSE 0
        /\ \A k \in 1 .. m - 1 + 1 : Outer[k] = searching[1 + k - 1]
    BY <2>1, <2>2, SubSeqProperties
  <2>4. Len(Outer) = m /\ \A k \in 1 .. m : Outer[k] = searching[k]
    BY <2>1, <2>3
  <2> QED BY <1>1, <2>3, <2>4, Zenon
<1>4. \A k \in 1 .. m : /\ k < n /\ \A j \in k + 1 .. m : j \in k + 1 .. n /\ j \in 1 .. m
  <2> HIDE DEF n
  <2> QED BY <1>2
<1> HIDE DEF m, n
<1>5. SearchTypeOK'
  BY <1>1, <1>3, Zenon DEF SearchIInv, SearchTypeOK, Loops
<1>6. PathFits' /\ ReportedRight'
  BY <1>1, SameFits, SameReported, Zenon DEF SearchIInv
<1>7. ~(calling' > 0) /\ calling' \notin 1 .. Len(path)
  BY <1>1
<1>8. CallPlain'
  BY <1>7, Zenon DEF CallPlain
<1>9. LoopsFit'
  <2>1. ASSUME NEW k \in 1 .. m
        PROVE  LET s == searching'[k] IN
                  /\ path[s.level].wild /\ s.pattern = path[s.level]
                  /\ s.dir = Above(pathList', s.level) /\ Plain(pathList', s.level)
                  /\ s.left \subseteq Entries(s.dir)
                  /\ s.count = 0 => s.tail = << >>
                  /\ s.level < Len(path) => s.count = 0
                  /\ s.level = Len(path) => Cardinality(InDir(reported', s.dir)) = s.count
    <3> DEFINE s == searching[k]
    <3>1. /\ path[s.level].wild /\ s.pattern = path[s.level]
          /\ s.dir = Above(pathList, s.level) /\ Plain(pathList, s.level)
          /\ s.left \subseteq Entries(s.dir)
          /\ s.count = 0 => s.tail = << >>
          /\ s.level < Len(path) => s.count = 0
          /\ s.level = Len(path) => Cardinality(InDir(reported, s.dir)) = s.count
      BY <1>2, Zenon DEF SearchIInv, LoopsFit, n
    <3>2. searching'[k] = s
      BY <1>3, Zenon
    <3> HIDE DEF s
    <3> QED BY <1>1, <3>1, <3>2, Zenon
  <2> QED BY <1>1, <1>3, <2>1, Zenon DEF LoopsFit, Plain, Entries
<1>10. LoopsNest'
  <2>1. ASSUME NEW k \in 1 .. m
        PROVE  LET s == searching'[k] IN
                  /\ \A j \in k + 1 .. m : s.level < searching'[j].level
                  /\ s.level < Len(path) /\ pathList[s.level].name \notin s.left
    BY <1>2, <1>3, <1>4, Zenon DEF SearchIInv, LoopsNest, n
  <2> QED BY <1>1, <1>3, <1>7, <2>1, Zenon DEF LoopsNest
<1>11. NoneTwice'
  <2>1. ASSUME NEW r \in 1 .. Len(reported), NEW k \in 1 .. m, searching'[k].level < Len(path)
        PROVE  ~Open(searching'[k], reported[r])
    BY <1>2, <1>3, <2>1, Zenon DEF SearchIInv, NoneTwice, n
  <2> QED BY <1>1, <1>3, <1>7, <2>1, Zenon DEF NoneTwice, Open
<1>12. NoneMissed'
  <2>1. ASSUME NEW f \in tree, Ahead(f) PROVE Ahead(f)'
    <3>1. PICK k \in 1 .. n : searching[k].count = 0 /\ Open(searching[k], f)
      <4>1. calling \notin 1 .. Len(path)
        BY <1>1
      <4> QED BY <2>1, <4>1, Zenon DEF Ahead, n
    <3>2. k # n
      <4>1. Loop.count = 0 => Loop.left = {}
        BY <1>1, FileSearchAssumption
      <4> QED BY <1>2, <3>1, <4>1, Zenon DEF Open
    <3> QED BY <1>2, <1>3, <3>1, <3>2, Zenon DEF Ahead, Open
  <2> QED BY <1>1, <2>1, MissedStep, Zenon DEF SearchIInv
<1> QED BY <1>5, <1>6, <1>8, <1>9, <1>10, <1>11, <1>12, Zenon DEF SearchIInv

(* The inductive invariant of the search for files, for any tree, path and *)
(* exclusions.                                                             *)
THEOREM SearchInvariance == SearchSpec => []SearchIInv
<1>1. SearchInit => SearchIInv
  BY SearchInitInv
<1>2. SearchIInv /\ [SearchNext]_searchVars => SearchIInv'
  <2> SUFFICES ASSUME SearchIInv, [SearchNext]_searchVars PROVE SearchIInv'
    OBVIOUS
  <2>1. CASE SearchNext
    BY <2>1, NoPathStep, PlainLevelStep, PlainFileStep, OpenDirectoryStep, CannotOpenStep,
       PassOverStep, ReportStep, DescendStep, CloseDirectoryStep, Zenon DEF SearchNext
  <2>2. CASE UNCHANGED searchVars
    <3>1. /\ tree' = tree /\ excluded' = excluded /\ path' = path /\ pathList' = pathList
          /\ calling' = calling /\ searching' = searching /\ reported' = reported
      BY <2>2 DEF searchVars
    <3>2. SearchTypeOK'
      BY <3>1, Zenon DEF SearchIInv, SearchTypeOK, Loops
    <3>3. PathFits' /\ LoopsFit' /\ ReportedRight'
      BY <3>1, SameFits, SameLoops, SameReported, Zenon DEF SearchIInv
    <3>4. CallPlain' /\ LoopsNest' /\ NoneTwice'
      BY <3>1, Zenon DEF SearchIInv, CallPlain, LoopsNest, NoneTwice, Open
    <3>5. NoneMissed'
      <4>1. ASSUME NEW f, Ahead(f) PROVE Ahead(f)'
        BY <3>1, <4>1, Zenon DEF Ahead, Open
      <4> QED BY <3>1, <4>1, MissedStep, Zenon DEF SearchIInv
    <3> QED BY <3>2, <3>3, <3>4, <3>5, Zenon DEF SearchIInv
  <2> QED BY <2>1, <2>2
<1> QED BY <1>1, <1>2, PTL DEF SearchSpec

(* What searchFiles reports is there and fits the path, and with one       *)
(* wildcard above the last level it misses no directory.                   *)
THEOREM SearchReportsRight == SearchSpec => []SearchReports
<1>1. SearchIInv => SearchReports
  <2> SUFFICES ASSUME SearchIInv PROVE SearchReports
    OBVIOUS
  <2>1. ASSUME calling = 0, searching = << >>, NEW f, Ahead(f) PROVE FALSE
    <3>1. calling \notin 1 .. Len(path) /\ 1 .. Len(searching) = {}
      BY <2>1
    <3> QED BY <2>1, <3>1, Zenon DEF Ahead
  <2> QED BY <2>1, Zenon DEF SearchIInv, NoneMissed, SearchReports
<1> QED BY <1>1, SearchInvariance, PTL
=============================================================================
