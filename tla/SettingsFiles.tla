--------------------------- MODULE SettingsFiles ---------------------------
(***************************************************************************)
(* The files a plugin keeps: its settings as lines "key=value"             *)
(* (helpers/cSettings.h), settings of another plugin as a JSON document    *)
(* (helpers/UtilssyncPersistFile.h), and a file that moves to another file *)
(* system (helpers/UtilsFile.h).                                           *)
(*                                                                         *)
(* One thread makes the calls.  The process may crash between two accesses *)
(* to the file system and start again; the files keep what was written.    *)
(* Any access may fail.  A text is the sequence of its parts between "="   *)
(* signs.                                                                  *)
(***************************************************************************)
EXTENDS Integers, Sequences

CONSTANTS
    Parts,        \* texts without "=" and without line ends
    Empty,        \* the empty one
    Cut,          \* what is left of a part of which the disk took a piece
    Keys,         \* the keys setValue is called with, all without "="
    Texts,        \* the values
    JsonKeys,     \* the keys and values persistJsonSettings is called with
    JsonValues,
    Absent,       \* no value
    FileLength,   \* the length of the file to move, in units of the copying
    BufLen,       \* the length of the buffer
    MaxCalls,     \* bound on the number of calls
    MaxCrashes    \* bound on the number of crashes

ASSUME SettingsFilesAssumption ==
    /\ {Empty, Cut} \subseteq Parts
    /\ Keys \subseteq Parts
    /\ Texts \subseteq Seq(Parts) \ {<< >>}
    /\ JsonKeys # {} /\ JsonValues # {} /\ Absent \notin JsonValues
    /\ FileLength \in Nat
    /\ BufLen \in Nat \ {0}
    /\ MaxCalls \in Nat
    /\ MaxCrashes \in Nat

VARIABLES
    pc,           \* the next step of the thread
    data,         \* cSettings::data: texts by label
    conf,         \* whether its file is there
    lines,        \* the lines of the file
    toWrite,      \* the labels writeToFile has still to look at
    failed,       \* the stream of writeToFile has failed
    settings,     \* what the calls have set and not removed
    saved,        \* it has been written as a whole
    lost,         \* part of it was gone when the process started
    json,         \* the JSON file: "none", "torn" or "whole"
    doc,          \* its document
    newDoc,       \* the document in memory
    argument,     \* the pair that is persisted
    wanted,       \* every pair that was written to it, the last one of each key
    hurt,         \* a crash, or an access that failed, has hit the JSON file
    source,       \* the file to move is there
    target,       \* its target: "none", "copy" or "other", one that was there before
    copied,       \* units in the target
    taken,        \* units read
    held,         \* units read and not written
    moving,       \* result of MoveFile
    readFailed,   \* a read of the copying has failed
    calls,
    crashes

fileVars == <<conf, lines, toWrite, failed>>
confVars == <<data, fileVars, settings, saved, lost>>
jsonVars == <<json, doc, newDoc, argument, wanted, hurt>>
moveVars == <<source, target, copied, taken, held, moving, readFailed>>
vars == <<pc, confVars, jsonVars, moveVars, calls, crashes>>

Labels == Seq(Parts)
NoDoc == [k \in JsonKeys |-> Absent]
Docs == [JsonKeys -> JsonValues \union {Absent}]

ConfTypes ==
    /\ DOMAIN data \subseteq Labels /\ \A k \in DOMAIN data : data[k] \in Seq(Parts)
    /\ conf \in BOOLEAN /\ lines \in Seq(Seq(Parts))
    /\ toWrite \subseteq DOMAIN data
    /\ failed \in BOOLEAN
    /\ DOMAIN settings \subseteq {<<k>> : k \in Keys}
    /\ \A k \in DOMAIN settings : settings[k] \in Texts
    /\ saved \in BOOLEAN /\ lost \in BOOLEAN

FileTypes ==
    /\ pc \in {"off", "stuck", "idle", "open", "line", "load", "destroy", "create", "write",
               "sync", "read", "copy", "finish"}
    /\ json \in {"none", "torn", "whole"}
    /\ doc \in Docs /\ newDoc \in Docs /\ wanted \in Docs
    /\ argument \in JsonKeys \X JsonValues
    /\ hurt \in BOOLEAN
    /\ source \in BOOLEAN /\ target \in {"none", "copy", "other"}
    /\ copied \in 0 .. FileLength /\ taken \in 0 .. FileLength /\ held \in 0 .. BufLen
    /\ moving \in BOOLEAN /\ readFailed \in BOOLEAN
    /\ calls \in 0 .. MaxCalls /\ crashes \in 0 .. MaxCrashes

TypeOK == ConfTypes /\ FileTypes

AnyPair == CHOOSE p \in JsonKeys \X JsonValues : TRUE

Init ==
    /\ pc = "off"
    /\ data = << >> /\ conf \in BOOLEAN /\ lines = << >>
    /\ toWrite = {} /\ failed = FALSE
    /\ settings = << >> /\ saved = TRUE /\ lost = FALSE
    /\ json = "none" /\ doc = NoDoc /\ newDoc = NoDoc /\ wanted = NoDoc
    /\ argument = AnyPair
    /\ hurt = FALSE
    /\ source = TRUE /\ target \in {"none", "other"}
    /\ copied = 0 /\ taken = 0 /\ held = 0
    /\ moving = FALSE /\ readFailed = FALSE
    /\ calls = 0 /\ crashes = 0

Goto(p) == pc' = p /\ UNCHANGED calls
Call(p) == pc = "idle" /\ calls < MaxCalls /\ pc' = p /\ calls' = calls + 1

-----------------------------------------------------------------------------
(* cSettings.                                                              *)

(* A line is split at its last "=", and ignored if it has none.            *)
Label(l) == SubSeq(l, 1, Len(l) - 1)
Text(l) == <<l[Len(l)]>>
Pairs(ls) == {i \in DOMAIN ls : Len(ls[i]) > 1}

(* readFromFile: of two lines with the same label the later one counts.    *)
Read(ls) ==
    [k \in {Label(ls[i]) : i \in Pairs(ls)} |->
        Text(ls[CHOOSE i \in Pairs(ls) :
                    /\ Label(ls[i]) = k
                    /\ \A j \in Pairs(ls) : Label(ls[j]) = k => j <= i])]

(* The constructor.  A file that cannot be read is opened to be appended   *)
(* to, which makes it if it is not there.                                  *)
Start ==
    /\ pc = "off"
    /\ Goto("idle")
    /\ \/ conf /\ data' = Read(lines) /\ UNCHANGED conf
          /\ lost' = (lost \/ ~saved \/ \E k \in DOMAIN settings : Len(settings[k]) > 1)
       \/ data' = << >> /\ conf' \in {conf, TRUE}
          /\ lost' = (lost \/ ~saved \/ settings # << >>)
    /\ UNCHANGED <<lines, toWrite, failed, settings, saved, jsonVars, moveVars, crashes>>

(* A read that fails after the opening: without an end of the file the     *)
(* loop of readFromFile goes on until the process is killed.               *)
ReadFails ==
    /\ pc = "off" /\ conf
    /\ Goto("stuck")
    /\ UNCHANGED <<confVars, jsonVars, moveVars, crashes>>

Put(f, k, text) == [l \in DOMAIN f \union {<<k>>} |-> IF l = <<k>> THEN text ELSE f[l]]
Drop(f, k) == [l \in DOMAIN f \ {<<k>>} |-> f[l]]

(* setValue: the value in memory changes first.  An empty one is as good   *)
(* as none.                                                                *)
SetValue(k, text) ==
    /\ Call("open")
    /\ data' = Put(data, k, text)
    /\ settings' = IF text = <<Empty>> THEN Drop(settings, k) ELSE Put(settings, k, text)
    /\ saved' = FALSE
    /\ UNCHANGED <<fileVars, lost, jsonVars, moveVars, crashes>>

(* remove: the value is made empty, and Remove may or may not work.        *)
Remove(k) ==
    /\ Call("open")
    /\ data' \in {Put(data, k, <<Empty>>), Drop(data, k)}
    /\ settings' = Drop(settings, k)
    /\ saved' = FALSE
    /\ UNCHANGED <<fileVars, lost, jsonVars, moveVars, crashes>>

(* Mutant: the file is opened to be appended to.                           *)
OpenForAppend ==
    /\ pc = "open" /\ conf
    /\ Goto("line")
    /\ toWrite' = DOMAIN data /\ failed' = FALSE
    /\ UNCHANGED <<data, conf, lines, settings, saved, lost, jsonVars, moveVars, crashes>>

(* writeToFile: opening the file for output empties it.                    *)
OpenForOutput ==
    /\ pc = "open" /\ conf
    /\ Goto("line")
    /\ lines' = << >> /\ toWrite' = DOMAIN data /\ failed' = FALSE
    /\ UNCHANGED <<data, conf, settings, saved, lost, jsonVars, moveVars, crashes>>

(* The file is not there or cannot be opened: false.                       *)
CannotWrite ==
    /\ pc = "open"
    /\ Goto("idle")
    /\ UNCHANGED <<confVars, jsonVars, moveVars, crashes>>

(* What a write that fails may leave of a line.                            *)
Pieces(l) == {SubSeq(l, 1, n - 1) \o <<p>> : n \in DOMAIN l, p \in {Cut, Empty}}

(* Every line is flushed; nothing looks at the stream after a failure.     *)
WriteLine ==
    /\ pc = "line"
    /\ Goto("line")
    /\ \E k \in toWrite :
        /\ toWrite' = toWrite \ {k}
        /\ IF failed \/ data[k] = <<Empty>>
           THEN UNCHANGED <<lines, failed>>
           ELSE \/ lines' = Append(lines, k \o data[k]) /\ UNCHANGED failed
                \/ failed' = TRUE /\ \E l \in Pieces(k \o data[k]) : lines' = Append(lines, l)
    /\ UNCHANGED <<data, conf, settings, saved, lost, jsonVars, moveVars, crashes>>

(* writeToFile returns true, also after a failure.                         *)
Written ==
    /\ pc = "line" /\ toWrite = {}
    /\ Goto("idle")
    /\ saved' = ~failed
    /\ UNCHANGED <<data, fileVars, settings, lost, jsonVars, moveVars, crashes>>

-----------------------------------------------------------------------------
(* persistJsonSettings.                                                    *)

PersistJsonSettings(k, v) ==
    /\ Call("load")
    /\ argument' = <<k, v>>
    /\ UNCHANGED <<confVars, json, doc, newDoc, wanted, hurt, moveVars, crashes>>

PartsOf(d) == {e \in Docs : \A k \in JsonKeys : e[k] \in {d[k], Absent}}

(* Open, or Create, and FromFile: of a torn file, or if a read fails, it   *)
(* makes some part of the document.                                        *)
Load ==
    /\ pc = "load"
    /\ Goto("destroy")
    /\ newDoc' \in PartsOf(doc)
    /\ hurt' = (hurt \/ newDoc' # doc)
    /\ json' = IF json = "none" THEN "whole" ELSE json
    /\ UNCHANGED <<confVars, doc, argument, wanted, moveVars, crashes>>

(* The file cannot be opened: it is made anew, or that fails too.          *)
CannotLoad ==
    /\ pc = "load"
    /\ Goto("destroy")
    /\ newDoc' = NoDoc
    /\ \/ json' = "whole" /\ doc' = NoDoc
       \/ UNCHANGED <<json, doc>>
    /\ hurt' = TRUE
    /\ UNCHANGED <<confVars, argument, wanted, moveVars, crashes>>

DestroyFile ==
    /\ pc = "destroy"
    /\ Goto("create")
    /\ \/ json' = "none" /\ doc' = NoDoc
       \/ UNCHANGED <<json, doc>>
    /\ UNCHANGED <<confVars, newDoc, argument, wanted, hurt, moveVars, crashes>>

CreateFile ==
    /\ pc = "create"
    /\ \/ Goto("write") /\ json' = "whole" /\ doc' = NoDoc /\ UNCHANGED hurt
       \/ Goto("sync") /\ hurt' = TRUE /\ UNCHANGED <<json, doc>>
    /\ UNCHANGED <<confVars, newDoc, argument, wanted, moveVars, crashes>>

(* Mutant: the value is written without what was in the file.              *)
WriteArgumentOnly ==
    /\ pc = "write"
    /\ Goto("sync")
    /\ json' = "whole" /\ doc' = [NoDoc EXCEPT ![argument[1]] = argument[2]]
    /\ wanted' = [wanted EXCEPT ![argument[1]] = argument[2]]
    /\ UNCHANGED <<confVars, newDoc, argument, hurt, moveVars, crashes>>

WriteDocument ==
    /\ pc = "write"
    /\ Goto("sync")
    /\ LET d == [newDoc EXCEPT ![argument[1]] = argument[2]]
       IN  \/ json' = "whole" /\ doc' = d /\ UNCHANGED hurt
           \/ json' = "torn" /\ doc' \in PartsOf(d) /\ hurt' = TRUE
    /\ wanted' = [wanted EXCEPT ![argument[1]] = argument[2]]
    /\ UNCHANGED <<confVars, newDoc, argument, moveVars, crashes>>

(* syncPersistFile changes nothing that a crash of the process would see.  *)
Synced ==
    /\ pc = "sync"
    /\ Goto("idle")
    /\ UNCHANGED <<confVars, jsonVars, moveVars, crashes>>

-----------------------------------------------------------------------------
(* MoveFile.                                                               *)

MoveFile ==
    /\ source /\ target = "none"
    /\ Call("read")
    /\ target' = "copy" /\ copied' = 0 /\ taken' = 0 /\ held' = 0
    /\ moving' = TRUE
    /\ UNCHANGED <<source, readFailed, confVars, jsonVars, crashes>>

(* A condition does not hold, or a file cannot be opened.                  *)
DoNotMoveFile ==
    /\ Call("idle")
    /\ moving' = FALSE
    /\ UNCHANGED <<source, target, copied, taken, held, readFailed, confVars, jsonVars, crashes>>

ReadBuffer ==
    /\ pc = "read"
    /\ Goto("copy")
    /\ \E n \in 1 .. BufLen :
        /\ taken + n <= FileLength
        /\ taken' = taken + n
        /\ held' = n
    /\ UNCHANGED <<source, target, copied, moving, readFailed, confVars, jsonVars, crashes>>

(* Nothing was read: the end of the file, or an error, which is no         *)
(* different.                                                              *)
NothingRead ==
    /\ pc = "read"
    /\ Goto("finish")
    /\ readFailed' = (readFailed \/ taken < FileLength)
    /\ UNCHANGED <<source, target, copied, taken, held, moving, confVars, jsonVars, crashes>>

(* Mutant: a short write is taken for a whole one.                         *)
WriteOnce ==
    /\ pc = "copy"
    /\ Goto("read")
    /\ \E n \in 1 .. held : copied' = copied + n
    /\ held' = 0
    /\ UNCHANGED <<source, target, taken, moving, readFailed, confVars, jsonVars, crashes>>

WriteBuffer ==
    /\ pc = "copy"
    /\ \E n \in 1 .. held :
        /\ copied' = copied + n
        /\ held' = held - n
    /\ Goto(IF held' = 0 THEN "read" ELSE "copy")
    /\ UNCHANGED <<source, target, taken, moving, readFailed, confVars, jsonVars, crashes>>

CannotCopy ==
    /\ pc = "copy"
    /\ Goto("finish")
    /\ moving' = FALSE
    /\ UNCHANGED <<source, target, copied, taken, held, readFailed, confVars, jsonVars, crashes>>

(* The source of a copy, or the target of a failed one, is destroyed; this *)
(* may fail.                                                               *)
Finish ==
    /\ pc = "finish"
    /\ Goto("idle")
    /\ \/ moving /\ source' = FALSE /\ UNCHANGED <<target, copied>>
       \/ ~moving /\ target' = "none" /\ copied' = 0 /\ UNCHANGED source
       \/ UNCHANGED <<source, target, copied>>
    /\ UNCHANGED <<taken, held, moving, readFailed, confVars, jsonVars, crashes>>

-----------------------------------------------------------------------------
(* The steps in which the JSON file is without its document.               *)
Window == {"create", "write"}

Crash ==
    /\ pc # "off"
    /\ crashes < MaxCrashes
    /\ pc' = "off" /\ crashes' = crashes + 1
    /\ data' = << >> /\ toWrite' = {} /\ failed' = FALSE
    /\ newDoc' = NoDoc
    /\ hurt' = (hurt \/ pc \in Window)
    /\ taken' = 0 /\ held' = 0 /\ moving' = FALSE
    /\ UNCHANGED <<conf, lines, settings, saved, lost, json, doc, argument, wanted,
                   source, target, copied, readFailed, calls>>

Next ==
    \/ Start \/ ReadFails \/ OpenForOutput \/ CannotWrite \/ WriteLine \/ Written
    \/ \E k \in Keys : Remove(k) \/ \E text \in Texts : SetValue(k, text)
    \/ \E k \in JsonKeys, v \in JsonValues : PersistJsonSettings(k, v)
    \/ Load \/ CannotLoad \/ DestroyFile \/ CreateFile \/ WriteDocument \/ Synced
    \/ MoveFile \/ DoNotMoveFile \/ ReadBuffer \/ NothingRead \/ WriteBuffer \/ CannotCopy
    \/ Finish
    \/ Crash

Spec == Init /\ [][Next]_vars

-----------------------------------------------------------------------------
(* A label with an empty text is as good as none.                          *)
NonEmpty(f) == [k \in {l \in DOMAIN f : f[l] # <<Empty>>} |-> f[k]]

(* No value has a "=".                                                     *)
Simple == \A k \in DOMAIN settings : Len(settings[k]) = 1

(* What the calls have set is what a process that starts now will read,    *)
(* over restarts, from the end of a writing without a failure on, unless   *)
(* a value has a "=", or a process has started from less: after a crash    *)
(* before that end, or without opening the file, which is then replaced.   *)
(* Values are without line ends, which the code does not look for.         *)
SettingsKept == saved /\ ~lost /\ Simple => NonEmpty(Read(lines)) = settings

(* A pair that was persisted is in the JSON file at any time, in spite of  *)
(* crashes, but for the two steps between the destruction of the file and  *)
(* the end of its writing, and what a crash there, or an opening, reading, *)
(* making or writing that failed, has done to it.                          *)
JsonKept ==
    ~hurt /\ pc \notin Window =>
        \A k \in JsonKeys : wanted[k] # Absent => doc[k] = wanted[k]

MoveSteps == {"read", "copy", "finish"}

(* The file that moves is whole at its source or at its target at any      *)
(* time, in spite of crashes, and at its target when MoveFile has returned *)
(* true, unless a read failed.                                             *)
MoveKeepsFile ==
    LET whole == target = "copy" /\ copied = FileLength
    IN  ~readFailed => (source \/ whole) /\ (pc \notin MoveSteps /\ moving => whole)

(* What has been read and not written is in the buffer, and the source is  *)
(* there until the copy is whole.                                          *)
Copying ==
    /\ pc \in {"read", "copy"} =>
        /\ moving /\ source /\ target = "copy"
        /\ copied + held = taken /\ taken <= FileLength
    /\ pc = "read" => held = 0
    /\ pc = "finish" =>
        /\ source /\ target = "copy"
        /\ moving => readFailed \/ copied = FileLength

(* While the file is rewritten the document in memory has every pair.      *)
Rewriting ==
    ~hurt =>
        /\ json # "torn"
        /\ pc \in {"destroy"} \union Window =>
            \A k \in JsonKeys : wanted[k] # Absent => newDoc[k] = wanted[k]

(* What SettingsKept rests on: a process that has started from everything  *)
(* has all settings in memory, and the lines that writeToFile has written  *)
(* are those of the settings it has looked at.                             *)
Remembered == pc \notin {"off", "stuck"} /\ ~lost => NonEmpty(data) = settings

BeingWritten ==
    /\ pc \in {"open", "line"} => ~saved
    /\ pc # "line" => toWrite = {}
    /\ pc = "line" /\ ~failed /\ ~lost /\ Simple =>
          {lines[i] : i \in DOMAIN lines} = {k \o settings[k] : k \in DOMAIN settings \ toWrite}

(* The inductive invariant of the three files.                             *)
IInv ==
    /\ TypeOK
    /\ Copying /\ MoveKeepsFile
    /\ Rewriting /\ JsonKept
    /\ Remembered /\ BeingWritten /\ SettingsKept
=============================================================================
