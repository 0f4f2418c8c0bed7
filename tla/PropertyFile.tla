---------------------------- MODULE PropertyFile ----------------------------
(***************************************************************************)
(* helpers/UtilsgetFileContent.h: ExpandPropertiesInString, which replaces *)
(* the variables of a string, and readPropertyFromFile, which it calls for *)
(* each of them and which calls itself for references.  A step is a round  *)
(* of a loop.                                                              *)
(*                                                                         *)
(* A property is a sequence of words.  A line of the file has a key,       *)
(* perhaps an "=", and a value, which may be "$" and a property; lines end *)
(* with \r\n or not.  A line that starts with "#" is as one without a key  *)
(* and "=", which no property matches.  Of a string only its variables     *)
(* matter, each with or without a delimiter behind it; of the output, in   *)
(* what form each of them is in it.                                        *)
(***************************************************************************)
EXTENDS Integers, Sequences, FiniteSets

Seqs == INSTANCE SequencesExt

CONSTANTS
    Words,     \* what names are made of
    CR,        \* the \r at the end of a line
    Files,     \* the files; one that cannot be opened is as one with no lines
    Strings,   \* the strings that are expanded
    MaxOpen    \* how many files the process can still open

PropertyNames == Seq(Words \union {CR})
Lines == [key : Seq(Words), equals : BOOLEAN, ref : BOOLEAN, value : Seq(Words)]

ASSUME PropertyFileAssumption ==
    /\ Files \subseteq [lines : Seq(Lines), crlf : BOOLEAN]
    /\ Strings \subseteq Seq([name : Seq(Words), delimited : BOOLEAN])
    /\ MaxOpen \in Nat \ {0}

VARIABLES
    file,
    string,
    round,      \* the variable of the string that is next
    forms,      \* the output so far
    expanded,   \* what ExpandPropertiesInString has returned: "none" before
    reading,    \* the open calls of readPropertyFromFile, the innermost last
    found,      \* what the outermost one has returned: Nothing before
    refused     \* in the search for this variable the file could not be opened again

expandVars == <<string, round, forms, expanded>>
propertyVars == <<file, expandVars, reading, found, refused>>

Nothing == [is |-> "nothing"]
Missing == [is |-> "missing"]
TextIs(value) == [is |-> "text", value |-> value]

PropertyInit ==
    /\ file \in Files /\ string \in Strings
    /\ round = 1 /\ forms = << >> /\ expanded = "none"
    /\ reading = << >> /\ found = Nothing /\ refused = FALSE

-----------------------------------------------------------------------------
(* readPropertyFromFile.                                                   *)

Opened(name) == [property |-> name, line |-> 1]
Top == reading[Len(reading)]
Line == file.lines[Top.line]

(* The line starts with the property and a blank, or the property and "=". *)
Matches(line, p) ==
    \/ line.equals /\ p = line.key
    \/ p # << >> /\ Seqs!IsStrictPrefix(p, line.key)
Refers(line) == line.equals /\ line.ref

(* With no "=" the value is the whole line.                                *)
Value(line) == IF line.equals THEN line.value ELSE line.key

(* A reference is to a name with the \r, if there is one.                  *)
Referred(F, line) == IF F.crlf THEN Append(line.value, CR) ELSE line.value

ReadsLine == reading # << >> /\ Top.line <= Len(file.lines)
NextLine(calls) == [calls EXCEPT ![Len(calls)].line = @ + 1]

SkipLine ==
    /\ ReadsLine /\ ~Matches(Line, Top.property)
    /\ reading' = NextLine(reading)
    /\ UNCHANGED <<file, expandVars, found, refused>>

(* All the calls leave their loops and return true.                        *)
TakeValue ==
    /\ ReadsLine /\ Matches(Line, Top.property) /\ ~Refers(Line)
    /\ reading' = << >> /\ found' = TextIs(Value(Line))
    /\ UNCHANGED <<file, expandVars, refused>>

(* Every open call has the file open.  One that cannot open it returns     *)
(* false, and its caller passes over the line: that is the end of          *)
(* references in a circle, too.                                            *)
FollowReference ==
    /\ ReadsLine /\ Matches(Line, Top.property) /\ Refers(Line)
    /\ IF Len(reading) < MaxOpen
       THEN reading' = Append(reading, Opened(Referred(file, Line))) /\ UNCHANGED refused
       ELSE reading' = NextLine(reading) /\ refused' = TRUE
    /\ UNCHANGED <<file, expandVars, found>>

(* Mutant: a reference that leads nowhere ends the search.                 *)
FileEndGivesUp ==
    /\ reading # << >> /\ Top.line > Len(file.lines)
    /\ reading' = << >> /\ found' = Missing
    /\ UNCHANGED <<file, expandVars, refused>>

(* The caller passes over the line of a reference that cannot be found.    *)
FileEnd ==
    /\ reading # << >> /\ Top.line > Len(file.lines)
    /\ IF Len(reading) = 1
       THEN reading' = << >> /\ found' = Missing
       ELSE reading' = NextLine(SubSeq(reading, 1, Len(reading) - 1)) /\ UNCHANGED found
    /\ UNCHANGED <<file, expandVars, refused>>

-----------------------------------------------------------------------------
(* ExpandPropertiesInString.                                               *)

Expands == expanded = "none" /\ reading = << >> /\ round <= Len(string)

(* Every round assigns the input up to its variable, as it was, again.     *)
Raw == [i \in 1 .. round - 1 |-> "as it was"]

AskForVariable ==
    /\ Expands /\ found = Nothing /\ string[round].delimited
    /\ reading' = <<Opened(string[round].name)>> /\ refused' = FALSE
    /\ UNCHANGED <<file, expandVars, found>>

PutValue ==
    /\ Expands /\ found.is = "text"
    /\ forms' = Append(Raw, "value") /\ round' = round + 1 /\ found' = Nothing
    /\ UNCHANGED <<file, string, expanded, reading, refused>>

CannotPut ==
    /\ Expands /\ found.is = "missing"
    /\ forms' = Raw /\ expanded' = "false"
    /\ UNCHANGED <<file, string, round, reading, found, refused>>

(* With no delimiter behind it a variable is not looked up.                *)
DropSign ==
    /\ Expands /\ ~string[round].delimited
    /\ forms' = Append(Raw, "without $") /\ round' = round + 1
    /\ UNCHANGED <<file, string, expanded, reading, found, refused>>

ExpandEnd ==
    /\ expanded = "none" /\ round > Len(string)
    /\ expanded' = "true"
    /\ UNCHANGED <<file, string, round, forms, reading, found, refused>>

PropertyNext ==
    \/ SkipLine \/ TakeValue \/ FollowReference \/ FileEnd
    \/ AskForVariable \/ PutValue \/ CannotPut \/ DropSign \/ ExpandEnd

PropertySpec == PropertyInit /\ [][PropertyNext]_propertyVars

-----------------------------------------------------------------------------
(* Of a file F: the names its references are to, those that a name refers  *)
(* to, and those that some names lead to, these included: the smallest set *)
(* that is closed under references.                                        *)
LinesOfFile(F) == {F.lines[k] : k \in 1 .. Len(F.lines)}
ReferredNames(F) == {Referred(F, l) : l \in LinesOfFile(F)}
Refs(F, p) == {Referred(F, l) : l \in {m \in LinesOfFile(F) : Matches(m, p) /\ Refers(m)}}
Closed(F, S) == \A p \in S : Refs(F, p) \subseteq S
From(F, start) ==
    LET names == start \union ReferredNames(F)
    IN {p \in names : \A S \in SUBSET names : start \subseteq S /\ Closed(F, S) => p \in S}

(* The texts of the lines of some names.                                   *)
TextsOf(F, names) ==
    {Value(l) : l \in {m \in LinesOfFile(F) : ~Refers(m) /\ \E p \in names : Matches(m, p)}}

(* One of these names leads back to itself, or they are more than the      *)
(* process can open files.                                                 *)
NeedsMoreFiles(F, names) ==
    (\E p \in names : p \in From(F, Refs(F, p))) \/ Cardinality(names) > MaxOpen

(* A property is found exactly if some line that its name, or a reference  *)
(* of such a line, leads to has a text, and it is one of these texts.  It  *)
(* may be missed only if the file could not be opened again, and that      *)
(* happens only to references that lead back to themselves or to more      *)
(* names than the process can open files.                                  *)
PropertyResolved ==
    found # Nothing =>
        LET leads == From(file, {string[round].name})
        IN  /\ found.is = "text" => found.value \in TextsOf(file, leads)
            /\ found.is = "missing" => refused \/ TextsOf(file, leads) = {}
            /\ refused => NeedsMoreFiles(file, leads)

(* What a string has been expanded to has the value of each variable that  *)
(* a blank or a "/" delimits.                                              *)
AllVariablesReplaced ==
    expanded = "true" /\ (\A i \in 1 .. Len(string) : string[i].delimited) =>
        forms = [i \in 1 .. Len(string) |-> "value"]

-----------------------------------------------------------------------------
(* What PropertyResolved rests on.                                         *)
PropertyTypeOK ==
    /\ file \in Files /\ string \in Strings
    /\ round \in 1 .. Len(string) + 1
    /\ forms \in Seq({"as it was", "value", "without $"})
    /\ expanded \in {"none", "true", "false"}
    /\ found \in {Nothing, Missing} \union [is : {"text"}, value : Seq(Words)]
    /\ reading \in Seq([property : PropertyNames, line : 1 .. Len(file.lines) + 1])
    /\ Len(reading) <= MaxOpen /\ refused \in BOOLEAN
    /\ reading # << >> => /\ expanded = "none" /\ found = Nothing
                         /\ round <= Len(string) /\ string[round].delimited
                         /\ reading[1].property = string[round].name
    /\ found # Nothing => reading = << >> /\ round <= Len(string) /\ string[round].delimited

(* Every call but the innermost one is at a reference to the next one.     *)
CallsFollowReferences ==
    \A i \in 1 .. Len(reading) - 1 : LET c == reading[i] l == file.lines[c.line] IN
        /\ c.line <= Len(file.lines) /\ Matches(l, c.property) /\ Refers(l)
        /\ Referred(file, l) = reading[i + 1].property

CallsLead ==
    \A i \in 1 .. Len(reading) :
        /\ reading[i].property \in From(file, {string[round].name})
        /\ \A j \in i + 1 .. Len(reading) :
              reading[j].property \in From(file, Refs(file, reading[i].property))

(* What a call has passed over leads to no text, if the file could be      *)
(* opened for it.                                                          *)
PassedOver ==
    ~refused =>
        \A i \in 1 .. Len(reading) : \A k \in 1 .. reading[i].line - 1 :
            LET l == file.lines[k]
            IN  Matches(l, reading[i].property) =>
                    Refers(l) /\ TextsOf(file, From(file, {Referred(file, l)})) = {}

RefusedRightly ==
    refused /\ (reading # << >> \/ found # Nothing) =>
        NeedsMoreFiles(file, From(file, {string[round].name}))

PropertyIInv ==
    /\ PropertyTypeOK /\ CallsFollowReferences /\ CallsLead /\ PassedOver
    /\ RefusedRightly /\ PropertyResolved
=============================================================================
