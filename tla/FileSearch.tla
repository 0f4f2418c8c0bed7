----------------------------- MODULE FileSearch -----------------------------
(***************************************************************************)
(* searchFiles of helpers/UtilsgetFileContent.h: the files of a path with  *)
(* wildcards.  A step is a call of searchFilesRec or a round of its loop   *)
(* over a directory, whose entries come in any order.                      *)
(*                                                                         *)
(* A name is a sequence of letters, a file the sequence of the names that  *)
(* lead to it.  A level of a path is a name or has a "*" on both sides of  *)
(* it; a "*" anywhere is no different, as regex_search looks for the       *)
(* expression anywhere in a name.                                          *)
(***************************************************************************)
EXTENDS Integers, Sequences, FiniteSets

CONSTANTS
    Letters,
    Trees,       \* the sets of files and directories there may be
    Paths,       \* the paths that are searched
    Exclusions,
    ResultCap    \* of the matches in a directory

FileName == Seq(Letters)
Level == [wild : BOOLEAN, name : FileName]

(* The directories above a file or directory are there too.                *)
Part(f, n) == [i \in 1 .. n |-> f[i]]
Dir(f) == Part(f, Len(f) - 1)

ASSUME FileSearchAssumption ==
    /\ \A T \in Trees :
          /\ T \subseteq Seq(FileName) \ {<< >>}
          /\ \A f \in T : \A n \in 1 .. Len(f) : Part(f, n) \in T
    /\ Paths \subseteq Seq(Level)
    /\ \A E \in Exclusions : E \subseteq FileName
    /\ ResultCap \in Nat \ {0}

VARIABLES
    tree, excluded,
    path,       \* the one that is searched
    pathList,   \* what has become of it
    calling,    \* the level of a call that begins, or 0
    searching,  \* the calls in their loops, the innermost last
    reported    \* the files that are found

searchVars == <<tree, excluded, path, pathList, calling, searching, reported>>

SearchInit ==
    /\ tree \in Trees /\ excluded \in Exclusions
    /\ path \in Paths /\ pathList = path
    /\ calling = 1 /\ searching = << >> /\ reported = << >>

-----------------------------------------------------------------------------
Fits(level, name) ==
    IF level.wild THEN \E i, j \in 1 .. Len(name) + 1 : SubSeq(name, i, j - 1) = level.name
    ELSE name = level.name

Begins(wild) == calling \in 1 .. Len(pathList) /\ pathList[calling].wild = wild

(* The directory of a level, and what is in a directory.                   *)
Above(levels, n) == [i \in 1 .. n - 1 |-> levels[i].name]
Entries(dir) == {f[Len(f)] : f \in {g \in tree : Len(g) = Len(dir) + 1 /\ Dir(g) = dir}}

NoPath ==
    /\ calling > Len(pathList)
    /\ calling' = 0
    /\ UNCHANGED <<tree, excluded, path, pathList, searching, reported>>

PlainLevel ==
    /\ Begins(FALSE) /\ calling < Len(pathList)
    /\ calling' = calling + 1
    /\ UNCHANGED <<tree, excluded, path, pathList, searching, reported>>

PlainFile ==
    /\ Begins(FALSE) /\ calling = Len(pathList)
    /\ LET f == Above(pathList, calling + 1)
       IN reported' = IF f \in tree THEN Append(reported, f) ELSE reported
    /\ calling' = 0
    /\ UNCHANGED <<tree, excluded, path, pathList, searching>>

OpenDirectory ==
    /\ Begins(TRUE) /\ Above(pathList, calling) \in tree \union {<< >>}
    /\ searching' = Append(searching,
           [level |-> calling, dir |-> Above(pathList, calling), pattern |-> pathList[calling],
            left |-> Entries(Above(pathList, calling)), tail |-> << >>, count |-> 0])
    /\ calling' = 0
    /\ UNCHANGED <<tree, excluded, path, pathList, reported>>

CannotOpen ==
    /\ Begins(TRUE) /\ Above(pathList, calling) \notin tree \union {<< >>}
    /\ calling' = 0
    /\ UNCHANGED <<tree, excluded, path, pathList, searching, reported>>

-----------------------------------------------------------------------------
(* The loop over a directory: name is the entry that readdir returns.      *)

Loop == searching[Len(searching)]
Outer == SubSeq(searching, 1, Len(searching) - 1)

Reads == calling = 0 /\ searching # << >> /\ Loop.count < ResultCap

Wanted(name) == Fits(Loop.pattern, name) /\ name \notin excluded
Rest(name) == [Loop EXCEPT !.left = @ \ {name}]

PassOver(name) ==
    /\ Reads /\ ~Wanted(name)
    /\ searching' = Append(Outer, Rest(name))
    /\ UNCHANGED <<tree, excluded, path, pathList, calling, reported>>

(* Mutant: the test that the file is there is gone.                        *)
ReportUnchecked(name) ==
    /\ Reads /\ Wanted(name) /\ Loop.level = Len(pathList)
    /\ LET tail == Loop.tail \o name
       IN /\ searching' = Append(Outer, [Rest(name) EXCEPT !.tail = tail, !.count = @ + 1])
          /\ reported' = Append(reported, Append(Loop.dir, tail))
    /\ UNCHANGED <<tree, excluded, path, pathList, calling>>

(* The last level.  The name of a match is appended to the path of those   *)
(* before it; ten matches in a directory are enough.                       *)
Report(name) ==
    /\ Reads /\ Wanted(name) /\ Loop.level = Len(pathList)
    /\ LET tail == Loop.tail \o name
           f == Append(Loop.dir, tail)
       IN IF f \in tree
          THEN /\ searching' = Append(Outer, [Rest(name) EXCEPT !.tail = tail, !.count = @ + 1])
               /\ reported' = Append(reported, f)
          ELSE /\ searching' = Append(Outer, [Rest(name) EXCEPT !.tail = tail])
               /\ UNCHANGED reported
    /\ UNCHANGED <<tree, excluded, path, pathList, calling>>

(* The match takes the place of the wildcard for good: the directories     *)
(* that come later are searched for the last match of the levels below.    *)
Descend(name) ==
    /\ Reads /\ Wanted(name) /\ Loop.level < Len(pathList)
    /\ searching' = Append(Outer, Rest(name))
    /\ pathList' = [pathList EXCEPT ![Loop.level] = [wild |-> FALSE, name |-> name]]
    /\ calling' = Loop.level + 1
    /\ UNCHANGED <<tree, excluded, path, reported>>

CloseDirectory ==
    /\ calling = 0 /\ searching # << >>
    /\ Loop.left = {} \/ Loop.count >= ResultCap
    /\ searching' = Outer
    /\ UNCHANGED <<tree, excluded, path, pathList, calling, reported>>

SearchNext ==
    \/ NoPath \/ PlainLevel \/ PlainFile \/ OpenDirectory \/ CannotOpen
    \/ searching # << >> /\ \E name \in Loop.left :
                              PassOver(name) \/ Report(name) \/ Descend(name)
    \/ CloseDirectory

SearchSpec == SearchInit /\ [][SearchNext]_searchVars

-----------------------------------------------------------------------------
Right(name, i) == Fits(path[i], name) /\ (path[i].wild => name \notin excluded)
Leads(f, levels) == \A i \in levels : Right(f[i], i)
InDir(files, dir) == {k \in 1 .. Len(files) : Dir(files[k]) = dir}
FirstOfDir(files, k) == \A j \in InDir(files, Dir(files[k])) : k <= j
WildAbove == {i \in 1 .. Len(path) - 1 : path[i].wild}

(* Every file that is found is there, its directories fit the path, and    *)
(* the first one of each directory fits it as well and is not excluded; of *)
(* a directory there are ResultCap at most.  With one wildcard above the   *)
(* last level at most, every directory that has such a file is found.      *)
ReportedRight ==
    \A k \in 1 .. Len(reported) : LET f == reported[k] last == Len(path) IN
        /\ f \in tree /\ Len(f) = last /\ Leads(f, 1 .. last - 1)
        /\ FirstOfDir(reported, k) => Right(f[last], last)
        /\ Cardinality(InDir(reported, Dir(f))) <= ResultCap

SearchReports ==
    /\ ReportedRight
    /\ calling = 0 /\ searching = << >> /\ (\A i, j \in WildAbove : i = j) =>
          \A f \in tree :
             Len(f) = Len(path) /\ Leads(f, 1 .. Len(path)) => InDir(reported, Dir(f)) # {}

-----------------------------------------------------------------------------
(* What SearchReports rests on.                                            *)
Loops == [level : 1 .. Len(path), dir : Seq(FileName), pattern : Level,
          left : SUBSET FileName, tail : FileName, count : 0 .. ResultCap]

SearchTypeOK ==
    /\ tree \in Trees /\ excluded \in Exclusions
    /\ path \in Paths /\ pathList \in Seq(Level) /\ Len(pathList) = Len(path)
    /\ calling \in 0 .. Len(path) \/ (path = << >> /\ calling = 1)
    /\ reported \in Seq(Seq(FileName))
    /\ searching \in Seq(Loops)

(* A wildcard is as it was, or has been replaced by a name that fits.      *)
PathFits ==
    \A i \in 1 .. Len(path) :
        \/ pathList[i] = path[i]
        \/ /\ path[i].wild /\ i < Len(path)
           /\ ~pathList[i].wild /\ Right(pathList[i].name, i)

Plain(levels, n) == \A i \in 1 .. n - 1 : ~levels[i].wild
CallPlain == calling > 0 => Plain(pathList, calling)

(* What a loop searches, and how much of it has been found.                *)
LoopsFit ==
    \A k \in 1 .. Len(searching) : LET s == searching[k] IN
        /\ path[s.level].wild /\ s.pattern = path[s.level]
        /\ s.dir = Above(pathList, s.level) /\ Plain(pathList, s.level)
        /\ s.left \subseteq Entries(s.dir)
        /\ s.count = 0 => s.tail = << >>
        /\ s.level < Len(path) => s.count = 0
        /\ s.level = Len(path) => Cardinality(InDir(reported, s.dir)) = s.count

(* The directories that are open are one in the other: all but the last,   *)
(* and that one too when a call is made in it, by the names of the path.   *)
LoopsNest ==
    \A k \in 1 .. Len(searching) : LET s == searching[k] IN
        /\ \A j \in k + 1 .. Len(searching) : s.level < searching[j].level
        /\ calling > 0 => s.level < calling
        /\ k < Len(searching) \/ calling > 0 =>
              s.level < Len(path) /\ pathList[s.level].name \notin s.left

(* f is in the part of a loop's directory that is still to be searched.    *)
Open(s, f) == Part(f, s.level - 1) = s.dir /\ f[s.level] \in s.left

(* Nothing has been reported of what is still to be searched.              *)
NoneTwice ==
    \A r \in 1 .. Len(reported) :
        /\ calling \in 1 .. Len(path) =>
              Part(reported[r], calling - 1) # Above(pathList, calling)
        /\ \A k \in 1 .. Len(searching) :
              searching[k].level < Len(path) => ~Open(searching[k], reported[r])

(* A file that is to be found, or its directory, is still to be searched.  *)
Ahead(f) ==
    \/ /\ calling \in 1 .. Len(path) /\ Part(f, calling - 1) = Above(pathList, calling)
       /\ \A i \in calling .. Len(path) : pathList[i] = path[i]
    \/ \E k \in 1 .. Len(searching) : searching[k].count = 0 /\ Open(searching[k], f)

NoneMissed ==
    (\A i, j \in WildAbove : i = j) =>
        \A f \in tree :
            Len(f) = Len(path) /\ Leads(f, 1 .. Len(path)) =>
               InDir(reported, Dir(f)) # {} \/ Ahead(f)

SearchIInv ==
    /\ SearchTypeOK /\ PathFits /\ CallPlain /\ LoopsFit /\ LoopsNest
    /\ NoneTwice /\ NoneMissed /\ ReportedRight
=============================================================================
