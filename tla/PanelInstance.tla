--------------------------- MODULE PanelInstance ---------------------------
(***************************************************************************)
(* helpers/frontpanel.cpp, helpers/PluginInterfaceBuilder.h: the panel     *)
(* object, made by the first call of CFrontPanel::instance and deleted by  *)
(* deinitialize, and its reference to the power manager.                   *)
(*                                                                         *)
(* instance tests initDone, waits up to five seconds for the power         *)
(* manager, and sets initDone at its end, all without a lock: threads that *)
(* want the panel meanwhile make it too.  The plugin calls deinitialize    *)
(* when no thread is in instance.  The LEDs are in FrontPanelBlink.        *)
(***************************************************************************)
EXTENDS Integers, FiniteSets

CONSTANTS
    Threads,      \* those that call instance
    RetryCount,   \* withRetryCount
    MaxPanelCalls \* bound on the number of operations

ASSUME PanelInstanceAssumption ==
    /\ IsFiniteSet(Threads)
    /\ RetryCount \in Int
    /\ MaxPanelCalls \in Nat

VARIABLES
    initDone,
    panel,        \* s_instance: a number for each object, 0 for null
    live,         \* the objects that have been made and not deleted
    made,         \* how many have been made
    ref,          \* _powerManagerPlugin holds an interface
    references,   \* references to the power manager that have not been released
    powerStatus,
    pc,           \* the next step of each thread in instance
    tries,        \* its failed attempts to get the interface
    fetched,      \* its PluginInterfaceRef holds an interface
    crashed,      \* deinitialize has used a null pointer
    overlaps,     \* calls that found other calls under way
    panelCalls

objectVars == <<initDone, panel, live, made>>
powerVars == <<ref, references, powerStatus>>
threadVars == <<pc, tries, fetched>>
panelVars == <<objectVars, powerVars, threadVars, crashed, overlaps, panelCalls>>

PanelInit ==
    /\ initDone = FALSE /\ panel = 0 /\ live = {} /\ made = 0
    /\ ref = FALSE /\ references = 0 /\ powerStatus = FALSE
    /\ pc = [t \in Threads |-> "idle"]
    /\ tries = [t \in Threads |-> 0]
    /\ fetched = [t \in Threads |-> FALSE]
    /\ crashed = FALSE
    /\ overlaps = 0 /\ panelCalls = 0

Inside == {t \in Threads : pc[t] # "idle"}

(* The assertion in instance has failed: a build that checks it has ended. *)
Aborted == \E t \in Threads : pc[t] = "aborted"

PanelCall ==
    /\ ~crashed /\ ~Aborted
    /\ panelCalls < MaxPanelCalls
    /\ panelCalls' = panelCalls + 1

Step(t, from, to) ==
    /\ ~crashed /\ ~Aborted
    /\ pc[t] = from
    /\ pc' = [pc EXCEPT ![t] = to]
    /\ UNCHANGED <<crashed, overlaps, panelCalls>>

-----------------------------------------------------------------------------
(* A call of instance that finds initDone set only returns the pointer.    *)
(* With no service the power manager is not looked for.                    *)
Instance(t) ==
    /\ PanelCall
    /\ pc[t] = "idle" /\ ~initDone
    /\ \E first \in {"query", "test"} : pc' = [pc EXCEPT ![t] = first]
    /\ overlaps' = overlaps + (IF Inside = {} THEN 0 ELSE 1)
    /\ tries' = [tries EXCEPT ![t] = 0]
    /\ UNCHANGED <<objectVars, powerVars, fetched, crashed>>

(* createInterface: one attempt at least, whatever the number of retries.  *)
Found(t) ==
    /\ Step(t, "query", "assign")
    /\ fetched' = [fetched EXCEPT ![t] = TRUE]
    /\ references' = references + 1
    /\ UNCHANGED <<objectVars, ref, powerStatus, tries>>

NotFound(t) ==
    /\ Step(t, "query", IF tries[t] + 1 < RetryCount THEN "query" ELSE "assign")
    /\ tries' = [tries EXCEPT ![t] = @ + 1]
    /\ UNCHANGED <<objectVars, powerVars, fetched>>

(* The move assignment overwrites the pointer and releases nothing.        *)
Assign(t) ==
    /\ Step(t, "assign", "test")
    /\ ref' = fetched[t]
    /\ fetched' = [fetched EXCEPT ![t] = FALSE]
    /\ UNCHANGED <<objectVars, references, powerStatus, tries>>

TestInstance(t) ==
    /\ Step(t, "test", IF panel = 0 THEN "new" ELSE "power")
    /\ UNCHANGED <<objectVars, powerVars, tries, fetched>>

NewPanel(t) ==
    /\ Step(t, "new", "power")
    /\ made' = made + 1
    /\ panel' = made + 1
    /\ live' = live \union {made + 1}
    /\ UNCHANGED <<initDone, powerVars, tries, fetched>>

(* The power is on if the power manager says so; it is not asked if there  *)
(* is none, in a build without assertions, or the display settings have    *)
(* thrown before.                                                          *)
GetPowerState(t) ==
    /\ Step(t, "power", "done")
    /\ \/ ref /\ powerStatus' = TRUE
       \/ UNCHANGED powerStatus
    /\ UNCHANGED <<objectVars, ref, references, tries, fetched>>

(* ASSERT(_powerManagerPlugin), though no service and no power manager are *)
(* cases that the code goes on with.                                       *)
AssertFails(t) ==
    /\ Step(t, "power", "aborted")
    /\ ~ref
    /\ UNCHANGED <<objectVars, powerVars, tries, fetched>>

(* The lights are set, which may throw, and the call returns the pointer.  *)
InitDone(t) ==
    /\ Step(t, "done", "idle")
    /\ initDone' = TRUE
    /\ UNCHANGED <<panel, live, made, powerVars, tries, fetched>>

SetPowerStatus(status) ==
    /\ PanelCall
    /\ powerStatus' = status
    /\ UNCHANGED <<objectVars, ref, references, threadVars, crashed, overlaps>>

-----------------------------------------------------------------------------
(* Mutant: the reference is kept for the next life.                        *)
DeinitializeKeepsReference ==
    /\ PanelCall
    /\ Inside = {} /\ panel # 0
    /\ live' = live \ {panel} /\ panel' = 0 /\ initDone' = FALSE
    /\ UNCHANGED <<made, powerVars, threadVars, crashed, overlaps>>

Deinitialize ==
    /\ PanelCall
    /\ Inside = {} /\ panel # 0
    /\ ref' = FALSE
    /\ references' = references - (IF ref THEN 1 ELSE 0)
    /\ live' = live \ {panel} /\ panel' = 0 /\ initDone' = FALSE
    /\ UNCHANGED <<made, powerStatus, threadVars, crashed, overlaps>>

(* The blinking is stopped before the pointer is tested.                   *)
DeinitializeNothing ==
    /\ PanelCall
    /\ Inside = {} /\ panel = 0
    /\ crashed' = TRUE
    /\ UNCHANGED <<objectVars, powerVars, threadVars, overlaps>>

PanelNext ==
    \/ \E t \in Threads :
          \/ Instance(t) \/ Found(t) \/ NotFound(t) \/ Assign(t)
          \/ TestInstance(t) \/ NewPanel(t) \/ GetPowerState(t)
          \/ AssertFails(t) \/ InitDone(t)
    \/ \E status \in BOOLEAN : SetPowerStatus(status)
    \/ Deinitialize \/ DeinitializeNothing

PanelSpec == PanelInit /\ [][PanelNext]_panelVars

-----------------------------------------------------------------------------
(* The references of the threads and of _powerManagerPlugin.               *)
Owned == Cardinality({t \in Threads : fetched[t]}) + IF ref THEN 1 ELSE 0

(* Over any number of lives, at most one object and one reference are lost *)
(* for every call of instance that overlapped another one; without such    *)
(* calls the panel is the only object, and the references are those that   *)
(* are owned.  The pointer is never that of a deleted object, and once a   *)
(* call has returned there is one: a deinitialize that follows it, and has *)
(* not been made before, does not use a null pointer.                      *)
PanelAccounted ==
    /\ references - Owned \in 0 .. overlaps
    /\ Cardinality(live \ {panel}) <= overlaps
    /\ panel # 0 => panel \in live
    /\ initDone => panel # 0 /\ ~crashed

-----------------------------------------------------------------------------
(* What the invariant above rests on.                                      *)
PanelTypeOK ==
    /\ initDone \in BOOLEAN /\ ref \in BOOLEAN /\ crashed \in BOOLEAN
    /\ powerStatus \in BOOLEAN
    /\ panel \in Nat /\ made \in Nat /\ live \subseteq 1 .. made
    /\ references \in Int /\ overlaps \in Nat
    /\ pc \in [Threads -> {"idle", "query", "assign", "test", "new", "power", "done",
                       "aborted"}]
    /\ tries \in [Threads -> Nat]
    /\ fetched \in [Threads -> BOOLEAN]
    /\ panelCalls \in 0 .. MaxPanelCalls

At(steps) == {t \in Threads : pc[t] \in steps}
ToAssign == At({"query", "assign"})
ToMake == At({"query", "assign", "test", "new"})

(* The pointers, by the steps of the threads: a life begins with nothing.  *)
Pointers ==
    /\ panel # 0 => panel \in live
    /\ initDone => panel # 0 /\ ~crashed
    /\ At({"power", "done", "aborted"}) # {} => panel # 0
    /\ Inside = {} /\ ~initDone => ~ref /\ panel = 0
    /\ \A t \in Threads : fetched[t] => pc[t] = "assign"

(* A reference can be lost by every thread that is to assign one, but the  *)
(* first of a life; it then began while another one was inside.            *)
ReferencesToLose ==
    /\ references - Owned \in 0 .. overlaps
    /\ references - Owned + Cardinality(ToAssign) <= overlaps + IF ref THEN 0 ELSE 1

(* So can a panel by every thread that may make one.                       *)
PanelsToLose ==
    /\ Cardinality(live \ {panel}) <= overlaps
    /\ Cardinality(live \ {panel}) + Cardinality(ToMake)
          <= overlaps + IF panel = 0 THEN 1 ELSE 0

(* The inductive invariant.                                                *)
PanelIInv == PanelTypeOK /\ Pointers /\ ReferencesToLose /\ PanelsToLose
=============================================================================
