----------------------------- MODULE MCHelpers ------------------------------
(***************************************************************************)
(* Small instances of the components that are checked apart, side by side: *)
(* a behaviour is one of part, and the others rest in one of their initial *)
(* states.                                                                 *)
(***************************************************************************)
EXTENDS PanelInstance, FrontPanelLeds, TpTimer, UtilsController, ImageEncoder, PropertyFile,
        FileSearch, InputValidator

VARIABLE part

allVars == <<part, panelVars, ledVars, timerVars, controllerVars, encoderVars, propertyVars,
             searchVars, validatorVars>>

-----------------------------------------------------------------------------
(* The inputs.                                                             *)

MCObjects == UNION {[1 .. n -> {0, 3, 84, 255}] : n \in 0 .. 4}

MCNames == {<<"A">>, <<"B">>, <<"A", "B">>}
(* A line of a text or of a reference.                                     *)
MCText(key, value) == [key |-> key, equals |-> TRUE, ref |-> FALSE, value |-> value]
MCReference(key, value) == [key |-> key, equals |-> TRUE, ref |-> TRUE, value |-> value]
MCLines == [key : MCNames, equals : {TRUE}, ref : BOOLEAN, value : MCNames]
           \union [key : MCNames, equals : {FALSE}, ref : {FALSE}, value : {<<"A">>}]
           \union {MCReference(<<"A">>, << >>), MCText(<< >>, <<"A">>)}
MCShortFiles == [lines : UNION {[1 .. n -> MCLines] : n \in 0 .. 2}, crlf : BOOLEAN]
(* References to more names than the process can open files.               *)
MCChain == <<MCReference(<<"A">>, <<"B">>), MCReference(<<"B">>, <<"C">>),
             MCReference(<<"C">>, <<"A", "B">>)>>
MCChains == {MCChain, Append(MCChain, MCText(<<"A", "B">>, <<"A">>))}
MCFiles == MCShortFiles \union
           [lines : MCChains, crlf : {FALSE}] \union
           [lines : [1 .. 3 -> [key : {<<"A">>, <<"B">>}, equals : {TRUE}, ref : BOOLEAN,
                                value : {<<"A">>, <<"B">>, <<"C">>}]], crlf : {FALSE}]

(* A string of one variable, and one of which the last is at the end.      *)
Variable(name, delimited) == [name |-> name, delimited |-> delimited]
MCStrings ==
    {<< >>, <<Variable(<<"B">>, TRUE), Variable(<<"A">>, FALSE)>>}
    \union {<<Variable(n, TRUE)>> : n \in MCNames}

(* Up to two variables: the last one may be at the end of the string.      *)
MCExpandStrings ==
    {s \in UNION {[1 .. n -> [name : {<<"A">>, <<"B">>, <<"C">>}, delimited : BOOLEAN]]
                     : n \in 0 .. 2} :
        \A i \in 1 .. Len(s) - 1 : s[i].delimited}

(* a and b may be directories, in two levels; in the third there is ab.    *)
MCHigh == {<<"a">>, <<"b">>}
MCLow == MCHigh \union {<<"a", "b">>}
MCTree(dirs, low) ==
    {<<d[1]>> : d \in dirs} \union dirs \union {<<d[1], d[2], n>> : d \in dirs, n \in low}
MCTrees ==
    {MCTree(dirs, low) \ gone :
        dirs \in SUBSET (MCHigh \X MCHigh), low \in SUBSET MCLow,
        gone \in {{}} \union {{<<<<"a">>, <<"a">>, n>>} : n \in MCLow}}
MCLevels == [wild : {TRUE}, name : {<< >>, <<"b">>}] \union [wild : {FALSE}, name : {<<"a">>}]
MCPaths == UNION {[1 .. n -> MCLevels] : n \in 0 .. 3}
MCExclusions == {{}, {<<"b">>}}

MCDescriptions == {<<"Discrete", {1}>>, <<"Discrete", {2, 3}>>, <<"Range", <<1, 2>>>>,
                   <<"RegExp", {3}>>, <<"None", {}>>}

-----------------------------------------------------------------------------
(* The inputs of the parts that rest.                                      *)
RestInit ==
    /\ part = "encoder" \/ (bytes = << >> /\ padding = FALSE)
    /\ part = "property" \/ (file = [lines |-> << >>, crlf |-> FALSE] /\ string = << >>)
    /\ part = "search" \/ (tree = {} /\ path = << >> /\ excluded = {})
    /\ part = "timer" \/ (revoke = "returns" /\ singleShot = FALSE /\ callback = "nothing")
    /\ part = "leds" \/ (ledPresent = {} /\ isTV = FALSE)
    /\ part = "controller" \/ (pooled = {} /\ kind = [c \in ControllerCalls |-> "token"])

PartsInit ==
    /\ RestInit
    /\ PanelInit /\ LedInit /\ TimerInit /\ ControllerInit /\ EncoderInit /\ PropertyInit
    /\ SearchInit /\ ValidatorInit

MCInit ==
    /\ part \in {"panel", "leds", "timer", "controller", "encoder", "property", "search",
                 "validator"}
    /\ PartsInit

PanelPart ==
    /\ part = "panel" /\ PanelNext
    /\ UNCHANGED <<part, ledVars, timerVars, controllerVars, encoderVars,
                   propertyVars, searchVars, validatorVars>>
LedsPart ==
    /\ part = "leds" /\ LedNext
    /\ UNCHANGED <<part, panelVars, timerVars, controllerVars, encoderVars,
                   propertyVars, searchVars, validatorVars>>
TimerPart(A) ==
    /\ part = "timer" /\ A
    /\ UNCHANGED <<part, panelVars, ledVars, controllerVars, encoderVars,
                   propertyVars, searchVars, validatorVars>>
ControllerPart(A) ==
    /\ part = "controller" /\ A
    /\ UNCHANGED <<part, panelVars, ledVars, timerVars, encoderVars,
                   propertyVars, searchVars, validatorVars>>
EncoderPart ==
    /\ part = "encoder" /\ EncoderNext
    /\ UNCHANGED <<part, panelVars, ledVars, timerVars, controllerVars,
                   propertyVars, searchVars, validatorVars>>
PropertyPart ==
    /\ part = "property" /\ PropertyNext
    /\ UNCHANGED <<part, panelVars, ledVars, timerVars, controllerVars,
                   encoderVars, searchVars, validatorVars>>
SearchPart ==
    /\ part = "search" /\ SearchNext
    /\ UNCHANGED <<part, panelVars, ledVars, timerVars, controllerVars,
                   encoderVars, propertyVars, validatorVars>>
ValidatorPart ==
    /\ part = "validator" /\ ValidatorNext
    /\ UNCHANGED <<part, panelVars, ledVars, timerVars, controllerVars,
                   encoderVars, propertyVars, searchVars>>

MCNext ==
    \/ PanelPart \/ LedsPart \/ TimerPart(TimerNext) \/ ControllerPart(ControllerNext)
    \/ EncoderPart \/ PropertyPart \/ SearchPart \/ ValidatorPart

(* The threads go on, and a thread of the pool is given work in the end.   *)
MCFairness ==
    /\ WF_allVars(TimerPart(UserThread))
    /\ WF_allVars(TimerPart(TimerThread))
    /\ \A c \in ControllerCalls : WF_allVars(ControllerPart(ControllerStep(c)))

MCSpec == MCInit /\ [][MCNext]_allVars /\ MCFairness

MCExpandSpec == part = "property" /\ PartsInit /\ [][PropertyPart]_allVars
=============================================================================
