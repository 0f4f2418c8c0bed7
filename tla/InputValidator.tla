--------------------------- MODULE InputValidator ---------------------------
(***************************************************************************)
(* helpers/UtilsInputValidator.h: expected values are made, copied, moved, *)
(* and registered as the validators of a key.                              *)
(*                                                                         *)
(* An object has a type and a member for each type; its assignments write  *)
(* the type and the member of that type only.  A regular expression stands *)
(* for the values whose text it matches.                                   *)
(***************************************************************************)
EXTENDS Integers, Sequences

CONSTANTS
    ExpectedObjects,   \* variables of the caller
    InputValues,       \* what may be validated
    Descriptions,      \* what the constructors are called with: <<type, member>>
    MaxValidatorCalls

ASSUME InputValidatorAssumption ==
    /\ InputValues \subseteq Int
    /\ Descriptions \subseteq ({"Discrete", "RegExp"} \X SUBSET Int)
                              \union ({"Range"} \X (Int \X Int)) \union ({"None"} \X {{}})
    /\ MaxValidatorCalls \in Nat

VARIABLES
    object,      \* the ExpectedValues object in each variable
    validators,  \* those of the key
    want,        \* the values last assigned to each variable
    held,        \* variables that have had discrete values
    merged,      \* variables whose discrete values were copied onto others
    moved,       \* variables that have been moved from
    validatorCalls

validatorVars == <<object, validators, want, held, merged, moved, validatorCalls>>

(* The members that a constructor leaves alone; the range is not set.      *)
Fresh == [type |-> "None", Discrete |-> {}, Range |-> <<0, 0>>, RegExp |-> {}]

Construct(d) == IF d[1] = "None" THEN Fresh ELSE [Fresh EXCEPT !.type = d[1], ![d[1]] = d[2]]

(* validate of ExpectedValues.                                             *)
Accepts(e, value) ==
    CASE e.type = "Discrete" -> value \in e.Discrete
      [] e.type = "Range" -> value >= e.Range[1] /\ value <= e.Range[2]
      [] e.type = "RegExp" -> value \in e.RegExp
      [] e.type = "None" -> TRUE

Accepted(e) == {value \in InputValues : Accepts(e, value)}

(* The values of a set are put into the set that is there.                 *)
CopyAssign(to, from) ==
    CASE from.type = "Discrete" -> [to EXCEPT !.type = "Discrete", !.Discrete = @ \union from.Discrete]
      [] from.type \in {"Range", "RegExp"} -> [to EXCEPT !.type = from.type, ![from.type] = from[from.type]]
      [] from.type = "None" -> [to EXCEPT !.type = "None"]

(* Mutant: the members are moved and the type stays.                       *)
MoveMembers(to, from) ==
    IF from.type = "None" THEN to ELSE [to EXCEPT ![from.type] = from[from.type]]

MoveAssign(to, from) ==
    IF from.type = "None" THEN [to EXCEPT !.type = "None"]
    ELSE [to EXCEPT !.type = from.type, ![from.type] = from[from.type]]

(* The types are swapped, and a set is left empty.                         *)
MovedFrom(to, from) ==
    [from EXCEPT !.type = to.type, !.Discrete = IF from.type = "Discrete" THEN {} ELSE @]

(* create moves the object into a parameter, and that into the validator.  *)
Stored(e) == MoveAssign(Fresh, MoveAssign(Fresh, e))

-----------------------------------------------------------------------------
ValidatorInit ==
    /\ object = [o \in ExpectedObjects |-> Fresh] /\ validators = <<>>
    /\ want = [o \in ExpectedObjects |-> InputValues]
    /\ held = {} /\ merged = {} /\ moved = {}
    /\ validatorCalls = 0

ValidatorCall == validatorCalls < MaxValidatorCalls /\ validatorCalls' = validatorCalls + 1

Put(S, o, condition) == IF condition THEN S \union {o} ELSE S \ {o}

(* o = ExpectedValues(...): a temporary object is moved.                   *)
AssignNew(o, d) ==
    /\ ValidatorCall
    /\ object' = [object EXCEPT ![o] = MoveAssign(@, Construct(d))]
    /\ want' = [want EXCEPT ![o] = Accepted(Construct(d))]
    /\ held' = Put(held, o, o \in held \/ d[1] = "Discrete")
    /\ merged' = merged \ {o} /\ moved' = moved \ {o}
    /\ UNCHANGED validators

AssignCopy(o, p) ==
    /\ ValidatorCall
    /\ o # p /\ p \notin moved
    /\ object' = [object EXCEPT ![o] = CopyAssign(@, object[p])]
    /\ want' = [want EXCEPT ![o] = want[p]]
    /\ held' = Put(held, o, o \in held \/ object[p].type = "Discrete")
    /\ merged' = Put(merged, o, p \in merged \/ (object[p].type = "Discrete" /\ o \in held))
    /\ moved' = moved \ {o}
    /\ UNCHANGED validators

AssignMove(o, p) ==
    /\ ValidatorCall
    /\ o # p /\ p \notin moved
    /\ object' = [object EXCEPT ![o] = MoveAssign(@, object[p]), ![p] = MovedFrom(object[o], @)]
    /\ want' = [want EXCEPT ![o] = want[p]]
    /\ held' = Put(held, o, o \in held \/ object[p].type = "Discrete")
    /\ merged' = Put(merged, o, p \in merged)
    /\ moved' = (moved \ {o}) \union {p}
    /\ UNCHANGED validators

(* addValidator: numbers are validated by objects, texts by a function.    *)
AddExpected(o) ==
    /\ ValidatorCall
    /\ o \notin moved
    /\ validators' = Append(validators, [T |-> "number", expected |-> Stored(object[o]),
                                         want |-> want[o], merged |-> o \in merged])
    /\ object' = [object EXCEPT ![o] = MovedFrom(Fresh, @)]
    /\ moved' = moved \union {o}
    /\ UNCHANGED <<want, held, merged>>

AddFunction(values) ==
    /\ ValidatorCall
    /\ validators' = Append(validators,
          [T |-> "text", expected |-> Construct(<<"RegExp", values>>), want |-> values, merged |-> FALSE])
    /\ UNCHANGED <<object, want, held, merged, moved>>

ValidatorNext ==
    \/ \E o \in ExpectedObjects :
          \/ \E d \in Descriptions : AssignNew(o, d)
          \/ \E p \in ExpectedObjects : AssignCopy(o, p) \/ AssignMove(o, p)
          \/ AddExpected(o)
    \/ \E d \in Descriptions : d[1] = "RegExp" /\ AddFunction(d[2])

ValidatorSpec == ValidatorInit /\ [][ValidatorNext]_validatorVars

-----------------------------------------------------------------------------
(* validate of ValidationManager: a key that is not known, and a validator *)
(* of another type, refuse.                                                *)
Validate(T, value) ==
    /\ validators # <<>>
    /\ \A i \in DOMAIN validators :
          validators[i].T = T /\ Accepts(validators[i].expected, value)

(* Whatever has been assigned to the variables before they were registered *)
(* a value is accepted exactly if every validator of the key was meant for *)
(* its type and to accept it.  The exception are discrete values copied to *)
(* a variable that has had others: they too may be accepted then.          *)
ValidatesAsMeant ==
    \A T \in {"number", "text"}, value \in InputValues :
        LET meant == validators # <<>> /\ \A i \in DOMAIN validators :
                        validators[i].T = T /\ value \in validators[i].want
            exact == \A i \in DOMAIN validators : ~validators[i].merged
        IN /\ meant => Validate(T, value)
           /\ exact /\ Validate(T, value) => meant

-----------------------------------------------------------------------------
(* What ValidatesAsMeant rests on.                                         *)
Expectation ==
    [type : {"None", "Discrete", "Range", "RegExp"},
     Discrete : SUBSET Int, Range : Int \X Int, RegExp : SUBSET Int]

ValidatorTypeOK ==
    /\ object \in [ExpectedObjects -> Expectation]
    /\ validators \in Seq([T : {"number", "text"}, expected : Expectation,
                            want : SUBSET Int, merged : BOOLEAN])
    /\ want \in [ExpectedObjects -> SUBSET Int]
    /\ held \subseteq ExpectedObjects /\ merged \subseteq ExpectedObjects
    /\ moved \subseteq ExpectedObjects
    /\ validatorCalls \in 0 .. MaxValidatorCalls

(* An object accepts what was meant, and more only if it has been merged.  *)
Means(e, values, more) ==
    \A value \in InputValues :
        /\ value \in values => Accepts(e, value)
        /\ ~more /\ Accepts(e, value) => value \in values

ObjectsMean ==
    /\ \A o \in ExpectedObjects :
          /\ o \notin held => object[o].Discrete = {}
          /\ o \notin moved => Means(object[o], want[o], o \in merged)
    /\ \A i \in DOMAIN validators :
          Means(validators[i].expected, validators[i].want, validators[i].merged)

ValidatorIInv == ValidatorTypeOK /\ ObjectsMean
=============================================================================
