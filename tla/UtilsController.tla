-------------------------- MODULE UtilsController --------------------------
(***************************************************************************)
(* helpers/UtilsController.h: the security token, asked for once and       *)
(* cached, and the activation of a plugin by a job of the worker pool.     *)
(*                                                                         *)
(* Both block their thread: getSecurityToken for a request to Thunder's    *)
(* own web server, under a static mutex; activatePlugin for an event that  *)
(* its job sets.  The request and the job each need a thread of the pool,  *)
(* and the callers may be on threads of the pool themselves.  Neither wait *)
(* has a limit.                                                            *)
(***************************************************************************)
EXTENDS Integers, FiniteSets

CONSTANTS
    ControllerCalls,   \* calls of getThunderControllerClient and activatePlugin
    PoolSize,          \* threads of the worker pool
    NoHolder

ASSUME UtilsControllerAssumption ==
    /\ IsFiniteSet(ControllerCalls) /\ NoHolder \notin ControllerCalls
    /\ PoolSize \in Nat \ {0}

VARIABLES
    kind,      \* of each call: "token" or "activate"
    pooled,    \* the calls that are made on threads of the pool
    mtx,       \* the call that holds the mutex
    checked,   \* sThunderSecurityChecked
    sToken,
    at,        \* where each call is
    job,       \* its job or request in the pool
    answer     \* what it has got

controllerVars == <<kind, pooled, mtx, checked, sToken, at, job, answer>>

ControllerInit ==
    /\ kind \in [ControllerCalls -> {"token", "activate"}]
    /\ pooled \in SUBSET ControllerCalls
    /\ mtx = NoHolder /\ checked = FALSE /\ sToken = "empty"
    /\ at = [c \in ControllerCalls |-> "before"]
    /\ job = [c \in ControllerCalls |-> "none"]
    /\ answer = [c \in ControllerCalls |-> "none"]

Held == {c \in pooled : at[c] \notin {"before", "returned"}}
Busy == Cardinality(Held) + Cardinality({c \in ControllerCalls : job[c] = "running"})

Move(c, from, to) == at[c] = from /\ at' = [at EXCEPT ![c] = to]

Enter(c) ==
    /\ Move(c, "before", "entered")
    /\ c \in pooled => Busy < PoolSize
    /\ UNCHANGED <<kind, pooled, mtx, checked, sToken, job, answer>>

(* A thread of the pool takes a job or a request.                          *)
TakeJob(c) ==
    /\ job[c] = "queued" /\ Busy < PoolSize
    /\ job' = [job EXCEPT ![c] = "running"]
    /\ UNCHANGED <<kind, pooled, mtx, checked, sToken, at, answer>>

-----------------------------------------------------------------------------
(* getSecurityToken, under the mutex from its test to its end.             *)

(* Mutant: the flag is tested before the mutex is taken.                   *)
CachedTokenUnlocked(c) ==
    /\ kind[c] = "token" /\ checked
    /\ Move(c, "entered", "returned")
    /\ answer' = [answer EXCEPT ![c] = sToken]
    /\ UNCHANGED <<kind, pooled, mtx, checked, sToken, job>>

CachedToken(c) ==
    /\ kind[c] = "token" /\ mtx = NoHolder /\ checked
    /\ Move(c, "entered", "returned")
    /\ answer' = [answer EXCEPT ![c] = sToken]
    /\ UNCHANGED <<kind, pooled, mtx, checked, sToken, job>>

(* isThunderSecurityConfigured sends a request, unless curl fails before.  *)
AskConfiguration(c) ==
    /\ kind[c] = "token" /\ mtx = NoHolder /\ ~checked
    /\ Move(c, "entered", "asking")
    /\ mtx' = c /\ checked' = TRUE
    /\ \E request \in {"queued", "served"} : job' = [job EXCEPT ![c] = request]
    /\ UNCHANGED <<kind, pooled, sToken, answer>>

ServeRequest(c) ==
    /\ kind[c] = "token" /\ job[c] = "running"
    /\ job' = [job EXCEPT ![c] = "served"]
    /\ UNCHANGED <<kind, pooled, mtx, checked, sToken, at, answer>>

(* The token, or none: no answer, security not configured, or an error.    *)
GetSecurityToken(c) ==
    /\ job[c] = "served"
    /\ Move(c, "asking", "returned")
    /\ sToken' \in {"token", "empty"}
    /\ answer' = [answer EXCEPT ![c] = sToken']
    /\ mtx' = NoHolder
    /\ UNCHANGED <<kind, pooled, checked, job>>

-----------------------------------------------------------------------------
(* activatePlugin.                                                         *)

SubmitJob(c) ==
    /\ kind[c] = "activate"
    /\ Move(c, "entered", "waiting")
    /\ job' = [job EXCEPT ![c] = "queued"]
    /\ UNCHANGED <<kind, pooled, mtx, checked, sToken, answer>>

(* Mutant: a job without an interface ends before it sets the event.       *)
ActivateOrLeave(c) ==
    /\ kind[c] = "activate" /\ job[c] = "running"
    /\ \E result \in {"ERROR_UNAVAILABLE", "status of Activate"} :
        /\ answer' = [answer EXCEPT ![c] = result]
        /\ job' = [job EXCEPT ![c] = IF result = "ERROR_UNAVAILABLE" THEN "none" ELSE "served"]
    /\ UNCHANGED <<kind, pooled, mtx, checked, sToken, at>>

Activate(c) ==
    /\ kind[c] = "activate" /\ job[c] = "running"
    /\ \E result \in {"ERROR_UNAVAILABLE", "status of Activate"} :
        answer' = [answer EXCEPT ![c] = result]
    /\ job' = [job EXCEPT ![c] = "served"]
    /\ UNCHANGED <<kind, pooled, mtx, checked, sToken, at>>

EventSet(c) ==
    /\ job[c] = "served"
    /\ Move(c, "waiting", "returned")
    /\ UNCHANGED <<kind, pooled, mtx, checked, sToken, job, answer>>

(* What goes on once a call has been made.                                 *)
ControllerStep(c) ==
    \/ TakeJob(c)
    \/ CachedToken(c) \/ AskConfiguration(c) \/ ServeRequest(c) \/ GetSecurityToken(c)
    \/ SubmitJob(c) \/ Activate(c) \/ EventSet(c)

ControllerNext == \E c \in ControllerCalls : Enter(c) \/ ControllerStep(c)

ControllerSpec == ControllerInit /\ [][ControllerNext]_controllerVars

-----------------------------------------------------------------------------
(* All callers ever get the same token: while one asks for it the others   *)
(* wait, and the first attempt counts for ever, also one that failed.      *)
TokensAgree ==
    \A c, d \in ControllerCalls :
        /\ kind[c] = "token" /\ at[c] = "returned"
        /\ kind[d] = "token" /\ at[d] = "returned"
        => answer[c] = answer[d]

(* Every call returns, with the result of its own job, unless at some time *)
(* all threads of the pool were held by such calls: with a single one of   *)
(* them left, activations and the token's request get through, in spite of *)
(* each other and of the mutex.                                            *)
ControllerCallsReturn ==
    \/ <>(Cardinality(Held) = PoolSize)
    \/ \A c \in ControllerCalls :
          at[c] = "entered" ~> at[c] = "returned" /\ answer[c] # "none"

-----------------------------------------------------------------------------
(* What TokensAgree rests on.                                              *)
ControllerTypeOK ==
    /\ kind \in [ControllerCalls -> {"token", "activate"}]
    /\ pooled \subseteq ControllerCalls
    /\ mtx \in ControllerCalls \union {NoHolder}
    /\ checked \in BOOLEAN /\ sToken \in {"token", "empty"}
    /\ at \in [ControllerCalls -> {"before", "entered", "asking", "waiting", "returned"}]
    /\ job \in [ControllerCalls -> {"none", "queued", "running", "served"}]
    /\ answer \in [ControllerCalls -> {"none", "token", "empty", "ERROR_UNAVAILABLE",
                                       "status of Activate"}]

(* The caller that asks holds the mutex, and it is the first and only one; *)
(* those that have returned have the token that is cached.                 *)
FirstAsks ==
    \A c \in ControllerCalls :
        /\ at[c] = "asking" => kind[c] = "token" /\ mtx = c /\ checked
        /\ at[c] = "waiting" => kind[c] = "activate"
        /\ kind[c] = "token" /\ at[c] = "returned" =>
              checked /\ mtx = NoHolder /\ answer[c] = sToken

ControllerIInv == ControllerTypeOK /\ FirstAsks /\ TokensAgree
=============================================================================
