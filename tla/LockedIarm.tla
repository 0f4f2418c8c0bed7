----------------------------- MODULE LockedIarm -----------------------------
(***************************************************************************)
(* helpers/UtilsSynchroIarm.hpp: handlers of IARM events under the lock of *)
(* a plugin's class (ApiLock).                                             *)
(*                                                                         *)
(* The bus knows one generic handler per event; the real handlers are in a *)
(* map.  The threads of the bus deliver events to the generic handler,     *)
(* which takes the lock and calls what it finds in the map.  Handlers are  *)
(* registered and removed under the lock, first in the map and then on the *)
(* bus, by the threads of the plugin or inside a handler.  An exception    *)
(* leaves a handler as a return does.                                      *)
(***************************************************************************)
EXTENDS Integers

CONSTANTS
    Threads,
    BusThreads,     \* the threads that deliver events
    Events,
    Handlers,
    Null,           \* no handler: operator[] of the map makes a null pointer
    BusMayFail,     \* the calls of the bus can fail
    MaxCalls,       \* bound on the registrations, removals and calls to other plugins
    MaxDeliveries   \* bound on the events delivered

ASSUME LockedIarmAssumption ==
    /\ BusThreads \subseteq Threads
    /\ Events # {} /\ Handlers # {}
    /\ Null \notin Handlers
    /\ BusMayFail \in BOOLEAN
    /\ MaxCalls \in Nat /\ MaxDeliveries \in Nat

VARIABLES
    busDrains,    \* the bus waits for deliveries in flight when it removes a
                  \* handler: the library does or does not, in any behaviour
    handlers,     \* _registered_iarm_handlers
    bus,          \* the events the generic handler is registered for
    delivery,     \* what a thread is doing in the generic handler
    event,        \* the event it was called for
    op,           \* what a thread is doing in a registration or a removal
    target,       \* its arguments
    orphans,      \* the events whose removal from the bus failed, and that have
                  \* not been registered since
    crashed,      \* a null pointer has been called
    calls,        \* registrations, removals and calls to other plugins so far
    deliveries    \* events delivered so far

vars == <<busDrains, handlers, bus, delivery, event, op, target, orphans, crashed,
          calls, deliveries>>

TypeOK ==
    /\ busDrains \in BOOLEAN
    /\ handlers \in [Events -> Handlers \union {Null}]
    /\ bus \subseteq Events
    /\ delivery \in [Threads -> {"none", "locking", "running", "out"}]
    /\ event \in [Threads -> Events]
    /\ op \in [Threads -> {"none", "register", "remove", "busRegister", "busRemove"}]
    /\ target \in [Threads -> Events \X Handlers]
    /\ orphans \subseteq Events
    /\ crashed \in BOOLEAN
    /\ calls \in 0 .. MaxCalls
    /\ deliveries \in 0 .. MaxDeliveries

AnyEvent == CHOOSE e \in Events : TRUE

Init ==
    /\ busDrains \in BOOLEAN
    /\ handlers = [e \in Events |-> Null]
    /\ bus = {}
    /\ delivery = [t \in Threads |-> "none"]
    /\ event = [t \in Threads |-> AnyEvent]
    /\ op = [t \in Threads |-> "none"]
    /\ target = [t \in Threads |-> <<AnyEvent, CHOOSE h \in Handlers : TRUE>>]
    /\ orphans = {} /\ crashed = FALSE
    /\ calls = 0 /\ deliveries = 0

(* ApiLocks<UsingClass>::mtx, which is recursive, is held in a handler and *)
(* in the second half of a registration or a removal.                      *)
Holds(t) == delivery[t] = "running" \/ op[t] \in {"busRegister", "busRemove"}

(* Mutant: the mutex is not recursive.                                     *)
CanLockOnce(t) == \A u \in Threads : ~Holds(u)

CanLock(t) == \A u \in Threads \ {t} : ~Holds(u)

-----------------------------------------------------------------------------
(* The generic handler.                                                    *)

Deliver(t, e) ==
    /\ t \in BusThreads /\ delivery[t] = "none"
    /\ e \in bus
    /\ deliveries < MaxDeliveries
    /\ deliveries' = deliveries + 1
    /\ delivery' = [delivery EXCEPT ![t] = "locking"]
    /\ event' = [event EXCEPT ![t] = e]
    /\ UNCHANGED <<handlers, bus, op, target, orphans, crashed, calls>>

Call(t) ==
    /\ delivery[t] = "locking"
    /\ CanLock(t)
    /\ delivery' = [delivery EXCEPT ![t] = "running"]
    /\ crashed' = (handlers[event[t]] = Null)
    /\ UNCHANGED <<handlers, bus, event, op, target, orphans, calls, deliveries>>

(* An UnlockApiGuard around a call of the handler to another plugin.       *)
Release(t) ==
    /\ delivery[t] = "running" /\ op[t] = "none"
    /\ calls < MaxCalls
    /\ calls' = calls + 1
    /\ delivery' = [delivery EXCEPT ![t] = "out"]
    /\ UNCHANGED <<handlers, bus, event, op, target, orphans, crashed, deliveries>>

Relock(t) ==
    /\ delivery[t] = "out"
    /\ CanLock(t)
    /\ delivery' = [delivery EXCEPT ![t] = "running"]
    /\ UNCHANGED <<handlers, bus, event, op, target, orphans, crashed, calls, deliveries>>

Return(t) ==
    /\ delivery[t] = "running" /\ op[t] = "none"
    /\ delivery' = [delivery EXCEPT ![t] = "none"]
    /\ UNCHANGED <<handlers, bus, event, op, target, orphans, crashed, calls, deliveries>>

-----------------------------------------------------------------------------
(* RegisterLockedIarmEventHandler and RemoveLockedEventHandler.            *)

Begin(t, kind, e, h) ==
    /\ op[t] = "none"
    /\ t \in BusThreads => delivery[t] = "running"
    /\ calls < MaxCalls
    /\ calls' = calls + 1
    /\ op' = [op EXCEPT ![t] = kind]
    /\ target' = [target EXCEPT ![t] = <<e, h>>]
    /\ UNCHANGED <<handlers, bus, delivery, event, orphans, crashed, deliveries>>

Register(t) ==
    /\ op[t] = "register"
    /\ CanLock(t)
    /\ handlers' = [handlers EXCEPT ![target[t][1]] = target[t][2]]
    /\ orphans' = orphans \ {target[t][1]}
    /\ op' = [op EXCEPT ![t] = "busRegister"]
    /\ UNCHANGED <<bus, delivery, event, target, crashed, calls, deliveries>>

BusRegister(t) ==
    /\ op[t] = "busRegister"
    /\ bus' = bus \union {target[t][1]} \/ (BusMayFail /\ bus' = bus)
    /\ op' = [op EXCEPT ![t] = "none"]
    /\ UNCHANGED <<handlers, delivery, event, target, orphans, crashed, calls, deliveries>>

(* Mutant: the lock is not taken.                                          *)
RemoveWithoutLock(t) ==
    /\ op[t] = "remove"
    /\ handlers' = [handlers EXCEPT ![target[t][1]] = Null]
    /\ op' = [op EXCEPT ![t] = "busRemove"]
    /\ UNCHANGED <<bus, delivery, event, target, orphans, crashed, calls, deliveries>>

(* A handler that is not the registered one is erased all the same.        *)
Remove(t) ==
    /\ op[t] = "remove"
    /\ CanLock(t)
    /\ handlers' = [handlers EXCEPT ![target[t][1]] = Null]
    /\ op' = [op EXCEPT ![t] = "busRemove"]
    /\ UNCHANGED <<bus, delivery, event, target, orphans, crashed, calls, deliveries>>

InFlight(t, e) == \E u \in Threads \ {t} : delivery[u] = "locking" /\ event[u] = e

(* Mutant: the generic handler stays on the bus.                           *)
BusRemoveForgotten(t) ==
    /\ op[t] = "busRemove"
    /\ bus' = bus
    /\ op' = [op EXCEPT ![t] = "none"]
    /\ UNCHANGED <<handlers, delivery, event, target, orphans, crashed, calls, deliveries>>

BusRemove(t) ==
    /\ op[t] = "busRemove"
    /\ busDrains => ~InFlight(t, target[t][1])
    /\ \/ bus' = bus \ {target[t][1]} /\ orphans' = orphans \ {target[t][1]}
       \/ BusMayFail /\ bus' = bus /\ orphans' = orphans \union (bus \intersect {target[t][1]})
    /\ op' = [op EXCEPT ![t] = "none"]
    /\ UNCHANGED <<handlers, delivery, event, target, crashed, calls, deliveries>>

(* What a thread does once it has been called.                             *)
Step(t) ==
    /\ ~crashed /\ UNCHANGED busDrains
    /\ \/ Call(t) \/ Relock(t) \/ Return(t)
       \/ Register(t) \/ BusRegister(t) \/ Remove(t) \/ BusRemove(t)

Next ==
    \E t \in Threads :
        \/ Step(t)
        \/ /\ ~crashed /\ UNCHANGED busDrains
           /\ \/ Release(t)
              \/ \E e \in Events : Deliver(t, e)
              \/ \E e \in Events, h \in Handlers, kind \in {"register", "remove"} :
                    Begin(t, kind, e, h)

(* Threads that have begun go on; with the calls bounded, a lock that they *)
(* wait for is not taken from them again and again.                        *)
Spec == Init /\ [][Next]_vars /\ \A t \in Threads : WF_vars(Step(t))

-----------------------------------------------------------------------------
(* The registration of an event does not change under its handler: while   *)
(* one runs, nobody but the handler itself replaces or removes it, and     *)
(* when RemoveLockedEventHandler returns no other thread is running a      *)
(* handler.  No more is promised: a handler that has released the lock     *)
(* around a call comes back and goes on after its removal, and one that    *)
(* removes itself runs on.                                                 *)
NoChangeUnderHandler ==
    [][\A t \in Threads :
           /\ delivery[t] = "running" /\ handlers'[event[t]] # handlers[event[t]]
                  => op[t] \in {"register", "remove"}
           /\ op[t] = "busRemove" /\ op'[t] = "none"
                  => \A u \in Threads \ {t} : delivery[u] # "running"]_vars

Removing(e) == \E t \in Threads : op[t] = "busRemove" /\ target[t][1] = e

(* The bus delivers no event that has no handler outside of a removal,     *)
(* unless its removal from the bus failed.                                 *)
BusHasHandler ==
    \A e \in bus \ orphans : handlers[e] = Null => Removing(e)

(* A delivery in flight finds its handler if the bus waits for deliveries. *)
FlightHasHandler ==
    \A t \in Threads :
        delivery[t] = "locking" /\ event[t] \notin orphans
            => handlers[event[t]] # Null \/ Removing(event[t])

(* Then a null pointer is called only for an event whose last removal      *)
(* failed at the bus, when the map had forgotten it already; that another  *)
(* removal or registration failed or is under way does no harm.            *)
NoNullCall ==
    busDrains /\ crashed =>
        \E t \in Threads : delivery[t] = "running" /\ event[t] \in orphans

(* But then a removal waits, under the lock, for a delivery that waits for *)
(* the lock.                                                               *)
WaitsForFlight(t) ==
    busDrains /\ op[t] = "busRemove" /\ InFlight(t, target[t][1])

(* Every event delivered is handled, unless one of the two goes wrong: the *)
(* lock itself, taken again inside handlers, stops nobody for ever.        *)
EventsHandled ==
    \A t \in Threads :
        delivery[t] \in {"locking", "out"} ~>
            delivery[t] = "none" \/ crashed \/ \E u \in Threads : WaitsForFlight(u)

-----------------------------------------------------------------------------
(* What the invariants above rest on.                                      *)

OneHolder == \A t, u \in Threads : Holds(t) /\ Holds(u) => t = u

(* The bus threads have their operations inside handlers; only they are in *)
(* the generic handler.  A registration has its handler in the map.        *)
OpsOfThreads ==
    \A t \in Threads :
        /\ t \notin BusThreads => delivery[t] = "none"
        /\ t \in BusThreads /\ op[t] # "none" => delivery[t] = "running"
        /\ op[t] = "busRegister" => handlers[target[t][1]] # Null

(* The inductive invariant.                                                *)
IInv ==
    /\ TypeOK
    /\ OneHolder
    /\ OpsOfThreads
    /\ BusHasHandler
    /\ busDrains => FlightHasHandler
    /\ NoNullCall
=============================================================================
