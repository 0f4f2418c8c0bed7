------------------------- MODULE LockedIarmProofs -------------------------
(* What is proved of LockedIarm, for any threads, events and handlers.     *)
EXTENDS LockedIarm, TLAPS

(* The initial state.                                                      *)
LEMMA InitInvariant == Init => IInv
  <1> SUFFICES ASSUME Init PROVE IInv
    OBVIOUS
  <1>1. AnyEvent \in Events /\ (CHOOSE h \in Handlers : TRUE) \in Handlers
    BY LockedIarmAssumption DEF AnyEvent
  <1>2. /\ handlers \in [Events -> Handlers \union {Null}] /\ bus \subseteq Events
        /\ event \in [Threads -> Events]
        /\ target \in [Threads -> Events \X Handlers]
    BY <1>1 DEF Init
  <1>3. /\ \A t \in Threads : delivery[t] = "none" /\ op[t] = "none"
        /\ delivery \in [Threads -> {"none", "locking", "running", "out"}]
        /\ op \in [Threads -> {"none", "register", "remove", "busRegister", "busRemove"}]
    BY DEF Init
  <1>4. /\ crashed = FALSE /\ bus = {} /\ orphans = {}
        /\ calls \in 0 .. MaxCalls /\ deliveries \in 0 .. MaxDeliveries
    BY LockedIarmAssumption DEF Init
  <1>5. TypeOK
    <2>1. busDrains \in BOOLEAN
      BY DEF Init
    <2> QED BY <2>1, <1>2, <1>3, <1>4 DEF TypeOK
  <1> QED
    BY <1>3, <1>4, <1>5
    DEF IInv, OneHolder, OpsOfThreads, Holds, BusHasHandler, FlightHasHandler, NoNullCall

(* What the library does is the same in all steps of a behaviour.          *)
LEMMA BusStays == [Next]_vars => busDrains' = busDrains
  BY DEF Next, Step, vars

(* Every step keeps the types.                                             *)
LEMMA TypeStep ==
    ASSUME TypeOK, [Next]_vars
    PROVE  TypeOK'
  <1>0. busDrains' = busDrains
    BY BusStays
  <1> USE <1>0
  <1>1. ASSUME NEW t \in Threads, Call(t) \/ Relock(t) \/ Return(t) PROVE TypeOK'
    BY <1>1 DEF Call, Relock, Return, TypeOK
  <1>2. ASSUME NEW t \in Threads, Release(t) PROVE TypeOK'
    BY <1>2, LockedIarmAssumption DEF Release, TypeOK
  <1>3. ASSUME NEW t \in Threads, NEW e \in Events, Deliver(t, e) PROVE TypeOK'
    BY <1>3, LockedIarmAssumption DEF Deliver, TypeOK
  <1>4. ASSUME NEW t \in Threads, NEW e \in Events, NEW h \in Handlers,
               NEW kind \in {"register", "remove"}, Begin(t, kind, e, h)
        PROVE TypeOK'
    BY <1>4, LockedIarmAssumption DEF Begin, TypeOK
  <1>5. ASSUME NEW t \in Threads, Register(t) \/ Remove(t) PROVE TypeOK'
    BY <1>5 DEF Register, Remove, TypeOK
  <1>6. ASSUME NEW t \in Threads, BusRegister(t) \/ BusRemove(t) PROVE TypeOK'
    BY <1>6 DEF BusRegister, BusRemove, TypeOK
  <1>7. ASSUME UNCHANGED vars PROVE TypeOK'
    BY <1>7 DEF vars, TypeOK
  <1> QED
    BY <1>1, <1>2, <1>3, <1>4, <1>5, <1>6, <1>7 DEF Next, Step

(* The lock has one holder, and bus threads operate inside handlers.       *)
LEMMA LockStep ==
    ASSUME TypeOK, OneHolder, OpsOfThreads, [Next]_vars
    PROVE  OneHolder' /\ OpsOfThreads'
  <1>1. ASSUME NEW t \in Threads, Call(t) PROVE OneHolder' /\ OpsOfThreads'
    BY <1>1, LockedIarmAssumption DEF Call, CanLock, TypeOK, OneHolder, OpsOfThreads, Holds
  <1>2. ASSUME NEW t \in Threads, Relock(t) PROVE OneHolder' /\ OpsOfThreads'
    BY <1>2, LockedIarmAssumption DEF Relock, CanLock, TypeOK, OneHolder, OpsOfThreads, Holds
  <1>3. ASSUME NEW t \in Threads, Return(t) PROVE OneHolder' /\ OpsOfThreads'
    BY <1>3, LockedIarmAssumption DEF Return, TypeOK, OneHolder, OpsOfThreads, Holds
  <1>4. ASSUME NEW t \in Threads, Register(t) PROVE OneHolder' /\ OpsOfThreads'
    BY <1>4, LockedIarmAssumption DEF Register, CanLock, TypeOK, OneHolder, OpsOfThreads, Holds
  <1>5. ASSUME NEW t \in Threads, BusRegister(t) PROVE OneHolder' /\ OpsOfThreads'
    BY <1>5, LockedIarmAssumption DEF BusRegister, TypeOK, OneHolder, OpsOfThreads, Holds
  <1>6. ASSUME NEW t \in Threads, Remove(t) PROVE OneHolder' /\ OpsOfThreads'
    BY <1>6, LockedIarmAssumption DEF Remove, CanLock, TypeOK, OneHolder, OpsOfThreads, Holds
  <1>7. ASSUME NEW t \in Threads, BusRemove(t) PROVE OneHolder' /\ OpsOfThreads'
    BY <1>7, LockedIarmAssumption DEF BusRemove, TypeOK, OneHolder, OpsOfThreads, Holds
  <1>8. ASSUME NEW t \in Threads, Release(t) PROVE OneHolder' /\ OpsOfThreads'
    BY <1>8, LockedIarmAssumption DEF Release, TypeOK, OneHolder, OpsOfThreads, Holds
  <1>9. ASSUME NEW t \in Threads, NEW e \in Events, Deliver(t, e) PROVE OneHolder' /\ OpsOfThreads'
    BY <1>9, LockedIarmAssumption DEF Deliver, TypeOK, OneHolder, OpsOfThreads, Holds
  <1>10. ASSUME NEW t \in Threads, NEW e \in Events, NEW h \in Handlers,
               NEW kind \in {"register", "remove"}, Begin(t, kind, e, h)
        PROVE OneHolder' /\ OpsOfThreads'
    BY <1>10, LockedIarmAssumption DEF Begin, TypeOK, OneHolder, OpsOfThreads, Holds
  <1>11. ASSUME UNCHANGED vars PROVE OneHolder' /\ OpsOfThreads'
    BY <1>11 DEF vars, TypeOK, OneHolder, OpsOfThreads, Holds
  <1> QED
    BY <1>1, <1>2, <1>3, <1>4, <1>5, <1>6, <1>7, <1>8, <1>9, <1>10, <1>11 DEF Next, Step

(* The map has a handler for what is on the bus, outside of removals.      *)
LEMMA BusStep ==
    ASSUME TypeOK, OneHolder, OpsOfThreads, BusHasHandler, [Next]_vars
    PROVE  BusHasHandler'
  <1>1. ASSUME NEW t \in Threads, Call(t) PROVE BusHasHandler'
    BY <1>1, LockedIarmAssumption DEF Call, CanLock, TypeOK, OneHolder, OpsOfThreads, Holds, BusHasHandler, Removing
  <1>2. ASSUME NEW t \in Threads, Relock(t) PROVE BusHasHandler'
    BY <1>2, LockedIarmAssumption DEF Relock, CanLock, TypeOK, OneHolder, OpsOfThreads, Holds, BusHasHandler, Removing
  <1>3. ASSUME NEW t \in Threads, Return(t) PROVE BusHasHandler'
    BY <1>3, LockedIarmAssumption DEF Return, TypeOK, OneHolder, OpsOfThreads, Holds, BusHasHandler, Removing
  <1>4. ASSUME NEW t \in Threads, Register(t) PROVE BusHasHandler'
    BY <1>4, LockedIarmAssumption DEF Register, CanLock, TypeOK, OneHolder, OpsOfThreads, Holds, BusHasHandler, Removing
  <1>5. ASSUME NEW t \in Threads, BusRegister(t) PROVE BusHasHandler'
    BY <1>5, LockedIarmAssumption DEF BusRegister, TypeOK, OneHolder, OpsOfThreads, Holds, BusHasHandler, Removing
  <1>6. ASSUME NEW t \in Threads, Remove(t) PROVE BusHasHandler'
    BY <1>6, LockedIarmAssumption DEF Remove, CanLock, TypeOK, OneHolder, OpsOfThreads, Holds, BusHasHandler, Removing
  <1>7. ASSUME NEW t \in Threads, BusRemove(t) PROVE BusHasHandler'
    BY <1>7, LockedIarmAssumption DEF BusRemove, TypeOK, OneHolder, OpsOfThreads, Holds, BusHasHandler, Removing
  <1>8. ASSUME NEW t \in Threads, Release(t) PROVE BusHasHandler'
    BY <1>8, LockedIarmAssumption DEF Release, TypeOK, OneHolder, OpsOfThreads, Holds, BusHasHandler, Removing
  <1>9. ASSUME NEW t \in Threads, NEW e \in Events, Deliver(t, e) PROVE BusHasHandler'
    BY <1>9, LockedIarmAssumption DEF Deliver, TypeOK, OneHolder, OpsOfThreads, Holds, BusHasHandler, Removing
  <1>10. ASSUME NEW t \in Threads, NEW e \in Events, NEW h \in Handlers,
               NEW kind \in {"register", "remove"}, Begin(t, kind, e, h)
        PROVE BusHasHandler'
    BY <1>10, LockedIarmAssumption DEF Begin, TypeOK, OneHolder, OpsOfThreads, Holds, BusHasHandler, Removing
  <1>11. ASSUME UNCHANGED vars PROVE BusHasHandler'
    BY <1>11 DEF vars, TypeOK, OneHolder, OpsOfThreads, Holds, BusHasHandler, Removing
  <1> QED
    BY <1>1, <1>2, <1>3, <1>4, <1>5, <1>6, <1>7, <1>8, <1>9, <1>10, <1>11 DEF Next, Step

(* So does it for a delivery in flight, if a removal waits for it.         *)
LEMMA FlightStep ==
    ASSUME TypeOK, OneHolder, OpsOfThreads, busDrains,
           BusHasHandler, FlightHasHandler, [Next]_vars
    PROVE  FlightHasHandler'
  <1>1. ASSUME NEW t \in Threads, Call(t) PROVE FlightHasHandler'
    BY <1>1, LockedIarmAssumption DEF Call, CanLock, TypeOK, OneHolder, OpsOfThreads, Holds, BusHasHandler, FlightHasHandler, Removing
  <1>2. ASSUME NEW t \in Threads, Relock(t) PROVE FlightHasHandler'
    BY <1>2, LockedIarmAssumption DEF Relock, CanLock, TypeOK, OneHolder, OpsOfThreads, Holds, BusHasHandler, FlightHasHandler, Removing
  <1>3. ASSUME NEW t \in Threads, Return(t) PROVE FlightHasHandler'
    BY <1>3, LockedIarmAssumption DEF Return, TypeOK, OneHolder, OpsOfThreads, Holds, BusHasHandler, FlightHasHandler, Removing
  <1>4. ASSUME NEW t \in Threads, Register(t) PROVE FlightHasHandler'
    BY <1>4, LockedIarmAssumption DEF Register, CanLock, TypeOK, OneHolder, OpsOfThreads, Holds, BusHasHandler, FlightHasHandler, Removing
  <1>5. ASSUME NEW t \in Threads, BusRegister(t) PROVE FlightHasHandler'
    BY <1>5, LockedIarmAssumption DEF BusRegister, TypeOK, OneHolder, OpsOfThreads, Holds, BusHasHandler, FlightHasHandler, Removing
  <1>6. ASSUME NEW t \in Threads, Remove(t) PROVE FlightHasHandler'
    BY <1>6, LockedIarmAssumption DEF Remove, CanLock, TypeOK, OneHolder, OpsOfThreads, Holds, BusHasHandler, FlightHasHandler, Removing
  <1>7. ASSUME NEW t \in Threads, BusRemove(t) PROVE FlightHasHandler'
    BY <1>7, LockedIarmAssumption DEF BusRemove, TypeOK, OneHolder, OpsOfThreads, Holds, BusHasHandler, FlightHasHandler, Removing, InFlight
  <1>8. ASSUME NEW t \in Threads, Release(t) PROVE FlightHasHandler'
    BY <1>8, LockedIarmAssumption DEF Release, TypeOK, OneHolder, OpsOfThreads, Holds, BusHasHandler, FlightHasHandler, Removing
  <1>9. ASSUME NEW t \in Threads, NEW e \in Events, Deliver(t, e) PROVE FlightHasHandler'
    BY <1>9, LockedIarmAssumption DEF Deliver, TypeOK, OneHolder, OpsOfThreads, Holds, BusHasHandler, FlightHasHandler, Removing
  <1>10. ASSUME NEW t \in Threads, NEW e \in Events, NEW h \in Handlers,
               NEW kind \in {"register", "remove"}, Begin(t, kind, e, h)
        PROVE FlightHasHandler'
    BY <1>10, LockedIarmAssumption DEF Begin, TypeOK, OneHolder, OpsOfThreads, Holds, BusHasHandler, FlightHasHandler, Removing
  <1>11. ASSUME UNCHANGED vars PROVE FlightHasHandler'
    BY <1>11 DEF vars, TypeOK, OneHolder, OpsOfThreads, Holds, BusHasHandler, FlightHasHandler, Removing
  <1> QED
    BY <1>1, <1>2, <1>3, <1>4, <1>5, <1>6, <1>7, <1>8, <1>9, <1>10, <1>11 DEF Next, Step

(* A delivery that has the lock meets no removal of another thread, and so *)
(* finds its handler, unless its event is an orphan.                       *)
LEMMA CallStep ==
    ASSUME TypeOK, OpsOfThreads, busDrains, FlightHasHandler, NoNullCall, [Next]_vars
    PROVE  NoNullCall'
  <1>1. ASSUME NEW t \in Threads, Call(t) PROVE NoNullCall'
    <2>1. ~Removing(event[t])
      BY <1>1 DEF Call, CanLock, Holds, Removing, OpsOfThreads
    <2>2. handlers[event[t]] # Null \/ event[t] \in orphans
      BY <1>1, <2>1 DEF Call, FlightHasHandler
    <2>3. /\ crashed' => event'[t] \in orphans'
          /\ delivery'[t] = "running"
      BY <1>1, <2>2 DEF Call, TypeOK
    <2> QED
      BY <2>3 DEF NoNullCall
  <1>2. ASSUME \A t \in Threads : ~Call(t), ~crashed PROVE NoNullCall'
    <2>1. ~crashed'
      BY <1>2 DEF Next, Step, vars, Relock, Return, Register, BusRegister,
                  Remove, BusRemove, Release, Deliver, Begin
    <2> QED
      BY <2>1 DEF NoNullCall
  <1>3. ASSUME crashed PROVE NoNullCall'
    <2>1. UNCHANGED vars
      BY <1>3 DEF Next, Step
    <2> QED
      BY <2>1, <1>3 DEF NoNullCall, vars
  <1> QED
    BY <1>1, <1>2, <1>3

(* The inductive invariant.                                                *)
THEOREM Invariance == Spec => []IInv
  <1>1. IInv /\ [Next]_vars => IInv'
    <2> SUFFICES ASSUME IInv, [Next]_vars PROVE IInv'
      OBVIOUS
    <2>1. TypeOK' /\ OneHolder' /\ OpsOfThreads' /\ BusHasHandler'
      BY TypeStep, LockStep, BusStep DEF IInv
    <2>2. busDrains' = busDrains
      BY BusStays
    <2>3. CASE busDrains
      <3>1. FlightHasHandler' /\ NoNullCall'
        BY <2>3, FlightStep, CallStep DEF IInv
      <3> QED
        BY <2>1, <3>1 DEF IInv
    <2>4. CASE ~busDrains
      BY <2>1, <2>2, <2>4 DEF IInv, NoNullCall
    <2> QED
      BY <2>3, <2>4
  <1> QED
    BY InitInvariant, <1>1, PTL DEF Spec

(* If the bus waits for the deliveries in flight when a handler is         *)
(* removed, a null pointer is called only for an event whose last removal  *)
(* from the bus failed.                                                    *)
THEOREM NoNullHandler == Spec => []NoNullCall
  <1>1. IInv => NoNullCall
    BY DEF IInv
  <1> QED
    BY <1>1, Invariance, PTL

(* The registration of an event does not change under its handler, except  *)
(* by the handler itself, and a removal that returns has no handler        *)
(* running on another thread.                                              *)
THEOREM HandlersStable == Spec => NoChangeUnderHandler
  <1> DEFINE Stable(t) ==
        delivery[t] = "running" /\ handlers'[event[t]] # handlers[event[t]]
            => op[t] \in {"register", "remove"}
  <1> DEFINE Alone(t) ==
        op[t] = "busRemove" /\ op'[t] = "none"
            => \A u \in Threads \ {t} : delivery[u] # "running"
  <1>1. ASSUME Next, NEW t \in Threads PROVE Stable(t)
    <2>1. ASSUME NEW u \in Threads, Register(u) \/ Remove(u) PROVE Stable(t)
      <3>1. CASE u = t
        BY <2>1, <3>1 DEF Register, Remove
      <3>2. CASE u # t
        BY <2>1, <3>2 DEF Register, Remove, CanLock, Holds
      <3> QED
        BY <3>1, <3>2
    <2>2. CASE UNCHANGED handlers
      BY <2>2
    <2> QED
      BY <1>1, <2>1, <2>2
      DEF Next, Step, Call, Relock, Return, BusRegister, BusRemove, Release, Deliver, Begin
  <1>2. ASSUME OneHolder, NEW t \in Threads PROVE Alone(t)
    BY <1>2 DEF OneHolder, Holds
  <1>3. IInv /\ [Next]_vars => [\A t \in Threads : /\ Stable(t)
                                                   /\ Alone(t)]_vars
    <2> HIDE DEF Stable, Alone
    <2> QED
      BY <1>1, <1>2 DEF IInv
  <1> QED
    BY <1>3, Invariance, PTL DEF Spec, NoChangeUnderHandler
=============================================================================
