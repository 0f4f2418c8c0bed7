------------------------------ MODULE ApiLock -------------------------------
(***************************************************************************)
(* helpers/UtilsSynchro.hpp: the lock around the API methods of a plugin.  *)
(*                                                                         *)
(* A method registered with RegisterLockedApi runs in a wrapper that sets  *)
(* a thread-local flag, locks the recursive mutex of the plugin's class,   *)
(* calls the method and clears the flag.  A method that calls another      *)
(* plugin through Invoke puts an UnlockApiGuard around the call: it        *)
(* unlocks the mutex for its lifetime, if the flag is set.  Threads that   *)
(* are not in an API method (timers, event loops) take the mutex with a    *)
(* LockApiGuard, and release it around calls with its unlock and lock.     *)
(*                                                                         *)
(* A thread is a stack of frames, one per plugin method it is inside of.   *)
(* An exception unwinds a frame exactly as a return does.                  *)
(***************************************************************************)
EXTENDS Integers, Sequences

CONSTANTS
    Threads,
    LockGuardThreads,  \* the threads that enter plugins with a LockApiGuard
    Plugins,           \* classes that use the lock, one mutex and one flag each
    Invokes,           \* the pairs of plugins whose methods invoke each other
    ReentrantThreads,  \* those whose calls may reach a plugin already on their stack
    NoThread,          \* owner of a mutex that is not locked
    MaxCalls           \* bound on the methods called by a thread

ASSUME ApiLockAssumption ==
    /\ LockGuardThreads \subseteq Threads
    /\ Invokes \subseteq Plugins \X Plugins
    /\ ReentrantThreads \subseteq Threads
    /\ NoThread \notin Threads
    /\ MaxCalls \in Nat

VARIABLES
    stack,     \* the frames of each thread, the innermost one last
    flag,      \* isThreadUsingLockedApi, per thread and plugin
    owner,     \* ApiLocks<C>::mtx: the thread that has it locked
    depth,     \* ApiLocks<C>::mtx: how often that thread has locked it
    calls,     \* number of methods each thread has called
    stray      \* the threads that have unlocked a mutex they had not locked

lockVars == <<owner, depth, stray>>
vars == <<stack, flag, lockVars, calls>>

(* lock: before the mutex is locked; body: in the method; out: after the   *)
(* constructor of the guard around an Invoke; relock: the Invoke has been  *)
(* made, and the destructor of the guard comes next in this frame.         *)
Frame == [plugin : Plugins,
          kind : {"api", "guard"},
          step : {"lock", "body", "out", "relock"}]

TypeOK ==
    /\ stack \in [Threads -> Seq(Frame)]
    /\ flag \in [Threads -> [Plugins -> BOOLEAN]]
    /\ owner \in [Plugins -> Threads \union {NoThread}]
    /\ depth \in [Plugins -> Nat]
    /\ \A p \in Plugins : depth[p] = 0 <=> owner[p] = NoThread
    /\ calls \in [Threads -> 0 .. MaxCalls]
    /\ stray \subseteq Threads

Init ==
    /\ stack = [t \in Threads |-> << >>]
    /\ flag = [t \in Threads |-> [p \in Plugins |-> FALSE]]
    /\ owner = [p \in Plugins |-> NoThread]
    /\ depth = [p \in Plugins |-> 0]
    /\ calls = [t \in Threads |-> 0]
    /\ stray = {}

Running(t) == stack[t] # << >>
Top(t) == stack[t][Len(stack[t])]
PluginOf(t) == Top(t).plugin
AtStep(t, step) == Running(t) /\ Top(t).step = step

(* The mutex is std::recursive_mutex: its owner may lock it again.  To     *)
(* unlock it without owning it is undefined; pthread_mutex_unlock refuses. *)
CanLock(t, p) == owner[p] \in {NoThread, t}

Lock(t, p) ==
    /\ owner' = [owner EXCEPT ![p] = t]
    /\ depth' = [depth EXCEPT ![p] = depth[p] + 1]
    /\ UNCHANGED stray

Unlock(t, p) ==
    IF owner[p] = t
    THEN /\ depth' = [depth EXCEPT ![p] = depth[p] - 1]
         /\ owner' = [owner EXCEPT ![p] = IF depth[p] = 1 THEN NoThread ELSE t]
         /\ UNCHANGED stray
    ELSE stray' = stray \union {t} /\ UNCHANGED <<owner, depth>>

GoTo(t, step) == stack' = [stack EXCEPT ![t][Len(stack[t])].step = step]

(* The frame of thread t on top of "below", which may be the empty stack.  *)
Push(t, below, p, kind) ==
    /\ calls[t] < MaxCalls
    /\ calls' = [calls EXCEPT ![t] = calls[t] + 1]
    /\ stack' = [stack EXCEPT ![t] =
                    Append(below, [plugin |-> p, kind |-> kind, step |-> "lock"])]
    /\ flag' = IF kind = "api" THEN [flag EXCEPT ![t][p] = TRUE] ELSE flag

-----------------------------------------------------------------------------
(* The dispatcher calls an API method, or a thread of the plugin itself    *)
(* constructs a LockApiGuard.                                              *)
Enter(t, p) ==
    /\ ~Running(t)
    /\ Push(t, << >>, p, IF t \in LockGuardThreads THEN "guard" ELSE "api")
    /\ UNCHANGED lockVars

Acquire(t) ==
    /\ AtStep(t, "lock")
    /\ CanLock(t, PluginOf(t))
    /\ Lock(t, PluginOf(t))
    /\ GoTo(t, "body")
    /\ UNCHANGED <<flag, calls>>

MayInvoke(t, q) ==
    /\ <<PluginOf(t), q>> \in Invokes
    /\ t \in ReentrantThreads \/ \A i \in DOMAIN stack[t] : stack[t][i].plugin # q

(* Whether the guard of the running frame unlocks and locks at all.        *)
GuardActs(t) == Top(t).kind = "guard" \/ flag[t][PluginOf(t)]

(* Mutant: the guard leaves the mutex locked.                              *)
UnlockGuardKeepsLock(t) ==
    /\ AtStep(t, "body")
    /\ calls[t] < MaxCalls
    /\ \E q \in Plugins : MayInvoke(t, q)
    /\ GoTo(t, "out")
    /\ UNCHANGED <<flag, calls, lockVars>>

(* The constructor of UnlockApiGuard, or LockApiGuard::unlock.             *)
UnlockGuard(t) ==
    /\ AtStep(t, "body")
    /\ calls[t] < MaxCalls
    /\ \E q \in Plugins : MayInvoke(t, q)
    /\ \/ GuardActs(t) /\ Unlock(t, PluginOf(t))
       \/ ~GuardActs(t) /\ UNCHANGED lockVars
    /\ GoTo(t, "out")
    /\ UNCHANGED <<flag, calls>>

(* Invoke: the method of the other plugin runs on the same thread.         *)
Invoke(t, q) ==
    /\ AtStep(t, "out")
    /\ MayInvoke(t, q)
    /\ Push(t, [stack[t] EXCEPT ![Len(stack[t])].step = "relock"], q, "api")
    /\ UNCHANGED lockVars

(* Mutants: the destructor does not lock; it locks whatever the flag is.   *)
RelockGuardForgets(t) ==
    /\ AtStep(t, "relock")
    /\ GoTo(t, "body")
    /\ UNCHANGED <<flag, calls, lockVars>>

RelockGuardAlways(t) ==
    /\ AtStep(t, "relock")
    /\ CanLock(t, PluginOf(t))
    /\ Lock(t, PluginOf(t))
    /\ GoTo(t, "body")
    /\ UNCHANGED <<flag, calls>>

(* The destructor of UnlockApiGuard, or LockApiGuard::lock.                *)
RelockGuard(t) ==
    /\ AtStep(t, "relock")
    /\ \/ GuardActs(t) /\ CanLock(t, PluginOf(t)) /\ Lock(t, PluginOf(t))
       \/ ~GuardActs(t) /\ UNCHANGED lockVars
    /\ GoTo(t, "body")
    /\ UNCHANGED <<flag, calls>>

(* The method returns or throws: the wrapper clears the flag, and the      *)
(* lock_guard or the LockApiGuard unlocks.                                 *)
Leave(t) ==
    /\ AtStep(t, "body")
    /\ flag' = IF Top(t).kind = "api"
               THEN [flag EXCEPT ![t][PluginOf(t)] = FALSE] ELSE flag
    /\ Unlock(t, PluginOf(t))
    /\ stack' = [stack EXCEPT ![t] = SubSeq(stack[t], 1, Len(stack[t]) - 1)]
    /\ UNCHANGED calls

Step(t) ==
    \/ Acquire(t)
    \/ UnlockGuard(t)
    \/ \E q \in Plugins : Invoke(t, q)
    \/ RelockGuard(t)
    \/ Leave(t)

Next == \E t \in Threads : Step(t) \/ \E p \in Plugins : Enter(t, p)

(* A thread inside a plugin keeps running.  A mutex need not be fair: the  *)
(* calls are bounded, so that a mutex others keep taking gets free for     *)
(* good.                                                                   *)
Spec == Init /\ [][Next]_vars /\ \A t \in Threads : WF_vars(Step(t))

-----------------------------------------------------------------------------
OwnsInBody(t) == AtStep(t, "body") => owner[PluginOf(t)] = t

(* A thread that executes a locked method owns the mutex of its plugin.    *)
BodyOwnsLock == \A t \in Threads : OwnsInBody(t)

(* So it does if its calls never come back to a plugin on its stack,       *)
(* whatever the calls of the other threads do.                             *)
OwnsUnlessReentrant == \A t \in Threads \ ReentrantThreads : OwnsInBody(t)

(* Also when calls come back to a plugin on the stack: a method is without *)
(* its lock only after an inner call has cleared its flag, and then it     *)
(* does not hold it either, so no later guard misses an unlock.            *)
LockFollowsFlag ==
    \A t \in Threads :
        AtStep(t, "body") => (owner[PluginOf(t)] = t <=> GuardActs(t))

(* Why mutual calls cannot deadlock: a thread that has to wait for a mutex *)
(* owns none, and a mutex that is owned is owned by a thread in the body   *)
(* of a method of that plugin.                                             *)
WaitsWithoutLock ==
    \A t \in Threads, p \in Plugins :
        owner[p] = t => AtStep(t, "body") /\ PluginOf(t) = p /\ depth[p] = 1

(* Nor does such a thread unlock a mutex that it has not locked.           *)
NoStrayUnlock == stray \subseteq ReentrantThreads

(* Plugins that call each other do not deadlock: every call returns.       *)
CallsReturn == \A t \in Threads : Running(t) ~> ~Running(t)

-----------------------------------------------------------------------------
(* What the invariants above rest on.                                      *)

(* Below the innermost frame every frame waits for its Invoke to return,   *)
(* and a wrapper before its lock has set the flag.                         *)
WellNested ==
    \A t \in Threads :
        /\ \A i \in DOMAIN stack[t] : i < Len(stack[t]) => stack[t][i].step = "relock"
        /\ AtStep(t, "lock") => GuardActs(t)

(* Without reentrant calls every plugin is on a stack at most once, so     *)
(* that nobody else clears the flag of a wrapper.                          *)
FlagsOfStack ==
    \A t \in Threads \ ReentrantThreads : \A i \in DOMAIN stack[t] :
        /\ stack[t][i].kind = "api" => flag[t][stack[t][i].plugin]
        /\ \A j \in DOMAIN stack[t] :
              stack[t][i].plugin = stack[t][j].plugin => i = j

(* The inductive invariant.                                                *)
IInv ==
    /\ TypeOK
    /\ WellNested
    /\ LockFollowsFlag
    /\ WaitsWithoutLock
    /\ FlagsOfStack
    /\ NoStrayUnlock
=============================================================================
