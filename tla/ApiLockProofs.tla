--------------------------- MODULE ApiLockProofs ----------------------------
(***************************************************************************)
(* Theorems about ApiLock for every set of threads and plugins, checked by *)
(* TLAPS.                                                                  *)
(***************************************************************************)
EXTENDS ApiLock, SequenceTheorems, TLAPS

(* The part of TypeOK that the steps below need.                           *)
LEMMA Types ==
  ASSUME TypeOK
  PROVE  /\ stack \in [Threads -> Seq(Frame)]
         /\ flag \in [Threads -> [Plugins -> BOOLEAN]]
         /\ owner \in [Plugins -> Threads \union {NoThread}]
         /\ depth \in [Plugins -> Nat]
         /\ \A p \in Plugins : depth[p] = 0 <=> owner[p] = NoThread
         /\ NoThread \notin Threads
  BY ApiLockAssumption DEF TypeOK

(* The innermost frame of a stack that is not empty.                       *)
LEMMA TopFrame ==
  ASSUME TypeOK, NEW t \in Threads, Running(t)
  PROVE  /\ stack[t] \in Seq(Frame)
         /\ Len(stack[t]) \in Nat \ {0}
         /\ DOMAIN stack[t] = 1 .. Len(stack[t])
         /\ Top(t) \in Frame
         /\ PluginOf(t) \in Plugins
<1>1. stack[t] \in Seq(Frame) /\ stack[t] # << >>
  BY Types DEF Running
<1>2. Len(stack[t]) \in Nat \ {0} /\ DOMAIN stack[t] = 1 .. Len(stack[t])
  BY <1>1, LenProperties, EmptySeq
<1>3. Top(t) \in Frame
  BY <1>1, <1>2, ElementOfSeq DEF Top
<1> QED BY <1>1, <1>2, <1>3 DEF PluginOf, Frame

(* Changing the step of the innermost frame changes nothing else.          *)
LEMMA GoToEffect ==
  ASSUME TypeOK, NEW t \in Threads, Running(t),
         NEW s \in {"lock", "body", "out", "relock"}, GoTo(t, s)
  PROVE  /\ stack' \in [Threads -> Seq(Frame)]
         /\ \A u \in Threads \ {t} : stack'[u] = stack[u]
         /\ Len(stack'[t]) = Len(stack[t])
         /\ DOMAIN stack'[t] = DOMAIN stack[t]
         /\ Running(t)'
         /\ Top(t)'.step = s
         /\ Top(t)'.kind = Top(t).kind
         /\ PluginOf(t)' = PluginOf(t)
         /\ \A i \in DOMAIN stack[t] :
               /\ i < Len(stack[t]) => stack'[t][i] = stack[t][i]
               /\ stack'[t][i].plugin = stack[t][i].plugin
               /\ stack'[t][i].kind = stack[t][i].kind
<1> DEFINE n == Len(stack[t])
           f == [stack[t][n] EXCEPT !.step = s]
<1>1. /\ stack[t] \in Seq(Frame)
      /\ n \in Nat \ {0}
      /\ DOMAIN stack[t] = 1 .. n
      /\ stack[t][n] \in Frame
  BY TopFrame DEF Top
<1>2. /\ f \in Frame /\ f.step = s
      /\ f.kind = stack[t][n].kind /\ f.plugin = stack[t][n].plugin
  BY <1>1 DEF Frame
<1>3. stack' = [stack EXCEPT ![t] = [stack[t] EXCEPT ![n] = f]]
  BY DEF GoTo
<1>4. stack'[t] = [stack[t] EXCEPT ![n] = f]
  BY <1>3, Types
<1>5. [stack[t] EXCEPT ![n] = f] \in Seq(Frame)
      /\ Len([stack[t] EXCEPT ![n] = f]) = n
  BY <1>1, <1>2, ExceptSeq
<1>6. stack' \in [Threads -> Seq(Frame)]
  BY <1>3, <1>5, Types
<1>7. stack'[t][n] = f /\ DOMAIN stack'[t] = 1 .. n /\ Len(stack'[t]) = n
  BY <1>1, <1>4, <1>5
<1>8. Top(t)' = f
  BY <1>7 DEF Top
<1>9. \A i \in DOMAIN stack[t] : i # n => stack'[t][i] = stack[t][i]
  BY <1>1, <1>4
<1>10. Running(t)'
  <2>1. stack'[t] # << >>
    BY <1>1, <1>7
  <2> QED BY <2>1 DEF Running
<1> HIDE DEF f
<1> QED BY <1>1, <1>2, <1>3, <1>6, <1>7, <1>8, <1>9, <1>10, Types DEF Top, PluginOf

(* Pushing a frame: the new frame is the innermost one.                    *)
LEMMA PushEffect ==
  ASSUME TypeOK, NEW t \in Threads, NEW below \in Seq(Frame), NEW p \in Plugins,
         NEW kind \in {"api", "guard"}, Push(t, below, p, kind)
  PROVE  /\ stack' \in [Threads -> Seq(Frame)]
         /\ flag' \in [Threads -> [Plugins -> BOOLEAN]]
         /\ calls' \in [Threads -> 0 .. MaxCalls]
         /\ \A u \in Threads \ {t} : stack'[u] = stack[u] /\ flag'[u] = flag[u]
         /\ Running(t)'
         /\ Top(t)' = [plugin |-> p, kind |-> kind, step |-> "lock"]
         /\ Len(stack'[t]) = Len(below) + 1
         /\ DOMAIN stack'[t] = 1 .. Len(below) + 1
         /\ \A i \in 1 .. Len(below) : stack'[t][i] = below[i]
         /\ \A q \in Plugins :
               flag'[t][q] <=> flag[t][q] \/ (kind = "api" /\ q = p)
<1> DEFINE f == [plugin |-> p, kind |-> kind, step |-> "lock"]
<1>1. f \in Frame
  BY DEF Frame
<1>2. stack' = [stack EXCEPT ![t] = Append(below, f)]
  BY DEF Push
<1> HIDE DEF f
<1>3. stack'[t] = Append(below, f)
  BY <1>2, Types
<1>4. /\ Append(below, f) \in Seq(Frame)
      /\ Len(Append(below, f)) = Len(below) + 1
      /\ \A i \in 1 .. Len(below) : Append(below, f)[i] = below[i]
      /\ Append(below, f)[Len(below) + 1] = f
      /\ Len(below) \in Nat
  BY <1>1, AppendProperties, LenProperties
<1>5. stack' \in [Threads -> Seq(Frame)]
  BY <1>2, <1>4, Types
<1>6. Top(t)' = f
  BY <1>3, <1>4 DEF Top
<1>7. Running(t)'
  <2>1. stack'[t] # << >>
    BY <1>3, <1>4
  <2> QED BY <2>1 DEF Running
<1>8. DOMAIN stack'[t] = 1 .. Len(below) + 1
  BY <1>3, <1>4, LenProperties
<1>9. calls' \in [Threads -> 0 .. MaxCalls]
  BY ApiLockAssumption DEF Push, TypeOK
<1>10. /\ flag' \in [Threads -> [Plugins -> BOOLEAN]]
       /\ \A u \in Threads \ {t} : flag'[u] = flag[u]
       /\ \A q \in Plugins : flag'[t][q] <=> flag[t][q] \/ (kind = "api" /\ q = p)
  BY Types DEF Push
<1>11. \A u \in Threads \ {t} : stack'[u] = stack[u]
  BY <1>2, Types
<1> QED BY <1>3, <1>4, <1>5, <1>6, <1>7, <1>8, <1>9, <1>10, <1>11 DEF f

(* Popping the innermost frame.                                            *)
LEMMA PopEffect ==
  ASSUME TypeOK, NEW t \in Threads, Running(t),
         stack' = [stack EXCEPT ![t] = SubSeq(stack[t], 1, Len(stack[t]) - 1)]
  PROVE  /\ stack' \in [Threads -> Seq(Frame)]
         /\ \A u \in Threads \ {t} : stack'[u] = stack[u]
         /\ Len(stack'[t]) = Len(stack[t]) - 1
         /\ DOMAIN stack'[t] = 1 .. Len(stack[t]) - 1
         /\ \A i \in 1 .. Len(stack[t]) - 1 : stack'[t][i] = stack[t][i]
         /\ Running(t)' => /\ Top(t)' = stack[t][Len(stack[t]) - 1]
                           /\ Len(stack[t]) - 1 \in DOMAIN stack[t]
<1> DEFINE n == Len(stack[t])
           s == SubSeq(stack[t], 1, n - 1)
<1>1. /\ stack[t] \in Seq(Frame)
      /\ n \in Nat \ {0}
      /\ DOMAIN stack[t] = 1 .. n
  BY TopFrame
<1>2. \A i \in 1 .. n - 1 : stack[t][i] \in Frame
  BY <1>1, ElementOfSeq
<1>3. /\ s \in Seq(Frame)
      /\ Len(s) = n - 1
      /\ \A i \in 1 .. n - 1 : s[i] = stack[t][i]
  BY <1>1, <1>2, SubSeqProperties
<1>4. stack'[t] = s /\ stack' \in [Threads -> Seq(Frame)]
  BY <1>3, Types
<1> HIDE DEF s
<1>5. DOMAIN stack'[t] = 1 .. n - 1
  BY <1>1, <1>3, <1>4, LenProperties
<1>6. ASSUME Running(t)'
      PROVE  Top(t)' = stack[t][n - 1] /\ n - 1 \in DOMAIN stack[t]
  <2>1. s # << >>
    BY <1>4, <1>6 DEF Running
  <2>2. n - 1 \in 1 .. n - 1
    BY <1>1, <1>3, <2>1, EmptySeq
  <2> QED BY <1>1, <1>3, <1>4, <2>2 DEF Top
<1>7. \A u \in Threads \ {t} : stack'[u] = stack[u]
  BY Types
<1> QED BY <1>3, <1>4, <1>5, <1>6, <1>7

(* The mutex as the other threads see it.                                  *)
Elsewhere(u) ==
    \A p \in Plugins : /\ owner'[p] = u <=> owner[p] = u
                       /\ owner[p] = u => depth'[p] = depth[p]

(* Locking a mutex that may be locked.                                     *)
LEMMA LockEffect ==
  ASSUME TypeOK, NEW t \in Threads, NEW p \in Plugins, CanLock(t, p), Lock(t, p)
  PROVE  /\ owner' \in [Plugins -> Threads \union {NoThread}]
         /\ depth' \in [Plugins -> Nat]
         /\ \A q \in Plugins : depth'[q] = 0 <=> owner'[q] = NoThread
         /\ \A u \in Threads \ {t} : Elsewhere(u)
         /\ owner'[p] = t /\ depth'[p] = depth[p] + 1
         /\ \A q \in Plugins \ {p} : owner'[q] = owner[q]
  BY Types DEF Lock, CanLock, Elsewhere

(* Unlocking a mutex that is locked once, or not at all by this thread.    *)
LEMMA UnlockEffect ==
  ASSUME TypeOK, NEW t \in Threads, NEW p \in Plugins, Unlock(t, p),
         owner[p] = t => depth[p] = 1
  PROVE  /\ owner' \in [Plugins -> Threads \union {NoThread}]
         /\ depth' \in [Plugins -> Nat]
         /\ \A q \in Plugins : depth'[q] = 0 <=> owner'[q] = NoThread
         /\ stray' \subseteq Threads
         /\ \A u \in Threads \ {t} : Elsewhere(u)
         /\ owner'[p] # t
         /\ \A q \in Plugins \ {p} : owner'[q] = owner[q]
         /\ owner[p] = t => stray' = stray
<1>1. CASE owner[p] = t
  <2>1. /\ depth' = [depth EXCEPT ![p] = 0]
        /\ owner' = [owner EXCEPT ![p] = NoThread]
        /\ stray' = stray
    BY <1>1, Types DEF Unlock
  <2> QED BY <1>1, <2>1, Types DEF Elsewhere, TypeOK
<1>2. CASE owner[p] # t
  BY <1>2, Types DEF Unlock, Elsewhere, TypeOK
<1> QED BY <1>1, <1>2

-----------------------------------------------------------------------------
(* The invariant of one thread.                                            *)
ThreadInv(t) ==
    /\ \A i \in DOMAIN stack[t] : i < Len(stack[t]) => stack[t][i].step = "relock"
    /\ AtStep(t, "lock") => GuardActs(t)
    /\ AtStep(t, "body") => (owner[PluginOf(t)] = t <=> GuardActs(t))
    /\ \A p \in Plugins :
          owner[p] = t => AtStep(t, "body") /\ PluginOf(t) = p /\ depth[p] = 1

(* A thread whose stack, flags and mutexes are left alone keeps it.        *)
LEMMA ThreadFrame ==
  ASSUME TypeOK, NEW u \in Threads, ThreadInv(u), Elsewhere(u),
         stack'[u] = stack[u], flag'[u] = flag[u]
  PROVE  ThreadInv(u)'
<1>1. /\ Running(u)' <=> Running(u)
      /\ Top(u)' = Top(u)
      /\ PluginOf(u)' = PluginOf(u)
      /\ GuardActs(u)' <=> GuardActs(u)
  BY DEF Running, Top, PluginOf, GuardActs
<1>2. /\ AtStep(u, "lock")' <=> AtStep(u, "lock")
      /\ AtStep(u, "body")' <=> AtStep(u, "body")
  BY <1>1 DEF AtStep
<1>3. Running(u) => PluginOf(u) \in Plugins
  BY TopFrame
<1>4. AtStep(u, "body") => Running(u)
  BY DEF AtStep
<1>5. \A i \in DOMAIN stack'[u] : i < Len(stack'[u]) => stack'[u][i].step = "relock"
  BY DEF ThreadInv
<1>6. AtStep(u, "lock")' => GuardActs(u)'
  BY <1>1, <1>2 DEF ThreadInv
<1>7. AtStep(u, "body")' => (owner'[PluginOf(u)'] = u <=> GuardActs(u)')
  BY <1>1, <1>2, <1>3, <1>4 DEF ThreadInv, Elsewhere
<1>8. \A p \in Plugins : owner'[p] = u =>
          AtStep(u, "body")' /\ PluginOf(u)' = p /\ depth'[p] = 1
  BY <1>1, <1>2 DEF ThreadInv, Elsewhere
<1> QED BY <1>5, <1>6, <1>7, <1>8 DEF ThreadInv

-----------------------------------------------------------------------------
(* The steps of a thread, each for the thread itself; ThreadFrame is for   *)
(* the others.                                                             *)
Safe == TypeOK /\ \A t \in Threads : ThreadInv(t)

(* Enough for Safe to be preserved by a step of thread t.                  *)
LEMMA StepOf ==
  ASSUME Safe, NEW t \in Threads, TypeOK', ThreadInv(t)',
         \A u \in Threads \ {t} : /\ stack'[u] = stack[u]
                                  /\ flag'[u] = flag[u]
                                  /\ Elsewhere(u)
  PROVE  Safe'
<1>1. ASSUME NEW u \in Threads PROVE ThreadInv(u)'
  <2>1. CASE u = t
    BY <2>1
  <2>2. CASE u # t
    BY <2>2, ThreadFrame DEF Safe
  <2> QED BY <2>1, <2>2
<1> QED BY <1>1 DEF Safe

(* A frame whose mutex is free, or already owned by its thread, locks it.  *)
LEMMA LockStep ==
  ASSUME Safe, NEW t \in Threads, AtStep(t, "lock") \/ AtStep(t, "relock"),
         GuardActs(t), CanLock(t, PluginOf(t)), Lock(t, PluginOf(t)),
         GoTo(t, "body"), UNCHANGED <<flag, calls>>
  PROVE  Safe'
<1> DEFINE p == PluginOf(t)
<1>1. TypeOK /\ ThreadInv(t) /\ Running(t) /\ p \in Plugins /\ ~AtStep(t, "body")
  BY TopFrame DEF Safe, AtStep
<1>2. /\ stack' \in [Threads -> Seq(Frame)]
      /\ \A u \in Threads \ {t} : stack'[u] = stack[u]
      /\ Len(stack'[t]) = Len(stack[t])
      /\ DOMAIN stack'[t] = DOMAIN stack[t]
      /\ Running(t)'
      /\ Top(t)'.step = "body"
      /\ Top(t)'.kind = Top(t).kind
      /\ PluginOf(t)' = p
      /\ \A i \in DOMAIN stack[t] : i < Len(stack[t]) => stack'[t][i] = stack[t][i]
  BY <1>1, GoToEffect
<1>3. /\ owner' \in [Plugins -> Threads \union {NoThread}]
      /\ depth' \in [Plugins -> Nat]
      /\ \A q \in Plugins : depth'[q] = 0 <=> owner'[q] = NoThread
      /\ \A u \in Threads \ {t} : Elsewhere(u)
      /\ owner'[p] = t /\ depth'[p] = depth[p] + 1
      /\ \A q \in Plugins \ {p} : owner'[q] = owner[q]
  BY <1>1, LockEffect
<1>4. \A q \in Plugins : owner[q] # t
  BY <1>1 DEF ThreadInv
<1>5. depth'[p] = 1
  BY <1>1, <1>3, <1>4, Types DEF CanLock
<1>6. TypeOK'
  BY <1>1, <1>2, <1>3 DEF TypeOK, Lock
<1>7. AtStep(t, "body")' /\ ~AtStep(t, "lock")'
  BY <1>2 DEF AtStep
<1>8. GuardActs(t)'
  BY <1>2 DEF GuardActs
<1>9. ThreadInv(t)'
  <2>1. \A i \in DOMAIN stack'[t] :
            i < Len(stack'[t]) => stack'[t][i].step = "relock"
    BY <1>1, <1>2 DEF ThreadInv
  <2>2. \A q \in Plugins : owner'[q] = t => q = p
    BY <1>3, <1>4
  <2> QED BY <1>2, <1>3, <1>5, <1>7, <1>8, <2>1, <2>2 DEF ThreadInv
<1> QED BY <1>2, <1>3, <1>6, <1>9, StepOf

(* A guard that does not act leaves the thread without the mutex.          *)
LEMMA IdleGuardStep ==
  ASSUME Safe, NEW t \in Threads, Running(t), ~GuardActs(t),
         NEW s \in {"out", "body"}, AtStep(t, "body") \/ AtStep(t, "relock"),
         GoTo(t, s), UNCHANGED <<flag, calls, lockVars>>
  PROVE  Safe'
<1>1. TypeOK /\ ThreadInv(t)
  BY DEF Safe
<1>2. /\ stack' \in [Threads -> Seq(Frame)]
      /\ \A u \in Threads \ {t} : stack'[u] = stack[u]
      /\ Len(stack'[t]) = Len(stack[t])
      /\ DOMAIN stack'[t] = DOMAIN stack[t]
      /\ Running(t)'
      /\ Top(t)'.step = s
      /\ Top(t)'.kind = Top(t).kind
      /\ PluginOf(t)' = PluginOf(t)
      /\ \A i \in DOMAIN stack[t] : i < Len(stack[t]) => stack'[t][i] = stack[t][i]
  BY <1>1, GoToEffect
<1>3. PluginOf(t) \in Plugins
  BY <1>1, TopFrame
<1>4. \A q \in Plugins : owner[q] # t
  BY <1>1, <1>3 DEF ThreadInv, AtStep
<1>5. TypeOK'
  BY <1>1, <1>2 DEF TypeOK, lockVars
<1>6. ~GuardActs(t)' /\ ~AtStep(t, "lock")'
  BY <1>2 DEF GuardActs, AtStep
<1>7. ThreadInv(t)'
  <2>1. \A i \in DOMAIN stack'[t] :
            i < Len(stack'[t]) => stack'[t][i].step = "relock"
    BY <1>1, <1>2 DEF ThreadInv
  <2> QED BY <1>2, <1>3, <1>4, <1>6, <2>1 DEF ThreadInv, lockVars
<1>8. \A u \in Threads \ {t} : Elsewhere(u)
  BY DEF Elsewhere, lockVars
<1> QED BY <1>2, <1>5, <1>7, <1>8, StepOf

(* The constructor of a guard that acts gives the mutex away.              *)
LEMMA UnlockStep ==
  ASSUME Safe, NEW t \in Threads, AtStep(t, "body"), GuardActs(t),
         Unlock(t, PluginOf(t)), GoTo(t, "out"), UNCHANGED <<flag, calls>>
  PROVE  Safe'
<1> DEFINE p == PluginOf(t)
<1>1. TypeOK /\ ThreadInv(t) /\ Running(t) /\ p \in Plugins
  BY TopFrame DEF Safe, AtStep
<1>2. /\ stack' \in [Threads -> Seq(Frame)]
      /\ \A u \in Threads \ {t} : stack'[u] = stack[u]
      /\ Len(stack'[t]) = Len(stack[t])
      /\ DOMAIN stack'[t] = DOMAIN stack[t]
      /\ Top(t)'.step = "out"
      /\ \A i \in DOMAIN stack[t] : i < Len(stack[t]) => stack'[t][i] = stack[t][i]
  BY <1>1, GoToEffect
<1>3. owner[p] = t => depth[p] = 1
  BY <1>1 DEF ThreadInv
<1>4. /\ owner' \in [Plugins -> Threads \union {NoThread}]
      /\ depth' \in [Plugins -> Nat]
      /\ \A q \in Plugins : depth'[q] = 0 <=> owner'[q] = NoThread
      /\ stray' \subseteq Threads
      /\ \A u \in Threads \ {t} : Elsewhere(u)
      /\ owner'[p] # t
      /\ \A q \in Plugins \ {p} : owner'[q] = owner[q]
  BY <1>1, <1>3, UnlockEffect
<1>5. \A q \in Plugins : owner'[q] # t
  BY <1>1, <1>4 DEF ThreadInv
<1>6. TypeOK'
  BY <1>1, <1>2, <1>4 DEF TypeOK
<1>7. ~AtStep(t, "lock")' /\ ~AtStep(t, "body")'
  BY <1>2 DEF AtStep
<1>8. ThreadInv(t)'
  <2>1. \A i \in DOMAIN stack'[t] :
            i < Len(stack'[t]) => stack'[t][i].step = "relock"
    BY <1>1, <1>2 DEF ThreadInv
  <2> QED BY <1>5, <1>7, <2>1 DEF ThreadInv
<1> QED BY <1>2, <1>4, <1>6, <1>8, StepOf

(* A new frame starts at its lock, and its wrapper has set the flag.       *)
LEMMA PushStep ==
  ASSUME Safe, NEW t \in Threads, ~AtStep(t, "body"), NEW below \in Seq(Frame),
         \A i \in 1 .. Len(below) : below[i].step = "relock",
         NEW p \in Plugins, NEW kind \in {"api", "guard"},
         Push(t, below, p, kind), UNCHANGED lockVars
  PROVE  Safe'
<1>1. TypeOK /\ ThreadInv(t)
  BY DEF Safe
<1>2. /\ stack' \in [Threads -> Seq(Frame)]
      /\ flag' \in [Threads -> [Plugins -> BOOLEAN]]
      /\ calls' \in [Threads -> 0 .. MaxCalls]
      /\ \A u \in Threads \ {t} : stack'[u] = stack[u] /\ flag'[u] = flag[u]
      /\ Top(t)' = [plugin |-> p, kind |-> kind, step |-> "lock"]
      /\ Len(stack'[t]) = Len(below) + 1
      /\ DOMAIN stack'[t] = 1 .. Len(below) + 1
      /\ \A i \in 1 .. Len(below) : stack'[t][i] = below[i]
      /\ \A q \in Plugins : flag'[t][q] <=> flag[t][q] \/ (kind = "api" /\ q = p)
  BY <1>1, PushEffect
<1>3. TypeOK'
  BY <1>1, <1>2 DEF TypeOK, lockVars
<1>4. ~AtStep(t, "body")' /\ GuardActs(t)'
  BY <1>2 DEF AtStep, GuardActs, PluginOf
<1>5. \A q \in Plugins : owner[q] # t
  BY <1>1 DEF ThreadInv
<1>6. ThreadInv(t)'
  <2>1. \A i \in DOMAIN stack'[t] :
            i < Len(stack'[t]) => stack'[t][i].step = "relock"
    <3>1. Len(below) \in Nat
      BY LenProperties
    <3>2. ASSUME NEW i \in 1 .. Len(below) + 1, i < Len(below) + 1
          PROVE  i \in 1 .. Len(below)
      BY <3>1, <3>2
    <3> QED BY <1>2, <3>2
  <2> QED BY <1>4, <1>5, <2>1 DEF ThreadInv, lockVars
<1>7. \A u \in Threads \ {t} : Elsewhere(u)
  BY DEF Elsewhere, lockVars
<1> QED BY <1>2, <1>3, <1>6, <1>7, StepOf

(* Leaving a method: the frame below, if any, waits in its guard.          *)
LEMMA LeaveStep ==
  ASSUME Safe, NEW t \in Threads, Leave(t)
  PROVE  Safe'
<1> DEFINE p == PluginOf(t)
<1>1. TypeOK /\ ThreadInv(t) /\ Running(t) /\ p \in Plugins
  BY TopFrame DEF Safe, Leave, AtStep
<1>2. /\ stack' \in [Threads -> Seq(Frame)]
      /\ \A u \in Threads \ {t} : stack'[u] = stack[u]
      /\ Len(stack'[t]) = Len(stack[t]) - 1
      /\ DOMAIN stack'[t] = 1 .. Len(stack[t]) - 1
      /\ \A i \in 1 .. Len(stack[t]) - 1 : stack'[t][i] = stack[t][i]
      /\ Running(t)' => /\ Top(t)' = stack[t][Len(stack[t]) - 1]
                        /\ Len(stack[t]) - 1 \in DOMAIN stack[t]
  BY <1>1, PopEffect DEF Leave
<1>3. owner[p] = t => depth[p] = 1
  BY <1>1 DEF ThreadInv
<1>4. /\ owner' \in [Plugins -> Threads \union {NoThread}]
      /\ depth' \in [Plugins -> Nat]
      /\ \A q \in Plugins : depth'[q] = 0 <=> owner'[q] = NoThread
      /\ stray' \subseteq Threads
      /\ \A u \in Threads \ {t} : Elsewhere(u)
      /\ owner'[p] # t
      /\ \A q \in Plugins \ {p} : owner'[q] = owner[q]
  BY <1>1, <1>3, UnlockEffect DEF Leave
<1>5. \A q \in Plugins : owner'[q] # t
  BY <1>1, <1>4 DEF ThreadInv
<1>6. /\ flag' \in [Threads -> [Plugins -> BOOLEAN]]
      /\ \A u \in Threads \ {t} : flag'[u] = flag[u]
  BY <1>1, Types DEF Leave
<1>7. TypeOK'
  BY <1>1, <1>2, <1>4, <1>6 DEF TypeOK, Leave
<1>8. Len(stack[t]) \in Nat /\ DOMAIN stack[t] = 1 .. Len(stack[t])
  BY <1>1, TopFrame
<1>9. ~AtStep(t, "lock")' /\ ~AtStep(t, "body")'
  <2>1. ASSUME Running(t)' PROVE Top(t)'.step = "relock"
    BY <1>1, <1>2, <1>8, <2>1 DEF ThreadInv
  <2> QED BY <2>1 DEF AtStep
<1>10. ThreadInv(t)'
  <2>1. \A i \in DOMAIN stack'[t] :
            i < Len(stack'[t]) => stack'[t][i].step = "relock"
    BY <1>1, <1>2, <1>8 DEF ThreadInv
  <2> QED BY <1>5, <1>9, <2>1 DEF ThreadInv
<1> QED BY <1>2, <1>4, <1>6, <1>7, <1>10, StepOf

(* A caller in its guard, seen from the frame it pushes.                   *)
LEMMA InvokeBelow ==
  ASSUME Safe, NEW t \in Threads, AtStep(t, "out")
  PROVE  LET below == [stack[t] EXCEPT ![Len(stack[t])].step = "relock"]
         IN  /\ below \in Seq(Frame)
             /\ Len(below) = Len(stack[t])
             /\ \A i \in 1 .. Len(below) : /\ below[i].step = "relock"
                                           /\ below[i].plugin = stack[t][i].plugin
                                           /\ below[i].kind = stack[t][i].kind
<1> DEFINE n == Len(stack[t])
           f == [stack[t][n] EXCEPT !.step = "relock"]
<1>1. /\ stack[t] \in Seq(Frame)
      /\ n \in Nat \ {0}
      /\ DOMAIN stack[t] = 1 .. n
      /\ stack[t][n] \in Frame
  BY TopFrame DEF Safe, AtStep, Top
<1>2. /\ f \in Frame /\ f.step = "relock"
      /\ f.plugin = stack[t][n].plugin /\ f.kind = stack[t][n].kind
  BY <1>1 DEF Frame
<1> HIDE DEF f
<1>3. /\ [stack[t] EXCEPT ![n] = f] \in Seq(Frame)
      /\ Len([stack[t] EXCEPT ![n] = f]) = n
      /\ \A i \in 1 .. n :
            [stack[t] EXCEPT ![n] = f][i] = IF i = n THEN f ELSE stack[t][i]
  BY <1>1, <1>2, ExceptSeq
<1>4. \A i \in 1 .. n : i # n => stack[t][i].step = "relock"
  BY <1>1 DEF Safe, ThreadInv
<1>5. \A i \in 1 .. n :
          LET g == [stack[t] EXCEPT ![n] = f][i]
          IN  /\ g.step = "relock"
              /\ g.plugin = stack[t][i].plugin
              /\ g.kind = stack[t][i].kind
  BY <1>2, <1>3, <1>4
<1> QED BY <1>3, <1>5 DEF f

-----------------------------------------------------------------------------
(* Every step keeps Safe.                                                  *)
LEMMA SafeStep == Safe /\ [Next]_vars => Safe'
<1> SUFFICES ASSUME Safe, [Next]_vars PROVE Safe'
  OBVIOUS
<1>1. ASSUME NEW t \in Threads, NEW p \in Plugins, Enter(t, p)
      PROVE  Safe'
  <2>1. << >> \in Seq(Frame) /\ \A i \in 1 .. Len(<< >>) : FALSE
    BY EmptySeq
  <2>2. PICK kind \in {"api", "guard"} : Push(t, << >>, p, kind)
    BY <1>1 DEF Enter
  <2>3. ~AtStep(t, "body") /\ UNCHANGED lockVars
    BY <1>1 DEF Enter, AtStep
  <2>4. \A i \in 1 .. Len(<< >>) : << >>[i].step = "relock"
    BY <2>1
  <2> QED BY <2>1, <2>2, <2>3, <2>4, PushStep
<1>2. ASSUME NEW t \in Threads, Step(t)
      PROVE  Safe'
  <2>1. CASE Acquire(t)
    <3>1. GuardActs(t)
      BY <2>1 DEF Acquire, Safe, ThreadInv
    <3> QED BY <2>1, <3>1, LockStep DEF Acquire
  <2>2. CASE UnlockGuard(t)
    <3>1. Running(t)
      BY <2>2 DEF UnlockGuard, AtStep
    <3> QED BY <2>2, <3>1, UnlockStep, IdleGuardStep DEF UnlockGuard
  <2>3. ASSUME NEW q \in Plugins, Invoke(t, q)
        PROVE  Safe'
    <3>1. AtStep(t, "out") /\ ~AtStep(t, "body")
      BY <2>3 DEF Invoke, AtStep
    <3> QED BY <2>3, <3>1, InvokeBelow, PushStep DEF Invoke
  <2>4. CASE RelockGuard(t)
    <3>1. Running(t)
      BY <2>4 DEF RelockGuard, AtStep
    <3> QED BY <2>4, <3>1, LockStep, IdleGuardStep DEF RelockGuard
  <2>5. CASE Leave(t)
    BY <2>5, LeaveStep
  <2> QED BY <1>2, <2>1, <2>2, <2>3, <2>4, <2>5 DEF Step
<1>3. CASE UNCHANGED vars
  <2>1. \A u \in Threads : /\ stack'[u] = stack[u]
                           /\ flag'[u] = flag[u]
                           /\ Elsewhere(u)
    BY <1>3 DEF vars, lockVars, Elsewhere
  <2>2. \A u \in Threads : ThreadInv(u)'
    BY <2>1, ThreadFrame DEF Safe
  <2>3. TypeOK'
    BY <1>3 DEF vars, lockVars, TypeOK, Safe
  <2> QED BY <2>2, <2>3 DEF Safe
<1> QED BY <1>1, <1>2, <1>3 DEF Next

(* Nothing is locked and nobody runs at the start.                         *)
LEMMA SafeInit == Init => Safe
<1> SUFFICES ASSUME Init PROVE Safe
  OBVIOUS
<1>1. \A t \in Threads : stack[t] = << >> /\ ~Running(t)
  BY DEF Init, Running
<1>2. \A p \in Plugins : owner[p] = NoThread /\ depth[p] = 0
  BY DEF Init
<1>3. TypeOK
  <2>1. stack \in [Threads -> Seq(Frame)]
    BY EmptySeq DEF Init
  <2>2. /\ flag \in [Threads -> [Plugins -> BOOLEAN]]
        /\ owner \in [Plugins -> Threads \union {NoThread}]
        /\ depth \in [Plugins -> Nat]
        /\ stray \subseteq Threads
    BY DEF Init
  <2>3. calls \in [Threads -> 0 .. MaxCalls]
    BY ApiLockAssumption DEF Init
  <2> QED BY <1>2, <2>1, <2>2, <2>3 DEF TypeOK
<1>4. \A t \in Threads : ThreadInv(t)
  <2> SUFFICES ASSUME NEW t \in Threads PROVE ThreadInv(t)
    OBVIOUS
  <2>1. ~AtStep(t, "lock") /\ ~AtStep(t, "body")
    BY <1>1 DEF AtStep
  <2>2. \A q \in Plugins : owner[q] # t
    BY <1>2, ApiLockAssumption
  <2>3. \A i \in DOMAIN stack[t] : FALSE
    BY <1>1, EmptySeq
  <2> QED BY <2>1, <2>2, <2>3 DEF ThreadInv
<1> QED BY <1>3, <1>4 DEF Safe

(* Every state is well typed.                                              *)
THEOREM TypeCorrect == Spec => []TypeOK
<1>1. Safe => TypeOK
  BY DEF Safe
<1> QED BY <1>1, SafeInit, SafeStep, PTL DEF Spec

(* Whatever plugins call each other, reentrantly or not, a thread that     *)
(* waits for a mutex owns none: mutual Invokes cannot deadlock.            *)
THEOREM NoWaitingOwner == Spec => []WaitsWithoutLock
<1>1. Safe => WaitsWithoutLock
  BY DEF Safe, ThreadInv, WaitsWithoutLock
<1> QED BY <1>1, SafeInit, SafeStep, PTL DEF Spec

(* A method is without its lock only after an inner call has cleared its   *)
(* flag.                                                                   *)
THEOREM LockAndFlag == Spec => []LockFollowsFlag
<1>1. Safe => LockFollowsFlag
  BY DEF Safe, ThreadInv, LockFollowsFlag
<1> QED BY <1>1, SafeInit, SafeStep, PTL DEF Spec

-----------------------------------------------------------------------------
(* Without reentrant calls.                                                *)

(* FlagsOfStack for one thread.                                            *)
FlagsOf(t) ==
    \A i \in DOMAIN stack[t] :
        /\ stack[t][i].kind = "api" => flag[t][stack[t][i].plugin]
        /\ \A j \in DOMAIN stack[t] :
              stack[t][i].plugin = stack[t][j].plugin => i = j

(* A step of thread t leaves the flags of the other threads alone.         *)
LEMMA FlagsFrame ==
  ASSUME FlagsOfStack, NEW t \in Threads, t \notin ReentrantThreads => FlagsOf(t)',
         \A u \in Threads \ {t} : stack'[u] = stack[u] /\ flag'[u] = flag[u]
  PROVE  FlagsOfStack'
<1>1. ASSUME NEW u \in Threads \ ReentrantThreads, u # t PROVE FlagsOf(u)'
  BY <1>1 DEF FlagsOfStack, FlagsOf
<1> QED BY <1>1 DEF FlagsOfStack, FlagsOf

(* In the body of a method the lock is owned, and the guard acts.          *)
LEMMA OwnedInBody ==
  ASSUME Safe, FlagsOfStack, NEW t \in Threads \ ReentrantThreads, AtStep(t, "body")
  PROVE  owner[PluginOf(t)] = t /\ GuardActs(t)
<1>1. TypeOK /\ ThreadInv(t) /\ Running(t)
  BY DEF Safe, AtStep
<1>2. Len(stack[t]) \in DOMAIN stack[t] /\ Top(t) \in Frame
  BY <1>1, TopFrame
<1>3. GuardActs(t)
  BY <1>2 DEF FlagsOfStack, GuardActs, Top, PluginOf, Frame
<1> QED BY <1>1, <1>3 DEF ThreadInv

(* Going to another step of a method changes no flag.                      *)
LEMMA GoToFlags ==
  ASSUME Safe, FlagsOfStack, NEW t \in Threads \ ReentrantThreads, Running(t),
         NEW s \in {"lock", "body", "out", "relock"}, GoTo(t, s), UNCHANGED flag
  PROVE  FlagsOfStack'
<1>1. TypeOK /\ FlagsOf(t)
  BY DEF Safe, FlagsOfStack, FlagsOf
<1>2. /\ DOMAIN stack'[t] = DOMAIN stack[t]
      /\ \A u \in Threads \ {t} : stack'[u] = stack[u]
      /\ \A i \in DOMAIN stack[t] : /\ stack'[t][i].plugin = stack[t][i].plugin
                                    /\ stack'[t][i].kind = stack[t][i].kind
  BY <1>1, GoToEffect
<1>3. FlagsOf(t)'
  BY <1>1, <1>2 DEF FlagsOf
<1> QED BY <1>2, <1>3, FlagsFrame

(* A frame of a plugin that is not on the stack sets a flag of its own.    *)
LEMMA PushFlags ==
  ASSUME Safe, FlagsOfStack, NEW t \in Threads \ ReentrantThreads, NEW below \in Seq(Frame),
         NEW p \in Plugins, NEW kind \in {"api", "guard"}, Push(t, below, p, kind),
         DOMAIN stack[t] = 1 .. Len(below),
         \A i \in 1 .. Len(below) : /\ below[i].plugin = stack[t][i].plugin
                                    /\ below[i].kind = stack[t][i].kind
                                    /\ stack[t][i].plugin # p
  PROVE  FlagsOfStack'
<1> DEFINE n == Len(below)
<1>1. TypeOK /\ FlagsOf(t)
  BY DEF Safe, FlagsOfStack, FlagsOf
<1>0. n \in Nat
  BY LenProperties
<1>2. /\ \A u \in Threads \ {t} : stack'[u] = stack[u] /\ flag'[u] = flag[u]
      /\ Top(t)' = [plugin |-> p, kind |-> kind, step |-> "lock"]
      /\ Len(stack'[t]) = n + 1
      /\ DOMAIN stack'[t] = 1 .. n + 1
      /\ \A i \in 1 .. n : stack'[t][i] = below[i]
      /\ \A q \in Plugins : flag'[t][q] <=> flag[t][q] \/ (kind = "api" /\ q = p)
  BY <1>1, PushEffect
<1>3. stack'[t][n + 1].plugin = p /\ stack'[t][n + 1].kind = kind
  BY <1>2 DEF Top
<1>4. \A i \in 1 .. n : below[i].plugin \in Plugins
  <2> SUFFICES ASSUME NEW i \in 1 .. n PROVE below[i].plugin \in Plugins
    OBVIOUS
  <2>1. below[i] \in Frame
    BY ElementOfSeq
  <2> QED BY <2>1 DEF Frame
<1>9. /\ DOMAIN stack[t] = 1 .. n
      /\ \A i \in 1 .. n : /\ below[i].plugin = stack[t][i].plugin
                           /\ below[i].kind = stack[t][i].kind
                           /\ stack[t][i].plugin # p
  OBVIOUS
<1> HIDE DEF n
<1>5. ASSUME NEW i \in 1 .. n + 1
      PROVE  stack'[t][i].kind = "api" => flag'[t][stack'[t][i].plugin]
  <2>1. CASE i = n + 1
    BY <1>2, <1>3, <2>1
  <2>2. CASE i # n + 1
    <3>1. i \in 1 .. n
      BY <1>0, <2>2
    <3>2. stack[t][i].kind = "api" => flag[t][stack[t][i].plugin]
      BY <1>1, <1>9, <3>1 DEF FlagsOf
    <3> QED BY <1>2, <1>4, <1>9, <3>1, <3>2
  <2> QED BY <2>1, <2>2
<1>6. ASSUME NEW i \in 1 .. n + 1, NEW j \in 1 .. n + 1,
             stack'[t][i].plugin = stack'[t][j].plugin
      PROVE  i = j
  <2>1. \A k \in 1 .. n : stack'[t][k].plugin # p
    BY <1>2, <1>9
  <2>2. ASSUME NEW k \in 1 .. n, NEW m \in 1 .. n,
               stack'[t][k].plugin = stack'[t][m].plugin
        PROVE  k = m
    <3>1. stack[t][k].plugin = stack[t][m].plugin
      BY <1>2, <1>9, <2>2
    <3> QED BY <1>1, <1>9, <3>1 DEF FlagsOf
  <2>3. \A k \in 1 .. n + 1 : k = n + 1 \/ k \in 1 .. n
    BY <1>0
  <2> QED BY <1>3, <1>6, <2>1, <2>2, <2>3
<1>7. FlagsOf(t)'
  BY <1>2, <1>5, <1>6 DEF FlagsOf
<1> QED BY <1>2, <1>7, FlagsFrame

(* The flag a wrapper clears is not the flag of a frame below it.          *)
LEMMA LeaveFlags ==
  ASSUME Safe, FlagsOfStack, NEW t \in Threads \ ReentrantThreads, Leave(t)
  PROVE  FlagsOfStack'
<1> DEFINE n == Len(stack[t])
<1>1. TypeOK /\ FlagsOf(t) /\ Running(t)
  BY DEF Safe, FlagsOfStack, FlagsOf, Leave, AtStep
<1>2. /\ stack[t] \in Seq(Frame)
      /\ n \in Nat \ {0}
      /\ DOMAIN stack[t] = 1 .. n
      /\ PluginOf(t) = stack[t][n].plugin
  BY <1>1, TopFrame DEF PluginOf, Top
<1>3. /\ \A u \in Threads \ {t} : stack'[u] = stack[u]
      /\ DOMAIN stack'[t] = 1 .. n - 1
      /\ \A i \in 1 .. n - 1 : stack'[t][i] = stack[t][i]
  BY <1>1, PopEffect DEF Leave
<1>4. /\ \A u \in Threads \ {t} : flag'[u] = flag[u]
      /\ \A q \in Plugins : q # PluginOf(t) => flag'[t][q] = flag[t][q]
  BY <1>1, Types DEF Leave
<1>5. \A i \in 1 .. n - 1 : i \in 1 .. n /\ i # n /\ n \in 1 .. n
  BY <1>2
<1>6. \A i \in 1 .. n - 1 : /\ stack[t][i].plugin # PluginOf(t)
                            /\ stack[t][i].plugin \in Plugins
  <2> SUFFICES ASSUME NEW i \in 1 .. n - 1
               PROVE  stack[t][i].plugin # PluginOf(t) /\ stack[t][i].plugin \in Plugins
    OBVIOUS
  <2>1. i \in DOMAIN stack[t] /\ n \in DOMAIN stack[t] /\ i # n
    BY <1>2, <1>5
  <2>2. stack[t][i].plugin # stack[t][n].plugin
    BY <1>1, <2>1 DEF FlagsOf
  <2>3. stack[t][i] \in Frame
    BY <1>2, <2>1, ElementOfSeq
  <2> QED BY <1>2, <2>2, <2>3 DEF Frame
<1>7. FlagsOf(t)'
  <2>1. ASSUME NEW i \in 1 .. n - 1
        PROVE  stack'[t][i].kind = "api" => flag'[t][stack'[t][i].plugin]
    BY <1>1, <1>2, <1>3, <1>4, <1>5, <1>6 DEF FlagsOf
  <2>2. ASSUME NEW i \in 1 .. n - 1, NEW j \in 1 .. n - 1,
               stack'[t][i].plugin = stack'[t][j].plugin
        PROVE  i = j
    <3>1. stack[t][i].plugin = stack[t][j].plugin
      BY <1>3, <2>2
    <3>2. i \in DOMAIN stack[t] /\ j \in DOMAIN stack[t]
      BY <1>2, <1>5
    <3> QED BY <1>1, <3>1, <3>2 DEF FlagsOf
  <2> QED BY <1>3, <2>1, <2>2 DEF FlagsOf
<1> QED BY <1>3, <1>4, <1>7, FlagsFrame

(* A step of a thread leaves the stacks and flags of the others alone.     *)
LEMMA StepIsLocal ==
  ASSUME TypeOK, NEW t \in Threads, Step(t) \/ \E p \in Plugins : Enter(t, p)
  PROVE  /\ \A u \in Threads \ {t} : stack'[u] = stack[u] /\ flag'[u] = flag[u]
         /\ stray' \subseteq stray \union {t}
<1> USE Types
<1>1. CASE Acquire(t)
  BY <1>1 DEF Acquire, GoTo, Lock
<1>2. CASE UnlockGuard(t)
  BY <1>2 DEF UnlockGuard, GoTo, Unlock, lockVars
<1>3. CASE \E q \in Plugins : Invoke(t, q)
  BY <1>3 DEF Invoke, Push, lockVars
<1>4. CASE RelockGuard(t)
  BY <1>4 DEF RelockGuard, GoTo, Lock, lockVars
<1>5. CASE Leave(t)
  BY <1>5 DEF Leave, Unlock
<1>6. CASE \E p \in Plugins : Enter(t, p)
  BY <1>6 DEF Enter, Push, lockVars
<1> QED BY <1>1, <1>2, <1>3, <1>4, <1>5, <1>6 DEF Step

(* Every step keeps FlagsOfStack, and no step unlocks a mutex astray.      *)
LEMMA ApartStep ==
         Safe /\ FlagsOfStack /\ NoStrayUnlock /\ [Next]_vars
            => FlagsOfStack' /\ NoStrayUnlock'
<1> SUFFICES ASSUME Safe, FlagsOfStack, NoStrayUnlock, [Next]_vars
             PROVE  FlagsOfStack' /\ NoStrayUnlock'
  OBVIOUS
<1>0. ASSUME NEW t \in ReentrantThreads, Step(t) \/ \E p \in Plugins : Enter(t, p)
      PROVE  FlagsOfStack' /\ NoStrayUnlock'
  <2>1. t \in Threads /\ TypeOK
    BY ApiLockAssumption DEF Safe
  <2>2. /\ \A u \in Threads \ {t} : stack'[u] = stack[u] /\ flag'[u] = flag[u]
        /\ stray' \subseteq stray \union {t}
    BY <1>0, <2>1, StepIsLocal
  <2>3. FlagsOfStack'
    BY <1>0, <2>1, <2>2, FlagsFrame
  <2> QED BY <1>0, <2>2, <2>3 DEF NoStrayUnlock
<1>1. ASSUME NEW t \in Threads \ ReentrantThreads, NEW p \in Plugins, Enter(t, p)
      PROVE  FlagsOfStack' /\ NoStrayUnlock'
  <2>1. << >> \in Seq(Frame) /\ stack[t] = << >>
    BY <1>1, EmptySeq DEF Enter, Running
  <2>2. PICK kind \in {"api", "guard"} : Push(t, << >>, p, kind)
    BY <1>1 DEF Enter
  <2>3. Len(<< >>) = 0 /\ DOMAIN stack[t] = 1 .. Len(<< >>)
    BY <2>1, EmptySeq, LenProperties
  <2>4. \A i \in 1 .. Len(<< >>) : FALSE
    BY <2>3
  <2>5. FlagsOfStack'
    BY <2>1, <2>2, <2>3, <2>4, PushFlags
  <2> QED BY <1>1, <2>5 DEF Enter, lockVars, NoStrayUnlock
<1>2. ASSUME NEW t \in Threads \ ReentrantThreads, Step(t)
      PROVE  FlagsOfStack' /\ NoStrayUnlock'
  <2>1. CASE Acquire(t)
    <3>1. FlagsOfStack'
      BY <2>1, GoToFlags DEF Acquire, AtStep
    <3> QED BY <2>1, <3>1 DEF Acquire, Lock, NoStrayUnlock
  <2>2. CASE UnlockGuard(t)
    <3>1. FlagsOfStack'
      BY <2>2, GoToFlags DEF UnlockGuard, AtStep
    <3>2. owner[PluginOf(t)] = t
      BY <2>2, OwnedInBody DEF UnlockGuard
    <3> QED BY <2>2, <3>1, <3>2 DEF UnlockGuard, Unlock, lockVars, NoStrayUnlock
  <2>3. ASSUME NEW q \in Plugins, Invoke(t, q)
        PROVE  FlagsOfStack' /\ NoStrayUnlock'
    <3>1. AtStep(t, "out") /\ TypeOK /\ Running(t)
      BY <2>3 DEF Invoke, AtStep, Safe
    <3>2. PICK below : /\ below = [stack[t] EXCEPT ![Len(stack[t])].step = "relock"]
                       /\ Push(t, below, q, "api")
      BY <2>3 DEF Invoke
    <3>3. /\ below \in Seq(Frame)
          /\ Len(below) = Len(stack[t])
          /\ \A i \in 1 .. Len(below) : /\ below[i].plugin = stack[t][i].plugin
                                        /\ below[i].kind = stack[t][i].kind
      BY <3>1, <3>2, InvokeBelow
    <3>4. DOMAIN stack[t] = 1 .. Len(below) /\ Len(below) \in Nat
      BY <3>1, <3>3, TopFrame
    <3>5. \A i \in DOMAIN stack[t] : stack[t][i].plugin # q
      BY <2>3 DEF Invoke, MayInvoke
    <3>6. FlagsOfStack'
      BY <3>2, <3>3, <3>4, <3>5, PushFlags
    <3> QED BY <2>3, <3>6 DEF Invoke, lockVars, NoStrayUnlock
  <2>4. CASE RelockGuard(t)
    <3>1. FlagsOfStack'
      BY <2>4, GoToFlags DEF RelockGuard, AtStep
    <3> QED BY <2>4, <3>1 DEF RelockGuard, Lock, lockVars, NoStrayUnlock
  <2>5. CASE Leave(t)
    <3>1. FlagsOfStack'
      BY <2>5, LeaveFlags
    <3>2. owner[PluginOf(t)] = t
      BY <2>5, OwnedInBody DEF Leave
    <3> QED BY <2>5, <3>1, <3>2 DEF Leave, Unlock, NoStrayUnlock
  <2> QED BY <1>2, <2>1, <2>2, <2>3, <2>4, <2>5 DEF Step
<1>3. CASE UNCHANGED vars
  BY <1>3 DEF vars, lockVars, FlagsOfStack, NoStrayUnlock
<1> QED BY <1>0, <1>1, <1>2, <1>3, ApiLockAssumption DEF Next

(* Every stack is empty at the start.                                      *)
LEMMA ApartInit == Init => FlagsOfStack /\ NoStrayUnlock
<1> SUFFICES ASSUME Init PROVE FlagsOfStack /\ NoStrayUnlock
  OBVIOUS
<1>1. \A t \in Threads : stack[t] = << >>
  BY DEF Init
<1>2. \A t \in Threads : \A i \in DOMAIN stack[t] : FALSE
  BY <1>1, EmptySeq
<1>3. FlagsOfStack
  BY <1>2 DEF FlagsOfStack
<1> QED BY <1>3 DEF Init, NoStrayUnlock

(* As long as no call of a thread comes back to a plugin that is on its    *)
(* stack already, a locked method that it executes owns the mutex of its   *)
(* plugin: between the guards no other thread gets in.                     *)
THEOREM MethodsLocked == Spec => []OwnsUnlessReentrant
<1>1. Init => FlagsOfStack /\ NoStrayUnlock
  BY ApartInit
<1>2. Safe /\ FlagsOfStack => OwnsUnlessReentrant
  BY OwnedInBody DEF OwnsUnlessReentrant, OwnsInBody
<1> QED BY <1>1, <1>2, SafeInit, SafeStep, ApartStep, PTL DEF Spec

(* Nor does such a thread unlock a mutex that it has not locked.              *)
THEOREM UnlocksMatch == Spec => []NoStrayUnlock
<1>1. Init => FlagsOfStack /\ NoStrayUnlock
  BY ApartInit
<1> QED BY <1>1, SafeInit, SafeStep, ApartStep, PTL DEF Spec

(* IInv, which a run checks on a small instance, always holds.             *)
THEOREM Invariance == Spec => []IInv
<1>1. Init => Safe /\ FlagsOfStack /\ NoStrayUnlock
  BY SafeInit, ApartInit
<1>2. Safe /\ FlagsOfStack /\ NoStrayUnlock => IInv
  BY DEF Safe, ThreadInv, IInv, WellNested, LockFollowsFlag, WaitsWithoutLock
<1> QED BY <1>1, <1>2, SafeStep, ApartStep, PTL DEF Spec
=============================================================================
