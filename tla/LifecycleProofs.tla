--------------------------- MODULE LifecycleProofs ---------------------------
(***************************************************************************)
(* The life of the process, for every number of modules and handlers: what  *)
(* the modules run once the reloads have settled, which configurations they *)
(* may be taken to, and what is true when main is gone.                     *)
(*                                                                         *)
(* Three invariants are enough.  ReloadInv follows the handler that holds   *)
(* reloadMu, FreshInv what its reload has reached so far, ShutdownInv how   *)
(* far main has come.                                                       *)
(***************************************************************************)
EXTENDS Lifecycle, TLAPS

Reloading(h) == hpc[h] \in {"reload", "apply", "rollback", "restore"}
Applying(h) == hpc[h] \in {"apply", "restore"}

\* A module runs, or may be taken back to, nothing newer than v.
UpTo(m, v) ==
    /\ runs[m] \in Versions => runs[m] <= v
    /\ lastGood[m] \in Versions => lastGood[m] <= v

\* reloadMu is held by the one handler that reloads.  It gives a module back
\* its last configuration only when there is one, and the module is down.
\* Nothing is newer than the configuration being loaded.
ReloadInv ==
    /\ \A h \in Handlers : Reloading(h) <=> reloadMu = h
    /\ \A h \in Handlers : hpc[h] \in {"rollback", "restore"} =>
            /\ lastGood[idx] \notin {None, cfg}
            /\ runs[idx] \in {Broken, Off}
            /\ tried[idx] = cfg
    /\ cfg <= version
    /\ \A m \in Mods : UpTo(m, IF reloadMu = Free THEN version ELSE cfg)

\* What the modules before the cursor were given is the configuration being
\* loaded.  It is the newest, unless the handler that saved a newer one is still
\* waiting for reloadMu.
FreshInv ==
    /\ reloadMu # Free => \A m \in Mods : m < idx => tried[m] = cfg
    /\ reloadMu # Free /\ cfg # version => \E h \in Handlers : hpc[h] = "lock"
    /\ reloadMu = Free /\ ~allClosed /\ (\A h \in Handlers : hpc[h] # "lock") =>
            \A m \in Mods : tried[m] = version
    /\ ~allClosed => \A m \in Mods : runs[m] \in {lastGood[m], Broken}

\* main closes the modules in order, once.  What a reload saw of the flag is true
\* until it has applied its configuration, when it holds the lock of the module.
ShutdownInv ==
    /\ ~allClosed => \A m \in Mods : ~modClosed[m]
    /\ main \in {"serve", "drain"} => ~allClosed
    /\ main = "store" => (allClosed <=> way = "exit")
    /\ main = "modules" /\ allClosed => closing \in Mods
    /\ main = "modules" /\ allClosed =>
            \A m \in Mods : m < closing => modClosed[m]
    /\ main = "gone" \/ (main = "store" /\ way = "exit") =>
            \A m \in Mods : modClosed[m]
    /\ \A m \in Guarded : modClosed[m] => runs[m] = Off
    /\ seen => allClosed
    /\ idx \in Guarded =>
            \A h \in Handlers : Applying(h) => (seen <=> modClosed[idx])

IInv == TypeOK /\ ReloadInv /\ FreshInv /\ ShutdownInv

\* On the way out of a signal the store is closed last.
SavedInv == main = "gone" /\ way = "exit" => saved = reports

-----------------------------------------------------------------------------
USE DEF Mods, Versions, Steps

\* The assumptions about the constants, in the form the proofs use.
LEMMA Constants ==
    /\ N \in Nat /\ N >= 1 /\ 1 \in Mods /\ N \in Mods /\ Guarded \subseteq Mods
    /\ MaxVersion \in Nat /\ MaxFails \in Nat /\ MaxReports \in Nat
    /\ Off \notin Nat /\ Broken \notin Nat /\ None \notin Nat /\ Off # Broken
    /\ Free \notin Handlers
  BY SizeAssumption, BoundAssumption, MarksAssumption, FreeAssumption

\* The cursor stays among the modules, and the lock is given back at the end.
LEMMA AdvanceLemma ==
    ASSUME TypeOK, NEW h \in Handlers, Advance(h)
    PROVE  /\ idx' \in Mods /\ reloadMu' \in {Free, reloadMu}
           /\ hpc' \in [Handlers -> Steps]
           /\ \A g \in Handlers \ {h} : hpc'[g] = hpc[g]
           /\ hpc'[h] \in {"idle", "reload"}
           /\ \/ idx = N /\ idx' = N /\ reloadMu' = Free /\ hpc'[h] = "idle"
              \/ idx # N /\ idx' = idx + 1 /\ reloadMu' = reloadMu
                 /\ hpc'[h] = "reload"
<1>. USE Constants
<1>1. CASE idx = N
  BY <1>1 DEF TypeOK, Advance, Release
<1>2. CASE idx # N
  <2>1. /\ idx' = idx + 1 /\ hpc' = [hpc EXCEPT ![h] = "reload"]
        /\ reloadMu' = reloadMu
    BY <1>2 DEF Advance
  <2>2. idx' \in Mods
    BY <1>2, <2>1 DEF TypeOK
  <2>. QED BY <1>2, <2>1, <2>2 DEF TypeOK
<1>. QED BY <1>1, <1>2

LEMMA InitIInv == Init => IInv
<1>. SUFFICES ASSUME Init PROVE IInv
  OBVIOUS
<1>1. TypeOK
  <2>1. lastGood \in [Mods -> Versions \cup {None}]
    BY Constants DEF Init
  <2>2. runs \in [Mods -> Versions \cup {Off, Broken}] /\ tried \in [Mods -> Versions]
    BY Constants DEF Init
  <2>3. hpc \in [Handlers -> Steps] /\ seen \in BOOLEAN
    BY DEF Init
  <2>4. modClosed \in [Mods -> BOOLEAN]
    BY DEF Init
  <2>5. /\ version \in Versions /\ cfg \in Versions /\ idx \in Mods
        /\ closing \in 1..(N + 1) /\ reports \in 0..MaxReports
        /\ saved \in 0..MaxReports /\ fails \in 0..MaxFails
    BY Constants DEF Init
  <2>6. /\ reloadMu \in Handlers \cup {Free} /\ allClosed \in BOOLEAN
        /\ main \in {"serve", "drain", "modules", "store", "gone"}
        /\ way \in {"exit", "exec"}
    BY DEF Init
  <2>. QED BY <2>1, <2>2, <2>3, <2>4, <2>5, <2>6 DEF TypeOK
<1>2. ReloadInv
  BY Constants DEF Init, ReloadInv, Reloading, UpTo
<1>3. FreshInv
  BY Constants DEF Init, FreshInv
<1>4. ShutdownInv
  BY Constants DEF Init, ShutdownInv, Applying
<1>. QED BY <1>1, <1>2, <1>3, <1>4 DEF IInv

LEMMA TypeStep == IInv /\ [Next]_vars => TypeOK'
<1>. SUFFICES ASSUME IInv, [Next]_vars PROVE TypeOK'
  OBVIOUS
<1>. USE Constants DEF IInv, TypeOK
<1>1. ASSUME NEW h \in Handlers, Save(h) PROVE TypeOK'
  BY <1>1 DEF Save, shutdown, state
<1>2. ASSUME NEW h \in Handlers, Lock(h) PROVE TypeOK'
  BY <1>2 DEF Lock, Release, shutdown, state
<1>12. ASSUME NEW h \in Handlers, Look(h) PROVE TypeOK'
  <2>1. hpc' \in [Handlers -> Steps] /\ seen' \in BOOLEAN
    BY <1>12 DEF Look
  <2>. QED BY <1>12, <2>1 DEF Look, shutdown, state
<1>3. ASSUME NEW h \in Handlers, ReloadSucceeds(h) PROVE TypeOK'
  <2>1. runs' \in [Mods -> Versions \cup {Off, Broken}]
    BY <1>3 DEF ReloadSucceeds, Applied
  <2>2. lastGood' \in [Mods -> Versions \cup {None}] /\ tried' \in [Mods -> Versions]
    BY <1>3 DEF ReloadSucceeds
  <2>3. /\ idx' \in Mods /\ reloadMu' \in Handlers \cup {Free}
        /\ hpc' \in [Handlers -> Steps]
    BY <1>3, AdvanceLemma DEF ReloadSucceeds
  <2>. QED BY <1>3, <2>1, <2>2, <2>3 DEF ReloadSucceeds, shutdown, state
<1>4. ASSUME NEW h \in Handlers, ReloadFails(h) PROVE TypeOK'
  <2>1. runs' \in [Mods -> Versions \cup {Off, Broken}]
    BY <1>4 DEF ReloadFails
  <2>2. lastGood' \in [Mods -> Versions \cup {None}] /\ tried' \in [Mods -> Versions]
    BY <1>4 DEF ReloadFails
  <2>3. /\ idx' \in Mods /\ reloadMu' \in Handlers \cup {Free}
        /\ hpc' \in [Handlers -> Steps]
    BY <1>4, AdvanceLemma DEF ReloadFails
  <2>. QED BY <1>4, <2>1, <2>2, <2>3 DEF ReloadFails, shutdown, state
<1>5. ASSUME NEW h \in Handlers, Rollback(h) PROVE TypeOK'
  <2>1. lastGood[idx] \in Versions
    BY <1>5 DEF Rollback, ReloadInv
  <2>2. runs' \in [Mods -> Versions \cup {Off, Broken}]
    BY <1>5, <2>1 DEF Rollback, Applied
  <2>3. /\ idx' \in Mods /\ reloadMu' \in Handlers \cup {Free}
        /\ hpc' \in [Handlers -> Steps]
    BY <1>5, AdvanceLemma DEF Rollback
  <2>4. fails' \in 0..MaxFails
    BY <1>5 DEF Rollback
  <2>. QED BY <1>5, <2>2, <2>3, <2>4 DEF Rollback, shutdown, state
<1>6. ASSUME NEW m \in Mods, Report(m) PROVE TypeOK'
  BY <1>6 DEF Report, reload, shutdown
<1>7. CASE WindowFlush \/ \E w \in Ways : Leave(w)
  BY <1>7, WaysAssumption DEF WindowFlush, Leave, reload, shutdown, state
<1>8. CASE Drained \/ CloseStore
  BY <1>8 DEF Drained, CloseStore, reload, state
<1>11. CASE CloseAllBegin
  BY <1>11 DEF CloseAllBegin, reload, state
<1>9. CASE CloseModule
  BY <1>9 DEF CloseModule, ShutdownInv, reload, state
<1>10. CASE UNCHANGED vars
  BY <1>10 DEF vars
<1>. QED BY <1>1, <1>2, <1>3, <1>4, <1>5, <1>6, <1>7, <1>8, <1>9, <1>10, <1>11, <1>12
         DEF Next, Reload, Exit

LEMMA ReloadStep == IInv /\ TypeOK' /\ [Next]_vars => ReloadInv'
<1>. SUFFICES ASSUME IInv, TypeOK', [Next]_vars PROVE ReloadInv'
  OBVIOUS
<1>. USE Constants DEF IInv, TypeOK, ReloadInv, Reloading, UpTo
<1>1. ASSUME NEW h \in Handlers, Save(h) PROVE ReloadInv'
  BY <1>1 DEF Save
<1>2. ASSUME NEW h \in Handlers, Lock(h) PROVE ReloadInv'
  BY <1>2 DEF Lock, Release
<1>10. ASSUME NEW h \in Handlers, Look(h) PROVE ReloadInv'
  BY <1>10 DEF Look
<1>3. ASSUME NEW h \in Handlers, ReloadSucceeds(h) PROVE ReloadInv'
  BY <1>3 DEF ReloadSucceeds, Advance, Release, Applied
<1>4. ASSUME NEW h \in Handlers, ReloadFails(h) PROVE ReloadInv'
  BY <1>4 DEF ReloadFails, Advance, Release
<1>5. ASSUME NEW h \in Handlers, Rollback(h) PROVE ReloadInv'
  <2>1. reloadMu = h /\ lastGood[idx] \notin {None, cfg} /\ cfg <= version
        /\ lastGood[idx] \in Versions /\ lastGood[idx] <= cfg
    BY <1>5 DEF Rollback
  <2>2. \A m \in Mods : UpTo(m, cfg)'
    BY <1>5, <2>1 DEF Rollback, Applied
  <2>3. UNCHANGED <<version, cfg, lastGood, tried>>
    BY <1>5 DEF Rollback
  <2>4. \A g \in Handlers : g # h => ~Reloading(g) /\ hpc'[g] = hpc[g]
    BY <1>5, <2>1, AdvanceLemma DEF Rollback
  <2>5. \/ reloadMu' = Free /\ hpc'[h] = "idle"
        \/ reloadMu' = h /\ hpc'[h] = "reload"
    BY <1>5, <2>1, AdvanceLemma DEF Rollback
  <2>6. \A g \in Handlers : Reloading(g)' <=> reloadMu' = g
    BY <2>4, <2>5
  <2>. QED BY <2>1, <2>2, <2>3, <2>4, <2>5, <2>6
<1>6. CASE (\E m \in Mods : Report(m)) \/ WindowFlush \/ \E w \in Ways : Leave(w)
  BY <1>6 DEF Report, WindowFlush, Leave, reload
<1>7. CASE Drained \/ CloseStore \/ CloseAllBegin
  BY <1>7 DEF Drained, CloseStore, CloseAllBegin, reload
<1>8. CASE CloseModule
  BY <1>8 DEF CloseModule, reload
<1>9. CASE UNCHANGED vars
  BY <1>9 DEF vars
<1>. QED BY <1>1, <1>2, <1>3, <1>4, <1>5, <1>6, <1>7, <1>8, <1>9, <1>10
         DEF Next, Reload, Exit

\* A step of the handler that holds reloadMu: every module up to the cursor was
\* given the configuration being loaded, and the cursor advances.
LEMMA AdvanceIsFresh ==
    ASSUME TypeOK, ReloadInv, FreshInv, NEW h \in Handlers, Reloading(h), Advance(h),
           UNCHANGED <<version, cfg, allClosed>>,
           \/ tried' = [tried EXCEPT ![idx] = cfg]
           \/ tried' = tried /\ tried[idx] = cfg,
           ~allClosed => \A m \in Mods : runs'[m] \in {lastGood'[m], Broken}
    PROVE  FreshInv'
<1>. USE Constants
<1>1. reloadMu = h /\ (cfg = version \/ \E g \in Handlers : hpc[g] = "lock")
  BY DEF FreshInv, ReloadInv
<1>2. \A m \in Mods : m <= idx => tried'[m] = cfg
  BY <1>1 DEF TypeOK, FreshInv
<1>3. cfg = version \/ \E g \in Handlers : hpc'[g] = "lock"
  BY <1>1, AdvanceLemma DEF Reloading
<1>4. CASE idx = N /\ reloadMu' = Free
  BY <1>2, <1>3, <1>4 DEF FreshInv
<1>5. CASE idx # N /\ idx' = idx + 1 /\ reloadMu' = h
  <2>1. \A m \in Mods : m < idx' => m <= idx
    BY <1>5 DEF TypeOK
  <2>. QED BY <1>2, <1>3, <1>5, <2>1 DEF FreshInv
<1>. QED BY <1>1, <1>4, <1>5, AdvanceLemma

LEMMA FreshStep == IInv /\ TypeOK' /\ [Next]_vars => FreshInv'
<1>. SUFFICES ASSUME IInv, TypeOK', [Next]_vars PROVE FreshInv'
  OBVIOUS
<1>. USE Constants DEF IInv
<1>1. ASSUME NEW h \in Handlers, Save(h) PROVE FreshInv'
  BY <1>1 DEF Save, FreshInv, TypeOK, shutdown
<1>2. ASSUME NEW h \in Handlers, Lock(h) PROVE FreshInv'
  BY <1>2 DEF Lock, Release, FreshInv, TypeOK, shutdown
<1>10. ASSUME NEW h \in Handlers, Look(h) PROVE FreshInv'
  <2>1. \A g \in Handlers : hpc'[g] = "lock" <=> hpc[g] = "lock"
    BY <1>10 DEF Look, TypeOK
  <2>. QED BY <1>10, <2>1 DEF Look, FreshInv, shutdown
<1>3. ASSUME NEW h \in Handlers, ReloadSucceeds(h) PROVE FreshInv'
  <2>1. ~allClosed => \A m \in Mods : runs'[m] \in {lastGood'[m], Broken}
    BY <1>3 DEF ReloadSucceeds, Applied, FreshInv, ShutdownInv, TypeOK
  <2>2. Reloading(h) /\ Advance(h) /\ tried' = [tried EXCEPT ![idx] = cfg]
    BY <1>3 DEF ReloadSucceeds, Reloading
  <2>3. UNCHANGED <<version, cfg, allClosed>>
    BY <1>3 DEF ReloadSucceeds, shutdown
  <2>. QED BY <2>1, <2>2, <2>3, AdvanceIsFresh
<1>4. ASSUME NEW h \in Handlers, ReloadFails(h) PROVE FreshInv'
  <2>1. ~allClosed => \A m \in Mods : runs'[m] \in {lastGood'[m], Broken}
    BY <1>4 DEF ReloadFails, FreshInv, TypeOK
  <2>2. CASE Advance(h)
    <3>1. Reloading(h) /\ tried' = [tried EXCEPT ![idx] = cfg]
      BY <1>4 DEF ReloadFails, Reloading
    <3>2. UNCHANGED <<version, cfg, allClosed>>
      BY <1>4 DEF ReloadFails, shutdown
    <3>. QED BY <2>1, <2>2, <3>1, <3>2, AdvanceIsFresh
  <2>3. CASE hpc' = [hpc EXCEPT ![h] = "rollback"] /\ UNCHANGED <<idx, reloadMu>>
    <3>1. \A g \in Handlers : hpc'[g] = "lock" <=> hpc[g] = "lock"
      BY <1>4, <2>3 DEF ReloadFails, TypeOK
    <3>2. reloadMu = h
      BY <1>4 DEF ReloadFails, ReloadInv, Reloading
    <3>. QED BY <1>4, <2>1, <2>3, <3>1, <3>2 DEF ReloadFails, FreshInv, TypeOK, shutdown
  <2>. QED BY <1>4, <2>2, <2>3 DEF ReloadFails
<1>5. ASSUME NEW h \in Handlers, Rollback(h) PROVE FreshInv'
  <2>1. ~allClosed => \A m \in Mods : runs'[m] \in {lastGood'[m], Broken}
    BY <1>5 DEF Rollback, Applied, FreshInv, ShutdownInv, TypeOK
  <2>2. tried[idx] = cfg
    BY <1>5 DEF Rollback, ReloadInv
  <2>. QED BY <1>5, <2>1, <2>2, AdvanceIsFresh DEF Rollback, Reloading, shutdown
<1>6. CASE (\E m \in Mods : Report(m)) \/ WindowFlush \/ \E w \in Ways : Leave(w)
  BY <1>6 DEF Report, WindowFlush, Leave, reload, shutdown, FreshInv
<1>7. CASE Drained \/ CloseStore \/ CloseAllBegin
  BY <1>7 DEF Drained, CloseStore, CloseAllBegin, reload, FreshInv
<1>8. CASE CloseModule
  BY <1>8 DEF CloseModule, reload, FreshInv
<1>9. CASE UNCHANGED vars
  BY <1>9 DEF vars, FreshInv
<1>. QED BY <1>1, <1>2, <1>3, <1>4, <1>5, <1>6, <1>7, <1>8, <1>9, <1>10
         DEF Next, Reload, Exit

LEMMA ShutdownStep == IInv /\ TypeOK' /\ [Next]_vars => ShutdownInv'
<1>. SUFFICES ASSUME IInv, TypeOK', [Next]_vars PROVE ShutdownInv'
  OBVIOUS
<1>. USE Constants DEF IInv, TypeOK, ShutdownInv
<1>1. ASSUME NEW h \in Handlers, Save(h) PROVE ShutdownInv'
  <2>1. \A g \in Handlers : Applying(g)' <=> Applying(g)
    BY <1>1 DEF Save, Applying
  <2>. QED BY <1>1, <2>1 DEF Save, shutdown
<1>9. ASSUME NEW h \in Handlers, Lock(h) PROVE ShutdownInv'
  <2>1. \A g \in Handlers : ~Applying(g)
    BY <1>9, Constants DEF Lock, ReloadInv, Reloading, Applying
  <2>2. \A g \in Handlers : ~Applying(g)'
    BY <1>9, <2>1 DEF Lock, Release, Applying
  <2>3. UNCHANGED <<seen, runs, shutdown>>
    BY <1>9 DEF Lock
  <2>. QED BY <2>2, <2>3 DEF shutdown
<1>10. ASSUME NEW h \in Handlers, Look(h) PROVE ShutdownInv'
  <2>1. UNCHANGED <<idx, runs, shutdown>>
    BY <1>10 DEF Look
  <2>2. seen' = (idx \in Guarded \cup Looking /\ modClosed[idx])
    BY <1>10 DEF Look
  <2>3. seen' => allClosed
    BY <2>2
  <2>4. idx \in Guarded => (seen' <=> modClosed[idx])
    BY <2>2
  <2>. QED BY <2>1, <2>3, <2>4 DEF shutdown
<1>2. ASSUME NEW h \in Handlers, ReloadSucceeds(h) \/ ReloadFails(h) \/ Rollback(h)
      PROVE  ShutdownInv'
  <2>1. UNCHANGED <<seen, shutdown>>
    BY <1>2 DEF ReloadSucceeds, ReloadFails, Rollback
  <2>3. Applying(h) /\ \A g \in Handlers \ {h} : ~Applying(g)
    BY <1>2 DEF ReloadSucceeds, ReloadFails, Rollback, Applying, ReloadInv, Reloading
  <2>4. \A g \in Handlers : ~Applying(g)'
    <3>1. Advance(h) \/ hpc' = [hpc EXCEPT ![h] = "rollback"]
      BY <1>2 DEF ReloadSucceeds, ReloadFails, Rollback
    <3>2. hpc'[h] \in {"idle", "reload", "rollback"}
      BY <3>1, AdvanceLemma
    <3>3. \A g \in Handlers \ {h} : hpc'[g] = hpc[g]
      BY <3>1, AdvanceLemma
    <3>. QED BY <2>3, <3>2, <3>3 DEF Applying
  <2>2. \A m \in Guarded : modClosed[m] => runs'[m] = runs[m]
    <3>4. idx \in Guarded => (seen <=> modClosed[idx])
      BY <2>3
    <3>1. CASE ReloadSucceeds(h)
      BY <3>1, <3>4 DEF ReloadSucceeds, Applied
    <3>2. CASE ReloadFails(h)
      BY <3>2, <3>4 DEF ReloadFails
    <3>3. CASE Rollback(h)
      BY <3>3, <3>4 DEF Rollback, Applied
    <3>. QED BY <1>2, <3>1, <3>2, <3>3
  <2>. QED BY <2>1, <2>2, <2>4 DEF shutdown
<1>3. CASE (\E m \in Mods : Report(m)) \/ WindowFlush
  <2>1. UNCHANGED <<runs, reload, shutdown>>
    BY <1>3 DEF Report, WindowFlush
  <2>. QED BY <2>1 DEF reload, shutdown, Applying
<1>4. CASE Drained \/ \E w \in Ways : Leave(w)
  BY <1>4 DEF Drained, Leave, reload, Applying
<1>5. CASE CloseStore
  BY <1>5 DEF CloseStore, reload, Applying
<1>6. CASE CloseAllBegin
  BY <1>6 DEF CloseAllBegin, reload, Applying
<1>7. CASE CloseModule
  <2>1. \A m \in Mods : modClosed'[m] = (modClosed[m] \/ m = closing)
    BY <1>7 DEF CloseModule
  <2>2. \A m \in Guarded : modClosed'[m] => runs'[m] = Off
    BY <1>7 DEF CloseModule
  <2>3. closing \in Mods /\ closing' = closing + 1 /\ allClosed'
    BY <1>7 DEF CloseModule
  <2>4. \A m \in Mods : m <= closing => modClosed'[m]
    BY <1>7, <2>1 DEF CloseModule
  <2>7. /\ seen' => allClosed'
        /\ idx' \in Guarded =>
             \A h \in Handlers : Applying(h)' => (seen' <=> modClosed'[idx'])
    <3>1. UNCHANGED <<idx, hpc, seen>> /\ ~Held(closing)
      BY <1>7 DEF CloseModule, reload
    <3>2. idx \in Guarded /\ (\E h \in Handlers : Applying(h)) => idx # closing
      BY <3>1 DEF Held, Applying
    <3>. QED BY <2>1, <2>3, <3>1, <3>2 DEF Applying
  <2>5. CASE closing < N
    BY <1>7, <2>2, <2>3, <2>4, <2>5, <2>7 DEF CloseModule
  <2>6. CASE closing = N
    <3>1. \A m \in Mods : modClosed'[m]
      BY <2>4, <2>6
    <3>. QED BY <1>7, <2>2, <2>3, <2>6, <2>7, <3>1 DEF CloseModule
  <2>. QED BY <2>3, <2>5, <2>6
<1>8. CASE UNCHANGED vars
  BY <1>8 DEF vars, Applying
<1>. QED BY <1>1, <1>2, <1>3, <1>4, <1>5, <1>6, <1>7, <1>8, <1>9, <1>10
         DEF Next, Reload, Exit

-----------------------------------------------------------------------------
LEMMA Invariance == Spec => []IInv
<1>1. IInv /\ [Next]_vars => IInv'
  BY TypeStep, ReloadStep, FreshStep, ShutdownStep DEF IInv
<1>. QED BY InitIInv, <1>1, PTL DEF Spec

\* Every state is of its type: the cursor of a reload stays among the modules,
\* that of CloseAll goes one past the last at most, and a module is given back a
\* configuration only when it has accepted one.
THEOREM TypeCorrect == Spec => []TypeOK
<1>1. IInv => TypeOK
  BY DEF IInv
<1>. QED BY <1>1, Invariance, PTL

\* However many requests save and reload at once, the modules end up with the
\* newest configuration when none is in progress: the promise of ReloadLatest.
THEOREM SettlesFresh == Spec => []QuietIsFresh
<1>1. IInv => QuietIsFresh
  BY Constants DEF IInv, TypeOK, ReloadInv, Reloading, FreshInv, QuietIsFresh, Quiet
<1>. QED BY <1>1, Invariance, PTL

\* A module that looks at its closed flag and starts under the lock its Close
\* takes is down when main is gone, whatever the reloads that were in progress did
\* meanwhile.
THEOREM ClosedIsClosed == Spec => []GuardedStayClosed
<1>1. IInv => GuardedStayClosed
  BY Constants DEF IInv, ShutdownInv, GuardedStayClosed
<1>. QED BY <1>1, Invariance, PTL

\* A module goes forward, except when the reload that took it down is undone.
THEOREM OnlyForward == Spec => NeverBackwards
<1>1. IInv /\ IInv' /\ [Next]_vars =>
        [\A m \in Mods : runs[m] \in Versions /\ runs'[m] \in Versions
                            => runs'[m] >= runs[m]]_vars
  <2>. SUFFICES ASSUME IInv, IInv', [Next]_vars, NEW m \in Mods,
                       runs[m] \in Versions, runs'[m] \in Versions
                PROVE  runs'[m] >= runs[m]
    OBVIOUS
  <2>. USE Constants DEF IInv, TypeOK
  <2>1. CASE \E h \in Handlers : ReloadSucceeds(h)
    BY <2>1 DEF ReloadSucceeds, Applied, ReloadInv, Reloading, UpTo
  <2>2. CASE \E h \in Handlers : ReloadFails(h)
    BY <2>2 DEF ReloadFails
  <2>3. CASE \E h \in Handlers : Rollback(h)
    <3>1. PICK h \in Handlers : Rollback(h)
      BY <2>3
    <3>2. runs[idx] \in {Broken, Off}
      BY <3>1 DEF Rollback, ReloadInv
    <3>3. m # idx => runs'[m] = runs[m]
      BY <3>1 DEF Rollback
    <3>. HIDE DEF IInv, TypeOK
    <3>4. Broken \notin Versions /\ Off \notin Versions /\ runs[m] \in Nat
      BY Constants
    <3>5. m # idx
      BY <3>2, <3>4
    <3>. QED BY <3>3, <3>4, <3>5
  <2>4. CASE CloseModule
    BY <2>4 DEF CloseModule
  <2>5. CASE UNCHANGED runs
    BY <2>5
  <2>. QED BY <2>1, <2>2, <2>3, <2>4, <2>5
           DEF Next, Reload, Exit, Save, Lock, Look, Report, WindowFlush, Leave, Drained,
               CloseStore, CloseAllBegin, vars
<1>. QED BY <1>1, Invariance, PTL DEF Spec, NeverBackwards

\* On the way out of a signal the configuration manager is closed last, so what
\* the modules reported while they were closing is in state.json.
LEMMA ExitSaves == Spec => []SavedInv
<1>1. Init => SavedInv
  BY DEF Init, SavedInv
<1>2. SavedInv /\ [Next]_vars => SavedInv'
  <2>. SUFFICES ASSUME SavedInv, [Next]_vars PROVE SavedInv'
    OBVIOUS
  <2>1. CASE (\E h \in Handlers : Save(h)) \/ Reload
    BY <2>1 DEF Reload, Save, Lock, Look, ReloadSucceeds, ReloadFails, Rollback, shutdown,
                state, SavedInv
  <2>2. CASE (\E m \in Mods : Report(m)) \/ WindowFlush \/ \E w \in Ways : Leave(w)
    BY <2>2 DEF Report, WindowFlush, StoreOpen, Leave, shutdown, SavedInv
  <2>3. CASE Exit \/ UNCHANGED vars
    BY <2>3 DEF Exit, Drained, CloseStore, CloseAllBegin, CloseModule, state, vars,
                SavedInv
  <2>. QED BY <2>1, <2>2, <2>3 DEF Next
<1>. QED BY <1>1, <1>2, PTL DEF Spec

\* When the process only ever leaves by a signal, no report is lost.  A restart
\* closes the store first: that is what the run with "exec" refutes.
THEOREM SignalSavesReports ==
    ASSUME Ways \subseteq {"exit"}
    PROVE  Spec => []ReportsAreSaved
<1>1. Init => way = "exit"
  BY DEF Init
<1>2. way = "exit" /\ [Next]_vars => (way = "exit")'
  BY DEF Next, Reload, Exit, Save, Lock, Look, ReloadSucceeds, ReloadFails, Rollback, Report,
         WindowFlush, Leave, Drained, CloseStore, CloseAllBegin, CloseModule, vars,
         shutdown
<1>3. SavedInv /\ way = "exit" => ReportsAreSaved
  BY DEF SavedInv, ReportsAreSaved
<1>. QED BY <1>1, <1>2, <1>3, ExitSaves, PTL DEF Spec
=============================================================================
