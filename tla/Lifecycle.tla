----------------------------- MODULE Lifecycle -----------------------------
(***************************************************************************)
(* The life of the process: the module manager (internal/module), the HTTP *)
(* handlers that save the configuration and reload the modules, and the    *)
(* two ways out of servePanels (cmd/mantou/main.go):                       *)
(*   exit   a signal: the deferred calls of run close the modules, then    *)
(*          the configuration manager;                                     *)
(*   exec   a restart or an update: the configuration manager is closed,   *)
(*          then the modules, and the process image is replaced.           *)
(*                                                                         *)
(* The configuration is its version number; a module runs a version.       *)
(* Modules 1..N are in registration order, the order of reload and close.  *)
(*                                                                         *)
(* A module's Reload looks at its closed flag and then applies what it was *)
(* given, in two steps.  Web services and Wake-on-LAN do both under one    *)
(* lock, which their Close takes as well (Guarded); the webhook listener   *)
(* gives its lock back after the look and starts later (Looking); cron     *)
(* tasks, port forwards, DDNS, certificates and notifications have no flag *)
(* that a reload looks at.                                                 *)
(***************************************************************************)
EXTENDS Naturals, FiniteSets

CONSTANTS
    N,           \* number of modules
    Guarded,     \* modules that look at their flag and apply under one lock
    Looking,     \* modules that look at their flag once, and apply later
    Handlers,    \* requests that change the configuration
    Ways,        \* the ways out considered: "exit", "exec"
    Free,        \* nobody holds reloadMu
    Off,         \* a module that is closed
    Broken,      \* a module whose reload failed and was not rolled back
    None,        \* a module that never accepted a configuration
    MaxVersion,  \* bound: saves
    MaxFails,    \* bound: reloads that fail
    MaxReports   \* bound: runtime states reported by the modules

ASSUME SizeAssumption ==
    N \in Nat \ {0} /\ Guarded \subseteq 1..N /\ Looking \subseteq 1..N
ASSUME WaysAssumption == Ways \subseteq {"exit", "exec"}
ASSUME FreeAssumption == Free \notin Handlers
ASSUME MarksAssumption ==
    {Off, Broken, None} \cap Nat = {} /\ Off # Broken
ASSUME BoundAssumption ==
    MaxVersion \in Nat /\ MaxFails \in Nat /\ MaxReports \in Nat

Mods == 1..N
Versions == 0..MaxVersion
Steps == {"idle", "lock", "reload", "apply", "rollback", "restore"}

VARIABLES
    version,    \* the configuration the manager holds
    hpc,        \* where each handler is
    reloadMu,   \* Manager.reloadMu: its holder, or Free
    cfg, idx,   \* the holder's configuration, and the module it has come to
    seen,       \* what the module's Reload saw of its closed flag
    lastGood,   \* Manager.lastGood
    runs,       \* what each module is running
    tried,      \* the version each module was last given (history)
    allClosed,  \* Manager.closed
    modClosed,  \* the module's own closed flag, once its Close has run
    main, way,  \* where main is, and which way out it takes
    closing,    \* the module CloseAll has come to
    reports, saved,  \* runtime states reported, and in state.json
    fails

vars == <<version, hpc, reloadMu, cfg, idx, seen, lastGood, runs, tried,
          allClosed, modClosed, main, way, closing, reports, saved, fails>>

reload == <<hpc, reloadMu, cfg, idx, seen, lastGood, tried>>
shutdown == <<allClosed, modClosed, main, way, closing>>
state == <<reports, saved>>

-----------------------------------------------------------------------------
(* Reloads. *)

\* A handler saves the configuration, then calls afterChange.
Save(h) ==
    /\ main = "serve" /\ hpc[h] = "idle" /\ version < MaxVersion
    /\ version' = version + 1
    /\ hpc' = [hpc EXCEPT ![h] = "lock"]
    /\ UNCHANGED <<reloadMu, cfg, idx, seen, lastGood, runs, tried, shutdown,
                   state, fails>>

Release(h) ==
    /\ hpc' = [hpc EXCEPT ![h] = "idle"]
    /\ reloadMu' = Free

\* Mutant of Lock: the configuration is read before the lock, and the other
\* handlers have replaced it meanwhile.
LockAfterGet(h) ==
    /\ hpc[h] = "lock" /\ reloadMu = Free /\ ~allClosed
    /\ reloadMu' = h /\ idx' = 1
    /\ cfg' \in {v \in Versions : /\ v <= version
                                 /\ version < v + Cardinality(Handlers)}
    /\ hpc' = [hpc EXCEPT ![h] = "reload"]
    /\ UNCHANGED <<version, seen, lastGood, runs, tried, shutdown, state, fails>>

\* Mutant of Lock: the early return keeps the lock.
LockKept(h) ==
    /\ hpc[h] = "lock" /\ reloadMu = Free
    /\ reloadMu' = h
    /\ cfg' = version /\ idx' = 1
    /\ hpc' = [hpc EXCEPT ![h] = IF allClosed THEN "idle" ELSE "reload"]
    /\ UNCHANGED <<version, seen, lastGood, runs, tried, shutdown, state, fails>>

\* ReloadLatest: the configuration is read under the lock.  After CloseAll
\* nothing is reloaded.
Lock(h) ==
    /\ hpc[h] = "lock" /\ reloadMu = Free
    /\ IF allClosed
       THEN Release(h) /\ UNCHANGED <<cfg, idx>>
       ELSE /\ reloadMu' = h
            /\ cfg' = version /\ idx' = 1
            /\ hpc' = [hpc EXCEPT ![h] = "reload"]
    /\ UNCHANGED <<version, seen, lastGood, runs, tried, shutdown, state, fails>>

\* The module's Reload looks at the flag of its module.
Look(h) ==
    /\ hpc[h] \in {"reload", "rollback"}
    /\ seen' = (idx \in Guarded \cup Looking /\ modClosed[idx])
    /\ hpc' = [hpc EXCEPT ![h] = IF @ = "reload" THEN "apply" ELSE "restore"]
    /\ UNCHANGED <<version, reloadMu, cfg, idx, lastGood, runs, tried, shutdown,
                   state, fails>>

\* A module that was seen closed ignores the configuration and reports success.
Applied(m, v) == IF seen THEN runs[m] ELSE v

\* Mutant of Held: the lock is given back between the look and the start, as the
\* webhook listener does.
HeldBriefly(m) == FALSE

\* The lock of a Guarded module is held from the look to the end of its Reload.
Held(m) ==
    /\ m \in Guarded /\ idx = m
    /\ \E h \in Handlers : hpc[h] \in {"apply", "restore"}

\* Mutant of Advance: one module too many.
AdvanceTooFar(h) ==
    IF idx > N THEN Release(h) /\ UNCHANGED idx
    ELSE idx' = idx + 1 /\ hpc' = [hpc EXCEPT ![h] = "reload"]
         /\ UNCHANGED reloadMu

Advance(h) ==
    IF idx = N THEN Release(h) /\ UNCHANGED idx
    ELSE idx' = idx + 1 /\ hpc' = [hpc EXCEPT ![h] = "reload"]
         /\ UNCHANGED reloadMu

ReloadSucceeds(h) ==
    /\ hpc[h] = "apply"
    /\ runs' = [runs EXCEPT ![idx] = Applied(idx, cfg)]
    /\ lastGood' = [lastGood EXCEPT ![idx] = cfg]
    /\ tried' = [tried EXCEPT ![idx] = cfg]
    /\ Advance(h)
    /\ UNCHANGED <<version, cfg, seen, shutdown, state, fails>>

\* A module that fails is given back its last good configuration, when there is
\* one and it is not the same.
ReloadFails(h) ==
    /\ hpc[h] = "apply" /\ fails < MaxFails /\ ~seen
    /\ fails' = fails + 1
    /\ runs' = [runs EXCEPT ![idx] = Broken]
    /\ tried' = [tried EXCEPT ![idx] = cfg]
    /\ IF lastGood[idx] \in {None, cfg}
       THEN Advance(h)
       ELSE /\ hpc' = [hpc EXCEPT ![h] = "rollback"]
            /\ UNCHANGED <<idx, reloadMu>>
    /\ UNCHANGED <<version, cfg, seen, lastGood, shutdown, state>>

Rollback(h) ==
    /\ hpc[h] = "restore"
    /\ \/ /\ runs' = [runs EXCEPT ![idx] = Applied(idx, lastGood[idx])]
          /\ UNCHANGED fails
       \/ /\ ~seen /\ fails < MaxFails /\ fails' = fails + 1
          /\ UNCHANGED runs
    /\ Advance(h)
    /\ UNCHANGED <<version, cfg, seen, lastGood, tried, shutdown, state>>

-----------------------------------------------------------------------------
(* The runtime state: reported by the goroutines of the modules, written by  *)
(* the merge window until the configuration manager is closed.               *)

Report(m) ==
    /\ main # "gone" /\ runs[m] # Off /\ reports < MaxReports
    /\ reports' = reports + 1
    /\ UNCHANGED <<version, reload, runs, shutdown, saved, fails>>

\* Config.Close has not been called yet.
StoreOpen == \/ main \in {"serve", "drain"}
             \/ main = "modules" /\ way = "exit"

WindowFlush ==
    /\ StoreOpen \/ main = "store"
    /\ saved # reports
    /\ saved' = reports
    /\ UNCHANGED <<version, reload, runs, shutdown, reports, fails>>

-----------------------------------------------------------------------------
(* The way out. *)

\* A signal, or a request for a restart: the HTTP server is shut down ...
Leave(w) ==
    /\ main = "serve"
    /\ main' = "drain" /\ way' = w
    /\ UNCHANGED <<version, reload, runs, allClosed, modClosed, closing, state,
                   fails>>

\* ... which waits for the requests in progress, ten seconds at most.
Drained ==
    /\ main = "drain"
    /\ main' = IF way = "exec" THEN "store" ELSE "modules"
    /\ UNCHANGED <<version, reload, runs, allClosed, modClosed, way, closing,
                   state, fails>>

\* Mutant of CloseStore: the window is stopped, and nothing is flushed.
CloseStoreUnflushed ==
    /\ main = "store"
    /\ main' = IF way = "exec" THEN "modules" ELSE "gone"
    /\ UNCHANGED <<version, reload, runs, allClosed, modClosed, way, closing,
                   state, fails>>

\* Config.Close: the last flush.
CloseStore ==
    /\ main = "store"
    /\ saved' = reports
    /\ main' = IF way = "exec" THEN "modules" ELSE "gone"
    /\ UNCHANGED <<version, reload, runs, allClosed, modClosed, way, closing,
                   reports, fails>>

\* CloseAll: the flag, then the modules one after the other.  It does not take
\* reloadMu.
CloseAllBegin ==
    /\ main = "modules" /\ ~allClosed
    /\ allClosed' = TRUE /\ closing' = 1
    /\ UNCHANGED <<version, reload, runs, modClosed, main, way, state, fails>>

\* The module's Close waits for the lock of a Guarded module, sets its flag and
\* takes down what it runs.
CloseModule ==
    /\ main = "modules" /\ allClosed /\ ~Held(closing)
    /\ runs' = [runs EXCEPT ![closing] = Off]
    /\ modClosed' = [modClosed EXCEPT ![closing] = TRUE]
    /\ closing' = closing + 1
    /\ main' = IF closing < N THEN main
               ELSE IF way = "exec" THEN "gone" ELSE "store"
    /\ UNCHANGED <<version, reload, allClosed, way, state, fails>>

-----------------------------------------------------------------------------
\* main.run has reloaded the modules once; one that failed has nothing to go
\* back to.
Init ==
    /\ version = 0
    /\ hpc = [h \in Handlers |-> "idle"]
    /\ reloadMu = Free /\ cfg = 0 /\ idx = 1 /\ seen = FALSE
    /\ runs \in [Mods -> {0, Broken}]
    /\ lastGood = [m \in Mods |-> IF runs[m] = 0 THEN 0 ELSE None]
    /\ tried = [m \in Mods |-> 0]
    /\ allClosed = FALSE /\ modClosed = [m \in Mods |-> FALSE]
    /\ main = "serve" /\ way = "exit" /\ closing = 1
    /\ reports = 0 /\ saved = 0 /\ fails = 0

Reload == \E h \in Handlers : \/ Lock(h) \/ Look(h) \/ ReloadSucceeds(h)
                              \/ ReloadFails(h) \/ Rollback(h)

Exit == Drained \/ CloseStore \/ CloseAllBegin \/ CloseModule

Next ==
    \/ \E h \in Handlers : Save(h)
    \/ Reload
    \/ \E m \in Mods : Report(m)
    \/ WindowFlush
    \/ \E w \in Ways : Leave(w)
    \/ Exit

\* Requests and main go on, and so does the window; nothing else is owed.
\* sync.Mutex hands reloadMu over in turn (starvation mode).
Spec ==
    /\ Init /\ [][Next]_vars
    /\ \A h \in Handlers : /\ SF_vars(Lock(h))
                           /\ WF_vars(Look(h)) /\ WF_vars(Rollback(h))
                           /\ WF_vars(ReloadSucceeds(h) \/ ReloadFails(h))
    /\ WF_vars(WindowFlush) /\ WF_vars(Exit)

-----------------------------------------------------------------------------
\* Types.  The cursor of a reload never leaves the list of modules.
TypeOK ==
    /\ version \in Versions
    /\ hpc \in [Handlers -> Steps] /\ seen \in BOOLEAN
    /\ reloadMu \in Handlers \cup {Free}
    /\ cfg \in Versions /\ idx \in Mods
    /\ lastGood \in [Mods -> Versions \cup {None}]
    /\ runs \in [Mods -> Versions \cup {Off, Broken}]
    /\ tried \in [Mods -> Versions]
    /\ allClosed \in BOOLEAN /\ modClosed \in [Mods -> BOOLEAN]
    /\ main \in {"serve", "drain", "modules", "store", "gone"}
    /\ way \in {"exit", "exec"} /\ closing \in 1..(N + 1)
    /\ reports \in 0..MaxReports /\ saved \in 0..MaxReports
    /\ fails \in 0..MaxFails

Quiet == \A h \in Handlers : hpc[h] = "idle"

\* Whatever the order in which concurrent saves get to the modules, when no
\* request is in progress every module was given the newest configuration last
\* (the promise of ReloadLatest), and it runs it, or went back to the last one
\* it accepted, or is broken and says so.
QuietIsFresh ==
    ~allClosed /\ Quiet =>
        \A m \in Mods : /\ tried[m] = version
                        /\ runs[m] \in {lastGood[m], Broken}

\* A module is never taken from a configuration to an older one, except by the
\* rollback of a reload that failed.
NeverBackwards ==
    [][\A m \in Mods :
         runs[m] \in Versions /\ runs'[m] \in Versions => runs'[m] >= runs[m]]_vars

\* Once main has closed the modules, those that look at their flag and start
\* under one lock (web services, Wake-on-LAN) stay closed, a reload in progress
\* between the two notwithstanding.
GuardedStayClosed ==
    main = "gone" => \A m \in Guarded : runs[m] = Off

\* main closes the listeners of the web service and of the port forwards before
\* it replaces the process image, so that the new process finds the ports free.
AllStayClosed ==
    main = "gone" => \A m \in Mods : runs[m] = Off

\* A restart loses no runtime state that was reported while the process was
\* still closing its modules.
ReportsAreSaved == main = "gone" => saved = reports

\* A request that saved the configuration is always answered: reloadMu is given
\* back on every path, and reloads in progress do not wait for CloseAll.
SavesReturn == \A h \in Handlers : hpc[h] = "lock" ~> hpc[h] = "idle"
=============================================================================
