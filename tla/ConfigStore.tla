---------------------------- MODULE ConfigStore ----------------------------
(***************************************************************************)
(* The configuration manager (internal/config: store.go, state.go,         *)
(* secret.go).                                                             *)
(*                                                                         *)
(* One data directory, three files:                                        *)
(*   config.json  every Update rewrites it whole, under the write lock,    *)
(*                before the new configuration becomes visible in memory;  *)
(*                its credentials are sealed with the master key;          *)
(*   master.key   created by the first save that needs it;                 *)
(*   state.json   the runtime state of the items of the configuration,     *)
(*                rewritten at most once per merge window by a timer.      *)
(*                                                                         *)
(* A configuration is abstracted to a set of items Ids: memConf[i] is what *)
(* the administrator set for item i (or NoItem), memRt[i] the runtime      *)
(* state the modules report for it (Zero when there is none, and for an    *)
(* item that does not exist).                                              *)
(***************************************************************************)
EXTENDS Naturals, FiniteSets

CONSTANTS
    Ids,            \* items of the configuration (rules, tasks, certificates)
    Confs,          \* what an administrator can set for an item
    NoItem,         \* the item is not in the configuration
    Rts,            \* runtime states of an item
    Zero,           \* the runtime state an item starts with
    Writers,        \* goroutines that call Update, UpdateState and Replace
    Timers,         \* goroutines that run the callback of the merge window
    Keys, NoKey,    \* master keys, and their absence
    Missing, Torn,  \* a file that does not exist, and one that cannot be read
    Free,           \* nobody holds the lock
    MaxCrashes,     \* bound: ends of the process, clean or not
    MaxFailures     \* bound: failed file operations

ASSUME ItemsAssumption == NoItem \notin Confs /\ Zero \in Rts
ASSUME KeysAssumption == NoKey \notin Keys /\ Keys # {}
ASSUME FilesAssumption == Missing # Torn
                       /\ {Missing, Torn} \cap [Ids -> Rts] = {}
ASSUME BoundsAssumption == MaxCrashes \in Nat /\ MaxFailures \in Nat
ASSUME ProcsAssumption ==
    /\ {"load", "close", Free} \cap (Writers \cup Timers) = {}
    /\ Free \notin {"load", "close"}

VARIABLES
    phase,        \* the process: "down", "loading" or "up"
    memConf, memRt,  \* Manager.cfg, which Snapshot publishes
    box,          \* Manager.box, as the key it was made of
    lock,         \* Manager.mu: its writer, or Free
    pc,           \* where each goroutine that writes the configuration is
    next,         \* the clone the holder of the lock is going to install
    used,         \* items that have existed (a new item gets a random id)
    dirty, timer, closed,   \* stateFlusher.dirty, .timer # nil, .closed
    flushLock,    \* stateFlusher.flushMu: its holder, or Free
    fpc,          \* where each goroutine that flushes is
    shot,         \* the runtime state the holder of flushLock writes
    lastWritten,  \* stateFlusher.lastWritten, or Missing
    config,       \* config.json
    keyFile,      \* master.key
    stateFile,    \* state.json
    crashes, failures

vars == <<phase, memConf, memRt, box, lock, pc, next, used, dirty, timer,
          closed, flushLock, fpc, shot, lastWritten, config, keyFile,
          stateFile, crashes, failures>>

memory == <<memConf, memRt>>
flusher == <<flushLock, fpc, shot, lastWritten>>
window == <<dirty, timer, closed>>
files == <<config, keyFile, stateFile>>
bounds == <<crashes, failures>>

ConfType == [Ids -> Confs \cup {NoItem}]
RtType == [Ids -> Rts]
Flushers == Timers \cup {"close"}
Savers == Writers \cup {"load"}

Empty == [i \in Ids |-> NoItem]
AllZero == [i \in Ids |-> Zero]

\* Mutant of Preserved: a removed item keeps its runtime state.
PreservedWhenRemoved(conf) ==
    [i \in Ids |-> IF memConf[i] = NoItem THEN Zero ELSE memRt[i]]

\* preserveRuntimeState: what an item of the new configuration keeps.  An item
\* that was not there, or is no longer there, has no runtime state.
Preserved(conf) ==
    [i \in Ids |-> IF NoItem \in {conf[i], memConf[i]} THEN Zero ELSE memRt[i]]

\* applyState, on the configuration conf and the content st of state.json.
Applied(conf, st) ==
    [i \in Ids |-> IF conf[i] = NoItem THEN Zero ELSE st[i]]

\* The file operation of the step fails.
Fails == failures < MaxFailures /\ failures' = failures + 1
Succeeds == failures' = failures

-----------------------------------------------------------------------------
(* Updates of the configuration: Update and Replace. *)

\* Update: a clone is changed by the caller, its runtime state is put back.
\* The interface adds one item, or changes or removes one; a new item has an
\* identifier nobody had before (genID).  An unchanged clone is not saved.
Update(w) ==
    /\ phase = "up" /\ lock = Free /\ pc[w] = "idle"
    /\ \E i \in Ids, c \in Confs \cup {NoItem} :
         LET conf == [memConf EXCEPT ![i] = c] IN
           /\ conf # memConf
           /\ memConf[i] = NoItem => i \notin used
           /\ next' = [conf |-> conf, rt |-> Preserved(conf), replace |-> FALSE]
           /\ used' = used \cup {i}
    /\ lock' = w
    /\ pc' = [pc EXCEPT ![w] = "key"]
    /\ UNCHANGED <<phase, memory, box, window, flusher, files, bounds>>

\* Replace, the end of an import: the configuration may bring back an item that
\* was removed, and is saved even when it changes nothing.
Replace(w) ==
    /\ phase = "up" /\ lock = Free /\ pc[w] = "idle"
    /\ \E conf \in ConfType :
         /\ next' = [conf |-> conf, rt |-> Preserved(conf), replace |-> TRUE]
         /\ used' = used \cup {i \in Ids : conf[i] # NoItem}
    /\ lock' = w
    /\ pc' = [pc EXCEPT ![w] = "key"]
    /\ UNCHANGED <<phase, memory, box, window, flusher, files, bounds>>

\* A failed save: Update and Replace return the error and leave the memory as
\* it was.  At start the process ends, except when the save only records a
\* migration, which is done again at the next start.
GiveUp(s) ==
    /\ pc' = [pc EXCEPT ![s] = "idle"]
    /\ lock' = Free
    /\ phase' = IF s # "load" THEN phase
                ELSE IF config.owes = "migration" THEN "up" ELSE "down"

\* Mutant of EnsureKey: the new key is used before it is on the disk.
EnsureKeyInMemory(s) ==
    /\ pc[s] = "key"
    /\ IF box # NoKey THEN box' = box
       ELSE IF keyFile # NoKey THEN box' = keyFile
       ELSE \E k \in Keys : box' = k
    /\ pc' = [pc EXCEPT ![s] = "write"]
    /\ UNCHANGED <<phase, memory, lock, next, used, window, flusher, files,
                   bounds>>

\* boxLocked(true): the key is read, or created and written, before the first
\* configuration sealed with it is.
EnsureKey(s) ==
    /\ pc[s] = "key"
    /\ \/ /\ box # NoKey
          /\ pc' = [pc EXCEPT ![s] = "write"]
          /\ UNCHANGED <<phase, lock, box, keyFile, failures>>
       \/ /\ box = NoKey /\ keyFile # NoKey
          /\ box' = keyFile
          /\ pc' = [pc EXCEPT ![s] = "write"]
          /\ UNCHANGED <<phase, lock, keyFile, failures>>
       \/ /\ box = NoKey /\ keyFile = NoKey /\ Succeeds
          /\ \E k \in Keys : keyFile' = k /\ box' = k
          /\ pc' = [pc EXCEPT ![s] = "write"]
          /\ UNCHANGED <<phase, lock>>
       \/ /\ box = NoKey /\ keyFile = NoKey /\ Fails
          /\ GiveUp(s)
          /\ UNCHANGED <<box, keyFile>>
    /\ UNCHANGED <<memory, next, used, window, flusher, config, stateFile,
                   crashes>>

\* saveConfig: the file without runtime state, sealed, replaced atomically and
\* synced.
OnDisk(conf, key) ==
    [exists |-> TRUE, conf |-> conf, rt |-> AllZero, key |-> key,
     owes |-> "nothing"]

\* Mutant of WriteConfig: the error of the write is not looked at.
WriteConfigUnchecked(s) ==
    /\ pc[s] = "write"
    /\ \/ Succeeds /\ config' = OnDisk(next.conf, box)
       \/ Fails /\ UNCHANGED config
    /\ pc' = [pc EXCEPT ![s] = "commit"]
    /\ UNCHANGED <<phase, memory, box, lock, next, used, window, flusher,
                   keyFile, stateFile, crashes>>

WriteConfig(s) ==
    /\ pc[s] = "write"
    /\ \/ /\ Succeeds
          /\ config' = OnDisk(next.conf, box)
          /\ pc' = [pc EXCEPT ![s] = "commit"]
          /\ UNCHANGED <<phase, lock>>
       \/ Fails /\ GiveUp(s) /\ UNCHANGED config
    /\ UNCHANGED <<memory, box, next, used, window, flusher, keyFile,
                   stateFile, crashes>>

\* The clone becomes the configuration and is published.  Replace marks the
\* runtime state before it lets the lock go.
Commit(s) ==
    /\ pc[s] = "commit"
    /\ memConf' = next.conf /\ memRt' = next.rt
    /\ pc' = [pc EXCEPT ![s] = IF next.replace THEN "mark" ELSE "idle"]
    /\ lock' = IF next.replace THEN lock ELSE Free
    /\ phase' = "up"
    /\ UNCHANGED <<box, next, used, window, flusher, files, bounds>>

-----------------------------------------------------------------------------
(* Updates of the runtime state, and the merge window. *)

\* Mutant of UpdateState: it does not wait for a save in progress.
UpdateStateUnlocked(w) ==
    /\ phase = "up" /\ pc[w] = "idle"
    /\ \E i \in Ids, r \in Rts :
         /\ memConf[i] # NoItem /\ memRt[i] # r
         /\ memRt' = [memRt EXCEPT ![i] = r]
    /\ pc' = [pc EXCEPT ![w] = "mark"]
    /\ UNCHANGED <<phase, memConf, box, lock, next, used, window, flusher,
                   files, bounds>>

\* UpdateState, its locked part: visible at once, marked after the lock is let
\* go.  A report that changes nothing is dropped.
UpdateState(w) ==
    /\ phase = "up" /\ lock = Free /\ pc[w] = "idle"
    /\ \E i \in Ids, r \in Rts :
         /\ memConf[i] # NoItem /\ memRt[i] # r
         /\ memRt' = [memRt EXCEPT ![i] = r]
    /\ pc' = [pc EXCEPT ![w] = "mark"]
    /\ UNCHANGED <<phase, memConf, box, lock, next, used, window, flusher,
                   files, bounds>>

\* Mutant of Mark: no window is started while a flush is in progress.
MarkUnlessFlushing(w) ==
    /\ pc[w] = "mark"
    /\ dirty' = TRUE
    /\ timer' = (timer \/ (~closed /\ flushLock = Free))
    /\ pc' = [pc EXCEPT ![w] = "idle"]
    /\ lock' = IF lock = w THEN Free ELSE lock
    /\ UNCHANGED <<phase, memory, box, next, used, closed, flusher, files,
                   bounds>>

\* markStateDirty: a window already running is reused, and none is started
\* after Close.
Mark(w) ==
    /\ pc[w] = "mark"
    /\ dirty' = TRUE
    /\ timer' = (timer \/ ~closed)
    /\ pc' = [pc EXCEPT ![w] = "idle"]
    /\ lock' = IF lock = w THEN Free ELSE lock
    /\ UNCHANGED <<phase, memory, box, next, used, closed, flusher, files,
                   bounds>>

\* The window ends: the callback forgets the timer, then flushes.
TimerFires(t) ==
    /\ timer /\ fpc[t] = "idle"
    /\ timer' = FALSE
    /\ fpc' = [fpc EXCEPT ![t] = "begin"]
    /\ UNCHANGED <<phase, memory, box, lock, pc, next, used, dirty, closed,
                   flushLock, shot, lastWritten, files, bounds>>

\* Close: no window is started any more, the running one is stopped, and the
\* caller flushes.
Close ==
    /\ phase = "up" /\ ~closed
    /\ closed' = TRUE /\ timer' = FALSE
    /\ fpc' = [fpc EXCEPT !["close"] = "begin"]
    /\ UNCHANGED <<phase, memory, box, lock, pc, next, used, dirty, flushLock,
                   shot, lastWritten, files, bounds>>

\* FlushState: the mark is taken first ...
FlushTake(f) ==
    /\ fpc[f] = "begin" /\ flushLock = Free
    /\ dirty' = FALSE
    /\ flushLock' = IF dirty THEN f ELSE Free
    /\ fpc' = [fpc EXCEPT ![f] = IF dirty THEN "take" ELSE "idle"]
    /\ UNCHANGED <<phase, memory, box, lock, pc, next, used, timer, closed,
                   shot, lastWritten, files, bounds>>

\* Mutant of FlushShot: lastWritten is set before the write.
FlushShotRemembered(f) ==
    /\ fpc[f] = "take"
    /\ shot' = memRt /\ lastWritten' = memRt
    /\ LET same == lastWritten = memRt IN
         /\ fpc' = [fpc EXCEPT ![f] = IF same THEN "idle" ELSE "write"]
         /\ flushLock' = IF same THEN Free ELSE flushLock
    /\ UNCHANGED <<phase, memory, box, lock, pc, next, used, window, files,
                   bounds>>

\* ... then the published configuration is read.  A state equal to the last one
\* written is not written again.
FlushShot(f) ==
    /\ fpc[f] = "take"
    /\ shot' = memRt
    /\ LET same == lastWritten = memRt IN
         /\ fpc' = [fpc EXCEPT ![f] = IF same THEN "idle" ELSE "write"]
         /\ flushLock' = IF same THEN Free ELSE flushLock
    /\ UNCHANGED <<phase, memory, box, lock, pc, next, used, window,
                   lastWritten, files, bounds>>

\* Mutant of FlushWrite: the mark is cleared when the write is done.
FlushWriteClears(f) ==
    /\ fpc[f] = "write" /\ Succeeds
    /\ stateFile' = shot /\ lastWritten' = shot
    /\ dirty' = FALSE
    /\ fpc' = [fpc EXCEPT ![f] = "idle"]
    /\ flushLock' = Free
    /\ UNCHANGED <<phase, memory, box, lock, pc, next, used, timer, closed,
                   shot, config, keyFile, crashes>>

FlushWrite(f) ==
    /\ fpc[f] = "write"
    /\ \/ /\ Succeeds
          /\ stateFile' = shot /\ lastWritten' = shot
          /\ fpc' = [fpc EXCEPT ![f] = "idle"]
          /\ flushLock' = Free
       \/ /\ Fails
          /\ fpc' = [fpc EXCEPT ![f] = "remark"]
          /\ UNCHANGED <<stateFile, lastWritten, flushLock>>
    /\ UNCHANGED <<phase, memory, box, lock, pc, next, used, window, shot,
                   config, keyFile, crashes>>

\* remarkStateDirty: the failed flush puts the mark back, and starts no window.
FlushRemark(f) ==
    /\ fpc[f] = "remark"
    /\ dirty' = TRUE
    /\ fpc' = [fpc EXCEPT ![f] = "idle"]
    /\ flushLock' = Free
    /\ UNCHANGED <<phase, memory, box, lock, pc, next, used, timer, closed,
                   shot, lastWritten, files, bounds>>

-----------------------------------------------------------------------------
(* The start and the end of the process. *)

\* Load, up to the reading of state.json.  Without config.json the default
\* configuration is saved.  A sealed config.json needs the key it was sealed
\* with; without that key the process does not start.
LoadConfig ==
    /\ phase = "down"
    /\ phase' = "loading" /\ lock' = "load"
    /\ \/ /\ ~config.exists
          /\ next' = [conf |-> Empty, rt |-> AllZero, replace |-> FALSE]
          /\ box' = NoKey
          /\ pc' = [pc EXCEPT !["load"] = "key"]
          /\ UNCHANGED memory
       \/ /\ config.exists /\ config.key \in {NoKey, keyFile}
          /\ box' = config.key
          /\ memConf' = config.conf /\ memRt' = config.rt
          /\ pc' = [pc EXCEPT !["load"] = "state"]
          /\ UNCHANGED next
    /\ UNCHANGED <<used, window, flusher, files, bounds>>

\* loadStateLocked: state.json decides; when it is missing or unreadable it is
\* written from what config.json still carries, and a failure is only logged.
\* Then a configuration that owes a save (no JWT secret, or the migration of an
\* old version) is saved.
LoadState ==
    /\ pc["load"] = "state"
    /\ \/ /\ stateFile \in RtType
          /\ memRt' = Applied(memConf, stateFile)
          /\ UNCHANGED <<stateFile, failures>>
       \/ /\ stateFile \notin RtType /\ Succeeds
          /\ stateFile' = memRt
          /\ UNCHANGED memRt
       \/ /\ stateFile \notin RtType /\ Fails
          /\ UNCHANGED <<memRt, stateFile>>
    /\ LET done == config.owes = "nothing" IN
         /\ next' = IF done THEN next
                    ELSE [conf |-> memConf, rt |-> memRt', replace |-> FALSE]
         /\ pc' = [pc EXCEPT !["load"] = IF done THEN "idle" ELSE "key"]
         /\ phase' = IF done THEN "up" ELSE "loading"
         /\ lock' = IF done THEN Free ELSE lock
    /\ UNCHANGED <<memConf, box, used, window, flusher, config, keyFile,
                   crashes>>

\* What the process holds in memory is gone.
MemoryLost ==
    /\ crashes < MaxCrashes /\ crashes' = crashes + 1
    /\ phase' = "down" /\ box' = NoKey /\ lock' = Free
    /\ memConf' = Empty /\ memRt' = AllZero
    /\ pc' = [s \in Savers |-> "idle"]
    /\ next' = [conf |-> Empty, rt |-> AllZero, replace |-> FALSE]
    /\ dirty' = FALSE /\ timer' = FALSE /\ closed' = FALSE
    /\ flushLock' = Free /\ fpc' = [f \in Flushers |-> "idle"]
    /\ shot' = AllZero /\ lastWritten' = Missing
    /\ UNCHANGED <<used, config, keyFile, failures>>

\* The process is killed, or ends: Close has returned by then when the end is
\* clean, but the goroutines of the modules may still be running.
Crash ==
    /\ phase # "down"
    /\ MemoryLost
    /\ UNCHANGED stateFile

\* A power loss.  state.json is written without fsync: its last content may not
\* have reached the disk.  config.json and master.key are synced.
PowerLoss ==
    /\ phase # "down"
    /\ MemoryLost
    /\ stateFile' = Torn

-----------------------------------------------------------------------------
\* A fresh directory, or one of an older version: credentials in plain text,
\* runtime states still in config.json, no state.json.
Fresh == [exists |-> FALSE, conf |-> Empty, rt |-> AllZero, key |-> NoKey,
          owes |-> "nothing"]

Legacy ==
    {[exists |-> TRUE, conf |-> c, rt |-> r, key |-> NoKey, owes |-> o] :
        c \in ConfType, r \in RtType, o \in {"nothing", "jwt", "migration"}}

Init ==
    /\ phase = "down"
    /\ memConf = Empty /\ memRt = AllZero
    /\ box = NoKey /\ lock = Free
    /\ pc = [s \in Savers |-> "idle"]
    /\ next = [conf |-> Empty, rt |-> AllZero, replace |-> FALSE]
    /\ dirty = FALSE /\ timer = FALSE /\ closed = FALSE
    /\ flushLock = Free /\ fpc = [f \in Flushers |-> "idle"]
    /\ shot = AllZero /\ lastWritten = Missing
    /\ config \in {Fresh} \cup {c \in Legacy : c.rt = Applied(c.conf, c.rt)}
    /\ used = {i \in Ids : config.conf[i] # NoItem}
    /\ keyFile = NoKey /\ stateFile = Missing
    /\ crashes = 0 /\ failures = 0

Save == \E s \in Savers : EnsureKey(s) \/ WriteConfig(s) \/ Commit(s)
Flush == \E f \in Flushers : \/ FlushTake(f) \/ FlushShot(f)
                             \/ FlushWrite(f) \/ FlushRemark(f)

Next ==
    \/ \E w \in Writers : \/ Update(w) \/ Replace(w)
                          \/ UpdateState(w) \/ Mark(w)
    \/ Save \/ Flush
    \/ \E t \in Timers : TimerFires(t)
    \/ Close
    \/ LoadConfig \/ LoadState
    \/ Crash \/ PowerLoss

Spec == Init /\ [][Next]_vars

\* What the Go scheduler and the timers guarantee: a started operation goes on,
\* a window that was started ends.  Nobody has to call anything, and nothing has
\* to crash.
Fairness ==
    /\ WF_vars(LoadConfig) /\ WF_vars(LoadState)
    /\ \A s \in Savers : /\ WF_vars(EnsureKey(s)) /\ WF_vars(WriteConfig(s))
                         /\ WF_vars(Commit(s))
    /\ \A w \in Writers : WF_vars(Mark(w))
    /\ WF_vars(\E t \in Timers : TimerFires(t))
    /\ \A f \in Flushers : /\ SF_vars(FlushTake(f)) /\ WF_vars(FlushShot(f))
                           /\ WF_vars(FlushWrite(f)) /\ WF_vars(FlushRemark(f))

LiveSpec == Spec /\ Fairness

-----------------------------------------------------------------------------
\* Types; an item that is not in the configuration has no runtime state (applyState,
\* preserveRuntimeState).
TypeOK ==
    /\ phase \in {"down", "loading", "up"}
    /\ memConf \in ConfType /\ memRt \in RtType
    /\ box \in Keys \cup {NoKey}
    /\ lock \in Savers \cup {Free}
    /\ pc \in [Savers -> {"idle", "state", "key", "write", "commit", "mark"}]
    /\ next \in [conf : ConfType, rt : RtType, replace : BOOLEAN]
    /\ used \subseteq Ids
    /\ dirty \in BOOLEAN /\ timer \in BOOLEAN /\ closed \in BOOLEAN
    /\ flushLock \in Flushers \cup {Free}
    /\ fpc \in [Flushers -> {"idle", "begin", "take", "write", "remark"}]
    /\ shot \in RtType /\ lastWritten \in RtType \cup {Missing}
    /\ config \in [exists : BOOLEAN, conf : ConfType, rt : RtType,
                   key : Keys \cup {NoKey},
                   owes : {"nothing", "jwt", "migration"}]
    /\ keyFile \in Keys \cup {NoKey}
    /\ stateFile \in RtType \cup {Missing, Torn}
    /\ crashes \in 0..MaxCrashes /\ failures \in 0..MaxFailures
    /\ \A i \in Ids : memConf[i] = NoItem => memRt[i] = Zero

\* At every instant, so at every crash, a sealed config.json can be opened: the
\* key it was sealed with is on the disk (boxLocked creates it before the save).
SecretsReadable == config.key \in {NoKey, keyFile}

\* Outside a save, the configuration in memory is the one a restart would load:
\* a failed or interrupted save changes neither, a completed one changes both,
\* whatever the order in which the writers come (Update saves under its lock).
CommittedIsOnDisk ==
    phase = "up" /\ (\A s \in Savers : pc[s] # "commit") =>
        config.exists /\ config.conf = memConf

\* Somebody is still going to write the runtime state of item i.
Owed(i) ==
    \/ dirty
    \/ \E w \in Writers : pc[w] = "mark"
    \/ \E f \in Flushers : \/ fpc[f] \in {"take", "remark"}
                           \/ fpc[f] = "write" /\ shot[i] = memRt[i]

\* No report is forgotten: once state.json exists, an item whose runtime state
\* differs from what the file says is marked, or about to be marked or written
\* (FlushState takes the mark before it reads the configuration, UpdateState
\* publishes the configuration before it sets the mark).
NothingForgotten ==
    phase = "up" /\ stateFile \in RtType =>
        \A i \in Ids :
            \/ NoItem \in {memConf[i], config.conf[i]}
            \/ stateFile[i] = memRt[i]
            \/ Owed(i)

\* lastWritten, which lets a flush be skipped, is the content of state.json.
SkipsOnlyWhatIsWritten == lastWritten \in RtType => stateFile = lastWritten

\* The runtime state of an item that stays belongs to UpdateState: no save of
\* the configuration, however it interleaves with reports, takes one back.
SavesKeepReports ==
    [][phase = "up" /\ phase' = "up" =>
        \A i \in Ids :
            \/ memRt'[i] = memRt[i]
            \/ NoItem \in {memConf[i], memConf'[i]}
            \/ \E w \in Writers : pc[w] = "idle" /\ pc'[w] = "mark"]_vars

\* The runtime state a restart would load for item i.
Loadable(i) == IF stateFile \in RtType THEN stateFile[i] ELSE config.rt[i]

Silent == \A w \in Writers : pc[w] = "idle"

-----------------------------------------------------------------------------
(* What makes the invariants inductive (proved in ConfigStoreProofs). *)

\* Who is inside Manager.mu.
LockInv ==
    /\ \A s \in Savers : pc[s] \in {"state", "key", "write", "commit"} =>
                            lock = s
    /\ \A w \in Writers : pc[w] # "state" /\ (pc[w] # "idle" => phase = "up")
    /\ pc["load"] # "mark"
    /\ phase = "loading" <=> pc["load"] # "idle"
    /\ pc["load"] \in {"key", "write", "commit"} => ~next.replace

\* Who is inside stateFlusher.flushMu.
FlushLockInv ==
    /\ \A f \in Flushers : fpc[f] \in {"take", "write", "remark"} =>
                              flushLock = f
    /\ \A f \in Flushers : fpc[f] # "idle" => phase = "up"
    /\ ~closed => fpc["close"] = "idle"
    /\ phase # "up" => lastWritten = Missing /\ ~timer

KeyInv == config.key \in {NoKey, keyFile} /\ box \in {NoKey, keyFile}

\* config.json, before and after each step of a save.
DiskInv ==
    /\ config.owes # "nothing" => config.exists
    /\ \A s \in Savers : pc[s] = "commit" =>
            config.exists /\ config.conf = next.conf
    /\ pc["load"] = "state" => config.exists
    /\ pc["load"] \in {"state", "key", "write"} /\ config.exists =>
            config.conf = memConf
    /\ pc["load"] \in {"key", "write"} /\ config.exists => next.conf = memConf
    /\ \A i \in Ids : config.conf[i] = NoItem => config.rt[i] = Zero

\* What a save in progress is about to install: the items it keeps have the
\* runtime state they had when it began, which is still the current one.
CloneInv ==
    /\ \A w \in Writers : pc[w] \in {"key", "write", "commit"} =>
            next.rt = Preserved(next.conf)
    /\ pc["load"] \in {"key", "write", "commit"} =>
            \A i \in Ids :
                IF next.conf[i] = NoItem THEN next.rt[i] = Zero
                ELSE /\ next.rt[i] = memRt[i]
                     /\ stateFile \in RtType => stateFile[i] = memRt[i]

\* An item nobody used before, or that an Update is adding, has left no runtime
\* state behind.
FreshItem(i) ==
    \/ i \notin used
    \/ /\ \E w \in Writers : pc[w] \in {"key", "write", "commit"}
       /\ ~next.replace /\ memConf[i] = NoItem /\ next.conf[i] # NoItem

FreshInv ==
    \A i \in Ids : FreshItem(i) =>
        /\ memRt[i] = Zero /\ config.rt[i] = Zero /\ shot[i] = Zero
        /\ stateFile \in RtType => stateFile[i] = Zero

UsedInv ==
    \A i \in Ids : i \notin used =>
        /\ memConf[i] = NoItem /\ config.conf[i] = NoItem
        /\ \A s \in Savers : pc[s] \in {"key", "write", "commit"} =>
                next.conf[i] = NoItem

\* What a flush is about to write is current, or there is a newer mark.
ShotInv ==
    \A f \in Flushers : fpc[f] = "write" =>
        \A i \in Ids :
            \/ NoItem \in {memConf[i], config.conf[i]}
            \/ shot[i] = memRt[i]
            \/ dirty \/ \E w \in Writers : pc[w] = "mark"

IInv ==
    /\ TypeOK /\ LockInv /\ FlushLockInv /\ KeyInv /\ DiskInv /\ CloneInv
    /\ FreshInv /\ UsedInv /\ ShotInv
    /\ CommittedIsOnDisk /\ NothingForgotten /\ SkipsOnlyWhatIsWritten

-----------------------------------------------------------------------------
\* When the callers fall silent and the manager stays open, a restart ends up
\* loading the runtime state that is in memory (markStateDirty: at least one
\* write within a window of the mark).
StateCatchesUp ==
    <>[](Silent /\ phase = "up" /\ ~closed) =>
        <>[](\A i \in Ids : memConf[i] # NoItem => Loadable(i) = memRt[i])

\* The same for the mark alone: it is always taken again.  The comments of
\* FlushState and remarkStateDirty say that a failed flush is retried by a later
\* window, but a failed flush starts no window.
MarkIsServed ==
    <>[](Silent /\ phase = "up" /\ ~closed) => []<>~dirty
=============================================================================
