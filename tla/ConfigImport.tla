---------------------------- MODULE ConfigImport ----------------------------
(***************************************************************************)
(* The import of a backup (internal/server/api_settings.go,                *)
(* import_scope.go): parts of the configuration and two whole directories  *)
(* change together, with a rollback, a page that clears leftovers          *)
(* (api_storage.go), and a startup that picks up what a crash left         *)
(* (internal/app/reclaim.go).                                              *)
(*                                                                         *)
(* Contents are numbered: 0 is what was there, g what import g brought.    *)
(* References of one number never resolve in another: two machines.        *)
(* backupMu admits one import at a time.                                   *)
(***************************************************************************)
EXTENDS Integers, FiniteSets, Sequences, SequencesExt

CONSTANTS
    ImpScopes,        \* what a user may tick, before the dependencies
    ImpHttps,         \* which of "panel" and "message" use a certificate
    ImpMaxImports,    \* bound
    ImpMaxTroubles,   \* bound: file operations and saves that fail, in one import
    ImpMaxCrashes     \* bound

ImpModules == {"ddns", "webservice", "message", "forward", "wol", "cron", "cert",
               "credential", "globalfirewall", "panel"}

ASSUME ImpAssumption ==
    /\ ImpScopes \subseteq SUBSET ImpModules /\ ImpHttps \subseteq {"panel", "message"}
    /\ {ImpMaxImports, ImpMaxTroubles, ImpMaxCrashes} \subseteq Nat

VARIABLES
    impConf,      \* the configuration, by module
    impDir,       \* the directories certs and uploads, ImpGone when absent
    impOld,       \* what stands beside each as .restore-old-, oldest first
    impAt,        \* where the import is
    impGen,       \* its number
    impTarget,    \* the merged configuration
    impScope,     \* its modules
    impTx,        \* restoreTransaction: the directories it has exchanged
    impSaved,     \* those it moved aside (certOld, uploadOld)
    impTroubles, impCrashes,
    impCut,       \* a crash fell between the directories and the configuration
    impCleared,   \* a cleanup took the saved copy of a directory out of place
    impStuck      \* directories the rollback itself could not put back

impVars == <<impConf, impDir, impOld, impAt, impGen, impTarget, impScope, impTx,
             impSaved, impTroubles, impCrashes, impCut, impCleared, impStuck>>

ImpGone == -1
ImpDirs == {"certs", "uploads"}
ImpOwner == [certs |-> "cert", uploads |-> "panel"]
ImpSteps == {"idle", "move certs", "put certs", "index", "move uploads", "put uploads",
             "replace", "commit", "undo uploads", "back uploads",
             "undo certs", "back certs"}
ImpNeeds(d) == ImpOwner[d] \in impScope

-----------------------------------------------------------------------------
(* importDeps, applyDeps and mergeImportedConfig.                           *)

ImpDeps(m) ==
    CASE m \in {"cert", "ddns"} -> {"credential"}
      [] m \in {"webservice", "message", "panel"} -> {"cert"}
      [] OTHER -> {}

ImpClosure(ticked) ==
    LET round[n \in 0..Cardinality(ImpModules)] ==
            IF n = 0 THEN ticked
            ELSE LET last == round[n - 1] IN last \union UNION {ImpDeps(m) : m \in last}
    IN round[Cardinality(ImpModules)]

ImpMerged(scope, gen) ==
    [m \in ImpModules |-> IF m \in scope THEN gen ELSE impConf[m]]

\* checkImportCertRefs.
ImpRefsHold(conf) == \A m \in ImpHttps : conf[m] = conf["cert"]

-----------------------------------------------------------------------------
(* handleImportConfig and restoreBackupResources.                           *)

ImpKeep == UNCHANGED <<impGen, impTarget, impScope, impCrashes, impCut,
                     impCleared>>
ImpStay == ImpKeep /\ UNCHANGED <<impSaved, impStuck>>

ImpFails == impTroubles < ImpMaxTroubles /\ impTroubles' = impTroubles + 1

ImpBegin ==
    /\ impAt = "idle" /\ impGen < ImpMaxImports
    /\ \E ticked \in ImpScopes :
          LET scope == ImpClosure(ticked) target == ImpMerged(scope, impGen + 1) IN
          /\ ImpRefsHold(target)
          /\ impScope' = scope /\ impTarget' = target
    /\ impGen' = impGen + 1 /\ impTroubles' = 0 /\ impTx' = {} /\ impSaved' = {}
    /\ impAt' = "move certs"
    /\ UNCHANGED <<impConf, impDir, impOld, impCrashes, impCut, impCleared, impStuck>>

ImpNextDir(d) == IF d = "certs" THEN "move uploads" ELSE "replace"
ImpPutOf(d) == IF d = "certs" THEN "put certs" ELSE "put uploads"
ImpMoveOf(d) == IF d = "certs" THEN "move certs" ELSE "move uploads"

\* A directory outside the scope is left alone; else the new one is staged
\* and the one in place moved aside.
ImpMove(d) ==
    /\ impAt = ImpMoveOf(d)
    /\ IF ImpNeeds(d) /\ impDir[d] # ImpGone
       THEN /\ impOld' = [impOld EXCEPT ![d] = Append(@, impDir[d])]
            /\ impDir' = [impDir EXCEPT ![d] = ImpGone]
            /\ impSaved' = impSaved \union {d}
       ELSE UNCHANGED <<impOld, impDir, impSaved>>
    /\ impAt' = IF ImpNeeds(d) THEN ImpPutOf(d) ELSE ImpNextDir(d)
    /\ ImpKeep /\ UNCHANGED <<impConf, impTx, impTroubles, impStuck>>

\* What was exchanged before is put back, uploads first.
ImpUndoFrom(tx) == IF "uploads" \in tx THEN "undo uploads"
                   ELSE IF "certs" \in tx THEN "undo certs" ELSE "idle"

\* Staging or moving aside fails.
ImpMoveFails(d) ==
    /\ impAt = ImpMoveOf(d) /\ ImpNeeds(d) /\ ImpFails
    /\ impAt' = ImpUndoFrom(impTx)
    /\ ImpStay /\ UNCHANGED <<impConf, impDir, impOld, impTx>>

ImpPut(d) ==
    /\ impAt = ImpPutOf(d)
    /\ impDir' = [impDir EXCEPT ![d] = impGen]
    /\ impTx' = impTx \union {d}
    /\ impAt' = IF d = "certs" THEN "index" ELSE "replace"
    /\ ImpStay /\ UNCHANGED <<impConf, impOld, impTroubles>>

\* Mutant of ImpPutFails: the directory moved aside is not moved back.
ImpPutFailsOpen(d) ==
    /\ impAt = ImpPutOf(d) /\ ImpFails
    /\ impAt' = ImpUndoFrom(impTx)
    /\ ImpStay /\ UNCHANGED <<impConf, impTx, impDir, impOld>>

\* The staged directory cannot be put in place: the old one is, if it is
\* still there and can be renamed back.
ImpPutFails(d) ==
    /\ impAt = ImpPutOf(d) /\ ImpFails
    /\ \/ /\ d \in impSaved /\ impOld[d] # <<>>
          /\ impDir' = [impDir EXCEPT ![d] = Last(impOld[d])]
          /\ impOld' = [impOld EXCEPT ![d] = Front(@)]
          /\ UNCHANGED impStuck
       \/ /\ impStuck' = IF d \in impSaved THEN impStuck \union {d} ELSE impStuck
          /\ UNCHANGED <<impDir, impOld>>
    /\ impAt' = ImpUndoFrom(impTx)
    /\ ImpKeep /\ UNCHANGED <<impConf, impTx, impSaved>>

\* Every certificate is saved and indexed once more (Cert.Import).
ImpIndex ==
    /\ impAt = "index"
    /\ \/ impAt' = "move uploads" /\ UNCHANGED impTroubles
       \/ impAt' = "undo certs" /\ ImpFails
    /\ ImpStay /\ UNCHANGED <<impConf, impDir, impOld, impTx>>

\* Config.Replace: all of the configuration or nothing.
ImpReplace ==
    /\ impAt = "replace"
    /\ \/ impConf' = impTarget /\ impAt' = "commit" /\ UNCHANGED impTroubles
       \/ impAt' = ImpUndoFrom(impTx) /\ ImpFails /\ UNCHANGED impConf
    /\ ImpStay /\ UNCHANGED <<impDir, impOld, impTx>>

\* commit removes what was moved aside; one that cannot be removed stays.
ImpCommit ==
    /\ impAt = "commit"
    /\ \E kept \in SUBSET impSaved :
          /\ kept # {} => ImpFails
          /\ kept = {} => UNCHANGED impTroubles
          /\ impOld' = [d \in ImpDirs |-> IF d \in impSaved \ kept /\ impOld[d] # <<>>
                                          THEN Front(impOld[d]) ELSE impOld[d]]
    /\ impAt' = "idle"
    /\ ImpStay /\ UNCHANGED <<impConf, impDir, impTx>>

-----------------------------------------------------------------------------
(* rollback and restoreDirectory.                                           *)

\* The imported directory is renamed out of the way, or else removed ...
ImpUndo(d) ==
    /\ impAt = (IF d = "certs" THEN "undo certs" ELSE "undo uploads")
    /\ impDir' = [impDir EXCEPT ![d] = ImpGone]
    /\ impAt' = IF d = "certs" THEN "back certs" ELSE "back uploads"
    /\ ImpStay /\ UNCHANGED <<impConf, impOld, impTx, impTroubles>>

\* ... then the saved one is renamed back.  When it has been taken away the
\* import stays; when there was none before, nothing does.
ImpBack(d) ==
    /\ impAt = (IF d = "certs" THEN "back certs" ELSE "back uploads")
    /\ IF d \in impSaved /\ impOld[d] # <<>>
       THEN /\ impDir' = [impDir EXCEPT ![d] = Last(impOld[d])]
            /\ impOld' = [impOld EXCEPT ![d] = Front(@)]
       ELSE /\ impDir' = [impDir EXCEPT ![d] = IF d \in impSaved THEN impGen ELSE ImpGone]
            /\ UNCHANGED impOld
    /\ impTx' = impTx \ {d}
    /\ impAt' = ImpUndoFrom(impTx')
    /\ ImpStay /\ UNCHANGED <<impConf, impTroubles>>

\* A directory the rollback cannot put back is given up: the next one is tried.
ImpGivenUp(d) ==
    /\ impStuck' = impStuck \union {d}
    /\ impTx' = impTx \ {d}
    /\ impAt' = ImpUndoFrom(impTx')
    /\ ImpFails /\ ImpKeep /\ UNCHANGED <<impConf, impOld, impSaved>>

\* The imported directory can neither be renamed nor removed.
ImpUndoFails(d) ==
    /\ impAt = (IF d = "certs" THEN "undo certs" ELSE "undo uploads")
    /\ ImpGivenUp(d) /\ UNCHANGED impDir

\* The saved one cannot be renamed back: the imported one is, if it was only
\* renamed and can be renamed again.
ImpBackFails(d) ==
    /\ impAt = (IF d = "certs" THEN "back certs" ELSE "back uploads")
    /\ d \in impSaved /\ ImpGivenUp(d)
    /\ \E left \in {impGen, ImpGone} : impDir' = [impDir EXCEPT ![d] = left]

-----------------------------------------------------------------------------
(* The cleanup page, crashes, and the next start.                           *)

\* handleCleanupStorage.  A directory keeps its modification time when it is
\* renamed, so what was moved aside a moment ago is as old as its contents.
ImpCleanup(d) ==
    /\ impOld[d] # <<>>
    /\ impOld' = [impOld EXCEPT ![d] = <<>>]
    /\ impCleared' = (impCleared \/ impAt # "idle" \/ impDir[d] = ImpGone)
    /\ UNCHANGED <<impConf, impDir, impAt, impGen, impTarget, impScope, impTx,
                   impSaved, impTroubles, impCrashes, impCut, impStuck>>

\* Mutant of ImpReclaimed: the oldest is picked up.
ImpReclaimedOldest(d) ==
    IF impDir[d] = ImpGone /\ impOld[d] # <<>>
    THEN [dir |-> Head(impOld[d]), old |-> Tail(impOld[d])]
    ELSE [dir |-> impDir[d], old |-> impOld[d]]

\* ReclaimRestoreLeftovers: only a directory that is missing, the newest.
ImpReclaimed(d) ==
    IF impDir[d] = ImpGone /\ impOld[d] # <<>>
    THEN [dir |-> Last(impOld[d]), old |-> Front(impOld[d])]
    ELSE [dir |-> impDir[d], old |-> impOld[d]]

\* The process ends at any step and starts again.
ImpCrash ==
    /\ impCrashes < ImpMaxCrashes
    /\ impCrashes' = impCrashes + 1
    /\ impDir' = [d \in ImpDirs |-> ImpReclaimed(d).dir]
    /\ impOld' = [d \in ImpDirs |-> ImpReclaimed(d).old]
    /\ impAt' = "idle"
    /\ impCut' = (impCut \/ (impTx # {} /\ impAt \notin {"idle", "commit"}))
    /\ UNCHANGED <<impConf, impGen, impTarget, impScope, impTx, impSaved,
                   impTroubles, impCleared, impStuck>>

ImpInit ==
    /\ impConf = [m \in ImpModules |-> 0]
    /\ impDir = [d \in ImpDirs |-> 0]
    /\ impOld = [d \in ImpDirs |-> <<>>]
    /\ impAt = "idle"
    /\ impGen = 0
    /\ impTarget = impConf
    /\ impScope = {}
    /\ impTx = {} /\ impSaved = {}
    /\ impTroubles = 0 /\ impCrashes = 0
    /\ impCut = FALSE /\ impCleared = FALSE /\ impStuck = {}

ImpNext ==
    \/ ImpBegin \/ ImpIndex \/ ImpReplace \/ ImpCommit \/ ImpCrash
    \/ \E d \in ImpDirs :
          \/ ImpMove(d) \/ ImpMoveFails(d) \/ ImpPut(d) \/ ImpPutFails(d)
          \/ ImpUndo(d) \/ ImpBack(d) \/ ImpUndoFails(d) \/ ImpBackFails(d)
          \/ ImpCleanup(d)

ImpSpec == ImpInit /\ [][ImpNext]_impVars
-----------------------------------------------------------------------------
(* Properties. *)

ImpTypeOK ==
    /\ impConf \in [ImpModules -> 0..ImpMaxImports]
    /\ impTarget \in [ImpModules -> 0..ImpMaxImports]
    /\ impDir \in [ImpDirs -> {ImpGone} \union 0..ImpMaxImports]
    /\ impOld \in [ImpDirs -> Seq(0..ImpMaxImports)]
    /\ impAt \in ImpSteps /\ impGen \in 0..ImpMaxImports
    /\ impScope \subseteq ImpModules /\ impTx \union impSaved \union impStuck \subseteq ImpDirs
    /\ impTroubles \in 0..ImpMaxTroubles /\ impCrashes \in 0..ImpMaxCrashes

\* Whatever fails and wherever the process ends, a directory that is not in
\* its place stands beside it for the next start to pick up, and none is
\* missing once the import is over unless the rollback could not rename it
\* back; a cleanup that takes a saved one away is the exception
\* (api_settings.go:595-757, reclaim.go:43-94).
ImpNothingLost ==
    ~impCleared =>
        \A d \in ImpDirs :
            impDir[d] = ImpGone => /\ impOld[d] # <<>>
                                   /\ impAt = "idle" => d \in impStuck

\* An import that is over changed the configuration and its directories, or
\* neither; a crash between the two and a rollback that fails are the
\* exceptions (api_settings.go:284-358).
ImpAllOrNothing ==
    impAt = "idle" /\ ~impCleared /\ ~impCut =>
        \A d \in ImpDirs \ impStuck : impDir[d] = impConf[ImpOwner[d]]

\* The certificate the panel serves with is always one of the configuration.
ImpCertHolds == ImpRefsHold(impConf)

ImportIsWhole == ImpNothingLost /\ ImpAllOrNothing /\ ImpCertHolds
=============================================================================
