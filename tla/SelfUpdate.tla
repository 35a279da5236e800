----------------------------- MODULE SelfUpdate -----------------------------
(***************************************************************************)
(* The update by an uploaded package: the grants of                        *)
(* internal/server/api_update_auth.go and handleSelfUpdate of api_update.go,*)
(* with the program file, its backup and the process that is replaced.     *)
(*                                                                         *)
(* Version 0 is the program that was installed first, version r what       *)
(* upload r brought.  A package is signed or not, and runs or not.         *)
(***************************************************************************)
EXTENDS Integers, FiniteSets

CONSTANTS
    UpdUploads,      \* uploads
    UpdMaxGrants,    \* bound: passwords checked for a grant
    UpdMaxTroubles   \* bound: failures after the file was replaced

ASSUME UpdAssumption == UpdUploads \subseteq Nat \ {0} /\ IsFiniteSet(UpdUploads)
                        /\ {UpdMaxGrants, UpdMaxTroubles} \subseteq Nat

VARIABLES
    updPolicy,   \* Update settings: a key, unsigned packages allowed, or neither
    updGrant,    \* updateAuthGrants.until of the session
    updLock,     \* selfUpdateMu: who holds it, 0 for nobody
    updUpload,   \* each request in handleSelfUpdate
    updExe,      \* the program file
    updBak,      \* its backup: one version, or none that can be used
    updGranted,  \* grants given (bound)
    updSpent,    \* uploads admitted by a grant (history)
    updTroubles

updVars == <<updPolicy, updGrant, updLock, updUpload, updExe, updBak,
             updGranted, updSpent, updTroubles>>

UpdPolicies == {"key", "unsigned", "closed"}
UpdSteps == {"idle", "asked", "locked", "staged", "passed", "cleared", "backed",
             "renamed", "applied", "over"}
UpdNew == [at |-> "idle", policy |-> "closed", by |-> "none", signed |-> FALSE,
           runs |-> FALSE, old |-> 0]
UpdRuns(v) == v = 0 \/ (v \in UpdUploads /\ updUpload[v].runs)

UpdAt(r, step) == updUpload[r].at = step
UpdGo(r, step) == updUpload' = [updUpload EXCEPT ![r].at = step]

-----------------------------------------------------------------------------
(* Grants and settings. *)

\* handleSelfUpdateAuth, when the password is right.
UpdAuth ==
    /\ updGranted < UpdMaxGrants
    /\ updGranted' = updGranted + 1 /\ updGrant' = TRUE
    /\ UNCHANGED <<updPolicy, updLock, updUpload, updExe, updBak, updSpent, updTroubles>>

\* updateAuthTTL is over.
UpdExpire ==
    /\ updGrant' = FALSE
    /\ UNCHANGED <<updPolicy, updLock, updUpload, updExe, updBak, updGranted,
                   updSpent, updTroubles>>

UpdConfigure ==
    /\ updPolicy' \in UpdPolicies
    /\ UNCHANGED <<updGrant, updLock, updUpload, updExe, updBak, updGranted,
                   updSpent, updTroubles>>

-----------------------------------------------------------------------------
(* handleSelfUpdate. *)

\* The settings are read once; neither key nor switch refuses at once.
UpdAsk(r) ==
    /\ UpdAt(r, "idle") /\ updPolicy # "closed"
    /\ \E signed, runs \in BOOLEAN :
          updUpload' = [updUpload EXCEPT ![r] = [UpdNew EXCEPT !.at = "asked",
              !.policy = updPolicy, !.signed = signed, !.runs = runs]]
    /\ UNCHANGED <<updPolicy, updGrant, updLock, updExe, updBak, updGranted,
                   updSpent, updTroubles>>

\* Mutant of UpdConsumed: a grant is looked at, not taken away.
UpdConsumedKept == updGrant

\* consume leaves no grant behind.
UpdConsumed == FALSE

\* TryLock, and the grant is taken whatever becomes of the upload.
UpdTake(r) ==
    LET by == IF updUpload[r].policy = "key" THEN "signature"
              ELSE IF updGrant THEN "grant" ELSE "password" IN
    /\ UpdAt(r, "asked")
    /\ IF updLock = 0
       THEN /\ updLock' = r /\ updGrant' = UpdConsumed
            /\ updUpload' = [updUpload EXCEPT ![r].at = "locked", ![r].by = by]
            /\ updSpent' = updSpent + IF by = "grant" THEN 1 ELSE 0
       ELSE UpdGo(r, "over") /\ UNCHANGED <<updLock, updGrant, updSpent>>
    /\ UNCHANGED <<updPolicy, updExe, updBak, updGranted, updTroubles>>

\* Every refusal before the file is replaced: password, size, body, package,
\* architecture, signature, mode, smoke test, backup, rename.  The staged file
\* is removed and the lock given back.
UpdDrop(r) ==
    /\ updUpload[r].at \in {"locked", "staged", "passed", "cleared", "backed"}
    /\ UpdGo(r, "over") /\ updLock' = 0
    /\ UNCHANGED <<updPolicy, updGrant, updExe, updBak, updGranted, updSpent,
                   updTroubles>>

UpdSame == UNCHANGED <<updPolicy, updGrant, updGranted, updSpent>>

\* The package is staged in a file of its own; with a key it must be signed.
UpdStage(r) ==
    /\ UpdAt(r, "locked")
    /\ updUpload[r].by = "signature" => updUpload[r].signed
    /\ UpdGo(r, "staged")
    /\ UpdSame /\ UNCHANGED <<updLock, updExe, updBak, updTroubles>>

\* Mutant of UpdSmoke: the candidate is not run before it is installed.
UpdSmokeNot(r) ==
    /\ UpdAt(r, "staged")
    /\ UpdGo(r, "passed")
    /\ UpdSame /\ UNCHANGED <<updLock, updExe, updBak, updTroubles>>

\* smokeTestBinary runs the staged file.
UpdSmoke(r) ==
    /\ UpdAt(r, "staged") /\ updUpload[r].runs
    /\ UpdGo(r, "passed")
    /\ UpdSame /\ UNCHANGED <<updLock, updExe, updBak, updTroubles>>

\* backupExecutable: the last backup goes, then the program is linked or
\* copied under its name.
UpdClearBackup(r) ==
    /\ UpdAt(r, "passed")
    /\ updBak' = {} /\ UpdGo(r, "cleared")
    /\ UpdSame /\ UNCHANGED <<updLock, updExe, updTroubles>>

UpdBackup(r) ==
    /\ UpdAt(r, "cleared")
    /\ updBak' = {updExe}
    /\ updUpload' = [updUpload EXCEPT ![r].at = "backed", ![r].old = updExe]
    /\ UpdSame /\ UNCHANGED <<updLock, updExe, updTroubles>>

UpdRename(r) ==
    /\ UpdAt(r, "backed")
    /\ updExe' = r /\ UpdGo(r, "renamed")
    /\ UpdSame /\ UNCHANGED <<updLock, updBak, updTroubles>>

\* Mutant of UpdRecheck: the lock is given back when the file is in place.
UpdRecheckUnlocks(r) ==
    /\ UpdAt(r, "renamed")
    /\ UpdGo(r, "applied") /\ updLock' = 0
    /\ UpdSame /\ UNCHANGED <<updExe, updBak, updTroubles>>

\* The installed file is run again; from here on the lock is kept.
UpdRecheck(r) ==
    /\ UpdAt(r, "renamed") /\ updUpload[r].runs
    /\ UpdGo(r, "applied")
    /\ UpdSame /\ UNCHANGED <<updLock, updExe, updBak, updTroubles>>

\* It did not run: the backup is renamed over it, or not even that works.
UpdRollBack(r) ==
    /\ UpdAt(r, "renamed")
    /\ UpdGo(r, "over") /\ updLock' = 0
    /\ \/ /\ updTroubles < UpdMaxTroubles /\ updTroubles' = updTroubles + 1
          /\ \E v \in updBak : updExe' = v
          /\ updBak' = {}
       \/ /\ updTroubles + 1 < UpdMaxTroubles /\ updTroubles' = updTroubles + 2
          /\ UNCHANGED <<updExe, updBak>>
    /\ UpdSame

\* The process ends and starts again: 1.5 s after an update, by the restart
\* button or the scheduler at any time, or by a crash.  What was in memory is
\* gone.
UpdRestart ==
    /\ updUpload' = [r \in UpdUploads |->
          IF UpdAt(r, "idle") THEN updUpload[r] ELSE [updUpload[r] EXCEPT !.at = "over"]]
    /\ updLock' = 0 /\ updGrant' = FALSE
    /\ UNCHANGED <<updPolicy, updExe, updBak, updGranted, updSpent, updTroubles>>

UpdInit ==
    /\ updPolicy = "closed"
    /\ updGrant = FALSE
    /\ updLock = 0
    /\ updUpload = [r \in UpdUploads |-> UpdNew]
    /\ updExe = 0
    /\ updBak = {}
    /\ updGranted = 0
    /\ updSpent = 0
    /\ updTroubles = 0

UpdNext ==
    \/ UpdAuth \/ UpdExpire \/ UpdConfigure \/ UpdRestart
    \/ \E r \in UpdUploads :
          \/ UpdAsk(r) \/ UpdTake(r) \/ UpdDrop(r) \/ UpdStage(r) \/ UpdSmoke(r)
          \/ UpdClearBackup(r) \/ UpdBackup(r) \/ UpdRename(r)
          \/ UpdRecheck(r) \/ UpdRollBack(r)

UpdSpec == UpdInit /\ [][UpdNext]_updVars
-----------------------------------------------------------------------------
(* Properties. *)

UpdTypeOK ==
    /\ updPolicy \in UpdPolicies /\ updGrant \in BOOLEAN
    /\ updLock \in UpdUploads \union {0}
    /\ updUpload \in [UpdUploads ->
          [at : UpdSteps, policy : UpdPolicies, signed : BOOLEAN, runs : BOOLEAN,
           by : {"none", "signature", "grant", "password"}, old : UpdUploads \union {0}]]
    /\ updExe \in UpdUploads \union {0}
    /\ updBak \subseteq UpdUploads \union {0} /\ Cardinality(updBak) <= 1
    /\ updGranted \in 0..UpdMaxGrants /\ updSpent \in 0..UpdMaxGrants
    /\ updTroubles \in 0..UpdMaxTroubles

\* Whenever the process ends, the program file is a version that starts.
UpdStartable == UpdRuns(updExe)

\* An upload that was told the program restarts is what the program restarts
\* as: nobody replaces the file once more in the 1.5 s until then.
UpdPromiseKept == \A r \in UpdUploads : UpdAt(r, "applied") => updExe = r

\* While the new file waits for its second test, and after it, the backup is
\* the version it replaced, and one that starts.
UpdWayBack == \A r \in UpdUploads : updUpload[r].at \in {"renamed", "applied"} =>
                 updBak = {updUpload[r].old} /\ UpdRuns(updUpload[r].old)

\* One password check admits one upload.
UpdGrantOnce == updSpent + (IF updGrant THEN 1 ELSE 0) <= updGranted

\* Uploads, grants and restarts in any order leave a program that starts, a
\* way back, and a promise kept (api_update.go:172-185, 195, 380-437,
\* api_update_auth.go:49-77).
UpdateIsSafe == UpdStartable /\ UpdPromiseKept /\ UpdWayBack /\ UpdGrantOnce
=============================================================================
