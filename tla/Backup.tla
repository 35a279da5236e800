-------------------------------- MODULE Backup --------------------------------
(***************************************************************************)
(* The archive of a configuration with its certificates and its background  *)
(* image (internal/server: api_settings.go, config_crypt.go), next to what    *)
(* changes the files it reads: uploads and the removal of an image            *)
(* (api_account.go), saves of the appearance (api_appearance.go), cleaning    *)
(* (api_storage.go), and the import of an archive. What an import does when   *)
(* one of its steps fails is module ConfigImport.                             *)
(***************************************************************************)
EXTENDS Integers, FiniteSets, SequencesExt

CONSTANTS
    BkpImages,      \* the names uploads get
    BkpCerts,       \* certificates
    BkpKeys,        \* account and passphrase of an archive
    BkpJobs,        \* requests that change the image or remove files
    BkpMaxArchives, \* bound: archives made
    BkpMaxImports,  \* bound: imports
    BkpMaxStarts,   \* bound: requests of jobs
    BkpMaxTroubles, \* bound: updates of the configuration that fail
    BkpMaxChanges   \* bound: certificates added, dropped, issued

BkpNoImage == "none"
ASSUME BkpAssumption ==
    /\ BkpNoImage \notin BkpImages
    /\ {BkpMaxArchives, BkpMaxImports, BkpMaxStarts, BkpMaxTroubles, BkpMaxChanges} \subseteq Nat

VARIABLES
    bkpConf,      \* the configuration: image, certs, and gen, the import it is of
    bkpFiles,     \* data/uploads: "unused" (a name not yet given), "part", "whole", "absent"
    bkpPairs,     \* data/certs: the import each pair is of, 0 without one
    bkpUploads,   \* uploads that are being written
    bkpExport,    \* the export that runs
    bkpImport,    \* the import that runs
    bkpJob,       \* the requests
    bkpArchives,  \* the archives made
    bkpCounts,    \* imports, starts, troubles, changes
    \* Bookkeeping of the property.
    bkpLoose      \* the image may be missing: what changes it overlapped or failed half way

bkpVars == <<bkpConf, bkpFiles, bkpPairs, bkpUploads, bkpExport, bkpImport, bkpJob, bkpArchives,
             bkpCounts, bkpLoose>>

BkpNobody == [at |-> "idle", conf |-> [image |-> BkpNoImage, certs |-> {}, gen |-> 1],
              pairs |-> <<>>, mixed |-> FALSE]
BkpNoImport == [at |-> "idle", archive |-> 0, scope |-> {}]
BkpNoJob == [at |-> "idle", kind |-> "save", old |-> BkpNoImage, new |-> BkpNoImage, gone |-> {}]

BkpCount(what) == bkpCounts' = [bkpCounts EXCEPT ![what] = @ + 1]

\* backupMu: one export or one import.
BkpLockFree == bkpExport.at = "idle" /\ bkpImport.at = "idle"

\* A change of the image begins while another runs, or while an archive is made.
BkpBusy == (\E j \in BkpJobs : bkpJob[j].at # "idle") \/ bkpImport.at # "idle"
BkpMeets == bkpExport' = [bkpExport EXCEPT !.mixed = @ \/ bkpExport.at # "idle"]

-----------------------------------------------------------------------------
(* Uploads: writeImagePart writes a file of its own, in parts.              *)

BkpThere == {i \in BkpImages : bkpFiles[i] \in {"part", "whole"}}

BkpUploadBegins(i) ==
    /\ bkpFiles[i] = "unused"
    /\ bkpUploads' = bkpUploads \union {i} /\ bkpFiles' = [bkpFiles EXCEPT ![i] = "part"]
    /\ UNCHANGED <<bkpConf, bkpPairs, bkpExport, bkpImport, bkpJob, bkpArchives, bkpCounts, bkpLoose>>

\* The rest arrives, or it fails and what was written is removed; a file that was moved aside
\* with its directory ends there.
BkpUploadEnds(i) ==
    /\ i \in bkpUploads /\ bkpUploads' = bkpUploads \ {i}
    /\ \E end \in {"whole", "absent"} :
           bkpFiles' = [bkpFiles EXCEPT ![i] = IF @ = "part" THEN end ELSE @]
    /\ UNCHANGED <<bkpConf, bkpPairs, bkpExport, bkpImport, bkpJob, bkpArchives, bkpCounts, bkpLoose>>

-----------------------------------------------------------------------------
(* handleUpdateAppearance, handleDeleteBackground, handleCleanupStorage.    *)

\* Each begins with the snapshot it works on. A page saves an image it shows.
BkpJobBegins(j) ==
    /\ bkpJob[j].at = "idle" /\ bkpCounts.starts < BkpMaxStarts
    /\ \E kind \in {"save", "delete", "clean"} :
       \E new \in {BkpNoImage} \union {i \in BkpImages : bkpFiles[i] = "whole"} :
           /\ kind # "save" => new = BkpNoImage
           /\ bkpJob' = [bkpJob EXCEPT ![j] =
                  [at |-> kind, kind |-> kind, old |-> bkpConf.image, new |-> new,
                   gone |-> IF kind # "clean" THEN {}
                            ELSE BkpThere \ {bkpConf.image}]]
    /\ BkpCount("starts") /\ bkpLoose' = (bkpLoose \/ BkpBusy) /\ BkpMeets
    /\ UNCHANGED <<bkpConf, bkpFiles, bkpPairs, bkpUploads, bkpImport, bkpArchives>>

\* removeBackgroundFile, os.Remove: what is not there is left alone.
BkpRemoved(gone) ==
    [i \in BkpImages |-> IF i \in gone \intersect BkpThere THEN "absent" ELSE bkpFiles[i]]

\* Mutant of BkpSave: the old image is removed also when the configuration kept it.
BkpSaveAnyway(j) ==
    /\ bkpJob[j].at = "save"
    /\ \/ /\ bkpConf' = [bkpConf EXCEPT !.image = bkpJob[j].new] /\ UNCHANGED bkpCounts
       \/ /\ bkpCounts.troubles < BkpMaxTroubles /\ BkpCount("troubles") /\ UNCHANGED bkpConf
    /\ bkpJob' = [bkpJob EXCEPT ![j].at = "old"]
    /\ UNCHANGED <<bkpFiles, bkpPairs, bkpUploads, bkpExport, bkpImport, bkpArchives, bkpLoose>>

\* The configuration first. When that fails the old image stays.
BkpSave(j) ==
    /\ bkpJob[j].at = "save"
    /\ \/ /\ bkpConf' = [bkpConf EXCEPT !.image = bkpJob[j].new]
          /\ bkpJob' = [bkpJob EXCEPT ![j].at = "old"] /\ UNCHANGED bkpCounts
       \/ /\ bkpCounts.troubles < BkpMaxTroubles /\ BkpCount("troubles")
          /\ bkpJob' = [bkpJob EXCEPT ![j] = BkpNoJob] /\ UNCHANGED bkpConf
    /\ UNCHANGED <<bkpFiles, bkpPairs, bkpUploads, bkpExport, bkpImport, bkpArchives, bkpLoose>>

\* Then the file of the old image, when it is another one.
BkpRemoveOld(j) ==
    /\ bkpJob[j].at = "old"
    /\ bkpFiles' = BkpRemoved({bkpJob[j].old} \ {bkpJob[j].new})
    /\ bkpJob' = [bkpJob EXCEPT ![j] = BkpNoJob]
    /\ UNCHANGED <<bkpConf, bkpPairs, bkpUploads, bkpExport, bkpImport, bkpArchives, bkpCounts, bkpLoose>>

\* A removal takes the file first.
BkpDelete(j) ==
    /\ bkpJob[j].at = "delete"
    /\ bkpFiles' = BkpRemoved({bkpJob[j].old}) /\ bkpJob' = [bkpJob EXCEPT ![j].at = "reset"]
    /\ UNCHANGED <<bkpConf, bkpPairs, bkpUploads, bkpExport, bkpImport, bkpArchives, bkpCounts, bkpLoose>>

\* Then the configuration goes back to the default; when that fails it still names the file.
BkpReset(j) ==
    /\ bkpJob[j].at = "reset" /\ bkpJob' = [bkpJob EXCEPT ![j] = BkpNoJob]
    /\ \/ /\ bkpConf' = [bkpConf EXCEPT !.image = BkpNoImage] /\ UNCHANGED <<bkpCounts, bkpLoose>>
       \/ /\ bkpCounts.troubles < BkpMaxTroubles /\ BkpCount("troubles") /\ UNCHANGED bkpConf
          /\ bkpLoose' = TRUE
    /\ UNCHANGED <<bkpFiles, bkpPairs, bkpUploads, bkpExport, bkpImport, bkpArchives>>

\* Cleaning removes what its own scan did not find in use, whatever the page chose of it.
BkpClean(j) ==
    /\ bkpJob[j].at = "clean"
    /\ \E chosen \in SUBSET bkpJob[j].gone : bkpFiles' = BkpRemoved(chosen)
    /\ bkpJob' = [bkpJob EXCEPT ![j] = BkpNoJob]
    /\ UNCHANGED <<bkpConf, bkpPairs, bkpUploads, bkpExport, bkpImport, bkpArchives, bkpCounts, bkpLoose>>

\* Certificates come and go in the configuration, their pairs stay; an issue writes a pair
\* (modules CertStore and CertIssue; not followed while an import runs).
BkpCertChanges(c) ==
    /\ bkpCounts.changes < BkpMaxChanges /\ BkpCount("changes") /\ bkpImport.at = "idle"
    /\ \/ /\ bkpConf' = [bkpConf EXCEPT !.certs = IF c \in @ THEN @ \ {c} ELSE @ \union {c}]
          /\ UNCHANGED bkpPairs
       \/ /\ c \in bkpConf.certs /\ bkpPairs' = [bkpPairs EXCEPT ![c] = bkpConf.gen]
          /\ UNCHANGED bkpConf
    /\ UNCHANGED <<bkpFiles, bkpUploads, bkpExport, bkpImport, bkpJob, bkpArchives, bkpLoose>>

-----------------------------------------------------------------------------
(* handleExportConfig.                                                      *)

\* Mutant of BkpExportBegins: an export does not wait for an import.
BkpExportBeginsFree ==
    /\ bkpExport.at = "idle" /\ Len(bkpArchives) < BkpMaxArchives
    /\ bkpExport' = [at |-> "certs", conf |-> bkpConf, pairs |-> <<>>, mixed |-> BkpBusy]
    /\ UNCHANGED <<bkpConf, bkpFiles, bkpPairs, bkpUploads, bkpImport, bkpJob, bkpArchives, bkpCounts,
                   bkpLoose>>

BkpExportBegins ==
    /\ BkpLockFree /\ Len(bkpArchives) < BkpMaxArchives
    /\ bkpExport' = [at |-> "certs", conf |-> bkpConf, pairs |-> <<>>, mixed |-> BkpBusy \/ bkpLoose]
    /\ UNCHANGED <<bkpConf, bkpFiles, bkpPairs, bkpUploads, bkpImport, bkpJob, bkpArchives, bkpCounts,
                   bkpLoose>>

\* Certificates one after the other; a pair that is not there ends the export.
BkpExportCert ==
    /\ bkpExport.at = "certs"
    /\ \E c \in bkpExport.conf.certs \ {bkpExport.pairs[n].cert : n \in DOMAIN bkpExport.pairs} :
           bkpExport' = IF bkpPairs[c] = 0 THEN BkpNobody
                        ELSE [bkpExport EXCEPT !.pairs = Append(@, [cert |-> c, of |-> bkpPairs[c]])]
    /\ UNCHANGED <<bkpConf, bkpFiles, bkpPairs, bkpUploads, bkpImport, bkpJob, bkpArchives, bkpCounts,
                   bkpLoose>>

\* referencedUploadPaths.
BkpReferenced(conf) == {conf.image} \ {BkpNoImage}

\* EncryptBackup under the key of the account and the passphrase.
BkpSealed(key, conf, pairs, files, mixed) ==
    [key |-> key, conf |-> conf, pairs |-> pairs, files |-> files,
     whole |-> \A i \in files : bkpFiles[i] = "whole", mixed |-> mixed]

\* DecryptBackup.
BkpOpens(archive, key) == archive.key = key

\* validateBackupResources: a pair for each certificate; it asks nothing of the uploads.
BkpComplete(conf, pairs) == {pairs[n].cert : n \in DOMAIN pairs} = conf.certs

\* collectUploadBackups reads every file, those the configuration does not name are left out.
BkpExportEnds(key) ==
    /\ bkpExport.at = "certs" /\ BkpComplete(bkpExport.conf, bkpExport.pairs)
    /\ bkpArchives' = Append(bkpArchives,
           BkpSealed(key, bkpExport.conf, bkpExport.pairs,
                     BkpThere \intersect BkpReferenced(bkpExport.conf), bkpExport.mixed))
    /\ bkpExport' = BkpNobody
    /\ UNCHANGED <<bkpConf, bkpFiles, bkpPairs, bkpUploads, bkpImport, bkpJob, bkpCounts, bkpLoose>>

-----------------------------------------------------------------------------
(* handleImportConfig when no step of it fails.                             *)

BkpImportBegins ==
    /\ BkpLockFree /\ bkpCounts.imports < BkpMaxImports
    /\ \E a \in DOMAIN bkpArchives, key \in BkpKeys, scope \in {{"certs"}, {"certs", "uploads"}} :
           /\ BkpOpens(bkpArchives[a], key)
           /\ BkpComplete(bkpArchives[a].conf, bkpArchives[a].pairs)
           /\ bkpImport' = [at |-> "certs", archive |-> a, scope |-> scope]
           /\ bkpLoose' = (bkpLoose \/ BkpBusy
                              \/ ("uploads" \in scope /\ bkpArchives[a].mixed))
    /\ BkpCount("imports")
    /\ UNCHANGED <<bkpConf, bkpFiles, bkpPairs, bkpUploads, bkpExport, bkpJob, bkpArchives>>

\* The directories of the archive take the place of those in use, certificates first.
BkpImportCerts ==
    /\ bkpImport.at = "certs"
    /\ LET pairs == bkpArchives[bkpImport.archive].pairs IN
           bkpPairs' = [c \in BkpCerts |->
               IF \E n \in DOMAIN pairs : pairs[n].cert = c THEN bkpCounts.imports + 1 ELSE 0]
    /\ bkpImport' = [bkpImport EXCEPT !.at = IF "uploads" \in bkpImport.scope THEN "uploads" ELSE "replace"]
    /\ UNCHANGED <<bkpConf, bkpFiles, bkpUploads, bkpExport, bkpJob, bkpArchives, bkpCounts, bkpLoose>>

\* An archive whose configuration names no image has no list of files: the directory stays.
BkpImportUploads ==
    /\ bkpImport.at = "uploads" /\ bkpImport' = [bkpImport EXCEPT !.at = "replace"]
    /\ bkpFiles' = [i \in BkpImages |->
           IF BkpReferenced(bkpArchives[bkpImport.archive].conf) = {} THEN bkpFiles[i]
           ELSE IF i \in bkpArchives[bkpImport.archive].files THEN "whole"
           ELSE IF bkpFiles[i] = "unused" THEN "unused" ELSE "absent"]
    /\ UNCHANGED <<bkpConf, bkpPairs, bkpUploads, bkpExport, bkpJob, bkpArchives, bkpCounts, bkpLoose>>

\* Then the configuration, as a whole.
BkpImportReplaces ==
    /\ bkpImport.at = "replace" /\ bkpImport' = BkpNoImport
    /\ LET archive == bkpArchives[bkpImport.archive] IN
           bkpConf' = [image |-> IF "uploads" \in bkpImport.scope THEN archive.conf.image
                                                                  ELSE bkpConf.image,
                       certs |-> archive.conf.certs, gen |-> bkpCounts.imports + 1]
    /\ UNCHANGED <<bkpFiles, bkpPairs, bkpUploads, bkpExport, bkpJob, bkpArchives, bkpCounts, bkpLoose>>

-----------------------------------------------------------------------------
BkpInit ==
    /\ bkpConf = [image |-> BkpNoImage, certs |-> {}, gen |-> 1]
    /\ bkpFiles = [i \in BkpImages |-> "unused"] /\ bkpPairs = [c \in BkpCerts |-> 0]
    /\ bkpUploads = {} /\ bkpExport = BkpNobody /\ bkpImport = BkpNoImport
    /\ bkpJob = [j \in BkpJobs |-> BkpNoJob] /\ bkpArchives = <<>>
    /\ bkpCounts = [imports |-> 0, starts |-> 0, troubles |-> 0, changes |-> 0]
    /\ bkpLoose = FALSE

BkpNext ==
    \/ \E i \in BkpImages : BkpUploadBegins(i) \/ BkpUploadEnds(i)
    \/ \E j \in BkpJobs : \/ BkpJobBegins(j) \/ BkpSave(j) \/ BkpRemoveOld(j) \/ BkpDelete(j)
                          \/ BkpReset(j) \/ BkpClean(j)
    \/ \E c \in BkpCerts : BkpCertChanges(c)
    \/ BkpExportBegins \/ BkpExportCert \/ \E key \in BkpKeys : BkpExportEnds(key)
    \/ BkpImportBegins \/ BkpImportCerts \/ BkpImportUploads \/ BkpImportReplaces

BkpSpec == BkpInit /\ [][BkpNext]_bkpVars

-----------------------------------------------------------------------------
\* The variables have their types.
BkpTypeOK ==
    /\ bkpConf.image \in BkpImages \union {BkpNoImage} /\ bkpConf.certs \subseteq BkpCerts
    /\ bkpConf.gen \in 1..(BkpMaxImports + 1)
    /\ bkpFiles \in [BkpImages -> {"unused", "part", "whole", "absent"}]
    /\ bkpPairs \in [BkpCerts -> 0..(BkpMaxImports + 1)] /\ bkpUploads \subseteq BkpImages
    /\ bkpExport.at \in {"idle", "certs"}
    /\ bkpImport.at \in {"idle", "certs", "uploads", "replace"}
    /\ \A j \in BkpJobs : bkpJob[j].at \in {"idle", "save", "delete", "clean", "old", "reset"}
    /\ Len(bkpArchives) <= BkpMaxArchives /\ bkpLoose \in BOOLEAN

\* Every archive is one moment of the panel: each certificate of its configuration comes with a
\* pair of the same import, each file is complete and the configuration names it, and the image
\* the configuration names is in it, unless a change of the image ran into the export.
BkpArchivesAreWhole ==
    \A a \in DOMAIN bkpArchives :
        LET archive == bkpArchives[a] IN
            /\ \A n \in DOMAIN archive.pairs : archive.pairs[n].of = archive.conf.gen
            /\ {archive.pairs[n].cert : n \in DOMAIN archive.pairs} = archive.conf.certs
            /\ archive.whole /\ archive.files \subseteq BkpReferenced(archive.conf)
            /\ ~archive.mixed => BkpReferenced(archive.conf) \subseteq archive.files

\* Between requests the image of the configuration has its file, with uploads and exports at
\* any moment, also after an archive was put back: unless two changes overlapped, a removal
\* failed half way, or the archive was made in the middle of a change.
BkpImageStands ==
    (~bkpLoose /\ ~BkpBusy) => \A i \in BkpReferenced(bkpConf) : bkpFiles[i] = "whole"

\* Archives and images: the two above.
BackupsHold == BkpArchivesAreWhole /\ BkpImageStands
===============================================================================
