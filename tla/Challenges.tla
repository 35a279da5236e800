----------------------------- MODULE Challenges -----------------------------
(***************************************************************************)
(* The TXT records by which issuances prove that a name is theirs: writing *)
(* them, waiting, having them checked, taking them away                    *)
(* (internal/modules/cert/acme.go; SetTXT and RemoveTXT of                 *)
(* internal/dnsprovider/cloudflare.go, aliyun.go, tencent.go, baidu.go and *)
(* godaddy.go).                                                            *)
(*                                                                         *)
(* Several issuances write under the same name: a wildcard and its domain  *)
(* share theirs, and so may two certificates.  The providers differ in how *)
(* they add and remove: "cloudflare" does both under a lock of the         *)
(* process; "finds" (aliyun, tencent, baidu) looks a value up and removes  *)
(* what it found; "godaddy" adds in one request, and to remove a value     *)
(* reads all of them and writes the others back.                           *)
(***************************************************************************)
EXTENDS Integers, Sequences, FiniteSets, SequencesExt

CONSTANTS
    ChlKinds,         \* providers
    ChlJobs,          \* issuances
    ChlValues,        \* the values an issuance has to write, in order
    ChlForeign,       \* a record of somebody else's under the same name
    ChlMaxTroubles    \* bound on requests that fail

\* A value is the digest of one challenge: no two issuances write the same.
ChlTexts == UNION {ToSet(ChlValues[j]) : j \in ChlJobs}

ASSUME ChlAssumption ==
    /\ ChlMaxTroubles \in Nat
    /\ \A j \in ChlJobs : ChlValues[j] \in Seq(ChlTexts)
    /\ \A j, o \in ChlJobs : j # o => ToSet(ChlValues[j]) \intersect ToSet(ChlValues[o]) = {}
    /\ ChlForeign \notin ChlTexts

VARIABLES
    chlKind,      \* the provider of the zone
    chlZone,      \* the values under the name
    chlLock,      \* txtMu: who holds it
    chlJob,       \* every issuance: its place, the values to do, its cleanups
    chlTroubles,
    chlLost       \* what became of values: "missed" by a check, "raced" by a
                  \* write that took another's away or back, "unknown" writes
chlVars == <<chlKind, chlZone, chlLock, chlJob, chlTroubles, chlLost>>

ChlFree == "free"
ChlGo(j, at) == chlJob' = [chlJob EXCEPT ![j].at = at]
ChlValue(j) == Head(chlJob[j].todo)

\* A failed authorization ends an issuance; its cleanups run all the same.
ChlGivesUp(j) == chlJob' = [chlJob EXCEPT ![j].at = "cleans", ![j].todo = <<>>]

\* Only one provider has a lock, which is held for a whole SetTXT or
\* RemoveTXT.
ChlEnter(j) ==
    IF chlKind = "cloudflare" THEN chlLock = ChlFree /\ chlLock' = j ELSE UNCHANGED chlLock
ChlLeave(j) == chlLock' = IF chlLock = j THEN ChlFree ELSE chlLock

ChlChoose(kind) ==
    /\ chlKind = "none" /\ chlKind' = kind
    /\ UNCHANGED <<chlZone, chlLock, chlJob, chlTroubles, chlLost>>

-----------------------------------------------------------------------------
(* SetTXT.                                                                  *)

\* What is there already is not written again.
ChlSetLooks(j) ==
    /\ chlKind # "none" /\ chlJob[j].at = "next" /\ chlJob[j].todo # <<>>
    /\ ChlEnter(j)
    /\ ChlGo(j, IF chlKind # "godaddy" /\ ChlValue(j) \in chlZone THEN "written" ELSE "adds")
    /\ UNCHANGED <<chlKind, chlZone, chlTroubles, chlLost>>

ChlSetAdds(j) ==
    /\ chlJob[j].at = "adds" /\ chlZone' = chlZone \union {ChlValue(j)}
    /\ ChlGo(j, "written")
    /\ UNCHANGED <<chlKind, chlLock, chlTroubles, chlLost>>

\* The write fails, or its answer is lost: either way nobody will clean up.
ChlSetFails(j, done) ==
    /\ chlJob[j].at = "adds" /\ chlTroubles < ChlMaxTroubles
    /\ chlTroubles' = chlTroubles + 1
    /\ chlZone' = IF done THEN chlZone \union {ChlValue(j)} ELSE chlZone
    /\ chlLost' = IF done THEN chlLost \union {"unknown"} ELSE chlLost
    /\ ChlLeave(j) /\ ChlGivesUp(j)
    /\ UNCHANGED chlKind

\* Written: the cleanup is put down, and the issuance waits for the record
\* to be seen.
ChlSetReturns(j) ==
    /\ chlJob[j].at = "written" /\ ChlLeave(j)
    /\ chlJob' = [chlJob EXCEPT ![j].at = "waits", ![j].cleanups = Append(@, ChlValue(j))]
    /\ UNCHANGED <<chlKind, chlZone, chlTroubles, chlLost>>

\* The authority looks for the value.
ChlChecked(j) ==
    /\ chlJob[j].at = "waits"
    /\ IF ChlValue(j) \in chlZone
       THEN /\ chlJob' = [chlJob EXCEPT ![j].todo = Tail(@), ![j].at = "next"]
            /\ UNCHANGED chlLost
       ELSE ChlGivesUp(j) /\ chlLost' = chlLost \union {"missed"}
    /\ UNCHANGED <<chlKind, chlZone, chlLock, chlTroubles>>

\* Every name is proved: the order is finished, one way or the other.
ChlOrdered(j) ==
    /\ chlJob[j].at = "next" /\ chlJob[j].todo = <<>> /\ ChlGo(j, "cleans")
    /\ UNCHANGED <<chlKind, chlZone, chlLock, chlTroubles, chlLost>>

-----------------------------------------------------------------------------
(* RemoveTXT, for every cleanup.                                            *)

ChlCleanup(j) == Head(chlJob[j].cleanups)

ChlRemoveLooks(j) ==
    /\ chlJob[j].at = "cleans" /\ chlJob[j].cleanups # <<>>
    /\ ChlEnter(j)
    /\ chlJob' = [chlJob EXCEPT ![j].at = "removes", ![j].read = chlZone]
    /\ UNCHANGED <<chlKind, chlZone, chlTroubles, chlLost>>

\* Mutant of ChlRest: everything under the name goes.
ChlRestNone(j) == {}

\* What is left by a removal: the others as they were read, or as they are.
ChlRest(j) == (IF chlKind = "godaddy" THEN chlJob[j].read ELSE chlZone) \ {ChlCleanup(j)}

ChlRemoves(j) ==
    /\ chlJob[j].at = "removes"
    /\ chlZone' = IF ChlCleanup(j) \in chlJob[j].read THEN ChlRest(j) ELSE chlZone
    /\ chlLost' = IF chlKind = "godaddy" /\ chlJob[j].read # chlZone
                  THEN chlLost \union {"raced"} ELSE chlLost
    /\ ChlLeave(j)
    /\ chlJob' = [chlJob EXCEPT ![j].at = "cleans", ![j].cleanups = Tail(@), ![j].read = {}]
    /\ UNCHANGED <<chlKind, chlTroubles>>

ChlRemoveFails(j) ==
    /\ chlJob[j].at = "removes" /\ chlTroubles < ChlMaxTroubles
    /\ chlTroubles' = chlTroubles + 1 /\ chlLost' = chlLost \union {"unknown"}
    /\ ChlLeave(j)
    /\ chlJob' = [chlJob EXCEPT ![j].at = "cleans", ![j].cleanups = Tail(@), ![j].read = {}]
    /\ UNCHANGED <<chlKind, chlZone>>

ChlEnds(j) ==
    /\ chlJob[j].at = "cleans" /\ chlJob[j].cleanups = <<>> /\ ChlGo(j, "done")
    /\ UNCHANGED <<chlKind, chlZone, chlLock, chlTroubles, chlLost>>

\* A stop of the process: no cleanup runs.
ChlCrash(j) ==
    /\ chlJob[j].at \notin {"next", "done"} /\ chlTroubles < ChlMaxTroubles
    /\ chlTroubles' = chlTroubles + 1 /\ chlLost' = chlLost \union {"unknown"}
    /\ chlLock' = ChlFree
    /\ chlJob' = [o \in ChlJobs |-> [chlJob[o] EXCEPT !.at = "done", !.read = {}]]
    /\ UNCHANGED <<chlKind, chlZone>>

ChlInit ==
    /\ chlKind = "none" /\ chlZone = {ChlForeign} /\ chlLock = ChlFree
    /\ chlJob = [j \in ChlJobs |-> [at |-> "next", todo |-> ChlValues[j], cleanups |-> <<>>, read |-> {}]]
    /\ chlTroubles = 0 /\ chlLost = {}

ChlNext ==
    \/ \E kind \in ChlKinds : ChlChoose(kind)
    \/ \E j \in ChlJobs :
          \/ ChlSetLooks(j) \/ ChlSetAdds(j) \/ ChlSetReturns(j) \/ ChlChecked(j) \/ ChlOrdered(j)
          \/ ChlRemoveLooks(j) \/ ChlRemoves(j) \/ ChlRemoveFails(j) \/ ChlEnds(j) \/ ChlCrash(j)
          \/ \E done \in BOOLEAN : ChlSetFails(j, done)

-----------------------------------------------------------------------------
ChlDone == \A j \in ChlJobs : chlJob[j].at = "done"

\* Every variable has its type.
ChlTypeOK ==
    /\ chlKind \in ChlKinds \union {"none"} /\ chlLock \in ChlJobs \union {ChlFree}
    /\ chlLost \subseteq {"missed", "raced", "unknown"}
    /\ \A j \in ChlJobs : chlJob[j].at \in {"next", "adds", "written", "waits", "cleans",
                                            "removes", "done"}

\* No issuance fails because another one cleaned up: the value it wrote is
\* there when it is checked.  A record of somebody else's is never touched.
\* When all are over every value that was written is gone again, unless a
\* request failed or the process stopped.  (With "godaddy" all but the
\* foreign record may be disturbed by a removal that overlaps another write.)
ChallengesStand ==
    /\ ChlForeign \in chlZone
    /\ "raced" \notin chlLost => "missed" \notin chlLost
    /\ ChlDone /\ chlLost = {} => chlZone = {ChlForeign}
    /\ ChlDone => chlLock = ChlFree
=============================================================================
