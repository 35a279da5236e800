----------------------------- MODULE CertIssue -----------------------------
(***************************************************************************)
(* Issuing certificates (internal/modules/cert/cert.go and acme.go):       *)
(* IssueAsync and issueExclusive, the steps of an ACME order, the statuses *)
(* the panel shows, recoverInterrupted at every Reload, and Close.         *)
(*                                                                         *)
(* All certificates use one ACME account.  IssueStatus and RenewStatus are *)
(* one status: no step reads the one to write the other.  Store.Save is    *)
(* one step that succeeds or fails (its own steps are in CertStore).       *)
(***************************************************************************)
EXTENDS Naturals

CONSTANTS
    IssCerts,       \* certificates
    IssJobs,        \* goroutines of IssueAsync and of the renewal
    IssNoKey,       \* an ACME account that has no private key yet
    IssMaxStarts,   \* bound: issuances
    IssMaxTroubles  \* bound: changes of the configuration, ends of the process

ASSUME IssKeyAssumption == IssNoKey \notin IssJobs
ASSUME IssCertsAssumption == IssCerts # {}
ASSUME IssBoundAssumption == IssMaxStarts \in Nat /\ IssMaxTroubles \in Nat

VARIABLES
    issConf,     \* config: present, and the version of the ACME fields
    issAccount,  \* config: the private key of the ACME account
    issStatus,   \* state: the status of the last operation
    issuing,     \* Module.issuing
    issJob,      \* the goroutines: step, certificate, what issue has read
    issRecover,  \* recoverInterrupted: whether it runs, its copy of issuing
    issClosing,  \* Module.Close: open, waiting, closed, or it gave up waiting
    issTxt,      \* goroutines whose _acme-challenge record is published
    issStarts, issTroubles

issVars == <<issConf, issAccount, issStatus, issuing, issJob, issRecover,
             issClosing, issTxt, issStarts, issTroubles>>
issRest == <<issRecover, issClosing, issStarts, issTroubles>>

IssIdle == [pc |-> "idle", cert |-> CHOOSE c \in IssCerts : TRUE,
            gen |-> 0, key |-> IssNoKey]
IssAt(j, pc) == issJob[j].pc = pc
IssGoto(j, pc) == issJob' = [issJob EXCEPT ![j].pc = pc]
IssTrouble == issTroubles < IssMaxTroubles /\ issTroubles' = issTroubles + 1

-----------------------------------------------------------------------------
(* An issuance. *)

\* updateOperationStatus: a deleted certificate has no status to update.
IssReport(c, state) ==
    issStatus' = IF issConf[c].present THEN [issStatus EXCEPT ![c] = state]
                 ELSE issStatus

\* Mutant of IssBegin: the module may be closing.
IssBeginLate(c) ==
    /\ c \notin issuing
    /\ issuing' = issuing \union {c}

IssBegin(c) ==
    /\ issClosing = "open" /\ c \notin issuing
    /\ issuing' = issuing \union {c}

\* IssueAsync saves the pending status before it starts the goroutine,
\* issueExclusive of the renewal does not.
IssStart(j, c, how) ==
    /\ IssAt(j, "idle") /\ issConf[c].present /\ issStarts < IssMaxStarts
    /\ IssBegin(c)
    /\ issStarts' = issStarts + 1
    /\ issJob' = [issJob EXCEPT ![j] = [IssIdle EXCEPT !.pc = how, !.cert = c]]
    /\ UNCHANGED <<issConf, issAccount, issStatus, issRecover, issClosing,
                   issTxt, issTroubles>>

IssPending(j) ==
    /\ IssAt(j, "pending")
    /\ IssReport(issJob[j].cert, "pending")
    /\ IssGoto(j, "read")
    /\ UNCHANGED <<issConf, issAccount, issuing, issTxt, issRest>>

\* Mutant of IssEnd: the goroutine returns without endIssue.
IssEndForgotten(j) ==
    /\ issJob' = [issJob EXCEPT ![j] = IssIdle]
    /\ UNCHANGED issuing

IssEnd(j) ==
    /\ issuing' = issuing \ {issJob[j].cert}
    /\ issJob' = [issJob EXCEPT ![j] = IssIdle]

\* issue reads the configuration; precheckIssue may refuse it.
IssRead(j) ==
    LET c == issJob[j].cert IN
    /\ IssAt(j, "read")
    /\ \/ /\ issConf[c].present
          /\ IssReport(c, "running")
          /\ issJob' = [issJob EXCEPT ![j].pc = "account",
                           ![j].gen = issConf[c].gen, ![j].key = issAccount]
          /\ UNCHANGED issuing
       \/ IssReport(c, "failed") /\ IssEnd(j)
    /\ UNCHANGED <<issConf, issAccount, issTxt, issRest>>

\* ensureAccountKey: an account without a key gets the one generated here.
IssAccountKey(j) ==
    /\ IssAt(j, "account")
    /\ IF issJob[j].key = IssNoKey
       THEN /\ issAccount' = j
            /\ issJob' = [issJob EXCEPT ![j].pc = "order", ![j].key = j]
       ELSE IssGoto(j, "order") /\ UNCHANGED issAccount
    /\ UNCHANGED <<issConf, issStatus, issuing, issTxt, issRest>>

\* solveAuthz publishes the TXT record and registers its removal.
IssChallenge(j) ==
    /\ IssAt(j, "order") /\ issClosing = "open"
    /\ issTxt' = issTxt \union {j}
    /\ IssGoto(j, "challenge")
    /\ UNCHANGED <<issConf, issAccount, issStatus, issuing, issRest>>

\* Progress is reported all along the order, unconditionally.
IssProgress(j) ==
    /\ IssAt(j, "challenge")
    /\ IssReport(issJob[j].cert, "running")
    /\ IssGoto(j, "verify")
    /\ UNCHANGED <<issConf, issAccount, issuing, issTxt, issRest>>

\* The order ends: the deferred removals run, whatever came of it.  Once
\* Close has cancelled the context it can only fail.
IssOrderEnds(j) ==
    /\ issJob[j].pc \in {"order", "challenge", "verify"}
    /\ issTxt' = issTxt \ {j}
    /\ \/ IssAt(j, "verify") /\ issClosing = "open" /\ IssGoto(j, "validate")
       \/ IssGoto(j, "failed")
    /\ UNCHANGED <<issConf, issAccount, issStatus, issuing, issRest>>

\* validateIssueConfig: what it was issued for must still be configured;
\* then Store.Save.
IssSave(j) ==
    LET c == issJob[j].cert IN
    /\ IssAt(j, "validate")
    /\ \/ /\ issConf[c].present /\ issConf[c].gen = issJob[j].gen
          /\ issAccount = issJob[j].key
          /\ IssGoto(j, "success")
       \/ IssGoto(j, "failed")
    /\ UNCHANGED <<issConf, issAccount, issStatus, issuing, issTxt, issRest>>

\* The outcome is reported, then endIssue.
IssFinish(j) ==
    /\ issJob[j].pc \in {"failed", "success"}
    /\ IssReport(issJob[j].cert, issJob[j].pc)
    /\ IssEnd(j)
    /\ UNCHANGED <<issConf, issAccount, issTxt, issRest>>

-----------------------------------------------------------------------------
(* Reload, the configuration, the shutdown, the end of the process. *)

\* recoverInterrupted copies the set of running issuances ...
IssRecoverCopy ==
    /\ ~issRecover.on
    /\ issRecover' = [on |-> TRUE, busy |-> issuing]
    /\ UNCHANGED <<issConf, issAccount, issStatus, issuing, issJob, issClosing,
                   issTxt, issStarts, issTroubles>>

\* Mutant of IssRecover: what an earlier process left in progress is kept.
IssRecoverNot ==
    /\ issRecover.on
    /\ issRecover' = [on |-> FALSE, busy |-> {}]
    /\ UNCHANGED <<issConf, issAccount, issStatus, issuing, issJob, issClosing,
                   issTxt, issStarts, issTroubles>>

\* ... and marks what is in progress outside that copy.
IssRecover ==
    /\ issRecover.on
    /\ issStatus' = [c \in IssCerts |->
         IF /\ issConf[c].present /\ c \notin issRecover.busy
            /\ issStatus[c] \in {"pending", "running"}
         THEN "failed" ELSE issStatus[c]]
    /\ issRecover' = [on |-> FALSE, busy |-> {}]
    /\ UNCHANGED <<issConf, issAccount, issuing, issJob, issClosing, issTxt,
                   issStarts, issTroubles>>

\* A save that changes the ACME fields, or deletes the certificate.
IssEdit(c, keep) ==
    /\ issConf[c].present /\ IssTrouble
    /\ issConf' = [issConf EXCEPT ![c] = [present |-> keep, gen |-> @.gen + 1]]
    /\ UNCHANGED <<issAccount, issStatus, issuing, issJob, issRecover,
                   issClosing, issTxt, issStarts>>

IssClose ==
    /\ issClosing = "open"
    /\ issClosing' = "waiting"
    /\ UNCHANGED <<issConf, issAccount, issStatus, issuing, issJob, issRecover,
                   issTxt, issStarts, issTroubles>>

\* inflight.Wait, or closeGrace is over.
IssCloseReturns ==
    /\ issClosing = "waiting"
    /\ issClosing' = IF issuing = {} THEN "closed" ELSE "gaveUp"
    /\ UNCHANGED <<issConf, issAccount, issStatus, issuing, issJob, issRecover,
                   issTxt, issStarts, issTroubles>>

\* The process ends; the next one reloads the module before anything else.
IssCrash ==
    /\ IssTrouble
    /\ issuing' = {} /\ issJob' = [j \in IssJobs |-> IssIdle]
    /\ issRecover' = [on |-> TRUE, busy |-> {}]
    /\ issClosing' = "open" /\ issTxt' = {}
    /\ UNCHANGED <<issConf, issAccount, issStatus, issStarts>>

-----------------------------------------------------------------------------
IssInit ==
    /\ issConf = [c \in IssCerts |-> [present |-> TRUE, gen |-> 1]]
    /\ issAccount = IssNoKey
    /\ issStatus = [c \in IssCerts |-> "none"]
    /\ issuing = {}
    /\ issJob = [j \in IssJobs |-> IssIdle]
    /\ issRecover = [on |-> FALSE, busy |-> {}]
    /\ issClosing = "open"
    /\ issTxt = {}
    /\ issStarts = 0 /\ issTroubles = 0

IssJobStep(j) ==
    \/ IssPending(j) \/ IssRead(j) \/ IssAccountKey(j) \/ IssChallenge(j)
    \/ IssProgress(j) \/ IssOrderEnds(j) \/ IssSave(j) \/ IssFinish(j)

IssNext ==
    \/ \E j \in IssJobs, c \in IssCerts, how \in {"pending", "read"} :
          IssStart(j, c, how)
    \/ \E j \in IssJobs : IssJobStep(j)
    \/ IssRecoverCopy \/ IssRecover
    \/ \E c \in IssCerts, keep \in BOOLEAN : IssEdit(c, keep)
    \/ IssClose \/ IssCloseReturns \/ IssCrash

IssSpec == IssInit /\ [][IssNext]_issVars

-----------------------------------------------------------------------------
(* Properties. *)

IssTypeOK ==
    /\ issConf \in [IssCerts -> [present : BOOLEAN, gen : 1..IssMaxTroubles + 1]]
    /\ issAccount \in IssJobs \union {IssNoKey}
    /\ issStatus \in [IssCerts -> {"none", "pending", "running", "failed", "success"}]
    /\ issuing \subseteq IssCerts
    /\ issJob \in [IssJobs -> [pc : {"idle", "pending", "read", "account", "order",
                      "challenge", "verify", "validate", "failed", "success"},
                   cert : IssCerts, gen : 0..IssMaxTroubles + 1,
                   key : IssJobs \union {IssNoKey}]]
    /\ issRecover \in [on : BOOLEAN, busy : SUBSET IssCerts]
    /\ issClosing \in {"open", "waiting", "closed", "gaveUp"}
    /\ issTxt \subseteq IssJobs

IssWorksOn(j, c) == issJob[j].pc # "idle" /\ issJob[j].cert = c

\* At most one goroutine issues a certificate; none stays in progress once
\* nobody works on it, also when the process ended in the middle; and a Close
\* that did not give up leaves no issuance behind and no validation record on
\* the user's domain (cert.go:617-728).
IssOperationsEnd ==
    /\ \A c \in IssCerts :
          /\ \A i, j \in IssJobs : IssWorksOn(i, c) /\ IssWorksOn(j, c) => i = j
          /\ (/\ issConf[c].present /\ ~issRecover.on
              /\ \A j \in IssJobs : ~IssWorksOn(j, c)) =>
                issStatus[c] \notin {"pending", "running"} /\ c \notin issuing
    /\ issClosing = "closed" =>
          issTxt = {} /\ \A j \in IssJobs : IssAt(j, "idle")
=============================================================================
