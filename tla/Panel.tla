-------------------------------- MODULE Panel --------------------------------
(***************************************************************************)
(* The components of the panel that share no state, side by side, and what   *)
(* one run asks of them. "focus" chooses the one that moves: the others stay *)
(* in their first state, so that the behaviours are those of each component   *)
(* on its own. Components that do share state are composed in the module that *)
(* models them (Listeners: webhooks and web services; Backup and ConfigImport:*)
(* archives and what changes the files; Bans: lists, bans and saves).         *)
(***************************************************************************)
EXTENDS CertStore, CertIssue, CertRenewal, Sessions, SignIn, SelfUpdate, UpdateCheck, ConfigImport,
        Backup, Settings, Listeners, Probes, WebhookIntake, Forward, Wol, Cron,
        Resources, Ddns, Challenges, Bans, Limiter, SiteRequests, Journal

VARIABLE focus

adminVars == <<certVars, issVars, renVars, sessVars, sgnVars, updVars, chkVars,
             impVars, bkpVars, stgVars>>
servingVars == <<lsnVars, prbVars, denVars, whkVars, fwdVars, fwdConnVars, wolVars,
             wolHandVars, cronVars>>
keepingVars == <<resVars, ddnsVars, chlVars, banVars, limVars, steVars, jrnVars,
             accVars, mtrVars>>
panelVars == <<adminVars, servingVars, keepingVars, focus>>

PanelFoci ==
    {"certificate store", "certificate issues", "certificate renewal", "sessions",
             "sign-in", "setup", "self-update", "update check", "import", "backup",
             "settings", "listeners", "probes", "refusals", "webhooks", "forwards",
             "connections", "wake plans", "wakes by hand", "cron", "resources",
             "dynamic DNS", "challenges", "bans", "limiter", "site requests",
             "log", "access records", "metrics"}

PanelInit ==
    /\ focus \in PanelFoci
    /\ CertInit /\ IssInit /\ RenInit /\ SessInit /\ SgnInit /\ UpdInit
    /\ ChkInit /\ ImpInit /\ BkpInit /\ StgInit /\ LsnInit /\ PrbInit
    /\ DenInit /\ WhkInit /\ FwdInit /\ FwdConnInit /\ WolInit /\ WolHandInit
    /\ CronInit /\ ResInit /\ DdnsInit /\ ChlInit /\ BanInit /\ LimInit
    /\ SteInit /\ JrnInit /\ AccInit /\ MtrInit

\* Nothing moves but the variables of one component.
PanelNext ==
    \/ /\ focus = "certificate store" /\ CertNext
       /\ UNCHANGED <<issVars, renVars, sessVars, sgnVars, updVars, chkVars, impVars,
                       bkpVars, stgVars, servingVars, keepingVars, focus>>
    \/ /\ focus = "certificate issues" /\ IssNext
       /\ UNCHANGED <<certVars, renVars, sessVars, sgnVars, updVars, chkVars, impVars,
                       bkpVars, stgVars, servingVars, keepingVars, focus>>
    \/ /\ focus = "certificate renewal" /\ RenNext
       /\ UNCHANGED <<certVars, issVars, sessVars, sgnVars, updVars, chkVars, impVars,
                       bkpVars, stgVars, servingVars, keepingVars, focus>>
    \/ /\ focus = "sessions" /\ SessNext
       /\ UNCHANGED <<certVars, issVars, renVars, sgnVars, updVars, chkVars, impVars,
                       bkpVars, stgVars, servingVars, keepingVars, focus>>
    \/ /\ focus = "sign-in" /\ SgnNext
       /\ UNCHANGED <<certVars, issVars, renVars, sessVars, updVars, chkVars, impVars,
                       bkpVars, stgVars, servingVars, keepingVars, focus>>
    \/ /\ focus = "setup" /\ SgnSetupNext
       /\ UNCHANGED <<certVars, issVars, renVars, sessVars, updVars, chkVars, impVars,
                       bkpVars, stgVars, servingVars, keepingVars, focus>>
    \/ /\ focus = "self-update" /\ UpdNext
       /\ UNCHANGED <<certVars, issVars, renVars, sessVars, sgnVars, chkVars, impVars,
                       bkpVars, stgVars, servingVars, keepingVars, focus>>
    \/ /\ focus = "update check" /\ ChkNextStep
       /\ UNCHANGED <<certVars, issVars, renVars, sessVars, sgnVars, updVars, impVars,
                       bkpVars, stgVars, servingVars, keepingVars, focus>>
    \/ /\ focus = "import" /\ ImpNext
       /\ UNCHANGED <<certVars, issVars, renVars, sessVars, sgnVars, updVars, chkVars,
                       bkpVars, stgVars, servingVars, keepingVars, focus>>
    \/ /\ focus = "backup" /\ BkpNext
       /\ UNCHANGED <<certVars, issVars, renVars, sessVars, sgnVars, updVars, chkVars,
                       impVars, stgVars, servingVars, keepingVars, focus>>
    \/ /\ focus = "settings" /\ StgNext
       /\ UNCHANGED <<certVars, issVars, renVars, sessVars, sgnVars, updVars, chkVars,
                       impVars, bkpVars, servingVars, keepingVars, focus>>
    \/ /\ focus = "listeners" /\ LsnNext
       /\ UNCHANGED <<adminVars, prbVars, denVars, whkVars, fwdVars, fwdConnVars, wolVars,
                       wolHandVars, cronVars, keepingVars, focus>>
    \/ /\ focus = "probes" /\ PrbNextStep
       /\ UNCHANGED <<adminVars, lsnVars, denVars, whkVars, fwdVars, fwdConnVars, wolVars,
                       wolHandVars, cronVars, keepingVars, focus>>
    \/ /\ focus = "refusals" /\ DenNextStep
       /\ UNCHANGED <<adminVars, lsnVars, prbVars, whkVars, fwdVars, fwdConnVars, wolVars,
                       wolHandVars, cronVars, keepingVars, focus>>
    \/ /\ focus = "webhooks" /\ WhkNext
       /\ UNCHANGED <<adminVars, lsnVars, prbVars, denVars, fwdVars, fwdConnVars, wolVars,
                       wolHandVars, cronVars, keepingVars, focus>>
    \/ /\ focus = "forwards" /\ FwdNext
       /\ UNCHANGED <<adminVars, lsnVars, prbVars, denVars, whkVars, fwdConnVars, wolVars,
                       wolHandVars, cronVars, keepingVars, focus>>
    \/ /\ focus = "connections" /\ FwdConnNext
       /\ UNCHANGED <<adminVars, lsnVars, prbVars, denVars, whkVars, fwdVars, wolVars,
                       wolHandVars, cronVars, keepingVars, focus>>
    \/ /\ focus = "wake plans" /\ WolNext
       /\ UNCHANGED <<adminVars, lsnVars, prbVars, denVars, whkVars, fwdVars, fwdConnVars,
                       wolHandVars, cronVars, keepingVars, focus>>
    \/ /\ focus = "wakes by hand" /\ WolHandNext
       /\ UNCHANGED <<adminVars, lsnVars, prbVars, denVars, whkVars, fwdVars, fwdConnVars,
                       wolVars, cronVars, keepingVars, focus>>
    \/ /\ focus = "cron" /\ CronNextStep
       /\ UNCHANGED <<adminVars, lsnVars, prbVars, denVars, whkVars, fwdVars, fwdConnVars,
                       wolVars, wolHandVars, keepingVars, focus>>
    \/ /\ focus = "resources" /\ ResNext
       /\ UNCHANGED <<adminVars, servingVars, ddnsVars, chlVars, banVars, limVars, steVars,
                       jrnVars, accVars, mtrVars, focus>>
    \/ /\ focus = "dynamic DNS" /\ DdnsNext
       /\ UNCHANGED <<adminVars, servingVars, resVars, chlVars, banVars, limVars, steVars,
                       jrnVars, accVars, mtrVars, focus>>
    \/ /\ focus = "challenges" /\ ChlNext
       /\ UNCHANGED <<adminVars, servingVars, resVars, ddnsVars, banVars, limVars, steVars,
                       jrnVars, accVars, mtrVars, focus>>
    \/ /\ focus = "bans" /\ BanNext
       /\ UNCHANGED <<adminVars, servingVars, resVars, ddnsVars, chlVars, limVars, steVars,
                       jrnVars, accVars, mtrVars, focus>>
    \/ /\ focus = "limiter" /\ LimNext
       /\ UNCHANGED <<adminVars, servingVars, resVars, ddnsVars, chlVars, banVars, steVars,
                       jrnVars, accVars, mtrVars, focus>>
    \/ /\ focus = "site requests" /\ SteNext
       /\ UNCHANGED <<adminVars, servingVars, resVars, ddnsVars, chlVars, banVars, limVars,
                       jrnVars, accVars, mtrVars, focus>>
    \/ /\ focus = "log" /\ JrnNext
       /\ UNCHANGED <<adminVars, servingVars, resVars, ddnsVars, chlVars, banVars, limVars,
                       steVars, accVars, mtrVars, focus>>
    \/ /\ focus = "access records" /\ AccNext
       /\ UNCHANGED <<adminVars, servingVars, resVars, ddnsVars, chlVars, banVars, limVars,
                       steVars, jrnVars, mtrVars, focus>>
    \/ /\ focus = "metrics" /\ MtrNext
       /\ UNCHANGED <<adminVars, servingVars, resVars, ddnsVars, chlVars, banVars, limVars,
                       steVars, jrnVars, accVars, focus>>

PanelSpec == PanelInit /\ [][PanelNext]_panelVars

-----------------------------------------------------------------------------
(* The constants that are functions or sequences.                           *)

PanelSgnAsks == <<<<"ip1", "u1">>, <<"ip1", "u2">>>>
PanelVersions == <<<<"1", "9">>, <<"1", "10">>, <<"1", "10", "9b">>>>
PanelValues == [a |-> <<1, 2>>, b |-> <<3>>]
PanelProvider == <<"aliyun", "godaddy">>
PanelWeights == <<2, 1>>
PanelSizes == [r \in WhkRequests |-> 2]
PanelMissing == {<<1, 2>>}
PanelPlan(on, from, to, every) == [on |-> on, from |-> from, to |-> to, every |-> every]
PanelSchedules == {PanelPlan(FALSE, 0, 0, 1), PanelPlan(TRUE, 0, 3, 1), PanelPlan(TRUE, 1, 3, 2)}
PanelAsks ==
    LET web(on, port, kid) == [has |-> TRUE, on |-> on, port |-> port, kid |-> kid] IN
    {[op |-> "newWeb", it |-> web(TRUE, 1, k)] : k \in BOOLEAN}
    \union {[op |-> "saveWeb", w |-> "w1", it |-> web(TRUE, p, k)] : p \in {1, 2}, k \in BOOLEAN}
    \union {[op |-> o, w |-> "w1", on |-> b] : o \in {"turnWeb", "turnKid"}, b \in BOOLEAN}
    \union {[op |-> o, on |-> b] : o \in {"saveCert", "turnCert", "turnHook"}, b \in BOOLEAN}
    \union {[op |-> o] : o \in {"dropCert", "dropHook", "dropTmpl"}}
    \union {[op |-> "saveHook", it |-> [made |-> TRUE, on |-> TRUE, port |-> 1, https |-> h]]
               : h \in BOOLEAN}
    \union {[op |-> "saveRecv", v |-> "v1", on |-> b, path |-> p] : b \in BOOLEAN, p \in {"v1", "v2"}}
    \union {[op |-> "turnRecv", v |-> "v1", on |-> b] : b \in BOOLEAN}
    \union {[op |-> o, r |-> "r1", v |-> v] : o \in {"addRule", "moveRule"}, v \in {"v1", "v2"}}
    \union {[op |-> "dropWeb", w |-> "w1"], [op |-> "dropRule", r |-> "r1"]}
    \union {[op |-> "saveSecret", typed |-> y] : y \in {"masked", "second"}}

-----------------------------------------------------------------------------
(* What the run asks, each of the component that moves: the others are in   *)
(* their first state, where their own turn begins. The parts are explained   *)
(* in the modules.                                                           *)

\* Every variable has its type.
TypesOK ==
    /\ focus = "certificate store" => CertTypeOK
    /\ focus = "certificate issues" => IssTypeOK
    /\ focus = "certificate renewal" => RenTypeOK
    /\ focus = "sessions" => SessTypeOK
    /\ focus \in {"sign-in", "setup"} => SgnTypeOK
    /\ focus = "self-update" => UpdTypeOK
    /\ focus = "update check" => ChkTypeOK
    /\ focus = "import" => ImpTypeOK
    /\ focus = "backup" => BkpTypeOK
    /\ focus = "settings" => StgTypeOK
    /\ focus = "listeners" => LsnTypeOK
    /\ focus \in {"probes", "refusals"} => PrbTypeOK
    /\ focus = "webhooks" => WhkTypeOK
    /\ focus \in {"forwards", "connections"} => FwdTypeOK
    /\ focus \in {"wake plans", "wakes by hand"} => WolTypeOK
    /\ focus = "cron" => CronTypeOK
    /\ focus = "resources" => ResTypeOK
    /\ focus = "dynamic DNS" => DdnsTypeOK
    /\ focus = "challenges" => ChlTypeOK
    /\ focus = "bans" => BanTypeOK
    /\ focus = "limiter" => LimTypeOK
    /\ focus = "site requests" => SteTypeOK
    /\ focus \in {"log", "access records", "metrics"} => JrnTypeOK

\* Certificates: every served pair is one that was saved and the table of names is the one of the
\* saved pairs; an issuance or renewal ends, as what it was; nothing runs out that could be renewed.
CertificatesHold ==
    /\ focus = "certificate store" => CertStoreConsistent
    /\ focus = "certificate issues" => IssOperationsEnd
    /\ focus = "certificate renewal" => RenewedInTime

\* Access: a session lives exactly as long as its pages and clocks say, and nobody guesses more
\* passwords than the limit allows, in a burst either, nor sets the panel up twice.
AccessHolds ==
    /\ focus = "sessions" => SessionsAsExpected
    /\ focus \in {"sign-in", "setup"} => AttemptsAreCounted

\* Updates: what is put in place is a package that was granted, checked and tried, the way back
\* stays, and the page hears of a version that is newer by its numbers.
UpdatesHold ==
    /\ focus = "self-update" => UpdateIsSafe
    /\ focus = "update check" => UpdatesAreSeen

\* Saves: an import leaves all of itself or nothing, an archive is whole, and the settings in
\* force are the saved ones.
SavesHold ==
    /\ focus = "import" => ImportIsWhole
    /\ focus = "backup" => BackupsHold
    /\ focus = "settings" => SettingsAreInForce

\* Listeners: each port the configuration asks for is served by its owner when a pass is over, and
\* what the page says of a backend is what was found there.
ServersHold ==
    /\ focus = "listeners" => PortsAreServed
    /\ focus \in {"probes", "refusals"} => ProbesAreTrue

\* Webhooks: every message taken in is counted once, as what became of it.
WebhooksHold == focus = "webhooks" => MessagesAreAccounted

\* Forwards: a rule the page shows as running listens, one that does not says why, and no
\* connection outlives its rule or exceeds the limits.
ForwardsHold == focus \in {"forwards", "connections"} => ForwardsAreHonest

\* Tasks: each wake that is due is sent, each run is the one of its task and told as it went.
TasksHold ==
    /\ focus \in {"wake plans", "wakes by hand"} => WakesAreServed
    /\ focus = "cron" => CronIsTrue

\* Resources: what is stored is what the checks allow, unless a request was applied that its own
\* check, made on an older configuration, would refuse by then; no rule or secret of a user is lost
\* but to a save that overlaps; a refused save changes nothing.
StoreHolds == focus = "resources" => ResourcesHold

\* Names: an address taken as written was written, records follow it but after a round that failed
\* at some of them, failures are told, and a challenge is there when it is asked for but where a
\* provider's removal writes the whole record back.
NamesHold ==
    /\ focus = "dynamic DNS" => DdnsIsHonest
    /\ focus = "challenges" => ChallengesStand

\* Sites: sources are kept out as long as they earned, visitors are answered, and no source has
\* more than its limit.
SitesHold ==
    /\ focus = "bans" => BansHold
    /\ focus = "site requests" => VisitorsAreServed
    /\ focus = "limiter" => LimitsHold

\* Records: the log, the access records and the samples show what happened, the latest first.
LogsHold == focus \in {"log", "access records", "metrics"} => RecordsAreTrue
==============================================================================
