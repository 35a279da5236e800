----------------------------- MODULE PanelProofs -----------------------------
(***************************************************************************)
(* What the components promise in the panel as a whole: the inductive      *)
(* invariants of their own proofs, carried to PanelSpec, where only the    *)
(* component in focus moves and every other stays where it began.          *)
(***************************************************************************)
EXTENDS Panel, ServingProofs, AdminProofs, KeepingProofs

-----------------------------------------------------------------------------
(* The frame: a step leaves the focus, and moves a component only by a step  *)
(* of its own.                                                               *)

\* Nothing moves the focus.
LEMMA FocusStays ==
    ASSUME [PanelNext]_panelVars
    PROVE  focus' = focus
BY DEF PanelNext, panelVars

\* Forwarding moves by its own steps, or not at all.
LEMMA ForwardFrame ==
    ASSUME [PanelNext]_panelVars, focus \in {"forwards", "connections"}
    PROVE  \/ FwdNext /\ UNCHANGED fwdConnVars
           \/ FwdConnNext /\ UNCHANGED fwdVars
           \/ UNCHANGED <<fwdVars, fwdConnVars>>
<1>1. CASE UNCHANGED panelVars
  BY <1>1 DEF panelVars, servingVars
<1>2. CASE PanelNext
  BY <1>2 DEF PanelNext
<1> QED BY <1>1, <1>2

\* Messages move by the steps of the intake, or not at all.
LEMMA WebhooksFrame ==
    ASSUME [PanelNext]_panelVars, focus = "webhooks"
    PROVE  [WhkNext]_whkVars
<1>1. CASE UNCHANGED panelVars
  BY <1>1 DEF panelVars, servingVars
<1>2. CASE PanelNext
  BY <1>2 DEF PanelNext
<1> QED BY <1>1, <1>2

\* Listeners move by their steps, or not at all.
LEMMA ListenersFrame ==
    ASSUME [PanelNext]_panelVars, focus = "listeners"
    PROVE  [LsnNext]_lsnVars
<1>1. CASE UNCHANGED panelVars
  BY <1>1 DEF panelVars, servingVars
<1>2. CASE PanelNext
  BY <1>2 DEF PanelNext
<1> QED BY <1>1, <1>2

\* The probes and the log of refusals move by their own steps, or not at all.
LEMMA ProbesFrame ==
    ASSUME [PanelNext]_panelVars, focus \in {"probes", "refusals"}
    PROVE  [PrbNextStep]_prbVars /\ [DenNextStep]_denVars
<1>1. CASE UNCHANGED panelVars
  BY <1>1 DEF panelVars, servingVars
<1>2. CASE PanelNext
  BY <1>2 DEF PanelNext
<1> QED BY <1>1, <1>2

\* Resources move by the steps of the requests, or not at all.
LEMMA ResourcesFrame ==
    ASSUME [PanelNext]_panelVars, focus = "resources"
    PROVE  [ResNext]_resVars
<1>1. CASE UNCHANGED panelVars
  BY <1>1 DEF panelVars, keepingVars
<1>2. CASE PanelNext
  BY <1>2 DEF PanelNext
<1> QED BY <1>1, <1>2

\* The records of names move by their own steps, each under its own focus, or not
\* at all.
LEMMA NamesFrame ==
    ASSUME [PanelNext]_panelVars
    PROVE  /\ focus = "dynamic DNS" => [DdnsNext]_ddnsVars
           /\ focus = "challenges" => [ChlNext]_chlVars
<1>1. CASE UNCHANGED panelVars
  BY <1>1 DEF panelVars, keepingVars
<1>2. CASE PanelNext
  BY <1>2 DEF PanelNext
<1> QED BY <1>1, <1>2

\* Saves move by the steps of the import, of the archives and of the settings,
\* each under its own focus, or not at all.
LEMMA SavesFrame ==
    ASSUME [PanelNext]_panelVars
    PROVE  /\ focus = "import" => [ImpNext]_impVars
           /\ focus = "backup" => [BkpNext]_bkpVars
           /\ focus = "settings" => [StgNext]_stgVars
<1>1. CASE UNCHANGED panelVars
  BY <1>1 DEF panelVars, adminVars
<1>2. CASE PanelNext
  BY <1>2 DEF PanelNext
<1> QED BY <1>1, <1>2

\* Sessions move by their own steps, or not at all.
LEMMA SessionsFrame ==
    ASSUME [PanelNext]_panelVars, focus = "sessions"
    PROVE  [SessNext]_sessVars
<1>1. CASE UNCHANGED panelVars
  BY <1>1 DEF panelVars, adminVars
<1>2. CASE PanelNext
  BY <1>2 DEF PanelNext
<1> QED BY <1>1, <1>2

\* And stay what they were while another component moves.
LEMMA SessionsRest ==
    ASSUME [PanelNext]_panelVars, focus # "sessions"
    PROVE  UNCHANGED sessVars
<1>1. CASE UNCHANGED panelVars
  BY <1>1 DEF panelVars, adminVars
<1>2. CASE PanelNext
  BY <1>2 DEF PanelNext, adminVars
<1> QED BY <1>1, <1>2

\* Sign-in and setup move by their own steps, or not at all.
LEMMA SignInFrame ==
    ASSUME [PanelNext]_panelVars, focus \in {"sign-in", "setup"}
    PROVE  [SgnNext \/ SgnSetupNext]_sgnVars
<1>1. CASE UNCHANGED panelVars
  BY <1>1 DEF panelVars, adminVars
<1>2. CASE PanelNext
  BY <1>2 DEF PanelNext
<1> QED BY <1>1, <1>2

\* Certificates move by the steps of the store, of the issuances and of the
\* renewals, each under its own focus, or not at all.
LEMMA CertificatesFrame ==
    ASSUME [PanelNext]_panelVars
    PROVE  /\ focus = "certificate store" => [CertNext]_certVars
           /\ focus = "certificate issues" => [IssNext]_issVars
           /\ focus = "certificate renewal" => [RenNext]_renVars
<1>1. CASE UNCHANGED panelVars
  BY <1>1 DEF panelVars, adminVars
<1>2. CASE PanelNext
  BY <1>2 DEF PanelNext
<1> QED BY <1>1, <1>2

\* Updates move by the steps of the uploads and of the looks, each under its own
\* focus, or not at all.
LEMMA UpdatesFrame ==
    ASSUME [PanelNext]_panelVars
    PROVE  /\ focus = "self-update" => [UpdNext]_updVars
           /\ focus = "update check" => [ChkNextStep]_chkVars
<1>1. CASE UNCHANGED panelVars
  BY <1>1 DEF panelVars, adminVars
<1>2. CASE PanelNext
  BY <1>2 DEF PanelNext
<1> QED BY <1>1, <1>2

\* The lists and bans, the limiter and the requests of visitors move by their own
\* steps, each under its own focus, or not at all.
LEMMA SitesFrame ==
    ASSUME [PanelNext]_panelVars
    PROVE  /\ focus = "bans" => [BanNext]_banVars
           /\ focus = "site requests" => [SteNext]_steVars
           /\ focus = "limiter" => [LimNext]_limVars
<1>1. CASE UNCHANGED panelVars
  BY <1>1 DEF panelVars, keepingVars
<1>2. CASE PanelNext
  BY <1>2 DEF PanelNext
<1> QED BY <1>1, <1>2

\* The plans of wakes, the wakes by hand and the tasks move by their own steps,
\* or not at all.
LEMMA TasksFrame ==
    ASSUME [PanelNext]_panelVars
    PROVE  /\ focus \in {"wake plans", "wakes by hand"} =>
                 [WolNext]_wolVars /\ [WolHandNext]_wolHandVars
           /\ focus = "cron" => [CronNextStep]_cronVars
<1>1. CASE UNCHANGED panelVars
  BY <1>1 DEF panelVars, servingVars
<1>2. CASE PanelNext
  BY <1>2 DEF PanelNext
<1> QED BY <1>1, <1>2

\* The log, the access records and the samples move by their own steps, or not
\* at all.
LEMMA RecordsFrame ==
    ASSUME [PanelNext]_panelVars, focus \in {"log", "access records", "metrics"}
    PROVE  [JrnNext]_jrnVars /\ [AccNext]_accVars /\ [MtrNext]_mtrVars
<1>1. CASE UNCHANGED panelVars
  BY <1>1 DEF panelVars, keepingVars
<1>2. CASE PanelNext
  BY <1>2 DEF PanelNext
<1> QED BY <1>1, <1>2

-----------------------------------------------------------------------------
(* Types: what the invariants of the components leave open of their type    *)
(* invariants, most of it the bounds the runs put on their counters.        *)

\* Sections acted on with an old snapshot are sections.
StgStaleInv == stgStale \subseteq {"cert", "wall", "log", "auth", "listener"}

\* The saves keep them so.
LEMMA StgStaleStep ==
    ASSUME StgStaleInv, [StgNext]_stgVars
    PROVE  StgStaleInv'
<1>1. CASE UNCHANGED stgVars
  BY <1>1 DEF stgVars, StgStaleInv
<1>2. CASE \E s \in StgSaves : StgUpdate(s)
  BY <1>2 DEF StgUpdate, StgOverlooked, StgStaleInv
<1>3. CASE \E s \in StgSaves : StgLook(s)
  BY <1>3 DEF StgLook, StgStaleInv
<1>4. CASE \E s \in StgSaves : StgAnswer(s)
  BY <1>4 DEF StgAnswer, StgStaleInv
<1>5. CASE StgRestarts \/ \E s \in StgSaves : StgApply(s) \/ \E req \in StgRequests : StgBegin(s, req)
  BY <1>5 DEF StgRestarts, StgApply, StgBegin, StgStaleInv
<1> QED BY <1>1, <1>2, <1>3, <1>4, <1>5 DEF StgNext

\* With their invariant that is their type.
LEMMA StgTypes == StgInv /\ StgStaleInv => StgTypeOK
BY DEF StgInv, StgShape, StgStaleInv, StgTypeOK, StgPlaces

\* Passes and troubles are counted up to their bounds.
LsnBoundInv == lsnBound \in [passes : 0..LsnMaxPasses, troubles : 0..LsnMaxTroubles]

\* At the start there were none.
LEMMA LsnBoundInit == ASSUME LsnInit PROVE LsnBoundInv
<1>1. LsnMaxPasses \in Nat /\ LsnMaxTroubles \in Nat
  BY LsnAssumption
<1>2. lsnBound = [passes |-> 0, troubles |-> 0]
  BY DEF LsnInit
<1> QED BY <1>1, <1>2 DEF LsnBoundInv

\* A pass begins, a listen fails or a server stops only below the bound.
LEMMA LsnBoundStep ==
    ASSUME LsnBoundInv, [LsnNext]_lsnVars
    PROVE  LsnBoundInv'
<1>1. LsnMaxPasses \in Nat /\ LsnMaxTroubles \in Nat
  BY LsnAssumption
<1>2. ASSUME lsnBound.passes < LsnMaxPasses, lsnBound' = [lsnBound EXCEPT !.passes = @ + 1]
      PROVE  LsnBoundInv'
  BY <1>1, <1>2 DEF LsnBoundInv
<1>3. ASSUME lsnBound.troubles < LsnMaxTroubles, lsnBound' = [lsnBound EXCEPT !.troubles = @ + 1]
      PROVE  LsnBoundInv'
  BY <1>1, <1>3 DEF LsnBoundInv
<1>4. ASSUME UNCHANGED lsnBound PROVE LsnBoundInv'
  BY <1>4 DEF LsnBoundInv
<1>5. CASE UNCHANGED lsnVars
  BY <1>4, <1>5 DEF lsnVars
<1>6. CASE LsnPassBegins
  BY <1>2, <1>6 DEF LsnPassBegins
<1>7. CASE LsnHookFails
  BY <1>3, <1>4, <1>7 DEF LsnHookFails
<1>8. CASE \E p \in LsnPorts : LsnOther(p) \/ LsnServeEnds(p)
  BY <1>3, <1>8 DEF LsnOther, LsnServeEnds, LsnTrouble
<1>9. CASE \/ LsnWebRefuses \/ LsnWebCloses \/ LsnWebDone \/ LsnHookStays \/ LsnHookStops
           \/ LsnHookListens \/ LsnHookInstalls \/ \E p \in LsnPorts : LsnWebStarts(p)
  BY <1>4, <1>9 DEF LsnWebRefuses, LsnWebCloses, LsnWebDone, LsnHookStays, LsnHookStops,
       LsnHookListens, LsnHookInstalls, LsnWebStarts, LsnRest
<1>10. CASE LsnClose \/ LsnCloseWeb \/ LsnCloseHook \/ LsnCloseHookStops
  BY <1>4, <1>10 DEF LsnClose, LsnCloseWeb, LsnCloseHook, LsnCloseHookStops
<1> QED BY <1>5, <1>6, <1>7, <1>8, <1>9, <1>10 DEF LsnNext

\* With their invariant that is their type.
LEMMA LsnTypes == ASSUME LsnInv, LsnBoundInv PROVE LsnTypeOK
<1>1. LsnShapeInv
  BY DEF LsnInv
<1>2. /\ lsnWeb \in [LsnPorts -> [state : {"none", "up", "failed"}, route : BOOLEAN]]
      /\ lsnHook \in [spec : [enabled : BOOLEAN, port : LsnPorts, named : BOOLEAN,
                              shared : BOOLEAN],
                      srv : LsnPorts \union {0}, err : BOOLEAN, dead : BOOLEAN]
  BY <1>1, Zenon DEF LsnShapeInv, LsnHooks, LsnServers
<1> QED BY <1>1, <1>2, Zenon DEF LsnShapeInv, LsnBoundInv, LsnTypeOK

\* Who is late is a child; the buckets were thrown away when the clock said so.
PrbLateInv == prbLate \subseteq PrbChildren
DenClockInv == denClock \in 1..DenHorizon /\ denEmptied \in 0..DenHorizon

\* At the start nobody is late, and the clock is at its first moment.
LEMMA PrbLateInit == ASSUME PrbInit PROVE PrbLateInv
BY DEF PrbInit, PrbLateInv
LEMMA DenClockInit == ASSUME DenInit PROVE DenClockInv
<1>1. DenHorizon \in Nat \ {0}
  BY PrbAssumption
<1> QED BY <1>1 DEF DenInit, DenClockInv

\* A sweep finds only children late.
LEMMA PrbLateStep ==
    ASSUME PrbLateInv, [PrbNextStep]_prbVars
    PROVE  PrbLateInv'
<1>1. CASE UNCHANGED prbVars
  BY <1>1 DEF prbVars, PrbLateInv
<1>2. CASE \E targets \in [PrbChildren -> PrbBackends \union {0}] : PrbReloadBegins(targets)
  BY <1>2 DEF PrbReloadBegins, PrbLateInv
<1>3. CASE PrbPicks
  BY <1>3 DEF PrbPicks, PrbDue, PrbLateInv
<1>4. CASE \E c \in PrbChildren, ok \in BOOLEAN : PrbRecords(c, ok)
  BY <1>4 DEF PrbRecords, PrbLateInv
<1>5. CASE PrbReloadEnds \/ PrbWakes \/ PrbCopies \/ PrbSweepEnds \/ PrbClose \/ PrbTimePasses
  BY <1>5 DEF PrbReloadEnds, PrbWakes, PrbCopies, PrbSweepEnds, PrbClose, PrbTimePasses, PrbLateInv
<1> QED BY <1>1, <1>2, <1>3, <1>4, <1>5 DEF PrbNextStep

\* The clock goes up to its end.
LEMMA DenClockStep ==
    ASSUME DenClockInv, [DenNextStep]_denVars
    PROVE  DenClockInv'
<1>0. DenHorizon \in Nat
  BY PrbAssumption
<1>1. CASE UNCHANGED denVars
  BY <1>1 DEF denVars, DenClockInv
<1>2. CASE \E k \in DenKeys : DenAsk(k)
  <2>1. denClock' = denClock /\ denEmptied' \in {denEmptied, denClock}
    BY <1>2 DEF DenAsk
  <2> QED BY <1>0, <2>1 DEF DenClockInv
<1>3. CASE DenTimePasses
  BY <1>0, <1>3 DEF DenTimePasses, DenClockInv
<1> QED BY <1>1, <1>2, <1>3 DEF DenNextStep

\* With the two invariants that is the type.
LEMMA PrbTypes == PrbInv /\ DenInv /\ PrbLateInv /\ DenClockInv => PrbTypeOK
BY DEF PrbInv, PrbShapeInv, DenInv, DenShapeInv, PrbTargetSet, PrbLateInv, DenClockInv, PrbTypeOK

\* Reloads are counted up to their bound; a runner serves, stops or is over.
FwdReloadsInv == fwdReloads \in 0..FwdMaxReloads
FwdServingInv ==
    /\ fwdServing \in {"yes", "stopping", "over"}
    /\ fwdReader \in [1..FwdMaxSessions -> [of : FwdClients, on : BOOLEAN]]

\* At the start there were none.
LEMMA FwdReloadsInit == ASSUME FwdInit PROVE FwdReloadsInv
<1>1. FwdMaxReloads \in Nat
  BY FwdAssumption
<1> QED BY <1>1 DEF FwdInit, FwdReloadsInv

\* A reload begins only below the bound.
LEMMA FwdReloadsStep ==
    ASSUME FwdReloadsInv, [FwdNext]_fwdVars
    PROVE  FwdReloadsInv'
<1>1. CASE UNCHANGED fwdVars
  BY <1>1 DEF fwdVars, FwdReloadsInv
<1>2. CASE FwdReloadBegins
  BY <1>2, FwdAssumption DEF FwdReloadBegins, FwdReloadsInv
<1>3. CASE \/ FwdWrite \/ FwdReloadEnds \/ \E r \in FwdRules : FwdStart(r)
           \/ (\E n \in FwdIds : FwdStop(n) \/ FwdAcceptEnds(n)) \/ \E p \in FwdPorts : FwdOther(p)
  BY <1>3 DEF FwdWrite, FwdReloadEnds, FwdStart, FwdStop, FwdAcceptEnds, FwdOther, FwdReloadsInv
<1> QED BY <1>1, <1>2, <1>3 DEF FwdNext

\* A reader keeps the client it was made for.
LEMMA FwdServingStep ==
    ASSUME FwdServingInv, [FwdConnNext]_fwdConnVars
    PROVE  FwdServingInv'
<1>2. ASSUME UNCHANGED <<fwdReader, fwdServing>> PROVE FwdServingInv'
  BY <1>2 DEF FwdServingInv
<1>3. CASE UNCHANGED fwdConnVars
  BY <1>2, <1>3 DEF fwdConnVars
<1>4. CASE \E c \in FwdConns : \/ FwdAccept(c) \/ FwdRunnerFull(c) \/ FwdRunnerTakes(c)
                               \/ FwdEnter(c) \/ FwdGateFull(c) \/ FwdConnEnds(c)
  BY <1>2, <1>4 DEF FwdAccept, FwdRunnerFull, FwdRunnerTakes, FwdEnter, FwdGateFull, FwdConnEnds,
       FwdRest
<1>5. CASE \E k \in FwdClients : FwdDialFails(k) \/ FwdIdle(k)
  BY <1>2, <1>5 DEF FwdDialFails, FwdIdle
<1>6. ASSUME NEW k \in FwdClients, FwdDatagram(k) PROVE FwdServingInv'
  <2>1. /\ fwdReader' = [fwdReader EXCEPT ![fwdLast + 1] = [of |-> k, on |-> TRUE]]
        /\ UNCHANGED fwdServing
    BY <1>6 DEF FwdDatagram
  <2> QED BY <2>1 DEF FwdServingInv
<1>7. ASSUME NEW u \in 1..FwdMaxSessions, FwdReaderEnds(u) PROVE FwdServingInv'
  <2>1. fwdReader' = [fwdReader EXCEPT ![u].on = FALSE] /\ UNCHANGED fwdServing
    BY <1>7 DEF FwdReaderEnds
  <2> QED BY <2>1 DEF FwdServingInv
<1>8. CASE FwdCancel
  BY <1>8 DEF FwdCancel, FwdServingInv
<1>9. CASE FwdStopReturns
  BY <1>9 DEF FwdStopReturns, FwdServingInv
<1> QED BY <1>3, <1>4, <1>5, <1>6, <1>7, <1>8, <1>9 DEF FwdConnNext

\* At the start the readers are somebody's, and none is on.
LEMMA FwdServingInit == ASSUME FwdConnInit PROVE FwdServingInv
<1> DEFINE some == CHOOSE k \in FwdClients : TRUE
<1>1. some \in FwdClients
  BY FwdAssumption
<1>2. fwdReader = [u \in 1..FwdMaxSessions |-> [of |-> some, on |-> FALSE]] /\ fwdServing = "yes"
  BY DEF FwdConnInit
<1> HIDE DEF some
<1>3. fwdReader \in [1..FwdMaxSessions -> [of : FwdClients, on : BOOLEAN]]
  BY <1>1, <1>2
<1> QED BY <1>2, <1>3 DEF FwdServingInv

\* With their invariant that is their type.
LEMMA FwdTypes == FwdInv /\ FwdReloadsInv /\ FwdServingInv => FwdTypeOK
<1> SUFFICES ASSUME FwdInv, FwdReloadsInv, FwdServingInv PROVE FwdTypeOK
  OBVIOUS
<1>1. FwdReloadInv /\ FwdPlacesInv /\ FwdRunnersInv /\ FwdCountsInv /\ FwdUpstreamsInv
  BY DEF FwdInv, FwdReloadInv, FwdPlacesInv
<1>2. FwdIds = 1..Cardinality(FwdIds)
  <2>1. PICK n \in 0..FwdMaxStarts : FwdIds = 1..n
    BY <1>1 DEF FwdRunnersInv
  <2>2. FwdMaxStarts \in Nat /\ n \in Nat /\ Cardinality(1..n) = n
    BY FwdAssumption, FS_Interval
  <2> QED BY <2>1, <2>2
<1>3. fwdGate \in Nat /\ fwdActive \in Nat
  <2>1. FwdTurned \subseteq FwdArriving
    BY DEF FwdTurned, FwdArriving, FwdConnsAt
  <2>2. /\ Cardinality(FwdOpen) \in Nat /\ Cardinality(FwdArriving) \in Nat
        /\ Cardinality(FwdSessions) \in Nat /\ Cardinality(FwdTurned) \in Nat
    BY <1>1, <2>1, FS_CardinalityType, FS_Subset DEF FwdCountsInv
  <2> QED BY <1>1, <2>2 DEF FwdCountsInv
<1> QED BY <1>1, <1>2, <1>3
        DEF FwdRunnersInv, FwdUpstreamsInv, FwdReloadsInv, FwdServingInv, FwdTypeOK

\* Requests are counted up to their bound.
ResBoundInv ==
    /\ resCount \in 0..ResMaxRequests
    /\ resKept \in [rules : SUBSET ResRules, secret : {"first", "second"}]
    /\ resLast \in [refused : BOOLEAN, changed : BOOLEAN, again : BOOLEAN]

\* At the start there were none.
LEMMA ResBoundInit == ASSUME ResInit PROVE ResBoundInv
BY ResAssumption DEF ResInit, ResBoundInv

\* One arrives only below the bound.
LEMMA ResBoundStep ==
    ASSUME ResInv, ResBoundInv, [ResNext]_resVars
    PROVE  ResBoundInv'
<1>0. ResMaxRequests \in Nat /\ ResInv' /\ resCount \in 0..ResMaxRequests
  BY ResConstants, ResStepInv DEF ResBoundInv
<1>1. CASE UNCHANGED resVars
  BY <1>1 DEF resVars, ResBoundInv
<1>2. ASSUME NEW t \in ResTabs, NEW q \in ResAsks, ResArrives(t, q) PROVE ResBoundInv'
  <2>1. resCount < ResMaxRequests /\ resCount' = resCount + 1 /\ UNCHANGED resKept
    BY <1>2 DEF ResArrives
  <2>2. resLast' \in {resLast, [refused |-> TRUE, changed |-> FALSE, again |-> FALSE]}
    BY <1>2 DEF ResArrives
  <2>3. resCount' \in 0..ResMaxRequests
    BY <1>0, <2>1
  <2>4. resLast' \in [refused : BOOLEAN, changed : BOOLEAN, again : BOOLEAN]
    <3>1. [refused |-> TRUE, changed |-> FALSE, again |-> FALSE]
             \in [refused : BOOLEAN, changed : BOOLEAN, again : BOOLEAN]
      OBVIOUS
    <3> QED BY <2>2, <3>1, Zenon DEF ResBoundInv
  <2>5. resKept' \in [rules : SUBSET ResRules, secret : {"first", "second"}]
    BY <2>1 DEF ResBoundInv
  <2> QED BY <2>3, <2>4, <2>5 DEF ResBoundInv
<1>3. ASSUME NEW t \in ResTabs, ResApplies(t) PROVE ResBoundInv'
  <2>1. UNCHANGED resCount
    BY <1>3 DEF ResApplies
  <2>2. /\ DOMAIN resKept' = {"rules", "secret"}
        /\ resKept' = [rules |-> resKept'.rules, secret |-> resKept'.secret]
    BY <1>3 DEF ResApplies
  <2>3. resKept'.rules \subseteq ResRules /\ resKept'.secret \in {"first", "second"}
    BY <1>0 DEF ResInv, ResShapeInv
  <2>4. resLast' \in [refused : BOOLEAN, changed : BOOLEAN, again : BOOLEAN]
    BY <1>3 DEF ResApplies
  <2>5. resKept' \in [rules : SUBSET ResRules, secret : {"first", "second"}]
    BY <2>2, <2>3
  <2> QED BY <2>1, <2>4, <2>5 DEF ResBoundInv
<1> QED BY <1>1, <1>2, <1>3 DEF ResNext

\* With their invariant that is their type.
LEMMA ResTypes == ASSUME ResInv, ResBoundInv PROVE ResTypeOK
<1>1. /\ resConf \in ResConfs /\ resReq \in [ResTabs -> ResReqs]
      /\ resRaced \in BOOLEAN /\ resOverwrote \in BOOLEAN
  BY DEF ResInv, ResShapeInv
<1>2. ASSUME NEW t \in ResTabs
      PROVE  \/ resReq[t].pc = "idle"
             \/ resReq[t].pc = "checked" /\ resReq[t].q \in ResAsks /\ resReq[t].seen \in ResConfs
  <2>1. resReq[t] \in ResReqs
    BY <1>1
  <2> QED BY <2>1 DEF ResReqs, ResIdle
<1> QED BY <1>1, <1>2 DEF ResBoundInv, ResTypeOK

\* The zone is one of a provider, or of none yet.
ChlKindInv == chlKind \in ChlKinds \union {"none"}

\* It is chosen once.
LEMMA ChlKindStep ==
    ASSUME ChlKindInv, [ChlNext]_chlVars
    PROVE  ChlKindInv'
<1>1. CASE UNCHANGED chlVars
  BY <1>1 DEF chlVars, ChlKindInv
<1>2. CASE \E kind \in ChlKinds : ChlChoose(kind)
  BY <1>2 DEF ChlChoose, ChlKindInv
<1>3. ASSUME NEW j \in ChlJobs,
             \/ ChlSetLooks(j) \/ ChlSetAdds(j) \/ ChlSetReturns(j) \/ ChlChecked(j) \/ ChlOrdered(j)
             \/ ChlRemoveLooks(j) \/ ChlRemoves(j) \/ ChlRemoveFails(j) \/ ChlEnds(j) \/ ChlCrash(j)
             \/ \E done \in BOOLEAN : ChlSetFails(j, done)
      PROVE  ChlKindInv'
  BY <1>3 DEF ChlSetLooks, ChlSetAdds, ChlSetReturns, ChlChecked, ChlOrdered, ChlRemoveLooks,
       ChlRemoves, ChlRemoveFails, ChlEnds, ChlCrash, ChlSetFails, ChlKindInv
<1> QED BY <1>1, <1>2, <1>3 DEF ChlNext

\* With their invariant that is their type.
LEMMA ChlTypes == ASSUME ChlInv, ChlKindInv PROVE ChlTypeOK
<1>1. ChlJobsInv /\ ChlLockInv
  BY DEF ChlInv
<1>2. \A j \in ChlJobs : chlJob[j] \in ChlRecord
  BY <1>1 DEF ChlJobsInv
<1> QED BY <1>1, <1>2 DEF ChlJobsInv, ChlLockInv, ChlRecord, ChlKindInv, ChlTypeOK

\* The messages of webhooks have the type of their invariant.
LEMMA WhkTypes == ASSUME WhkInv PROVE WhkTypeOK
<1>1. WhkShapeInv /\ whkGate \in 0..WhkGateMax
  BY DEF WhkInv, WhkRestInv
<1>2. whkSrc.budget \in WhkBudget
  BY <1>1 DEF WhkShapeInv, WhkSrcType
<1> QED BY <1>1, <1>2, Zenon DEF WhkShapeInv, WhkReqType, WhkTypeOK

\* The rule, its runners and their rounds have the type of their invariant.
LEMMA DdnsTypes == ASSUME DdnsInv PROVE DdnsTypeOK
<1>1. DdnsVarsInv /\ DdnsRunnersInv
  BY DdnsParts
<1>2. Len(ddnsRunners) \in Nat /\ DOMAIN ddnsRunners = 1..Len(ddnsRunners)
      /\ \A i \in 1..Len(ddnsRunners) : ddnsRunners[i] \in DdnsRunnerSet
  BY <1>1 DEF DdnsVarsInv
<1>3. ddnsCurrent \in 0..Len(ddnsRunners) /\ Len(ddnsRunners) <= DdnsMaxRunners
  <2>1. ddnsCurrent \in {0, Len(ddnsRunners)} /\ Len(ddnsRunners) <= DdnsMaxRunners
    BY <1>1 DEF DdnsRunnersInv, DdnsNewest
  <2>2. Len(ddnsRunners) \in Nat
    BY <1>2
  <2> DEFINE n == Len(ddnsRunners)
  <2> HIDE DEF n
  <2>3. ddnsCurrent \in {0, n} /\ n \in Nat
    BY <2>1, <2>2 DEF n
  <2>4. ddnsCurrent \in 0..n
    BY <2>3
  <2> QED BY <2>1, <2>4 DEF n
<1>4. \A n \in DdnsNames : ddnsZone[n] \in Seq(DdnsAddresses)
  BY <1>1 DEF DdnsVarsInv
<1> QED BY <1>1, <1>2, <1>3, <1>4 DEF DdnsVarsInv, DdnsRunnersInv, DdnsRunnerSet, DdnsTypeOK

\* Imports and archives are counted up to their bounds, an archive that is being
\* made included; what is uploaded is an image, and the configuration is of an
\* import that began, or of none.
BkpBoundsInv ==
    /\ bkpCounts.imports <= BkpMaxImports
    /\ bkpConf.gen \in 1..(BkpMaxImports + 1)
    /\ bkpUploads \subseteq BkpImages
    /\ Len(bkpArchives) <= BkpMaxArchives
    /\ bkpExport.at = "certs" => Len(bkpArchives) < BkpMaxArchives

\* At the start there is nothing.
LEMMA BkpBoundsInit == ASSUME BkpInit PROVE BkpBoundsInv
<1>1. BkpMaxImports \in Nat /\ BkpMaxArchives \in Nat
  BY BkpAssumption
<1>2. /\ bkpCounts.imports = 0 /\ bkpConf.gen = 1 /\ bkpUploads = {} /\ bkpArchives = <<>>
      /\ bkpExport.at = "idle"
  BY DEF BkpInit, BkpNobody
<1> QED BY <1>1, <1>2 DEF BkpBoundsInv

\* Imports and archives are begun below their bounds only, one at a time.
LEMMA BkpBoundsStep ==
    ASSUME BkpInv, BkpBoundsInv, [BkpNext]_bkpVars
    PROVE  BkpBoundsInv'
<1>0. /\ BkpMaxImports \in Nat /\ BkpMaxArchives \in Nat
      /\ bkpCounts \in [imports : Nat, starts : Nat, troubles : Nat, changes : Nat]
      /\ bkpConf \in BkpConfs /\ bkpArchives \in Seq(BkpMade)
      /\ bkpExport \in [at : {"idle", "certs"}, conf : BkpConfs, pairs : BkpPairLists,
                        mixed : BOOLEAN]
  BY BkpAssumption DEF BkpInv, BkpShape
<1>1. CASE UNCHANGED bkpVars
  BY <1>1 DEF bkpVars, BkpBoundsInv
<1>2. ASSUME bkpCounts'.imports = bkpCounts.imports, bkpConf'.gen = bkpConf.gen,
             UNCHANGED <<bkpUploads, bkpArchives>>, bkpExport'.at = bkpExport.at
      PROVE  BkpBoundsInv'
  BY <1>2 DEF BkpBoundsInv
<1>3. ASSUME NEW i \in BkpImages, BkpUploadBegins(i) \/ BkpUploadEnds(i) PROVE BkpBoundsInv'
  <2>1. bkpUploads' \in {bkpUploads \union {i}, bkpUploads \ {i}}
        /\ UNCHANGED <<bkpCounts, bkpConf, bkpArchives, bkpExport>>
    BY <1>3 DEF BkpUploadBegins, BkpUploadEnds
  <2> QED BY <2>1 DEF BkpBoundsInv
<1>4. ASSUME NEW j \in BkpJobs,
             \/ BkpJobBegins(j) \/ BkpSave(j) \/ BkpRemoveOld(j) \/ BkpDelete(j)
             \/ BkpReset(j) \/ BkpClean(j)
      PROVE  BkpBoundsInv'
  <2>1. \/ UNCHANGED bkpCounts
        \/ BkpCount("starts") \/ BkpCount("troubles")
    BY <1>4 DEF BkpJobBegins, BkpSave, BkpRemoveOld, BkpDelete, BkpReset, BkpClean
  <2>2. bkpCounts'.imports = bkpCounts.imports
    BY <1>0, <2>1 DEF BkpCount
  <2>3. bkpExport'.at = bkpExport.at
    BY <1>0, <1>4 DEF BkpJobBegins, BkpMeets, BkpSave, BkpRemoveOld, BkpDelete, BkpReset, BkpClean
  <2>4. \/ UNCHANGED bkpConf
        \/ \E image \in BkpNames \union {bkpJob[j].new} :
              bkpConf' = [bkpConf EXCEPT !.image = image]
    BY <1>4, BkpConstants DEF BkpJobBegins, BkpSave, BkpRemoveOld, BkpDelete, BkpReset, BkpClean
  <2>5. bkpConf'.gen = bkpConf.gen
    BY <1>0, <2>4 DEF BkpConfs
  <2>6. UNCHANGED <<bkpUploads, bkpArchives>>
    BY <1>4 DEF BkpJobBegins, BkpSave, BkpRemoveOld, BkpDelete, BkpReset, BkpClean
  <2> QED BY <1>2, <2>2, <2>3, <2>5, <2>6
<1>5. ASSUME NEW c \in BkpCerts, BkpCertChanges(c) PROVE BkpBoundsInv'
  <2>1. bkpCounts' = [bkpCounts EXCEPT !["changes"] = bkpCounts["changes"] + 1]
    BY <1>5 DEF BkpCertChanges, BkpCount
  <2>2. bkpCounts'.imports = bkpCounts.imports
    BY <1>0, <2>1
  <2>3. bkpConf'.gen = bkpConf.gen
    BY <1>0, <1>5 DEF BkpCertChanges, BkpConfs
  <2>4. UNCHANGED <<bkpUploads, bkpArchives, bkpExport>>
    BY <1>5 DEF BkpCertChanges
  <2> QED BY <1>2, <2>2, <2>3, <2>4
<1>6. CASE BkpExportBegins
  <2>1. /\ Len(bkpArchives) < BkpMaxArchives
        /\ UNCHANGED <<bkpCounts, bkpConf, bkpUploads, bkpArchives>>
    BY <1>6 DEF BkpExportBegins
  <2> QED BY <2>1 DEF BkpBoundsInv
<1>7. CASE BkpExportCert
  <2>1. bkpExport.at = "certs" /\ UNCHANGED <<bkpCounts, bkpConf, bkpUploads, bkpArchives>>
    BY <1>7 DEF BkpExportCert
  <2> QED BY <2>1 DEF BkpBoundsInv
<1>8. ASSUME NEW key \in BkpKeys, BkpExportEnds(key) PROVE BkpBoundsInv'
  <2>1. /\ bkpExport.at = "certs" /\ bkpExport' = BkpNobody
        /\ UNCHANGED <<bkpCounts, bkpConf, bkpUploads>>
    BY <1>8 DEF BkpExportEnds
  <2>2. PICK made : bkpArchives' = Append(bkpArchives, made)
    BY <1>8 DEF BkpExportEnds
  <2>3. Len(bkpArchives') = Len(bkpArchives) + 1 /\ Len(bkpArchives) \in Nat
    BY <1>0, <2>2
  <2>4. Len(bkpArchives') <= BkpMaxArchives
    BY <1>0, <2>1, <2>3 DEF BkpBoundsInv
  <2> QED BY <2>1, <2>4, BkpConstants DEF BkpBoundsInv
<1>9. CASE BkpImportBegins
  <2>1. /\ bkpCounts.imports < BkpMaxImports
        /\ bkpCounts' = [bkpCounts EXCEPT !["imports"] = bkpCounts["imports"] + 1]
        /\ UNCHANGED <<bkpConf, bkpUploads, bkpArchives, bkpExport>>
    BY <1>9 DEF BkpImportBegins, BkpCount
  <2>2. bkpCounts'.imports = bkpCounts.imports + 1 /\ bkpCounts.imports \in Nat
    BY <1>0, <2>1
  <2>3. bkpCounts'.imports <= BkpMaxImports
    BY <1>0, <2>1, <2>2
  <2> QED BY <2>1, <2>3 DEF BkpBoundsInv
<1>10. CASE BkpImportCerts \/ BkpImportUploads
  BY <1>2, <1>10 DEF BkpImportCerts, BkpImportUploads
<1>11. CASE BkpImportReplaces
  <2>1. /\ bkpConf'.gen = bkpCounts.imports + 1
        /\ UNCHANGED <<bkpCounts, bkpUploads, bkpArchives, bkpExport>>
    BY <1>11 DEF BkpImportReplaces
  <2>2. bkpConf'.gen \in 1..(BkpMaxImports + 1)
    BY <1>0, <2>1 DEF BkpBoundsInv
  <2> QED BY <2>1, <2>2 DEF BkpBoundsInv
<1> QED BY <1>1, <1>3, <1>4, <1>5, <1>6, <1>7, <1>8, <1>9, <1>10, <1>11 DEF BkpNext

\* With their invariant that is their type.
LEMMA BkpTypes == ASSUME BkpInv, BkpBoundsInv PROVE BkpTypeOK
<1>1. BkpShape /\ BkpTurnInv /\ BkpMaxImports \in Nat
  BY BkpAssumption DEF BkpInv
<1>2. bkpPairs \in [BkpCerts -> 0..(BkpMaxImports + 1)]
  <2>1. bkpConf.gen \in 0..(BkpMaxImports + 1) /\ bkpCounts.imports + 1 \in 0..(BkpMaxImports + 1)
    BY <1>1 DEF BkpShape, BkpBoundsInv
  <2>2. \A c \in BkpCerts : bkpPairs[c] \in {0, bkpConf.gen, bkpCounts.imports + 1}
    BY <1>1 DEF BkpTurnInv
  <2>3. 0 \in 0..(BkpMaxImports + 1)
    BY <1>1
  <2>4. bkpPairs \in [BkpCerts -> Nat]
    BY <1>1 DEF BkpShape
  <2> DEFINE most == 0..(BkpMaxImports + 1)
  <2> HIDE DEF most
  <2>5. \A c \in BkpCerts : bkpPairs[c] \in most
    BY <2>1, <2>2, <2>3 DEF most
  <2> QED BY <2>4, <2>5 DEF most
<1>3. /\ bkpConf.image \in BkpImages \union {BkpNoImage} /\ bkpConf.certs \subseteq BkpCerts
      /\ bkpExport.at \in {"idle", "certs"}
      /\ bkpImport.at \in {"idle", "certs", "uploads", "replace"}
      /\ bkpFiles \in [BkpImages -> {"unused", "part", "whole", "absent"}] /\ bkpLoose \in BOOLEAN
  BY <1>1 DEF BkpShape, BkpConfs, BkpNames
<1>4. \A j \in BkpJobs : bkpJob[j].at \in {"idle", "save", "delete", "clean", "old", "reset"}
  BY <1>1 DEF BkpShape, BkpJobSet
<1> QED BY <1>2, <1>3, <1>4 DEF BkpBoundsInv, BkpTypeOK

\* What one round of importDeps adds, to any scope.
ImpRound(scope) == scope \union UNION {ImpDeps(m) : m \in scope}

\* A round adds certificates and credentials only, for those that need them.
LEMMA ImpRoundAdds ==
    ASSUME NEW scope \in SUBSET ImpModules
    PROVE  /\ ImpRound(scope) \in SUBSET ImpModules
           /\ \A e : e \in ImpRound(scope) <=>
                 \/ e \in scope
                 \/ e = "credential" /\ scope \intersect {"cert", "ddns"} # {}
                 \/ e = "cert" /\ scope \intersect {"webservice", "message", "panel"} # {}
<1>1. \A m \in scope : \A e : e \in ImpDeps(m) <=>
         \/ e = "credential" /\ m \in {"cert", "ddns"}
         \/ e = "cert" /\ m \in {"webservice", "message", "panel"}
  BY DEF ImpDeps, ImpModules
<1>2. \A e : e \in ImpRound(scope) <=> e \in scope \/ \E m \in scope : e \in ImpDeps(m)
  BY Zenon DEF ImpRound
<1>3. \A e : e \in ImpRound(scope) <=>
                 \/ e \in scope
                 \/ e = "credential" /\ scope \intersect {"cert", "ddns"} # {}
                 \/ e = "cert" /\ scope \intersect {"webservice", "message", "panel"} # {}
  BY <1>1, <1>2
<1>4. "credential" \in ImpModules /\ "cert" \in ImpModules
  BY DEF ImpModules
<1> QED BY <1>3, <1>4

\* After two rounds another one adds nothing.
LEMMA ImpRoundsEnd ==
    ASSUME NEW scope \in SUBSET ImpModules
    PROVE  ImpRound(ImpRound(ImpRound(scope))) = ImpRound(ImpRound(scope))
<1> DEFINE one == ImpRound(scope)
           two == ImpRound(one)
           three == ImpRound(two)
<1>1. one \in SUBSET ImpModules
  BY ImpRoundAdds
<1>2. \A e : e \in one <=>
                 \/ e \in scope
                 \/ e = "credential" /\ scope \intersect {"cert", "ddns"} # {}
                 \/ e = "cert" /\ scope \intersect {"webservice", "message", "panel"} # {}
  BY ImpRoundAdds
<1> HIDE DEF one
<1>3. two \in SUBSET ImpModules
  BY <1>1, ImpRoundAdds
<1>4. \A e : e \in two <=>
                 \/ e \in one
                 \/ e = "credential" /\ one \intersect {"cert", "ddns"} # {}
                 \/ e = "cert" /\ one \intersect {"webservice", "message", "panel"} # {}
  BY <1>1, ImpRoundAdds
<1> HIDE DEF two
<1>5. \A e : e \in three <=>
                 \/ e \in two
                 \/ e = "credential" /\ two \intersect {"cert", "ddns"} # {}
                 \/ e = "cert" /\ two \intersect {"webservice", "message", "panel"} # {}
  BY <1>3, ImpRoundAdds
<1> HIDE DEF three
<1>6. \A e : e \in three => e \in two
  BY <1>2, <1>4, <1>5
<1>7. three = two
  BY <1>5, <1>6
<1> QED BY <1>7 DEF three, two, one

\* What is ticked with all it needs is a set of modules.
LEMMA ImpClosureIsScope ==
    ASSUME NEW ticked \in SUBSET ImpModules
    PROVE  ImpClosure(ticked) \in SUBSET ImpModules
<1> DEFINE c == Cardinality(ImpModules)
           step(g) == [n \in 0..c |->
                          IF n = 0 THEN ticked
                          ELSE LET last == g[n - 1] IN last \union UNION {ImpDeps(m) : m \in last}]
           iter == CHOOSE g : g = step(g)
           h == [n \in 0..c |-> IF n = 0 THEN ticked
                                ELSE IF n = 1 THEN ImpRound(ticked) ELSE ImpRound(ImpRound(ticked))]
<1>1. ImpClosure(ticked) = iter[c]
  BY DEF ImpClosure
<1>2. c \in Nat
  <2>1. IsFiniteSet(ImpModules)
    <3> DEFINE names == <<"ddns", "webservice", "message", "forward", "wol", "cron", "cert",
                          "credential", "globalfirewall", "panel">>
    <3>1. names \in Surjection(1..10, ImpModules)
      <4>1. DOMAIN names = 1..10 /\ \A i \in 1..10 : names[i] \in ImpModules
        BY DEF ImpModules
      <4>2. \A m \in ImpModules : \E i \in 1..10 : names[i] = m
        <5>1. /\ names[1] = "ddns" /\ names[2] = "webservice" /\ names[3] = "message"
              /\ names[4] = "forward" /\ names[5] = "wol" /\ names[6] = "cron"
              /\ names[7] = "cert" /\ names[8] = "credential" /\ names[9] = "globalfirewall"
              /\ names[10] = "panel"
          OBVIOUS
        <5> HIDE DEF names
        <5> QED BY <5>1 DEF ImpModules
      <4>3. names \in [1..10 -> ImpModules]
        BY <4>1
      <4> QED BY <4>2, <4>3 DEF Surjection
    <3> HIDE DEF names
    <3>2. IsFiniteSet(1..10)
      <4> DEFINE ten == 10
      <4>1. 1 \in Int /\ ten \in Int
        OBVIOUS
      <4> HIDE DEF ten
      <4>2. IsFiniteSet(1..ten)
        BY <4>1, FS_Interval, Zenon
      <4> QED BY <4>2 DEF ten
    <3> QED BY <3>1, <3>2, FS_Surjection, Zenon
  <2> QED BY <2>1, FS_CardinalityType
<1> HIDE DEF c
<1>3. h = step(h)
  <2>1. ASSUME NEW n \in 0..c PROVE h[n] = step(h)[n]
    <3>1. CASE n = 0
      BY <3>1
    <3>2. CASE n = 1
      <4>1. n - 1 \in 0..c /\ n - 1 = 0 /\ n # 0
        BY <1>2, <3>2
      <4>2. h[n - 1] = ticked /\ h[n] = ImpRound(ticked)
        BY <3>2, <4>1
      <4>3. step(h)[n] = ImpRound(h[n - 1])
        BY <4>1 DEF ImpRound
      <4> QED BY <4>2, <4>3
    <3>3. CASE n = 2
      <4>1. n - 1 \in 0..c /\ n - 1 = 1 /\ n # 0 /\ n # 1
        BY <1>2, <3>3
      <4>2. h[n - 1] = ImpRound(ticked) /\ h[n] = ImpRound(ImpRound(ticked))
        BY <4>1
      <4>3. step(h)[n] = ImpRound(h[n - 1])
        BY <4>1 DEF ImpRound
      <4> QED BY <4>2, <4>3
    <3>4. CASE n > 2
      <4>1. n - 1 \in 0..c /\ n - 1 > 1 /\ n # 0 /\ n # 1
        BY <1>2, <3>4
      <4>2. h[n - 1] = ImpRound(ImpRound(ticked)) /\ h[n] = ImpRound(ImpRound(ticked))
        BY <4>1
      <4>3. step(h)[n] = ImpRound(h[n - 1])
        BY <4>1 DEF ImpRound
      <4> QED BY <4>2, <4>3, ImpRoundsEnd
    <3> QED BY <1>2, <3>1, <3>2, <3>3, <3>4
  <2> QED BY <2>1
<1>4. iter = step(iter)
  <2> HIDE DEF h, step
  <2> QED BY <1>3
<1> HIDE DEF iter
<1>5. ASSUME NEW n \in 0..c PROVE iter[n] \in SUBSET ImpModules
  <2> DEFINE Bad == {k \in 0..c : iter[k] \notin SUBSET ImpModules}
  <2>1. ASSUME Bad # {} PROVE FALSE
    <3>1. Bad \in SUBSET Nat
      BY <1>2
    <3>2. PICK k \in Bad : \A o \in Bad : k <= o
      BY <2>1, <3>1, LeastNatural
    <3>3. k \in 0..c /\ iter[k] \notin SUBSET ImpModules
      BY <3>2
    <3>4. k # 0
      BY <1>2, <1>4, <3>3
    <3>5. k - 1 \in 0..c /\ k - 1 < k
      BY <1>2, <3>3, <3>4
    <3>6. iter[k - 1] \in SUBSET ImpModules
      BY <3>2, <3>3, <3>5
    <3>7. iter[k] = ImpRound(iter[k - 1])
      BY <1>4, <3>3, <3>4 DEF ImpRound
    <3> QED BY <3>3, <3>6, <3>7, ImpRoundAdds
  <2> QED BY <2>1
<1> QED BY <1>1, <1>2, <1>5

\* What is in a directory, and beside it, is of an import that began, or was there.
ImpBoundsInv ==
    /\ impConf \in [ImpModules -> 0..ImpMaxImports]
    /\ impTarget \in [ImpModules -> 0..ImpMaxImports]
    /\ impDir \in [ImpDirs -> {ImpGone} \union 0..ImpMaxImports]
    /\ impOld \in [ImpDirs -> Seq(0..ImpMaxImports)]
    /\ impGen \in 0..ImpMaxImports /\ impScope \subseteq ImpModules
    /\ impTroubles \in 0..ImpMaxTroubles /\ impCrashes \in 0..ImpMaxCrashes

\* What is beside a directory is taken back from the end.
LEMMA ImpContents ==
    ASSUME NEW S \in SUBSET Nat, NEW s \in Seq(S), NEW n \in S
    PROVE  /\ Append(s, n) \in Seq(S) /\ <<>> \in Seq(S)
           /\ s # <<>> => Front(s) \in Seq(S) /\ Last(s) \in S
<1>1. Append(s, n) \in Seq(S) /\ <<>> \in Seq(S)
  OBVIOUS
<1>2. ASSUME s # <<>> PROVE Front(s) \in Seq(S) /\ Last(s) \in S
  <2>1. Len(s) \in Nat /\ Len(s) # 0
    BY <1>2
  <2> QED BY <2>1 DEF Front, Last
<1> QED BY <1>1, <1>2

\* At the start everything is what was there.
LEMMA ImpBoundsInit == ASSUME ImpInit PROVE ImpBoundsInv
<1>1. /\ ImpMaxImports \in Nat /\ ImpMaxTroubles \in Nat /\ ImpMaxCrashes \in Nat
      /\ 0 \in 0..ImpMaxImports
  BY ImpAssumption
<1>2. impConf = [m \in ImpModules |-> 0] /\ impTarget = impConf
  BY DEF ImpInit
<1>3. impDir = [d \in ImpDirs |-> 0] /\ impOld = [d \in ImpDirs |-> <<>>]
  BY DEF ImpInit
<1>4. impGen = 0 /\ impScope = {} /\ impTroubles = 0 /\ impCrashes = 0
  BY DEF ImpInit
<1> QED BY <1>1, <1>2, <1>3, <1>4 DEF ImpBoundsInv

\* Every step moves contents, and counts below the bounds.
LEMMA ImpBoundsStep ==
    ASSUME ImpBoundsInv, [ImpNext]_impVars
    PROVE  ImpBoundsInv'
<1> DEFINE gens == 0..ImpMaxImports
<1>0. /\ ImpMaxImports \in Nat /\ ImpMaxTroubles \in Nat /\ ImpMaxCrashes \in Nat
      /\ gens \in SUBSET Nat /\ \A s \in ImpScopes : s \in SUBSET ImpModules
  BY ImpAssumption
<1>1. /\ impConf \in [ImpModules -> gens] /\ impTarget \in [ImpModules -> gens]
      /\ impDir \in [ImpDirs -> {ImpGone} \union gens] /\ impOld \in [ImpDirs -> Seq(gens)]
      /\ impGen \in gens /\ impScope \in SUBSET ImpModules
      /\ impTroubles \in 0..ImpMaxTroubles /\ impCrashes \in 0..ImpMaxCrashes
  BY DEF ImpBoundsInv
<1>2. ASSUME impConf' \in [ImpModules -> gens], impTarget' \in [ImpModules -> gens],
             impDir' \in [ImpDirs -> {ImpGone} \union gens], impOld' \in [ImpDirs -> Seq(gens)],
             impGen' \in gens, impScope' \in SUBSET ImpModules,
             impTroubles' \in 0..ImpMaxTroubles, impCrashes' \in 0..ImpMaxCrashes
      PROVE  ImpBoundsInv'
  BY <1>2 DEF ImpBoundsInv
<1>3. ImpFails => impTroubles' \in 0..ImpMaxTroubles
  BY <1>0, <1>1 DEF ImpFails
<1>4. \A d \in ImpDirs : impOld[d] # <<>> => Front(impOld[d]) \in Seq(gens) /\ Last(impOld[d]) \in gens
  BY <1>0, <1>1, ImpContents
<1>5. ASSUME NEW d \in ImpDirs
      PROVE  /\ [impDir EXCEPT ![d] = ImpGone] \in [ImpDirs -> {ImpGone} \union gens]
             /\ [impDir EXCEPT ![d] = impGen] \in [ImpDirs -> {ImpGone} \union gens]
             /\ impOld[d] # <<>> =>
                   /\ [impDir EXCEPT ![d] = Last(impOld[d])] \in [ImpDirs -> {ImpGone} \union gens]
                   /\ [impOld EXCEPT ![d] = Front(impOld[d])] \in [ImpDirs -> Seq(gens)]
  <2> HIDE DEF gens
  <2> QED BY <1>1, <1>4
<1>6. CASE UNCHANGED impVars
  BY <1>1, <1>2, <1>6 DEF impVars
<1>7. CASE ImpBegin
  <2>1. PICK ticked \in ImpScopes :
          impScope' = ImpClosure(ticked) /\ impTarget' = ImpMerged(ImpClosure(ticked), impGen + 1)
    BY <1>7 DEF ImpBegin
  <2>2. impGen < ImpMaxImports /\ impGen' = impGen + 1 /\ impTroubles' = 0
        /\ UNCHANGED <<impConf, impDir, impOld, impCrashes>>
    BY <1>7 DEF ImpBegin
  <2>3. impGen + 1 \in gens
    BY <1>0, <1>1, <2>2
  <2>4. impTarget' \in [ImpModules -> gens]
    <3> HIDE DEF gens
    <3> QED BY <1>1, <2>1, <2>3 DEF ImpMerged
  <2>5. impScope' \in SUBSET ImpModules
    BY <1>0, <2>1, ImpClosureIsScope
  <2>6. impTroubles' \in 0..ImpMaxTroubles
    BY <1>0, <2>2
  <2> HIDE DEF gens
  <2> QED BY <1>1, <1>2, <2>2, <2>3, <2>4, <2>5, <2>6
<1>8. CASE ImpIndex
  <2>1. UNCHANGED <<impConf, impTarget, impDir, impOld, impGen, impScope, impCrashes>>
        /\ (ImpFails \/ UNCHANGED impTroubles)
    BY <1>8 DEF ImpIndex, ImpStay, ImpKeep
  <2> QED BY <1>1, <1>2, <1>3, <2>1
<1>9. CASE ImpReplace
  <2>1. UNCHANGED <<impTarget, impDir, impOld, impGen, impScope, impCrashes>>
        /\ (ImpFails \/ UNCHANGED impTroubles) /\ impConf' \in {impConf, impTarget}
    BY <1>9 DEF ImpReplace, ImpStay, ImpKeep
  <2> QED BY <1>1, <1>2, <1>3, <2>1
<1>10. CASE ImpCommit
  <2>1. PICK kept \in SUBSET impSaved :
          impOld' = [d \in ImpDirs |-> IF d \in impSaved \ kept /\ impOld[d] # <<>>
                                       THEN Front(impOld[d]) ELSE impOld[d]]
    BY <1>10 DEF ImpCommit
  <2>2. UNCHANGED <<impConf, impTarget, impDir, impGen, impScope, impCrashes>>
        /\ (ImpFails \/ UNCHANGED impTroubles)
    BY <1>10 DEF ImpCommit, ImpStay, ImpKeep
  <2>3. impOld' \in [ImpDirs -> Seq(gens)]
    <3> HIDE DEF gens
    <3> QED BY <1>1, <1>4, <2>1
  <2> QED BY <1>1, <1>2, <1>3, <2>2, <2>3
<1>11. CASE ImpCrash
  <2>1. /\ impDir' = [d \in ImpDirs |-> ImpReclaimed(d).dir]
        /\ impOld' = [d \in ImpDirs |-> ImpReclaimed(d).old]
        /\ impCrashes < ImpMaxCrashes /\ impCrashes' = impCrashes + 1
        /\ UNCHANGED <<impConf, impTarget, impGen, impScope, impTroubles>>
    BY <1>11 DEF ImpCrash
  <2>2. ASSUME NEW d \in ImpDirs
        PROVE  ImpReclaimed(d).dir \in {ImpGone} \union gens /\ ImpReclaimed(d).old \in Seq(gens)
    <3> HIDE DEF gens
    <3> QED BY <1>1, <1>4 DEF ImpReclaimed
  <2>3. impCrashes' \in 0..ImpMaxCrashes
    BY <1>0, <1>1, <2>1
  <2> HIDE DEF gens
  <2> QED BY <1>1, <1>2, <2>1, <2>2, <2>3
<1>12. ASSUME NEW d \in ImpDirs, ImpMove(d) PROVE ImpBoundsInv'
  <2>1. UNCHANGED <<impConf, impTarget, impGen, impScope, impCrashes, impTroubles>>
    BY <1>12 DEF ImpMove, ImpKeep
  <2>2. \/ /\ impDir[d] # ImpGone
           /\ impOld' = [impOld EXCEPT ![d] = Append(impOld[d], impDir[d])]
           /\ impDir' = [impDir EXCEPT ![d] = ImpGone]
        \/ UNCHANGED <<impOld, impDir>>
    BY <1>12 DEF ImpMove
  <2>3. impDir[d] # ImpGone => Append(impOld[d], impDir[d]) \in Seq(gens)
    BY <1>0, <1>1, ImpContents
  <2> HIDE DEF gens
  <2>4. impOld' \in [ImpDirs -> Seq(gens)] /\ impDir' \in [ImpDirs -> {ImpGone} \union gens]
    BY <1>1, <1>5, <2>2, <2>3
  <2> QED BY <1>1, <1>2, <2>1, <2>4
<1>13. ASSUME NEW d \in ImpDirs, ImpMoveFails(d) PROVE ImpBoundsInv'
  <2>1. UNCHANGED <<impConf, impTarget, impDir, impOld, impGen, impScope, impCrashes>> /\ ImpFails
    BY <1>13 DEF ImpMoveFails, ImpStay, ImpKeep
  <2> QED BY <1>1, <1>2, <1>3, <2>1
<1>14. ASSUME NEW d \in ImpDirs, ImpPut(d) PROVE ImpBoundsInv'
  <2>1. /\ UNCHANGED <<impConf, impTarget, impOld, impGen, impScope, impCrashes, impTroubles>>
        /\ impDir' = [impDir EXCEPT ![d] = impGen]
    BY <1>14 DEF ImpPut, ImpStay, ImpKeep
  <2> QED BY <1>1, <1>2, <1>5, <2>1
<1>15. ASSUME NEW d \in ImpDirs, ImpPutFails(d) PROVE ImpBoundsInv'
  <2>1. UNCHANGED <<impConf, impTarget, impGen, impScope, impCrashes>> /\ ImpFails
    BY <1>15 DEF ImpPutFails, ImpKeep
  <2>2. \/ /\ impOld[d] # <<>>
           /\ impDir' = [impDir EXCEPT ![d] = Last(impOld[d])]
           /\ impOld' = [impOld EXCEPT ![d] = Front(impOld[d])]
        \/ UNCHANGED <<impDir, impOld>>
    BY <1>15 DEF ImpPutFails
  <2> QED BY <1>1, <1>2, <1>3, <1>5, <2>1, <2>2
<1>16. ASSUME NEW d \in ImpDirs, ImpUndo(d) PROVE ImpBoundsInv'
  <2>1. /\ UNCHANGED <<impConf, impTarget, impOld, impGen, impScope, impCrashes, impTroubles>>
        /\ impDir' = [impDir EXCEPT ![d] = ImpGone]
    BY <1>16 DEF ImpUndo, ImpStay, ImpKeep
  <2> QED BY <1>1, <1>2, <1>5, <2>1
<1>17. ASSUME NEW d \in ImpDirs, ImpBack(d) PROVE ImpBoundsInv'
  <2>1. UNCHANGED <<impConf, impTarget, impGen, impScope, impCrashes, impTroubles>>
    BY <1>17 DEF ImpBack, ImpStay, ImpKeep
  <2>2. \/ /\ impOld[d] # <<>>
           /\ impDir' = [impDir EXCEPT ![d] = Last(impOld[d])]
           /\ impOld' = [impOld EXCEPT ![d] = Front(impOld[d])]
        \/ /\ impDir' \in {[impDir EXCEPT ![d] = impGen], [impDir EXCEPT ![d] = ImpGone]}
           /\ UNCHANGED impOld
    BY <1>17 DEF ImpBack
  <2> QED BY <1>1, <1>2, <1>5, <2>1, <2>2
<1>18. ASSUME NEW d \in ImpDirs, ImpCleanup(d) PROVE ImpBoundsInv'
  <2>1. /\ UNCHANGED <<impConf, impTarget, impDir, impGen, impScope, impCrashes, impTroubles>>
        /\ impOld' = [impOld EXCEPT ![d] = <<>>]
    BY <1>18 DEF ImpCleanup
  <2>2. impOld' \in [ImpDirs -> Seq(gens)]
    <3>1. <<>> \in Seq(gens)
      OBVIOUS
    <3> HIDE DEF gens
    <3> QED BY <1>1, <2>1, <3>1
  <2> QED BY <1>1, <1>2, <2>1, <2>2
<1>19. ASSUME NEW d \in ImpDirs, ImpUndoFails(d) PROVE ImpBoundsInv'
  <2>1. /\ UNCHANGED <<impConf, impTarget, impDir, impOld, impGen, impScope, impCrashes>>
        /\ ImpFails
    BY <1>19 DEF ImpUndoFails, ImpGivenUp, ImpKeep
  <2> QED BY <1>1, <1>2, <1>3, <2>1
<1>20. ASSUME NEW d \in ImpDirs, ImpBackFails(d) PROVE ImpBoundsInv'
  <2>1. /\ UNCHANGED <<impConf, impTarget, impOld, impGen, impScope, impCrashes>> /\ ImpFails
        /\ impDir' \in {[impDir EXCEPT ![d] = impGen], [impDir EXCEPT ![d] = ImpGone]}
    BY <1>20 DEF ImpBackFails, ImpGivenUp, ImpKeep
  <2> QED BY <1>1, <1>2, <1>3, <1>5, <2>1
<1> QED BY <1>6, <1>7, <1>8, <1>9, <1>10, <1>11, <1>12, <1>13, <1>14, <1>15, <1>16, <1>17, <1>18,
           <1>19, <1>20 DEF ImpNext

\* With their invariant that is their type.
LEMMA ImpTypes == ASSUME ImpInv, ImpBoundsInv PROVE ImpTypeOK
<1>1. /\ impAt \in ImpSteps /\ impTx \in SUBSET ImpDirs /\ impSaved \in SUBSET ImpDirs
      /\ impStuck \in SUBSET ImpDirs
  BY DEF ImpInv, ImpShapeInv
<1> QED BY <1>1 DEF ImpBoundsInv, ImpTypeOK

-----------------------------------------------------------------------------
(* The theorems. *)

\* Forwards: a rule the page shows as running listens, one that does not says
\* why, and no connection outlives its rule or exceeds the limits.
THEOREM PanelForwards == PanelSpec => []ForwardsHold
<1> DEFINE Held == focus \in {"forwards", "connections"} => FwdInv
<1>1. PanelInit => Held
  BY FwdReloadInit, FwdPlacesInit DEF PanelInit, FwdInv
<1>2. Held /\ [PanelNext]_panelVars => Held'
  <2> SUFFICES ASSUME Held, [PanelNext]_panelVars, focus' \in {"forwards", "connections"}
               PROVE  FwdInv'
    OBVIOUS
  <2>1. focus \in {"forwards", "connections"}
    BY FocusStays
  <2>2. FwdInv
    BY <2>1
  <2>3. [FwdNext]_fwdVars /\ [FwdConnNext]_fwdConnVars
    BY <2>1, ForwardFrame
  <2> QED BY <2>2, <2>3, FwdReloadStep, FwdPlacesStep DEF FwdInv
<1>3. Held => ForwardsHold
  BY FwdReloadShows, FwdPlacesShow DEF FwdInv, ForwardsHold, ForwardsAreHonest
<1> QED BY <1>1, <1>2, <1>3, PTL DEF PanelSpec

\* Webhooks: every message is counted once as what became of it, every entry of
\* the history is in its file or among those it says are missing, an original
\* is that of its record, and no tested message is sent for real.
THEOREM PanelWebhooks == PanelSpec => []WebhooksHold
<1> DEFINE Held == focus = "webhooks" => WhkInv
<1>1. PanelInit => Held
  BY WhkInitInv DEF PanelInit
<1>2. Held /\ [PanelNext]_panelVars => Held'
  BY FocusStays, WebhooksFrame, WhkStepInv
<1>3. Held => WebhooksHold
  BY WhkShows DEF WebhooksHold
<1> QED BY <1>1, <1>2, <1>3, PTL DEF PanelSpec

\* Resources: what overlapping requests leave is a configuration none of them
\* would have been refused in, unless one was applied that its own check would
\* now refuse; a rule that was created is in one receiver until it is deleted,
\* unless a save put an older list back; and a refused request changes nothing.
THEOREM PanelResources == PanelSpec => []StoreHolds
<1> DEFINE Held == focus = "resources" => ResInv
<1>1. PanelInit => Held
  BY ResInitInv DEF PanelInit
<1>2. Held /\ [PanelNext]_panelVars => Held'
  BY FocusStays, ResourcesFrame, ResStepInv
<1>3. Held => StoreHolds
  BY ResShows DEF StoreHolds
<1> QED BY <1>1, <1>2, <1>3, PTL DEF PanelSpec

\* Servers: a port that two modules may want has after every pass the listener
\* the configuration gives it, however the pass, a shutdown and failures meet;
\* and what is shown of a backend is about the one a service leads to now,
\* while the log of refused sources keeps its rate.
THEOREM PanelServers == PanelSpec => []ServersHold
<1> DEFINE Held == /\ focus = "listeners" => LsnInv
                   /\ focus \in {"probes", "refusals"} => PrbInv /\ DenInv
<1>1. PanelInit => Held
  BY LsnInitInv, PrbInitInv, DenInitInv DEF PanelInit
<1>2. Held /\ [PanelNext]_panelVars => Held'
  BY FocusStays, ListenersFrame, ProbesFrame, LsnStepInv, PrbStepInv, DenStepInv
<1>3. Held => ServersHold
  BY LsnShows, ProbesShow DEF ServersHold
<1> QED BY <1>1, <1>2, <1>3, PTL DEF PanelSpec

\* Certificates: no mixed pair is ever left on disk or served while fewer than
\* three things went wrong, the index holds what is on disk and gives the name
\* to the best of it; an issuance ends as what it was; and nothing runs out
\* that could have been renewed.
THEOREM PanelCertificates == PanelSpec => []CertificatesHold
<1> DEFINE Held == /\ focus = "certificate store" => CertInv
                   /\ focus = "certificate issues" => IssInv
                   /\ focus = "certificate renewal" => RenInv
<1>1. PanelInit => Held
  BY CertInitInv, IssInitInv, RenInitInv DEF PanelInit
<1>2. Held /\ [PanelNext]_panelVars => Held'
  BY FocusStays, CertificatesFrame, CertStepInv, IssStepInv, RenStepInv
<1>3. Held => CertificatesHold
  BY CertShows, IssShows, RenShows DEF CertificatesHold
<1> QED BY <1>1, <1>2, <1>3, PTL DEF PanelSpec

\* Access: a session lives exactly as long as its pages and clocks say, and
\* nobody guesses more passwords than the limit allows, in a burst either, nor
\* sets the panel up twice.
THEOREM PanelAccess == PanelSpec => []AccessHolds
<1> DEFINE Held == /\ focus = "sessions" => SessInv
                   /\ focus \in {"sign-in", "setup"} => SgnInv
<1>1. PanelInit => Held
  BY SessInitInv, SgnInitInv DEF PanelInit
<1>2. Held /\ [PanelNext]_panelVars => Held'
  BY FocusStays, SessionsFrame, SessStep, SignInFrame, SgnStepInv
<1>3. Held => AccessHolds
  BY SessShows, SgnShows DEF AccessHolds
<1> QED BY <1>1, <1>2, <1>3, PTL DEF PanelSpec

\* Updates: the program file is always a version that starts, the way back
\* stays, an upload that was told of the restart is what restarts, one password
\* check admits one upload; and a page hears of exactly the later versions.
THEOREM PanelUpdates == PanelSpec => []UpdatesHold
<1> DEFINE Held == /\ focus = "self-update" => UpdInv
                   /\ focus = "update check" => ChkInv
<1>1. PanelInit => Held
  BY UpdInitInv, ChkInitInv DEF PanelInit
<1>2. Held /\ [PanelNext]_panelVars => Held'
  BY FocusStays, UpdatesFrame, UpdStepInv, ChkStepInv
<1>3. Held => UpdatesHold
  BY UpdShows, ChkShowsInv DEF UpdatesHold
<1> QED BY <1>1, <1>2, <1>3, PTL DEF PanelSpec

\* Saves: a directory and the list that belongs to it change together or are
\* both put back; an archive is one moment of the panel, and the image it and
\* the configuration name is there, unless two changes of it overlapped; and
\* when every save is answered the settings in force are the saved ones,
\* unless a save of the same section came between the two looks of another.
THEOREM PanelSaves == PanelSpec => []SavesHold
<1> DEFINE Held == /\ focus = "import" => ImpInv
                   /\ focus = "backup" => BkpInv
                   /\ focus = "settings" => StgInv
<1>1. PanelInit => Held
  BY ImpInitInv, BkpInitInv, StgInitInv DEF PanelInit
<1>2. Held /\ [PanelNext]_panelVars => Held'
  BY FocusStays, SavesFrame, ImpStepInv, BkpStepInv, StgStepInv
<1>3. Held => SavesHold
  BY ImpShows, BkpShows, StgShows DEF SavesHold
<1> QED BY <1>1, <1>2, <1>3, PTL DEF PanelSpec

\* Names: what a rule of dynamic DNS believes and shows of its records is true,
\* but for the excuses it names; no issuance fails because another one cleaned
\* up, a record of somebody else's stays, and the last one leaves no other.
THEOREM PanelNames == PanelSpec => []NamesHold
<1> DEFINE Held == /\ focus = "dynamic DNS" => DdnsInv
                   /\ focus = "challenges" => ChlInv
<1>1. PanelInit => Held
  BY DdnsInitInv, ChlInitInv DEF PanelInit
<1>2. Held /\ [PanelNext]_panelVars => Held'
  BY FocusStays, NamesFrame, DdnsStepInv, ChlStepInv
<1>3. Held => NamesHold
  BY DdnsShows, ChlShows DEF NamesHold
<1> QED BY <1>1, <1>2, <1>3, PTL DEF PanelSpec

\* Sites: who is banned is kept out until the ban ends or somebody releases it,
\* nobody is banned without the strikes that earn it, nor gets away with more
\* than two windows take. A password is computed once, nobody waits for one that
\* is not computed, the verdict on the good one is kept for its time, and the
\* backends share the requests by their weights. No source gets more than its
\* limit, however it moves and the table is swept and full.
THEOREM PanelSites == PanelSpec => []SitesHold
<1> DEFINE Held == /\ focus = "bans" => BanInv
                   /\ focus = "site requests" => SteInv
                   /\ focus = "limiter" => LimInv
<1>1. PanelInit => Held
  BY BanInitInv, SteInitInv, LimInitInv DEF PanelInit
<1>2. Held /\ [PanelNext]_panelVars => Held'
  BY FocusStays, SitesFrame, BanStepInv, SteStepInv, LimStepInv
<1>3. Held => SitesHold
  BY BanShows, SteShows, LimShows DEF SitesHold
<1> QED BY <1>1, <1>2, <1>3, PTL DEF PanelSpec

\* Tasks: every tick of a plan is fired, once and in time, or excused by a
\* suspension, and nothing is fired after Close; by hand a device is woken at
\* most a burst and one per refill; a task never runs twice at a time, and when
\* all is quiet the page shows its next time and no failure of one that is gone.
THEOREM PanelTasks == PanelSpec => []TasksHold
<1> DEFINE Held == /\ focus \in {"wake plans", "wakes by hand"} => WolInv /\ WolHandInv
                   /\ focus = "cron" => CronInv
<1>1. PanelInit => Held
  BY WolInitInv, WolHandInitInv, CronInitInv DEF PanelInit
<1>2. Held /\ [PanelNext]_panelVars => Held'
  BY FocusStays, TasksFrame, WolStepInv, WolHandStepInv, CronStepInv
<1>3. Held => TasksHold
  BY WolShows, CronShows DEF TasksHold
<1> QED BY <1>1, <1>2, <1>3, PTL DEF PanelSpec

\* Records: the rings of the log, of the access records and of the samples show
\* the latest in their order, however they were resized and cleared; the counters
\* of the log's file are those of its lines; and a page that has asked has the
\* whole series, although it is only sent what is new.
THEOREM PanelRecords == PanelSpec => []LogsHold
<1> DEFINE Held == focus \in {"log", "access records", "metrics"} => RecordsInv
<1>1. PanelInit => Held
  BY JrnInitInv, AccInitInv, MtrInitInv DEF PanelInit, RecordsInv
<1>2. Held /\ [PanelNext]_panelVars => Held'
  BY FocusStays, RecordsFrame, JrnStepInv, AccStepInv, MtrStepInv DEF RecordsInv
<1>3. Held => LogsHold
  BY RecordsShow DEF LogsHold
<1> QED BY <1>1, <1>2, <1>3, PTL DEF PanelSpec

\* What is kept of the component in focus: its invariant, and the bounds of what it counts.
CertificatesKept == /\ focus = "certificate store" => CertInv
                    /\ focus = "certificate issues" => IssInv
                    /\ focus = "certificate renewal" => RenInv
AccessKept == /\ focus = "sessions" => SessInv
              /\ focus \in {"sign-in", "setup"} => SgnInv
UpdatesKept == /\ focus = "self-update" => UpdInv
               /\ focus = "update check" => ChkInv
SavesKept == /\ focus = "import" => ImpInv /\ ImpBoundsInv
             /\ focus = "backup" => BkpInv /\ BkpBoundsInv
             /\ focus = "settings" => StgInv /\ StgStaleInv
ServersKept == /\ focus = "listeners" => LsnInv /\ LsnBoundInv
               /\ focus \in {"probes", "refusals"} =>
                     PrbInv /\ DenInv /\ PrbLateInv /\ DenClockInv
ForwardsKept == focus \in {"forwards", "connections"} =>
                   FwdInv /\ FwdReloadsInv /\ FwdServingInv
TasksKept == /\ focus \in {"wake plans", "wakes by hand"} => WolInv /\ WolHandInv
             /\ focus = "cron" => CronInv
NamesKept == /\ focus = "dynamic DNS" => DdnsInv
             /\ focus = "challenges" => ChlInv /\ ChlKindInv
SitesKept == /\ focus = "bans" => BanInv
             /\ focus = "site requests" => SteInv
             /\ focus = "limiter" => LimInv
OthersKept == /\ focus = "webhooks" => WhkInv
              /\ focus = "resources" => ResInv /\ ResBoundInv
              /\ focus \in {"log", "access records", "metrics"} => RecordsInv
AllKept == /\ CertificatesKept /\ AccessKept /\ UpdatesKept /\ SavesKept /\ ServersKept
           /\ ForwardsKept /\ TasksKept /\ NamesKept /\ SitesKept /\ OthersKept

\* Types: every variable of every component has its type: a step of the code
\* leaves no state, no record and no count that the others do not expect.
THEOREM PanelTypes == PanelSpec => []TypesOK
<1>1. PanelInit => AllKept
  <2> SUFFICES ASSUME PanelInit PROVE AllKept
    OBVIOUS
  <2> USE DEF AllKept, CertificatesKept, AccessKept, UpdatesKept, SavesKept, ServersKept,
              ForwardsKept, TasksKept, NamesKept, SitesKept, OthersKept
  <2>1. CertificatesKept /\ AccessKept /\ UpdatesKept
    BY CertInitInv, IssInitInv, RenInitInv, SessInitInv, SgnInitInv, UpdInitInv, ChkInitInv
       DEF PanelInit
  <2>2. SavesKept
    <3>1. StgStaleInv
      BY DEF PanelInit, StgInit, StgStaleInv
    <3> QED BY <3>1, ImpInitInv, ImpBoundsInit, BkpInitInv, BkpBoundsInit, StgInitInv DEF PanelInit
  <2>3. ServersKept
    BY LsnInitInv, LsnBoundInit, PrbInitInv, DenInitInv, PrbLateInit, DenClockInit DEF PanelInit
  <2>4. ForwardsKept
    BY FwdReloadInit, FwdPlacesInit, FwdReloadsInit, FwdServingInit DEF PanelInit, FwdInv
  <2>5. TasksKept /\ SitesKept
    BY WolInitInv, WolHandInitInv, CronInitInv, BanInitInv, SteInitInv, LimInitInv DEF PanelInit
  <2>6. NamesKept
    <3>1. ChlKindInv
      BY DEF PanelInit, ChlInit, ChlKindInv
    <3> QED BY <3>1, DdnsInitInv, ChlInitInv DEF PanelInit
  <2>7. OthersKept
    BY WhkInitInv, ResInitInv, ResBoundInit, JrnInitInv, AccInitInv, MtrInitInv
       DEF PanelInit, RecordsInv
  <2> QED BY <2>1, <2>2, <2>3, <2>4, <2>5, <2>6, <2>7
<1>2. AllKept /\ [PanelNext]_panelVars => AllKept'
  <2> SUFFICES ASSUME AllKept, [PanelNext]_panelVars PROVE AllKept'
    OBVIOUS
  <2> USE DEF AllKept, CertificatesKept, AccessKept, UpdatesKept, SavesKept, ServersKept,
              ForwardsKept, TasksKept, NamesKept, SitesKept, OthersKept
  <2>0. focus' = focus
    BY FocusStays
  <2>1. CertificatesKept'
    BY <2>0, CertificatesFrame, CertStepInv, IssStepInv, RenStepInv
  <2>2. AccessKept'
    BY <2>0, SessionsFrame, SessStep, SignInFrame, SgnStepInv
  <2>3. UpdatesKept'
    BY <2>0, UpdatesFrame, UpdStepInv, ChkStepInv
  <2>4. SavesKept'
    BY <2>0, SavesFrame, ImpStepInv, ImpBoundsStep, BkpStepInv, BkpBoundsStep, StgStepInv,
       StgStaleStep
  <2>5. ServersKept'
    BY <2>0, ListenersFrame, ProbesFrame, LsnStepInv, LsnBoundStep, PrbStepInv, DenStepInv,
       PrbLateStep, DenClockStep
  <2>6. ForwardsKept'
    <3> SUFFICES ASSUME focus \in {"forwards", "connections"}
                 PROVE  FwdInv' /\ FwdReloadsInv' /\ FwdServingInv'
      BY <2>0
    <3>1. FwdInv /\ FwdReloadsInv /\ FwdServingInv
      OBVIOUS
    <3>2. [FwdNext]_fwdVars /\ [FwdConnNext]_fwdConnVars
      BY ForwardFrame
    <3> QED BY <3>1, <3>2, FwdReloadStep, FwdPlacesStep, FwdReloadsStep, FwdServingStep DEF FwdInv
  <2>7. TasksKept'
    BY <2>0, TasksFrame, WolStepInv, WolHandStepInv, CronStepInv
  <2>8. NamesKept'
    BY <2>0, NamesFrame, DdnsStepInv, ChlStepInv, ChlKindStep
  <2>9. SitesKept'
    BY <2>0, SitesFrame, BanStepInv, SteStepInv, LimStepInv
  <2>10. OthersKept'
    <3>1. focus = "webhooks" => WhkInv'
      BY WebhooksFrame, WhkStepInv
    <3>2. focus = "resources" => ResInv' /\ ResBoundInv'
      BY ResourcesFrame, ResStepInv, ResBoundStep
    <3>3. focus \in {"log", "access records", "metrics"} => RecordsInv'
      BY RecordsFrame, JrnStepInv, AccStepInv, MtrStepInv DEF RecordsInv
    <3> QED BY <2>0, <3>1, <3>2, <3>3
  <2> QED BY <2>1, <2>2, <2>3, <2>4, <2>5, <2>6, <2>7, <2>8, <2>9, <2>10
<1>3. AllKept => TypesOK
  <2> SUFFICES ASSUME AllKept PROVE TypesOK
    OBVIOUS
  <2> USE DEF AllKept, CertificatesKept, AccessKept, UpdatesKept, SavesKept, ServersKept,
              ForwardsKept, TasksKept, NamesKept, SitesKept, OthersKept
  <2>1. /\ focus = "certificate store" => CertTypeOK
        /\ focus = "certificate issues" => IssTypeOK
        /\ focus = "certificate renewal" => RenTypeOK
        /\ focus = "sessions" => SessTypeOK
        /\ focus \in {"sign-in", "setup"} => SgnTypeOK
        /\ focus = "self-update" => UpdTypeOK
        /\ focus = "update check" => ChkTypeOK
    BY CertShows, IssShows, RenShows, SessShows, SgnShows, UpdShows, ChkShowsInv
  <2>2. /\ focus = "import" => ImpTypeOK
        /\ focus = "backup" => BkpTypeOK
        /\ focus = "settings" => StgTypeOK
        /\ focus = "listeners" => LsnTypeOK
        /\ focus \in {"probes", "refusals"} => PrbTypeOK
        /\ focus = "webhooks" => WhkTypeOK
        /\ focus \in {"forwards", "connections"} => FwdTypeOK
    BY ImpTypes, BkpTypes, StgTypes, LsnTypes, PrbTypes, WhkTypes, FwdTypes
  <2>3. /\ focus \in {"wake plans", "wakes by hand"} => WolTypeOK
        /\ focus = "cron" => CronTypeOK
        /\ focus = "resources" => ResTypeOK
        /\ focus = "dynamic DNS" => DdnsTypeOK
        /\ focus = "challenges" => ChlTypeOK
    BY WolShows, CronShows, ResTypes, DdnsTypes, ChlTypes
  <2>4. /\ focus = "bans" => BanTypeOK
        /\ focus = "limiter" => LimTypeOK
        /\ focus = "site requests" => SteTypeOK
        /\ focus \in {"log", "access records", "metrics"} => JrnTypeOK
    BY BanShows, LimShows, SteShows, RecordsShow
  <2> QED BY <2>1, <2>2, <2>3, <2>4 DEF TypesOK
<1> QED BY <1>1, <1>2, <1>3, PTL DEF PanelSpec

\* A login at the cap takes the place of the dead, or of the session that was
\* not seen for longest, and is valid itself.
THEOREM PanelLogins == PanelSpec => SessLoginDisplaces
<1>1. PanelInit => SessInv
  BY SessInitInv DEF PanelInit
<1>2. SessInv /\ [PanelNext]_panelVars => SessInv'
  BY SessionsFrame, SessionsRest, SessStep
<1>3. SessInv /\ [PanelNext]_panelVars =>
         [\A t, u \in SessTokens :
            sessLife[u].state = "new" /\ sessLife'[u].state = "on" =>
               /\ sessEntries'[u].in
               /\ (SessAlive(t) /\ t \in SessIn /\ t \notin sessRotating /\ sessLife'[t].state = "over") =>
                     \A v \in SessTokens \ {u} : sessEntries'[v].in =>
                        sessEntries[v].seen >= sessEntries[t].seen]_sessVars
  BY SessionsFrame, SessionsRest, SessStepDisplaces DEF SessDisplaced
<1> QED BY <1>1, <1>2, <1>3, PTL DEF PanelSpec, SessLoginDisplaces
=============================================================================
