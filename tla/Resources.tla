------------------------------ MODULE Resources ------------------------------
(***************************************************************************)
(* The handlers that change the configuration's resources                  *)
(* (internal/server/api_resources.go, api_actions.go, api_webhook.go,      *)
(* api_webhook_rules.go), from several browser tabs at once.               *)
(*                                                                         *)
(* A request is checked, then applied.  Saves, creations, deletions and    *)
(* the switches of certificates and of the webhook module check a          *)
(* snapshot and apply in a later Update; the other switches and the rules  *)
(* of receivers are checked inside the Update.                             *)
(***************************************************************************)
EXTENDS Integers, FiniteSets

CONSTANTS
    ResTabs,              \* who sends requests
    ResWebs, ResWebMax,   \* ids of web services; MaxWebServices
    ResPorts, ResPanelPort,
    ResReceivers, ResRules,
    ResAsks,              \* requests that are sent
    ResMaxRequests        \* bound: requests

ResWeb == [has : BOOLEAN, on : BOOLEAN, port : ResPorts, kid : BOOLEAN]
ResHook == [made : BOOLEAN, on : BOOLEAN, port : ResPorts, https : BOOLEAN]

\* What each request brings.
ResWellFormed(q) ==
    /\ q.op \in {"newWeb", "saveWeb", "dropWeb", "turnWeb", "turnKid", "saveCert", "turnCert",
                 "dropCert", "saveHook", "turnHook", "dropHook", "saveRecv", "turnRecv",
                 "addRule", "moveRule", "dropRule", "dropTmpl", "saveSecret"}
    /\ q.op \in {"newWeb", "saveWeb"} => q.it \in ResWeb /\ q.it.has
    /\ q.op \in {"saveWeb", "dropWeb", "turnWeb", "turnKid"} => q.w \in ResWebs
    /\ q.op \in {"turnWeb", "turnKid", "saveCert", "turnCert", "turnHook", "saveRecv",
                 "turnRecv"} => q.on \in BOOLEAN
    /\ q.op = "saveHook" => q.it \in ResHook /\ q.it.made
    /\ q.op \in {"saveRecv", "turnRecv", "addRule", "moveRule"} => q.v \in ResReceivers
    /\ q.op = "saveRecv" => q.path \in ResReceivers
    /\ q.op \in {"addRule", "moveRule", "dropRule"} => q.r \in ResRules
    /\ q.op = "saveSecret" => q.typed \in {"masked", "first", "second"}

ASSUME ResAssumption ==
    /\ ResWebMax \in Nat \ {0} /\ IsFiniteSet(ResWebs) /\ IsFiniteSet(ResTabs)
    /\ Cardinality(ResWebs) >= ResWebMax + Cardinality(ResTabs) - 1
    /\ ResMaxRequests \in Nat /\ ResPanelPort \in ResPorts /\ ResPorts # {ResPanelPort}
    /\ \A q \in ResAsks : ResWellFormed(q)

VARIABLES
    resConf,     \* the configuration
    resReq,      \* every tab: its request, and the snapshot it was checked on
    resCount,
    resRaced,    \* a request was applied that its own check would now refuse
    resOverwrote,\* a save put back what another request had changed
    resKept,     \* rules whose creation was answered, and the secret last typed
    resLast      \* the last answer: refused, and what it did all the same

resVars == <<resConf, resReq, resCount, resRaced, resOverwrote, resKept, resLast>>

ResNoWeb == [has |-> FALSE, on |-> FALSE, port |-> ResPanelPort, kid |-> FALSE]
ResNoHook == [made |-> FALSE, on |-> FALSE, port |-> ResPanelPort, https |-> FALSE]

-----------------------------------------------------------------------------
(* The checks.  A web service has one child, with HTTPS, for a domain of    *)
(* the certificate.                                                         *)

ResServes(c, w, p) == c.webs[w].has /\ c.webs[w].on /\ c.webs[w].port = p

\* Mutant of ResPortFree: services that are off count, services that are on do not.
ResPortFreeOff(c, w, p) == ~\E o \in ResWebs \ {w} : c.webs[o].has /\ ~c.webs[o].on
                                                     /\ c.webs[o].port = p

\* One parent that is on per port.
ResPortFree(c, w, p) == ~\E o \in ResWebs \ {w} : ResServes(c, o, p)

\* validateWebService.
ResWebValid(c, w, it) ==
    /\ it.on => it.port # ResPanelPort /\ ResPortFree(c, w, it.port)
    /\ it.on /\ it.kid /\ c.hook.on /\ c.hook.port = it.port => c.hook.https
    /\ it.kid => c.cert # "off"

\* certInUse.
ResCertInUse(c) ==
    \/ c.hook.https
    \/ \E w \in ResWebs : c.webs[w].has /\ c.webs[w].on /\ c.webs[w].kid

\* checkWebhookServerReq.
ResHookValid(c, h) ==
    /\ h.on => /\ h.port # ResPanelPort
               /\ (\E w \in ResWebs : ResServes(c, w, h.port) /\ c.webs[w].kid) => h.https
    /\ h.https => c.cert = "on"

\* validateReceiver.
ResRecvValid(c, v) ==
    /\ c.recv[v].on => c.hook.made
    /\ \A o \in ResReceivers \ {v} : c.recv[o].path # c.recv[v].path
    /\ c.recv[v].rules # {} => c.tmpl

-----------------------------------------------------------------------------
(* What a request does.                                                     *)

\* Mutant of ResRulesOf: the rules of the form that was sent.
ResRulesOfForm(seen, v) == {}

\* existingReceiverRules: a receiver is saved with the rules it has.
ResRulesOf(seen, v) == seen.recv[v].rules

\* The secret of a credential comes back masked, and is put back.
ResSecretOf(seen, typed) == IF typed = "masked" THEN seen.secret ELSE typed

ResWith(c, w, it) == [c EXCEPT !.webs[w] = it]
ResFree(c) == CHOOSE w \in ResWebs : ~c.webs[w].has
ResOwner(c, r) == CHOOSE v \in ResReceivers : r \in c.recv[v].rules
ResHasRule(c, r) == \E v \in ResReceivers : r \in c.recv[v].rules

\* Before the Update.
ResChecked(q, c) ==
    CASE q.op = "newWeb" -> /\ Cardinality({w \in ResWebs : c.webs[w].has}) < ResWebMax
                            /\ ResWebValid(c, ResFree(c), q.it)
      [] q.op = "saveWeb" -> ResWebValid(c, q.w, q.it)
      [] q.op \in {"saveCert", "turnCert"} -> q.on \/ ~ResCertInUse(c)
      [] q.op = "dropCert" -> c.cert # "none" /\ ~ResCertInUse(c)
      [] q.op = "saveHook" -> ResHookValid(c, q.it)
      [] q.op = "turnHook" -> q.on => ResHookValid(c, [c.hook EXCEPT !.on = TRUE])
      [] q.op = "dropHook" -> c.hook.made /\ \A v \in ResReceivers : ~c.recv[v].on
      [] q.op = "saveRecv" ->
             ResRecvValid([c EXCEPT !.recv[q.v].on = q.on, !.recv[q.v].path = q.path], q.v)
      [] OTHER -> TRUE

\* Inside it, for the requests that look again; the rest is as it was found.
ResHolds(q, c) ==
    CASE q.op = "turnWeb" -> q.on => ResWebValid(c, q.w, c.webs[q.w])
      [] q.op = "turnKid" -> ResWebValid(c, q.w, c.webs[q.w])
      [] q.op = "turnRecv" -> q.on => ResRecvValid(c, q.v)
      [] q.op \in {"addRule", "moveRule"} -> ResRecvValid(c, q.v)
      [] OTHER -> TRUE

\* The configuration a request asks for.
ResAsked(q, seen, c) ==
    CASE q.op = "newWeb" -> ResWith(c, ResFree(c), q.it)
      [] q.op = "saveWeb" -> IF c.webs[q.w].has THEN ResWith(c, q.w, q.it) ELSE c
      [] q.op = "dropWeb" -> ResWith(c, q.w, ResNoWeb)
      [] q.op = "turnWeb" -> IF c.webs[q.w].has THEN [c EXCEPT !.webs[q.w].on = q.on] ELSE c
      [] q.op = "turnKid" -> IF c.webs[q.w].has THEN [c EXCEPT !.webs[q.w].kid = q.on] ELSE c
      [] q.op \in {"saveCert", "turnCert"} ->
             IF c.cert = "none" THEN c ELSE [c EXCEPT !.cert = IF q.on THEN "on" ELSE "off"]
      [] q.op = "dropCert" -> [c EXCEPT !.cert = "none"]
      [] q.op = "saveHook" -> [c EXCEPT !.hook = q.it]
      [] q.op = "turnHook" -> [c EXCEPT !.hook.on = q.on]
      [] q.op = "dropHook" -> [c EXCEPT !.hook = ResNoHook]
      [] q.op = "saveRecv" -> [c EXCEPT !.recv[q.v] =
             [on |-> q.on, path |-> q.path, rules |-> ResRulesOf(seen, q.v)]]
      [] q.op = "turnRecv" -> [c EXCEPT !.recv[q.v].on = q.on]
      [] q.op = "addRule" -> [c EXCEPT !.recv[q.v].rules = @ \union {q.r}]
      [] q.op = "moveRule" -> IF ResHasRule(c, q.r)
             THEN [c EXCEPT !.recv = [v \in ResReceivers |->
                      [c.recv[v] EXCEPT !.rules = IF v = q.v THEN @ \union {q.r}
                                                  ELSE @ \ {q.r}]]]
             ELSE c
      [] q.op = "dropRule" -> [c EXCEPT !.recv = [v \in ResReceivers |->
                                  [c.recv[v] EXCEPT !.rules = @ \ {q.r}]]]
      [] q.op = "dropTmpl" -> [c EXCEPT !.tmpl = FALSE]
      [] q.op = "saveSecret" -> [c EXCEPT !.secret = ResSecretOf(seen, q.typed)]

\* Mutant of ResRolledBack: what was asked for stays.
ResRolledBackNot(q, c, asked) == asked

\* A refusal inside the Update restores what was there; the switch of a child
\* restores the opposite of what was asked.
ResRolledBack(q, c, asked) ==
    IF q.op = "turnKid" THEN [asked EXCEPT !.webs[q.w].kid = ~q.on] ELSE c

-----------------------------------------------------------------------------
ResIdle == [pc |-> "idle", q |-> [op |-> "none"], seen |-> {}]

ResArrives(t, q) ==
    /\ resReq[t].pc = "idle" /\ resCount < ResMaxRequests
    /\ resCount' = resCount + 1
    /\ q.op = "addRule" => /\ ~ResHasRule(resConf, q.r) /\ q.r \notin resKept.rules
                           /\ \A u \in ResTabs : resReq[u].q.op # "addRule"
    /\ IF ResChecked(q, resConf)
       THEN /\ resReq' = [resReq EXCEPT ![t] = [pc |-> "checked", q |-> q, seen |-> resConf]]
            /\ UNCHANGED resLast
       ELSE /\ resLast' = [refused |-> TRUE, changed |-> FALSE, again |-> FALSE]
            /\ UNCHANGED resReq
    /\ UNCHANGED <<resConf, resRaced, resOverwrote, resKept>>

\* What is put back is no longer what is there.
ResPutsBack(q, seen) ==
    \/ q.op = "saveRecv" /\ seen.recv[q.v].rules # resConf.recv[q.v].rules
    \/ q.op = "saveSecret" /\ q.typed = "masked" /\ seen.secret # resConf.secret

ResApplies(t) ==
    /\ resReq[t].pc = "checked"
    /\ LET q == resReq[t].q
           seen == resReq[t].seen
           asked == ResAsked(q, seen, resConf)
           ok == ResHolds(q, asked)
           next == IF ok THEN asked ELSE ResRolledBack(q, resConf, asked) IN
       /\ resConf' = next
       /\ resRaced' = (resRaced \/ ~ResChecked(q, resConf))
       /\ resOverwrote' = (resOverwrote \/ ResPutsBack(q, seen))
       /\ resKept' = [rules |-> CASE ok /\ q.op = "addRule" -> resKept.rules \union {q.r}
                                  [] q.op = "dropRule" -> resKept.rules \ {q.r}
                                  [] OTHER -> resKept.rules,
                      secret |-> IF q.op = "saveSecret" /\ q.typed # "masked"
                                 THEN q.typed ELSE resKept.secret]
       /\ resLast' = [refused |-> ~ok, changed |-> next # resConf,
                      again |-> q.op = "turnKid" /\ resConf.webs[q.w].kid = q.on]
    /\ resReq' = [resReq EXCEPT ![t] = ResIdle]
    /\ UNCHANGED resCount

ResFirst == [webs |-> [w \in ResWebs |-> IF w = CHOOSE x \in ResWebs : TRUE
                        THEN [has |-> TRUE, on |-> FALSE, kid |-> TRUE,
                              port |-> CHOOSE p \in ResPorts : p # ResPanelPort]
                        ELSE ResNoWeb],
             cert |-> "on", hook |-> ResNoHook,
             recv |-> [v \in ResReceivers |-> [on |-> FALSE, path |-> v, rules |-> {}]],
             tmpl |-> TRUE, secret |-> "first"]
ResInit ==
    /\ resConf = ResFirst /\ resReq = [t \in ResTabs |-> ResIdle] /\ resCount = 0
    /\ resRaced = FALSE /\ resOverwrote = FALSE
    /\ resKept = [rules |-> {}, secret |-> "first"]
    /\ resLast = [refused |-> FALSE, changed |-> FALSE, again |-> FALSE]
ResNext ==
    \E t \in ResTabs : (\E q \in ResAsks : ResArrives(t, q)) \/ ResApplies(t)
ResSpec == ResInit /\ [][ResNext]_resVars

-----------------------------------------------------------------------------
ResConfs == [webs : [ResWebs -> ResWeb], cert : {"none", "off", "on"}, hook : ResHook,
             recv : [ResReceivers -> [on : BOOLEAN, path : ResReceivers, rules : SUBSET ResRules]],
             tmpl : BOOLEAN, secret : {"first", "second"}]
ResTypeOK ==
    /\ resConf \in ResConfs
    /\ \A t \in ResTabs : \/ resReq[t].pc = "idle"
                          \/ resReq[t].pc = "checked" /\ resReq[t].q \in ResAsks
                             /\ resReq[t].seen \in ResConfs
    /\ resCount \in 0..ResMaxRequests
    /\ {resRaced, resOverwrote} \subseteq BOOLEAN
    /\ resKept \in [rules : SUBSET ResRules, secret : {"first", "second"}]
    /\ resLast \in [refused : BOOLEAN, changed : BOOLEAN, again : BOOLEAN]

\* Services that are on have the port of nobody else; those that share one with
\* the webhook agree on HTTPS; certificates in use exist and are on; receivers
\* that are on have a module and a path of their own; no more services than the
\* limit.  Only two requests that overlap, one of them checked outside its
\* Update, can break it.
ResLegal(c) ==
    /\ Cardinality({w \in ResWebs : c.webs[w].has}) <= ResWebMax
    /\ \A w \in ResWebs : c.webs[w].has /\ c.webs[w].on =>
           /\ c.webs[w].port # ResPanelPort
           /\ \A o \in ResWebs : ResServes(c, o, c.webs[w].port) => o = w
           /\ c.webs[w].kid => c.cert # "off"
           /\ c.webs[w].kid /\ c.hook.on /\ c.hook.port = c.webs[w].port => c.hook.https
    /\ c.hook.https => c.cert = "on"
    /\ \A v, o \in ResReceivers : c.recv[v].path = c.recv[o].path => v = o
    /\ (\E v \in ResReceivers : c.recv[v].on) => c.hook.made
ResStaysLegal == resRaced \/ ResLegal(resConf)

\* A rule that was created stays until it is deleted, in one receiver; the
\* secret is the one last typed.  Only a save that overlaps loses either.
ResNothingLost == resOverwrote \/
    /\ \A r \in ResRules : Cardinality({v \in ResReceivers : r \in resConf.recv[v].rules}) =
                           IF r \in resKept.rules THEN 1 ELSE 0
    /\ resConf.secret = resKept.secret

\* A request that is refused changes nothing, but for the switch of a child that
\* is already where it is asked to be.
ResRefusedIsInert == resLast.refused /\ resLast.changed => resLast.again

(* What the panel stores is what its checks allow and its users asked for.  *)
ResourcesHold == ResStaysLegal /\ ResNothingLost /\ ResRefusedIsInert
=============================================================================
