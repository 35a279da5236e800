------------------------------ MODULE Listeners ------------------------------
(***************************************************************************)
(* Who listens on a port: the web services of                              *)
(* internal/modules/webservice and the message routes of                   *)
(* internal/modules/webhook, through the reloads of one module pass.       *)
(*                                                                         *)
(* The web services reload first.  Where both want a port the web server   *)
(* keeps it and carries the route of the webhook; ReleasePort makes the    *)
(* webhook let go of it in the middle of the pass.                         *)
(***************************************************************************)
EXTENDS Integers, FiniteSets

CONSTANTS
    LsnPorts,        \* ports services may be given
    LsnMaxPasses,    \* bound: passes
    LsnMaxTroubles   \* bound: sockets taken by other programs, servers that stop

ASSUME LsnAssumption == LsnPorts \subseteq Nat \ {0} /\ IsFiniteSet(LsnPorts)
                        /\ LsnPorts # {} /\ {LsnMaxPasses, LsnMaxTroubles} \subseteq Nat

VARIABLES
    lsnConf,      \* the configuration of the pass
    lsnPass,      \* the pass: its step, ports left to start, the webhook's old port
    lsnWeb,       \* webservice.servers by port
    lsnHook,      \* webhook: spec, srv (0 for nil), lastErr, dead
    lsnSock,      \* the sockets of the host
    lsnClosing,   \* CloseAll: how far it is
    lsnBound      \* passes begun and troubles met

lsnVars == <<lsnConf, lsnPass, lsnWeb, lsnHook, lsnSock, lsnClosing, lsnBound>>

(* A port's web service is off, on, or on with no child but one that       *)
(* proxies to the panel itself: Reload skips that child.                   *)
LsnConfs == [web : [LsnPorts -> {"off", "on", "loop"}], hook : BOOLEAN,
             port : LsnPorts, named : BOOLEAN]
LsnNone == [web |-> [p \in LsnPorts |-> "off"], hook |-> FALSE,
            port |-> CHOOSE p \in LsnPorts : \A q \in LsnPorts : p <= q, named |-> FALSE]

\* WebhookSharesWebServicePort: it does not look at where the children lead.
LsnShares(c) == c.hook /\ c.named /\ c.web[c.port] # "off"

LsnSpec(c) == [enabled |-> c.hook, port |-> c.port, named |-> c.named,
               shared |-> LsnShares(c)]
\* The signature of a group: with the webhook's route or without.
LsnRoute(c, p) == LsnShares(c) /\ c.port = p
LsnServer(state, route) == [state |-> state, route |-> route]
LsnAbsent == LsnServer("none", FALSE)
LsnGroups(c) == {p \in LsnPorts : c.web[p] # "off"}

LsnWebBusy == lsnPass.at = "start"
LsnRest == UNCHANGED <<lsnConf, lsnClosing, lsnBound>>

-----------------------------------------------------------------------------
(* webservice.Reload, under its mutex.                                      *)

LsnPassBegins ==
    /\ lsnPass.at = "idle" /\ lsnClosing = "no"
    /\ lsnBound.passes < LsnMaxPasses
    /\ lsnBound' = [lsnBound EXCEPT !.passes = @ + 1]
    /\ lsnConf' \in LsnConfs
    /\ lsnPass' = [at |-> "web", todo |-> {}, held |-> lsnHook.srv]
    /\ UNCHANGED <<lsnWeb, lsnHook, lsnSock, lsnClosing>>

\* The web services are closed already: the pass goes on with the webhook.
LsnWebRefuses ==
    /\ lsnPass.at = "web" /\ lsnClosing \notin {"no", "begun"}
    /\ lsnPass' = [lsnPass EXCEPT !.at = "hook"]
    /\ UNCHANGED <<lsnWeb, lsnHook, lsnSock>> /\ LsnRest

\* Stale servers are those not wanted, changed, or unhealthy: closed first.
LsnStale == {p \in LsnPorts :
    /\ lsnWeb[p] # LsnAbsent
    /\ \/ p \notin LsnGroups(lsnConf)
       \/ lsnWeb[p] # LsnServer("up", LsnRoute(lsnConf, p))
       \/ lsnConf.web[p] = "loop"}
LsnWebCloses ==
    /\ lsnPass.at = "web" /\ lsnClosing \in {"no", "begun"}
    /\ lsnWeb' = [p \in LsnPorts |-> IF p \in LsnStale THEN LsnAbsent ELSE lsnWeb[p]]
    /\ lsnSock' = [p \in LsnPorts |->
           IF p \in LsnStale /\ lsnSock[p] = "web" THEN "free" ELSE lsnSock[p]]
    /\ lsnPass' = [lsnPass EXCEPT !.at = "start",
           !.todo = {p \in LsnPorts : lsnConf.web[p] = "on" /\ lsnWeb'[p] = LsnAbsent}]
    /\ UNCHANGED lsnHook /\ LsnRest

\* Mutant of LsnReleases: the webhook is not asked to let go.
LsnReleasesNot(p) == FALSE

\* ReleasePort: the webhook listens on the port that is to be shared.
LsnReleases(p) == LsnRoute(lsnConf, p) /\ lsnHook.srv # 0 /\ lsnHook.spec.port = p

\* ReleasePort, then start: a listen that fails leaves a server marked failed.
LsnWebStarts(p) ==
    LET freed == IF LsnReleases(p) /\ lsnSock[p] = "hook"
                 THEN [lsnSock EXCEPT ![p] = "free"] ELSE lsnSock IN
    /\ lsnPass.at = "start" /\ p \in lsnPass.todo
    /\ lsnHook' = IF LsnReleases(p) THEN [lsnHook EXCEPT !.srv = 0] ELSE lsnHook
    /\ LET state == IF freed[p] = "free" THEN "up" ELSE "failed" IN
          /\ lsnWeb' = [lsnWeb EXCEPT ![p] = LsnServer(state, LsnRoute(lsnConf, p))]
          /\ lsnSock' = IF state = "up" THEN [freed EXCEPT ![p] = "web"] ELSE freed
    /\ lsnPass' = [lsnPass EXCEPT !.todo = @ \ {p}]
    /\ LsnRest

LsnWebDone ==
    /\ lsnPass.at = "start" /\ lsnPass.todo = {}
    /\ lsnPass' = [lsnPass EXCEPT !.at = "hook"]
    /\ UNCHANGED <<lsnWeb, lsnHook, lsnSock>> /\ LsnRest

-----------------------------------------------------------------------------
(* webhook.applyListen: the mutex is taken anew for every step.             *)

LsnHookSame ==
    LET want == LsnSpec(lsnConf) IN
    lsnHook.spec = want /\ (lsnHook.srv # 0 <=> want.enabled /\ ~want.shared)

\* Closed, or nothing has changed.
LsnHookStays ==
    /\ lsnPass.at = "hook"
    /\ lsnClosing \in {"marked", "closed"} \/ LsnHookSame
    /\ lsnPass' = [lsnPass EXCEPT !.at = "idle"]
    /\ UNCHANGED <<lsnWeb, lsnHook, lsnSock>> /\ LsnRest

\* stopListen, and the new spec is stored.
LsnHookFreed == IF lsnHook.srv # 0 /\ lsnSock[lsnHook.srv] = "hook"
                THEN [lsnSock EXCEPT ![lsnHook.srv] = "free"] ELSE lsnSock
LsnHookStops ==
    /\ lsnPass.at = "hook"
    /\ lsnClosing \notin {"marked", "closed"} /\ ~LsnHookSame
    /\ lsnSock' = LsnHookFreed
    /\ lsnHook' = [spec |-> LsnSpec(lsnConf), srv |-> 0, err |-> FALSE, dead |-> FALSE]
    /\ lsnPass' = [lsnPass EXCEPT !.at =
           IF lsnConf.hook /\ ~LsnShares(lsnConf) THEN "bind" ELSE "idle"]
    /\ UNCHANGED lsnWeb /\ LsnRest

\* startListen: net.Listen fails.  The certificate of TLS may be missing too.
LsnHookFails ==
    /\ lsnPass.at = "bind"
    /\ \/ lsnSock[lsnConf.port] # "free" /\ UNCHANGED lsnBound
       \/ /\ lsnBound.troubles < LsnMaxTroubles
          /\ lsnBound' = [lsnBound EXCEPT !.troubles = @ + 1]
    /\ lsnHook' = [lsnHook EXCEPT !.err = TRUE]
    /\ lsnPass' = [lsnPass EXCEPT !.at = "idle"]
    /\ UNCHANGED <<lsnConf, lsnWeb, lsnSock, lsnClosing>>
LsnHookListens ==
    /\ lsnPass.at = "bind" /\ lsnSock[lsnConf.port] = "free"
    /\ lsnSock' = [lsnSock EXCEPT ![lsnConf.port] = "hook"]
    /\ lsnPass' = [lsnPass EXCEPT !.at = "install"]
    /\ UNCHANGED <<lsnWeb, lsnHook>> /\ LsnRest
\* The server is installed without a second look at closed.
LsnHookInstalls ==
    /\ lsnPass.at = "install"
    /\ lsnHook' = [lsnHook EXCEPT !.srv = lsnConf.port]
    /\ lsnPass' = [lsnPass EXCEPT !.at = "idle"]
    /\ UNCHANGED <<lsnWeb, lsnSock>> /\ LsnRest

-----------------------------------------------------------------------------
(* CloseAll: the manager closes, then its modules, a pass may be under way. *)

LsnClose ==
    /\ lsnClosing = "no" /\ lsnClosing' = "begun"
    /\ UNCHANGED <<lsnConf, lsnPass, lsnWeb, lsnHook, lsnSock, lsnBound>>
LsnCloseWeb ==
    /\ lsnClosing = "begun" /\ ~LsnWebBusy
    /\ lsnClosing' = "web"
    /\ lsnWeb' = [p \in LsnPorts |-> LsnAbsent]
    /\ lsnSock' = [p \in LsnPorts |-> IF lsnSock[p] = "web" THEN "free" ELSE lsnSock[p]]
    /\ UNCHANGED <<lsnConf, lsnPass, lsnHook, lsnBound>>
LsnCloseHook ==
    /\ lsnClosing = "web" /\ lsnClosing' = "marked"
    /\ UNCHANGED <<lsnConf, lsnPass, lsnWeb, lsnHook, lsnSock, lsnBound>>
LsnCloseHookStops ==
    /\ lsnClosing = "marked" /\ lsnClosing' = "closed"
    /\ lsnSock' = LsnHookFreed
    /\ lsnHook' = [lsnHook EXCEPT !.srv = 0]
    /\ UNCHANGED <<lsnConf, lsnPass, lsnWeb, lsnBound>>

-----------------------------------------------------------------------------
(* The host: other programs, and servers whose Serve returns.               *)

LsnTrouble ==
    /\ lsnPass.at = "idle" /\ lsnBound.troubles < LsnMaxTroubles
    /\ lsnBound' = [lsnBound EXCEPT !.troubles = @ + 1]
    /\ UNCHANGED <<lsnConf, lsnPass, lsnClosing>>
LsnOther(p) ==
    /\ LsnTrouble
    /\ lsnSock[p] \in {"free", "other"}
    /\ lsnSock' = [lsnSock EXCEPT ![p] = IF @ = "free" THEN "other" ELSE "free"]
    /\ UNCHANGED <<lsnWeb, lsnHook>>
LsnServeEnds(p) ==
    /\ LsnTrouble
    /\ lsnSock[p] \in {"web", "hook"}
    /\ lsnSock' = [lsnSock EXCEPT ![p] = "free"]
    /\ IF lsnSock[p] = "web"
       THEN lsnWeb' = [lsnWeb EXCEPT ![p].state = "failed"] /\ UNCHANGED lsnHook
       ELSE lsnHook' = [lsnHook EXCEPT !.err = TRUE, !.dead = TRUE] /\ UNCHANGED lsnWeb

LsnInit ==
    /\ lsnConf = LsnNone
    /\ lsnPass = [at |-> "idle", todo |-> {}, held |-> 0]
    /\ lsnWeb = [p \in LsnPorts |-> LsnAbsent]
    /\ lsnHook = [spec |-> LsnSpec(LsnNone), srv |-> 0, err |-> FALSE, dead |-> FALSE]
    /\ lsnSock = [p \in LsnPorts |-> "free"]
    /\ lsnClosing = "no" /\ lsnBound = [passes |-> 0, troubles |-> 0]

LsnNext ==
    \/ LsnPassBegins \/ LsnWebRefuses \/ LsnWebCloses \/ LsnWebDone
    \/ LsnHookStays \/ LsnHookStops \/ LsnHookFails \/ LsnHookListens
    \/ LsnHookInstalls \/ LsnClose \/ LsnCloseWeb \/ LsnCloseHook \/ LsnCloseHookStops
    \/ \E p \in LsnPorts : LsnWebStarts(p) \/ LsnOther(p) \/ LsnServeEnds(p)

LsnBehaviour == LsnInit /\ [][LsnNext]_lsnVars

-----------------------------------------------------------------------------
LsnTypeOK ==
    /\ lsnConf \in LsnConfs
    /\ lsnPass \in [at : {"idle", "web", "start", "hook", "bind", "install"},
                    todo : SUBSET LsnPorts, held : LsnPorts \union {0}]
    /\ lsnWeb \in [LsnPorts -> [state : {"none", "up", "failed"}, route : BOOLEAN]]
    /\ lsnHook \in [spec : [enabled : BOOLEAN, port : LsnPorts, named : BOOLEAN,
                            shared : BOOLEAN],
                    srv : LsnPorts \union {0}, err : BOOLEAN, dead : BOOLEAN]
    /\ lsnSock \in [LsnPorts -> {"free", "web", "hook", "other"}]
    /\ lsnClosing \in {"no", "begun", "web", "marked", "closed"}
    /\ lsnBound \in [passes : 0..LsnMaxPasses, troubles : 0..LsnMaxTroubles]

LsnSettled == lsnPass.at = "idle" /\ lsnClosing = "no"

(* Between passes the webhook's messages reach it: on a port of its own,   *)
(* or by the route of the web server that listens there; or the failure    *)
(* is on record.  The one silent gap is a shared port whose only child     *)
(* leads to the panel.                                                      *)
LsnHookReached ==
    LsnSettled /\ lsnConf.hook =>
        LET p == lsnConf.port IN
        IF ~LsnShares(lsnConf) THEN lsnSock[p] = "hook" \/ lsnHook.err
        ELSE \/ lsnWeb[p] = LsnServer("up", TRUE) /\ lsnSock[p] = "web"
             \/ lsnWeb[p].state = "failed" /\ lsnBound.troubles > 0
             \/ lsnConf.web[p] = "loop"

(* Between passes a web server that is wanted listens, unless another      *)
(* program has the port or the webhook had it when the pass began and was  *)
(* not asked to let go, because the port was not to be shared.              *)
LsnWebReached ==
    LsnSettled => \A p \in LsnPorts : lsnConf.web[p] = "on" =>
        \/ lsnSock[p] = "web"
        \/ lsnWeb[p].state = "failed" /\ (lsnBound.troubles > 0 \/ lsnPass.held = p)

(* Nobody keeps a port the configuration took from him, and the web        *)
(* services listen nowhere once they are closed.                            *)
LsnNobodyLingers ==
    /\ LsnSettled => \A p \in LsnPorts :
          /\ lsnSock[p] = "web" => lsnConf.web[p] = "on"
          /\ lsnSock[p] = "hook" => lsnConf.hook /\ lsnConf.port = p /\ ~LsnShares(lsnConf)
    /\ lsnClosing \in {"web", "marked", "closed"} =>
          \A p \in LsnPorts : lsnSock[p] # "web" /\ lsnWeb[p] = LsnAbsent

(* A port that two modules may want has after every pass the listener the  *)
(* configuration gives it, however the pass, a shutdown and failures meet. *)
PortsAreServed == LsnHookReached /\ LsnWebReached /\ LsnNobodyLingers
=============================================================================
