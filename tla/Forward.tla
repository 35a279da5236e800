------------------------------- MODULE Forward -------------------------------
(***************************************************************************)
(* Port forwarding (internal/modules/forward/forward.go): Reload with the  *)
(* sockets its runners bind, and the connections of one runner with the    *)
(* gate all runners share.                                                 *)
(*                                                                         *)
(* Reload takes runners out of the table first, starts their successors,   *)
(* and stops the old ones last, after it has let go of the mutex.          *)
(***************************************************************************)
EXTENDS Integers, FiniteSets

CONSTANTS
    FwdRules, FwdPorts, FwdTargets,  \* rules, ports they listen on, where they lead
    FwdMaxStarts,                    \* bound: listeners started
    FwdMaxReloads,                   \* bound: reloads
    FwdConns,                        \* TCP connections
    FwdClients,                      \* UDP clients
    FwdMaxSessions,                  \* bound: UDP sessions created
    FwdRunnerMax, FwdGateMax         \* maxConnsPerRunner, maxConnsTotal

ASSUME FwdAssumption ==
    /\ IsFiniteSet(FwdRules) /\ FwdPorts \subseteq Nat \ {0} /\ FwdTargets \subseteq Nat
    /\ {FwdMaxStarts, FwdMaxReloads, FwdMaxSessions} \subseteq Nat
    /\ {FwdRunnerMax, FwdGateMax} \subseteq Nat \ {0} /\ FwdClients # {}

VARIABLES
    fwdConf,     \* the rules of the configuration being applied
    fwdStep,     \* Reload: idle, starting, writing the errors, or stopping
    fwdTodo,     \* rules left to look at, runners left to stop
    fwdTable,    \* Module.runners: the runner of a rule, or 0
    fwdRunner,   \* every runner started: port, target, whether it accepts
    fwdSock,     \* who has a port: a runner, 0 for nobody, -1 for another program
    fwdErr,      \* LastError of every rule, and errors of this reload
    fwdReloads,
    fwdGate,     \* connGate.cur
    fwdActive,   \* runner.activeConns
    fwdConn,     \* every TCP connection
    fwdSession,  \* the session of a client (its upstream), or 0
    fwdReader,   \* udpReturn goroutines: the client of an upstream
    fwdLast,     \* last upstream opened
    fwdServing   \* whether the runner is not cancelled, stopping or over

fwdVars == <<fwdConf, fwdStep, fwdTodo, fwdTable, fwdRunner, fwdSock, fwdErr,
             fwdReloads>>
fwdConnVars == <<fwdGate, fwdActive, fwdConn, fwdSession, fwdReader, fwdLast, fwdServing>>

FwdOff == [on |-> FALSE, port |-> 1, target |-> 1]
FwdRule == {FwdOff} \union [on : {TRUE}, port : FwdPorts, target : FwdTargets]
FwdIds == DOMAIN fwdRunner

-----------------------------------------------------------------------------
(* Reload.                                                                  *)

FwdSame(r) == /\ fwdTable[r] # 0
              /\ fwdRunner[fwdTable[r]].port = fwdConf'[r].port
              /\ fwdRunner[fwdTable[r]].target = fwdConf'[r].target

\* Runners of rules that are off now leave the table, and so do those whose
\* signature differs; a runner that is unchanged is not looked at again, even
\* if it no longer accepts.
FwdReloadBegins ==
    /\ fwdStep = "idle" /\ fwdReloads < FwdMaxReloads
    /\ fwdReloads' = fwdReloads + 1
    /\ fwdConf' \in [FwdRules -> FwdRule]
    /\ LET stays == {r \in FwdRules : fwdConf'[r].on /\ FwdSame(r)} IN
          /\ fwdTable' = [r \in FwdRules |-> IF r \in stays THEN fwdTable[r] ELSE 0]
          /\ fwdTodo' = [start |-> {r \in FwdRules : fwdConf'[r].on} \ stays,
                         stop |-> {fwdTable[r] : r \in FwdRules \ stays} \ {0}]
    /\ fwdErr' = [fwdErr EXCEPT !.now = {}]
    /\ fwdStep' = "start"
    /\ UNCHANGED <<fwdRunner, fwdSock>>

\* runner.start: net.Listen, before any old runner has been stopped.
FwdStart(r) ==
    /\ fwdStep = "start" /\ r \in fwdTodo.start
    /\ fwdTodo' = [fwdTodo EXCEPT !.start = @ \ {r}]
    /\ LET n == Cardinality(FwdIds) + 1 IN
       IF fwdSock[fwdConf[r].port] = 0
       THEN /\ n <= FwdMaxStarts
            /\ fwdRunner' = [i \in FwdIds \union {n} |-> IF i \in FwdIds THEN fwdRunner[i]
                ELSE [port |-> fwdConf[r].port, target |-> fwdConf[r].target, up |-> TRUE]]
            /\ fwdSock' = [fwdSock EXCEPT ![fwdConf[r].port] = n]
            /\ fwdTable' = [fwdTable EXCEPT ![r] = n]
            /\ UNCHANGED fwdErr
       ELSE /\ fwdErr' = [fwdErr EXCEPT !.now = @ \union {r}]
            /\ UNCHANGED <<fwdRunner, fwdSock, fwdTable>>
    /\ UNCHANGED <<fwdConf, fwdStep, fwdReloads>>

\* Mutant of FwdErrors: a rule that is off keeps the error it had.
FwdErrorsKept == fwdErr.now \union {r \in fwdErr.last : ~fwdConf[r].on}

\* The errors of this round; rules without one, and those that are off, have none.
FwdErrors == fwdErr.now

\* setLastError of every rule, still under the mutex.
FwdWrite ==
    /\ fwdStep = "start" /\ fwdTodo.start = {}
    /\ fwdErr' = [fwdErr EXCEPT !.last = FwdErrors]
    /\ fwdStep' = "stop"
    /\ UNCHANGED <<fwdConf, fwdTodo, fwdTable, fwdRunner, fwdSock, fwdReloads>>

\* runner.stop, one after the other.
FwdStop(n) ==
    /\ fwdStep = "stop" /\ n \in fwdTodo.stop
    /\ fwdTodo' = [fwdTodo EXCEPT !.stop = @ \ {n}]
    /\ fwdSock' = [p \in FwdPorts |-> IF fwdSock[p] = n THEN 0 ELSE fwdSock[p]]
    /\ fwdRunner' = [fwdRunner EXCEPT ![n].up = FALSE]
    /\ UNCHANGED <<fwdConf, fwdStep, fwdTable, fwdErr, fwdReloads>>
FwdReloadEnds ==
    /\ fwdStep = "stop" /\ fwdTodo.stop = {}
    /\ fwdStep' = "idle"
    /\ UNCHANGED <<fwdConf, fwdTodo, fwdTable, fwdRunner, fwdSock, fwdErr, fwdReloads>>

\* Another program takes or leaves a port.
FwdOther(p) ==
    /\ fwdStep = "idle" /\ fwdSock[p] \in {0, -1}
    /\ fwdSock' = [fwdSock EXCEPT ![p] = -1 - @]
    /\ UNCHANGED <<fwdConf, fwdStep, fwdTodo, fwdTable, fwdRunner, fwdErr, fwdReloads>>
\* Accept fails for good: the runner is marked failed.
FwdAcceptEnds(n) ==
    /\ n \in FwdIds /\ fwdRunner[n].up /\ fwdStep = "idle"
    /\ fwdRunner' = [fwdRunner EXCEPT ![n].up = FALSE]
    /\ UNCHANGED <<fwdConf, fwdStep, fwdTodo, fwdTable, fwdSock, fwdErr, fwdReloads>>

FwdInit ==
    /\ fwdConf = [r \in FwdRules |-> FwdOff] /\ fwdStep = "idle"
    /\ fwdTodo = [start |-> {}, stop |-> {}]
    /\ fwdTable = [r \in FwdRules |-> 0]
    /\ fwdRunner = [i \in {} |-> [port |-> 1, target |-> 1, up |-> FALSE]]
    /\ fwdSock = [p \in FwdPorts |-> 0]
    /\ fwdErr = [last |-> {}, now |-> {}] /\ fwdReloads = 0
FwdNext ==
    \/ FwdReloadBegins \/ FwdWrite \/ FwdReloadEnds
    \/ \E r \in FwdRules : FwdStart(r)
    \/ \E n \in FwdIds : FwdStop(n) \/ FwdAcceptEnds(n)
    \/ \E p \in FwdPorts : FwdOther(p)

-----------------------------------------------------------------------------
(* The connections of a runner.  Both counters are raised first and looked *)
(* at afterwards; who finds too much lowers them again.                     *)

FwdAt(c, step) == fwdConn[c] = step
FwdRest == UNCHANGED <<fwdSession, fwdReader, fwdLast, fwdServing>>

\* The connection is accepted and counted with the runner.
FwdAccept(c) ==
    /\ fwdServing = "yes" /\ FwdAt(c, "new")
    /\ \A d \in FwdConns : fwdConn[d] \notin {"counted", "within", "entering"}
    /\ fwdActive' = fwdActive + 1
    /\ fwdConn' = [fwdConn EXCEPT ![c] = "counted"]
    /\ FwdRest /\ UNCHANGED fwdGate
FwdRunnerFull(c) ==
    /\ FwdAt(c, "counted") /\ fwdActive > FwdRunnerMax
    /\ fwdActive' = fwdActive - 1
    /\ fwdConn' = [fwdConn EXCEPT ![c] = "over"]
    /\ FwdRest /\ UNCHANGED fwdGate
FwdRunnerTakes(c) ==
    /\ FwdAt(c, "counted") /\ fwdActive <= FwdRunnerMax
    /\ fwdConn' = [fwdConn EXCEPT ![c] = "within"]
    /\ FwdRest /\ UNCHANGED <<fwdGate, fwdActive>>
\* connGate.enter: Add, then the comparison.
FwdEnter(c) ==
    /\ FwdAt(c, "within")
    /\ fwdGate' = fwdGate + 1
    /\ fwdConn' = [fwdConn EXCEPT ![c] =
           IF fwdGate + 1 > FwdGateMax THEN "entering" ELSE "open"]
    /\ FwdRest /\ UNCHANGED fwdActive

\* Mutant of FwdLeaves: the place of the gate is not given back.
FwdLeavesNot == fwdGate

FwdLeaves == fwdGate - 1

FwdGateFull(c) ==
    /\ FwdAt(c, "entering")
    /\ fwdGate' = FwdLeaves /\ fwdActive' = fwdActive - 1
    /\ fwdConn' = [fwdConn EXCEPT ![c] = "over"]
    /\ FwdRest
\* handleTCP returns: no backend, both directions closed, or the runner stopped.
FwdConnEnds(c) ==
    /\ FwdAt(c, "open")
    /\ fwdGate' = FwdLeaves /\ fwdActive' = fwdActive - 1
    /\ fwdConn' = [fwdConn EXCEPT ![c] = "over"]
    /\ FwdRest

FwdTcp == UNCHANGED <<fwdActive, fwdConn>>
FwdSessions == {k \in FwdClients : fwdSession[k] # 0}

\* A datagram of a client without a session: a place, an upstream, a reader.
\* The sessions' mutex is held from the look at the map to the entry in it.
FwdDatagram(k) ==
    /\ fwdServing = "yes" /\ fwdSession[k] = 0
    /\ Cardinality(FwdSessions) < FwdRunnerMax /\ fwdGate + 1 <= FwdGateMax
    /\ fwdLast < FwdMaxSessions
    /\ fwdGate' = fwdGate + 1 /\ fwdLast' = fwdLast + 1
    /\ fwdSession' = [fwdSession EXCEPT ![k] = fwdLast + 1]
    /\ fwdReader' = [fwdReader EXCEPT ![fwdLast + 1] = [of |-> k, on |-> TRUE]]
    /\ FwdTcp /\ UNCHANGED fwdServing
\* The upstream cannot be reached: the place is given back at once.
FwdDialFails(k) ==
    /\ fwdServing = "yes" /\ fwdSession[k] = 0 /\ fwdGate + 1 <= FwdGateMax
    /\ fwdGate' = (fwdGate + 1) - 1
    /\ FwdTcp /\ UNCHANGED <<fwdSession, fwdReader, fwdLast, fwdServing>>
\* The ticker drops a session that is idle.
FwdIdle(k) ==
    /\ fwdServing = "yes" /\ fwdSession[k] # 0
    /\ fwdSession' = [fwdSession EXCEPT ![k] = 0]
    /\ fwdGate' = FwdLeaves
    /\ FwdTcp /\ UNCHANGED <<fwdReader, fwdLast, fwdServing>>

\* drop with only: the session is still the one of this upstream.
FwdOwn(u) == fwdSession[fwdReader[u].of] = u

\* udpReturn ends: its upstream is closed, or was idle too long.
FwdReaderEnds(u) ==
    /\ fwdReader[u].on
    /\ fwdReader' = [fwdReader EXCEPT ![u].on = FALSE]
    /\ IF FwdOwn(u)
       THEN /\ fwdSession' = [fwdSession EXCEPT ![fwdReader[u].of] = 0]
            /\ fwdGate' = FwdLeaves
       ELSE UNCHANGED <<fwdSession, fwdGate>>
    /\ FwdTcp /\ UNCHANGED <<fwdLast, fwdServing>>

\* stop cancels, serveUDP drops every session on its way out, and stop returns
\* when all goroutines have ended.
FwdCancel ==
    /\ fwdServing = "yes" /\ fwdServing' = "stopping"
    /\ fwdSession' = [k \in FwdClients |-> 0]
    /\ fwdGate' = fwdGate - Cardinality(FwdSessions)
    /\ FwdTcp /\ UNCHANGED <<fwdReader, fwdLast>>
FwdStopReturns ==
    /\ fwdServing = "stopping"
    /\ \A c \in FwdConns : fwdConn[c] \in {"new", "over"}
    /\ \A u \in 1..FwdMaxSessions : ~fwdReader[u].on
    /\ fwdServing' = "over"
    /\ FwdTcp /\ UNCHANGED <<fwdGate, fwdSession, fwdReader, fwdLast>>

FwdConnInit ==
    /\ fwdGate = 0 /\ fwdActive = 0
    /\ fwdConn = [c \in FwdConns |-> "new"]
    /\ fwdSession = [k \in FwdClients |-> 0]
    /\ fwdReader = [u \in 1..FwdMaxSessions |->
                       [of |-> CHOOSE k \in FwdClients : TRUE, on |-> FALSE]]
    /\ fwdLast = 0 /\ fwdServing = "yes"
FwdConnNext ==
    \/ \E c \in FwdConns : \/ FwdAccept(c) \/ FwdRunnerFull(c) \/ FwdRunnerTakes(c)
                           \/ FwdEnter(c) \/ FwdGateFull(c) \/ FwdConnEnds(c)
    \/ \E k \in FwdClients : FwdDatagram(k) \/ FwdDialFails(k) \/ FwdIdle(k)
    \/ \E u \in 1..FwdMaxSessions : FwdReaderEnds(u)
    \/ FwdCancel \/ FwdStopReturns

FwdSpec == FwdInit /\ FwdConnInit
           /\ [][\/ FwdNext /\ UNCHANGED fwdConnVars
                 \/ FwdConnNext /\ UNCHANGED fwdVars]_<<fwdVars, fwdConnVars>>

-----------------------------------------------------------------------------
FwdTypeOK ==
    /\ fwdConf \in [FwdRules -> FwdRule]
    /\ fwdStep \in {"idle", "start", "stop"}
    /\ fwdTodo \in [start : SUBSET FwdRules, stop : SUBSET FwdIds]
    /\ fwdTable \in [FwdRules -> FwdIds \union {0}]
    /\ FwdIds = 1..Cardinality(FwdIds)
    /\ \A n \in FwdIds : fwdRunner[n] \in [port : FwdPorts, target : FwdTargets, up : BOOLEAN]
    /\ fwdSock \in [FwdPorts -> FwdIds \union {0, -1}]
    /\ fwdErr \in [last : SUBSET FwdRules, now : SUBSET FwdRules]
    /\ fwdReloads \in 0..FwdMaxReloads
    /\ fwdGate \in Nat /\ fwdActive \in Nat
    /\ fwdConn \in [FwdConns -> {"new", "counted", "within", "entering", "open", "over"}]
    /\ fwdSession \in [FwdClients -> 0..FwdMaxSessions]
    /\ fwdReader \in [1..FwdMaxSessions -> [of : FwdClients, on : BOOLEAN]]
    /\ fwdLast \in 0..FwdMaxSessions /\ fwdServing \in {"yes", "stopping", "over"}

\* After a reload a rule that is on either has a runner that leads where the
\* rule says, alone on its port, or shows an error; one that is off has neither.
FwdReported ==
    fwdStep = "idle" => \A r \in FwdRules :
        LET n == fwdTable[r] IN
        /\ n = 0 => (fwdConf[r].on <=> r \in fwdErr.last)
        /\ n # 0 => /\ fwdConf[r].on /\ r \notin fwdErr.last
                    /\ fwdRunner[n].target = fwdConf[r].target
                    /\ fwdSock[fwdConf[r].port] = n

\* No socket outlives the rule it was bound for.
FwdNoLeftovers ==
    fwdStep = "idle" => \A p \in FwdPorts :
        fwdSock[p] > 0 => \E r \in FwdRules : fwdTable[r] = fwdSock[p]

\* A place of the gate is held by an open connection, a session, or somebody
\* about to be turned away; never more are open than the limits allow, and a
\* runner that has been stopped holds none.
FwdPlacesHeld ==
    LET open == {c \in FwdConns : fwdConn[c] = "open"}
        turned == {c \in FwdConns : fwdConn[c] = "entering"} IN
    /\ fwdGate = Cardinality(open) + Cardinality(turned) + Cardinality(FwdSessions)
    /\ Cardinality(open) + Cardinality(FwdSessions) <= FwdGateMax
    /\ Cardinality(open) <= FwdRunnerMax
    /\ fwdServing = "over" => fwdGate = 0

\* A session has its reader: a reader that ends late takes only its own session.
FwdSessionsRead ==
    \A k \in FwdClients : fwdSession[k] # 0 =>
        fwdReader[fwdSession[k]].on /\ fwdReader[fwdSession[k]].of = k

(* What forwarding shows is what it does, and no place is lost.            *)
ForwardsAreHonest == FwdReported /\ FwdNoLeftovers /\ FwdPlacesHeld /\ FwdSessionsRead
=============================================================================
