---------------------------- MODULE ServingProofs ----------------------------
(***************************************************************************)
(* What port forwarding promises, for every set of rules, ports, targets,  *)
(* connections and clients, which need not be finite, but the rules: Reload*)
(* looks at each; and the intake of messages, for every finite set of      *)
(* requests; and the resources of the configuration, for every finite set  *)
(* of tabs and of services; and who listens on a port, what is shown of a  *)
(* backend and how often a refused source is logged, for any ports,        *)
(* backends, sources and rates; and the records that prove a name, for any *)
(* issuances and their values, and those that dynamic DNS keeps, for any   *)
(* records, providers and addresses. FwdReloadInv is the inductive         *)
(* invariant of Reload and its sockets, FwdPlacesInv that of the places of *)
(* a runner and of the gate, WhkInv that of the intake, ResInv that of the *)
(* resources, LsnInv, PrbInv and DenInv those of the next three, ChlInv and*)
(* DdnsInv those of the records.                                           *)
(***************************************************************************)
EXTENDS Forward, WebhookIntake, Resources, Listeners, Probes, Challenges, Ddns,
        FiniteSetTheorems, WellFoundedInduction, TLAPS

-----------------------------------------------------------------------------
(* Reload. *)

\* Runners are numbered as they are started, and keep their port and target.
FwdRunnersInv ==
    /\ \E n \in 0..FwdMaxStarts : FwdIds = 1..n
    /\ \A n \in FwdIds :
           fwdRunner[n] \in [port : FwdPorts, target : FwdTargets, up : BOOLEAN]
    /\ fwdConf \in [FwdRules -> FwdRule]
    /\ fwdTable \in [FwdRules -> FwdIds \union {0}]
    /\ fwdSock \in [FwdPorts -> FwdIds \union {0, -1}]
    /\ fwdTodo \in [start : SUBSET FwdRules, stop : SUBSET FwdIds]
    /\ fwdErr \in [last : SUBSET FwdRules, now : SUBSET FwdRules]
    /\ fwdStep \in {"idle", "start", "stop"}

\* The runner of a rule is its own, leads where the rule says, and has the port;
\* it is not one of those to be stopped.
FwdTableInv ==
    /\ \A r \in FwdRules : fwdTable[r] # 0 =>
          /\ fwdConf[r].on
          /\ fwdRunner[fwdTable[r]].port = fwdConf[r].port
          /\ fwdRunner[fwdTable[r]].target = fwdConf[r].target
          /\ fwdSock[fwdConf[r].port] = fwdTable[r]
          /\ fwdTable[r] \notin fwdTodo.stop
    /\ \A r, s \in FwdRules : fwdTable[r] # 0 /\ fwdTable[r] = fwdTable[s] => r = s

\* A port is held by a runner of the table, or by one still to be stopped, and
\* between two reloads none is.
FwdSocketsInv ==
    /\ \A p \in FwdPorts : fwdSock[p] > 0 =>
          fwdSock[p] \in fwdTodo.stop \/ \E r \in FwdRules : fwdTable[r] = fwdSock[p]
    /\ fwdStep = "idle" => fwdTodo.stop = {}

\* A rule that is on is running, still to be started, or has an error; the errors
\* are written when all were started.
FwdErrorsInv ==
    /\ fwdStep = "start" => \A r \in FwdRules :
          /\ r \in fwdTodo.start \/ r \in fwdErr.now => fwdConf[r].on /\ fwdTable[r] = 0
          /\ fwdConf[r].on => r \in fwdTodo.start \/ r \in fwdErr.now \/ fwdTable[r] # 0
          /\ ~ (r \in fwdTodo.start /\ r \in fwdErr.now)
    /\ fwdStep # "start" => \A r \in FwdRules :
          r \in fwdErr.last <=> fwdConf[r].on /\ fwdTable[r] = 0

FwdReloadInv == FwdRunnersInv /\ FwdTableInv /\ FwdSocketsInv /\ FwdErrorsInv

-----------------------------------------------------------------------------
(* The places of a runner and of the gate. *)

FwdConnsAt(steps) == {c \in FwdConns : fwdConn[c] \in steps}
FwdOpen == FwdConnsAt({"open"})
FwdTurned == FwdConnsAt({"entering"})
FwdArriving == FwdConnsAt({"counted", "within", "entering"})

\* Who has a place is known, so that the counters are their numbers.
FwdCountsInv ==
    /\ IsFiniteSet(FwdOpen) /\ IsFiniteSet(FwdArriving) /\ IsFiniteSet(FwdSessions)
    /\ fwdActive = Cardinality(FwdOpen) + Cardinality(FwdArriving)
    /\ fwdGate = Cardinality(FwdOpen) + Cardinality(FwdTurned) + Cardinality(FwdSessions)

\* One connection arrives at a time, and once within there is room for it.
FwdRoomInv ==
    /\ \A c, d \in FwdArriving : c = d
    /\ Cardinality(FwdOpen) + Cardinality(FwdSessions) <= FwdGateMax
    /\ Cardinality(FwdOpen) <= FwdRunnerMax
    /\ \A c \in FwdArriving : fwdConn[c] # "counted" =>
           Cardinality(FwdOpen) < FwdRunnerMax

\* A runner that stops has dropped its sessions, and one that stopped has no
\* connection either.
FwdStoppedInv ==
    /\ fwdServing # "yes" => \A k \in FwdClients : fwdSession[k] = 0
    /\ fwdServing = "over" => \A c \in FwdConns : fwdConn[c] \in {"new", "over"}

FwdUpstreamsInv ==
    /\ fwdConn \in [FwdConns -> {"new", "counted", "within", "entering", "open", "over"}]
    /\ fwdSession \in [FwdClients -> 0..FwdMaxSessions]
    /\ DOMAIN fwdReader = 1..FwdMaxSessions
    /\ \A u \in 1..FwdMaxSessions :
           /\ DOMAIN fwdReader[u] = {"of", "on"}
           /\ fwdReader[u].on => fwdReader[u].of \in FwdClients
    /\ fwdLast \in 0..FwdMaxSessions
    /\ \A k \in FwdClients : fwdSession[k] <= fwdLast
    /\ FwdSessionsRead

FwdPlacesInv == FwdCountsInv /\ FwdRoomInv /\ FwdStoppedInv /\ FwdUpstreamsInv

-----------------------------------------------------------------------------
(* Reload keeps its invariant. *)

LEMMA FwdReloadInit == FwdInit => FwdReloadInv
<1> SUFFICES ASSUME FwdInit
             PROVE  FwdReloadInv
  OBVIOUS
<1> USE DEF FwdInit
<1>1. FwdIds = {} /\ {} = 1..0 /\ 0 \in 0..FwdMaxStarts
  BY FwdAssumption DEF FwdIds
<1>2. FwdRunnersInv
  BY <1>1 DEF FwdRunnersInv, FwdRule, FwdIds
<1>3. FwdTableInv /\ FwdSocketsInv
  BY DEF FwdTableInv, FwdSocketsInv
<1>4. FwdErrorsInv
  BY DEF FwdErrorsInv, FwdOff
<1> QED BY <1>2, <1>3, <1>4 DEF FwdReloadInv

\* Runners are numbers from one.
LEMMA FwdIdsLemma ==
    ASSUME FwdRunnersInv
    PROVE  /\ \A n \in FwdIds : n \in Nat /\ n > 0
           /\ Cardinality(FwdIds) \in Nat
           /\ FwdIds = 1..Cardinality(FwdIds)
           /\ FwdMaxStarts \in Nat
<1>1. PICK n \in 0..FwdMaxStarts : FwdIds = 1..n
  BY DEF FwdRunnersInv
<1>2. n \in Nat /\ FwdMaxStarts \in Nat
  BY FwdAssumption
<1>3. Cardinality(1..n) = n
  BY <1>2, FS_Interval
<1> QED BY <1>1, <1>2, <1>3

\* A rule that is on has a port and a target.
LEMMA FwdOnLemma ==
    ASSUME NEW rule \in FwdRule, rule.on
    PROVE  rule.port \in FwdPorts /\ rule.target \in FwdTargets
<1>1. rule # FwdOff
  BY DEF FwdOff
<1>2. rule \in [on : {TRUE}, port : FwdPorts, target : FwdTargets]
  BY <1>1 DEF FwdRule
<1> QED BY <1>2

LEMMA FwdReloadBeginsInv ==
    ASSUME FwdReloadInv, FwdReloadBegins
    PROVE  FwdReloadInv'
<1> DEFINE stays == {r \in FwdRules : fwdConf'[r].on /\ FwdSame(r)}
<1>1. /\ fwdStep = "idle" /\ fwdStep' = "start"
      /\ fwdConf' \in [FwdRules -> FwdRule]
      /\ fwdTable' = [r \in FwdRules |-> IF r \in stays THEN fwdTable[r] ELSE 0]
      /\ fwdTodo' = [start |-> {r \in FwdRules : fwdConf'[r].on} \ stays,
                     stop |-> {fwdTable[r] : r \in FwdRules \ stays} \ {0}]
      /\ fwdErr' = [fwdErr EXCEPT !.now = {}]
      /\ fwdRunner' = fwdRunner /\ fwdSock' = fwdSock /\ FwdIds' = FwdIds
  BY DEF FwdReloadBegins, FwdIds
<1>2. \A r \in stays : /\ r \in FwdRules /\ fwdTable[r] # 0 /\ fwdConf'[r].on
                       /\ fwdRunner[fwdTable[r]].port = fwdConf'[r].port
                       /\ fwdRunner[fwdTable[r]].target = fwdConf'[r].target
  BY DEF FwdSame
<1> HIDE DEF stays
<1>3. /\ FwdRunnersInv /\ FwdTableInv /\ FwdSocketsInv
      /\ fwdTable \in [FwdRules -> FwdIds \union {0}]
  BY DEF FwdReloadInv, FwdRunnersInv
<1>4. \A r \in FwdRules : fwdTable'[r] = IF r \in stays THEN fwdTable[r] ELSE 0
  BY <1>1
<1>5. stays \subseteq FwdRules
  BY <1>2
<1>6. FwdRunnersInv'
  <2>1. fwdTodo' \in [start : SUBSET FwdRules, stop : SUBSET FwdIds']
    <3>1. {fwdTable[r] : r \in FwdRules \ stays} \ {0} \subseteq FwdIds
      BY <1>3
    <3> QED BY <1>1, <3>1
  <2>2. fwdTable' \in [FwdRules -> FwdIds' \union {0}]
    BY <1>1, <1>3, <1>5
  <2>3. fwdErr' \in [last : SUBSET FwdRules, now : SUBSET FwdRules]
    BY <1>1, <1>3 DEF FwdRunnersInv
  <2>4. fwdSock' \in [FwdPorts -> FwdIds' \union {0, -1}]
    BY <1>1, <1>3 DEF FwdRunnersInv
  <2> QED BY <1>1, <1>3, <2>1, <2>2, <2>3, <2>4 DEF FwdRunnersInv
<1>7. FwdTableInv'
  <2>1. ASSUME NEW r \in FwdRules, fwdTable'[r] # 0
        PROVE  r \in stays /\ fwdTable'[r] = fwdTable[r]
    BY <1>4, <2>1
  <2>2. ASSUME NEW r \in FwdRules, fwdTable'[r] # 0
        PROVE  /\ fwdConf'[r].on
               /\ fwdRunner'[fwdTable'[r]].port = fwdConf'[r].port
               /\ fwdRunner'[fwdTable'[r]].target = fwdConf'[r].target
               /\ fwdSock'[fwdConf'[r].port] = fwdTable'[r]
               /\ fwdTable'[r] \notin fwdTodo'.stop
    <3>1. r \in stays /\ fwdTable'[r] = fwdTable[r]
      BY <2>1, <2>2
    <3>2. fwdSock[fwdRunner[fwdTable[r]].port] = fwdTable[r]
      BY <1>2, <1>3, <3>1 DEF FwdTableInv
    <3>3. ASSUME fwdTable[r] \in fwdTodo'.stop
          PROVE  FALSE
      <4>1. PICK s \in FwdRules \ stays : fwdTable[r] = fwdTable[s]
        BY <1>1, <3>3
      <4> QED BY <1>2, <1>3, <3>1, <4>1 DEF FwdTableInv
    <3> QED BY <1>1, <1>2, <3>1, <3>2, <3>3
  <2>3. \A r, s \in FwdRules :
            fwdTable'[r] # 0 /\ fwdTable'[r] = fwdTable'[s] => r = s
    BY <1>3, <2>1 DEF FwdTableInv
  <2> QED BY <2>2, <2>3 DEF FwdTableInv
<1>8. FwdSocketsInv'
  <2> SUFFICES ASSUME NEW p \in FwdPorts, fwdSock[p] > 0
               PROVE  \/ fwdSock[p] \in fwdTodo'.stop
                      \/ \E r \in FwdRules : fwdTable'[r] = fwdSock[p]
    BY <1>1 DEF FwdSocketsInv
  <2>1. PICK r \in FwdRules : fwdTable[r] = fwdSock[p]
    BY <1>1, <1>3 DEF FwdSocketsInv
  <2>2. fwdTable[r] # 0
    BY <2>1
  <2> QED BY <1>1, <1>4, <2>1, <2>2
<1>9. FwdErrorsInv'
  <2>1. fwdErr'.now = {}
    BY <1>1, <1>3 DEF FwdRunnersInv
  <2>2. fwdTodo'.start = {r \in FwdRules : fwdConf'[r].on} \ stays
    BY <1>1
  <2>3. fwdStep' = "start"
    BY <1>1
  <2> QED BY <1>2, <1>4, <2>1, <2>2, <2>3 DEF FwdErrorsInv
<1> QED BY <1>6, <1>7, <1>8, <1>9 DEF FwdReloadInv

\* A rule whose port is free gets a runner with a new number.
LEMMA FwdStartsInv ==
    ASSUME FwdReloadInv, NEW r \in FwdRules, FwdStart(r),
           fwdSock[fwdConf[r].port] = 0
    PROVE  FwdReloadInv'
<1> DEFINE n == Cardinality(FwdIds) + 1
           port == fwdConf[r].port
<1>1. /\ FwdRunnersInv /\ FwdTableInv /\ FwdSocketsInv /\ FwdErrorsInv
  BY DEF FwdReloadInv
<1>2. /\ fwdStep = "start" /\ fwdStep' = "start" /\ r \in fwdTodo.start
      /\ fwdTodo' = [fwdTodo EXCEPT !.start = @ \ {r}]
      /\ n <= FwdMaxStarts
      /\ fwdRunner' = [i \in FwdIds \union {n} |-> IF i \in FwdIds THEN fwdRunner[i]
             ELSE [port |-> port, target |-> fwdConf[r].target, up |-> TRUE]]
      /\ fwdSock' = [fwdSock EXCEPT ![port] = n]
      /\ fwdTable' = [fwdTable EXCEPT ![r] = n]
      /\ fwdErr' = fwdErr /\ fwdConf' = fwdConf
  BY DEF FwdStart
<1>3. /\ \A i \in FwdIds : i \in Nat /\ i > 0 /\ i # n
      /\ FwdIds' = FwdIds \union {n} /\ n \in Nat /\ n > 0
      /\ FwdIds' = 1..n /\ n \in 0..FwdMaxStarts
  <2>1. \A i \in FwdIds : i \in Nat /\ i > 0 /\ i # n
    BY <1>1, FwdIdsLemma
  <2>2. FwdIds' = FwdIds \union {n}
    BY <1>2 DEF FwdIds
  <2>3. Cardinality(FwdIds) \in Nat /\ FwdIds = 1..Cardinality(FwdIds)
    BY <1>1, FwdIdsLemma
  <2>4. FwdMaxStarts \in Nat
    BY FwdAssumption
  <2> QED BY <1>2, <2>1, <2>2, <2>3, <2>4
<1> HIDE DEF n
<1>4. /\ fwdConf[r].on /\ fwdTable[r] = 0 /\ r \notin fwdErr.now
  BY <1>1, <1>2 DEF FwdErrorsInv
<1>5. port \in FwdPorts /\ fwdConf[r].target \in FwdTargets
  <2>1. fwdConf[r] \in FwdRule
    BY <1>1 DEF FwdRunnersInv
  <2> QED BY <1>4, <2>1, FwdOnLemma
<1>6. /\ fwdTable \in [FwdRules -> FwdIds \union {0}]
      /\ fwdSock \in [FwdPorts -> FwdIds \union {0, -1}]
      /\ fwdTodo \in [start : SUBSET FwdRules, stop : SUBSET FwdIds]
  BY <1>1 DEF FwdRunnersInv
<1>7. /\ fwdTodo'.start = fwdTodo.start \ {r} /\ fwdTodo'.stop = fwdTodo.stop
      /\ \A s \in FwdRules : fwdTable'[s] = IF s = r THEN n ELSE fwdTable[s]
      /\ \A p \in FwdPorts : fwdSock'[p] = IF p = port THEN n ELSE fwdSock[p]
      /\ \A i \in FwdIds : fwdRunner'[i] = fwdRunner[i]
      /\ fwdRunner'[n] = [port |-> port, target |-> fwdConf[r].target, up |-> TRUE]
  BY <1>2, <1>3, <1>6
<1> HIDE DEF port
<1>8. FwdRunnersInv'
  <2>1. ASSUME NEW i \in FwdIds'
        PROVE  fwdRunner'[i] \in [port : FwdPorts, target : FwdTargets, up : BOOLEAN]
    <3>1. CASE i \in FwdIds
      BY <1>1, <1>7, <3>1 DEF FwdRunnersInv
    <3>2. CASE i = n
      <4>1. fwdRunner'[i] = [port |-> port, target |-> fwdConf[r].target, up |-> TRUE]
        BY <1>7, <3>2
      <4>2. port \in FwdPorts /\ fwdConf[r].target \in FwdTargets
        BY <1>5
      <4> QED BY <4>1, <4>2
    <3> QED BY <1>3, <3>1, <3>2
  <2>2. fwdTodo' \in [start : SUBSET FwdRules, stop : SUBSET FwdIds']
    BY <1>2, <1>3, <1>6
  <2>3. /\ fwdTable' \in [FwdRules -> FwdIds' \union {0}]
        /\ fwdSock' \in [FwdPorts -> FwdIds' \union {0, -1}]
    BY <1>2, <1>3, <1>6
  <2> QED BY <1>1, <1>2, <1>3, <2>1, <2>2, <2>3 DEF FwdRunnersInv
<1>9. FwdTableInv'
  <2>1. ASSUME NEW s \in FwdRules, fwdTable'[s] # 0
        PROVE  /\ fwdConf'[s].on
               /\ fwdRunner'[fwdTable'[s]].port = fwdConf'[s].port
               /\ fwdRunner'[fwdTable'[s]].target = fwdConf'[s].target
               /\ fwdSock'[fwdConf'[s].port] = fwdTable'[s]
               /\ fwdTable'[s] \notin fwdTodo'.stop
    <3>1. CASE s = r
      BY <1>2, <1>3, <1>4, <1>5, <1>6, <1>7, <3>1 DEF port
    <3>2. CASE s # r
      <4>1. fwdTable'[s] = fwdTable[s] /\ fwdTable[s] \in FwdIds
        BY <1>6, <1>7, <2>1, <3>2
      <4>2. fwdConf[s].on /\ fwdSock[fwdConf[s].port] = fwdTable[s]
        BY <1>1, <2>1, <4>1 DEF FwdTableInv
      <4>3. fwdConf[s].port \in FwdPorts
        <5>1. fwdConf[s] \in FwdRule
          BY <1>1 DEF FwdRunnersInv
        <5> QED BY <4>2, <5>1, FwdOnLemma
      <4>4. fwdConf[s].port # port
        BY <2>1, <4>1, <4>2 DEF port
      <4> QED BY <1>1, <1>2, <1>7, <2>1, <4>1, <4>2, <4>3, <4>4 DEF FwdTableInv
    <3> QED BY <3>1, <3>2
  <2>2. \A s, t \in FwdRules :
            fwdTable'[s] # 0 /\ fwdTable'[s] = fwdTable'[t] => s = t
    BY <1>1, <1>3, <1>6, <1>7 DEF FwdTableInv
  <2> QED BY <2>1, <2>2 DEF FwdTableInv
<1>10. FwdSocketsInv'
  <2>1. ASSUME NEW p \in FwdPorts, fwdSock'[p] > 0
        PROVE  \/ fwdSock'[p] \in fwdTodo'.stop
               \/ \E s \in FwdRules : fwdTable'[s] = fwdSock'[p]
    <3>1. CASE p = port
      BY <1>7, <3>1
    <3>2. CASE p # port
      <4>1. fwdSock[p] > 0 /\ fwdSock'[p] = fwdSock[p]
        BY <1>7, <2>1, <3>2
      <4>2. CASE fwdSock[p] \in fwdTodo.stop
        BY <1>7, <4>1, <4>2
      <4>3. CASE \E s \in FwdRules : fwdTable[s] = fwdSock[p]
        <5>1. PICK s \in FwdRules : fwdTable[s] = fwdSock[p]
          BY <4>3
        <5>2. s # r
          BY <1>4, <4>1, <5>1
        <5> QED BY <1>7, <4>1, <5>1, <5>2
      <4> QED BY <1>1, <4>1, <4>2, <4>3 DEF FwdSocketsInv
    <3> QED BY <3>1, <3>2
  <2> QED BY <1>2, <2>1 DEF FwdSocketsInv
<1>11. FwdErrorsInv'
  BY <1>1, <1>2, <1>3, <1>4, <1>7 DEF FwdErrorsInv
<1> QED BY <1>8, <1>9, <1>10, <1>11 DEF FwdReloadInv

\* A rule whose port is taken has an error.
LEMMA FwdStartFailsInv ==
    ASSUME FwdReloadInv, NEW r \in FwdRules, FwdStart(r),
           fwdSock[fwdConf[r].port] # 0
    PROVE  FwdReloadInv'
<1>1. /\ FwdRunnersInv /\ FwdTableInv /\ FwdSocketsInv /\ FwdErrorsInv
  BY DEF FwdReloadInv
<1>2. /\ fwdStep = "start" /\ r \in fwdTodo.start
      /\ fwdTodo' = [fwdTodo EXCEPT !.start = @ \ {r}]
      /\ fwdErr' = [fwdErr EXCEPT !.now = @ \union {r}]
      /\ UNCHANGED <<fwdRunner, fwdSock, fwdTable, fwdConf, fwdStep>>
  BY DEF FwdStart
<1>3. /\ fwdTodo \in [start : SUBSET FwdRules, stop : SUBSET FwdIds]
      /\ fwdErr \in [last : SUBSET FwdRules, now : SUBSET FwdRules]
  BY <1>1 DEF FwdRunnersInv
<1>4. /\ fwdTodo'.start = fwdTodo.start \ {r} /\ fwdTodo'.stop = fwdTodo.stop
      /\ fwdErr'.now = fwdErr.now \union {r} /\ fwdErr'.last = fwdErr.last
      /\ fwdTodo' \in [start : SUBSET FwdRules, stop : SUBSET FwdIds]
      /\ fwdErr' \in [last : SUBSET FwdRules, now : SUBSET FwdRules]
  BY <1>2, <1>3
<1>5. FwdRunnersInv'
  BY <1>1, <1>2, <1>4 DEF FwdRunnersInv, FwdIds
<1>6. FwdTableInv' /\ FwdSocketsInv'
  BY <1>1, <1>2, <1>4 DEF FwdTableInv, FwdSocketsInv
<1>7. FwdErrorsInv'
  BY <1>1, <1>2, <1>4 DEF FwdErrorsInv
<1> QED BY <1>5, <1>6, <1>7 DEF FwdReloadInv

\* The errors are written when every rule was looked at.
LEMMA FwdWriteInv ==
    ASSUME FwdReloadInv, FwdWrite
    PROVE  FwdReloadInv'
<1>1. /\ FwdRunnersInv /\ FwdTableInv /\ FwdSocketsInv /\ FwdErrorsInv
  BY DEF FwdReloadInv
<1>2. /\ fwdStep = "start" /\ fwdTodo.start = {} /\ fwdStep' = "stop"
      /\ fwdErr' = [fwdErr EXCEPT !.last = fwdErr.now]
      /\ UNCHANGED <<fwdConf, fwdTodo, fwdTable, fwdRunner, fwdSock>>
  BY DEF FwdWrite, FwdErrors
<1>3. /\ fwdErr'.last = fwdErr.now
      /\ fwdErr' \in [last : SUBSET FwdRules, now : SUBSET FwdRules]
  BY <1>1, <1>2 DEF FwdRunnersInv
<1>4. FwdRunnersInv'
  BY <1>1, <1>2, <1>3 DEF FwdRunnersInv, FwdIds
<1>5. FwdTableInv' /\ FwdSocketsInv'
  BY <1>1, <1>2 DEF FwdTableInv, FwdSocketsInv
<1>6. FwdErrorsInv'
  BY <1>1, <1>2, <1>3 DEF FwdErrorsInv
<1> QED BY <1>4, <1>5, <1>6 DEF FwdReloadInv

\* A runner that is stopped leaves its port; it is in no rule's place.
LEMMA FwdStopInv ==
    ASSUME FwdReloadInv, NEW n \in FwdIds, FwdStop(n)
    PROVE  FwdReloadInv'
<1>1. /\ FwdRunnersInv /\ FwdTableInv /\ FwdSocketsInv /\ FwdErrorsInv
  BY DEF FwdReloadInv
<1>2. /\ fwdStep = "stop" /\ n \in fwdTodo.stop
      /\ fwdTodo' = [fwdTodo EXCEPT !.stop = @ \ {n}]
      /\ fwdSock' = [p \in FwdPorts |-> IF fwdSock[p] = n THEN 0 ELSE fwdSock[p]]
      /\ fwdRunner' = [fwdRunner EXCEPT ![n].up = FALSE]
      /\ UNCHANGED <<fwdConf, fwdStep, fwdTable, fwdErr>>
  BY DEF FwdStop
<1>3. /\ fwdTodo \in [start : SUBSET FwdRules, stop : SUBSET FwdIds]
      /\ fwdTable \in [FwdRules -> FwdIds \union {0}]
      /\ fwdSock \in [FwdPorts -> FwdIds \union {0, -1}]
      /\ fwdConf \in [FwdRules -> FwdRule]
      /\ \A i \in FwdIds : fwdRunner[i] \in [port : FwdPorts, target : FwdTargets,
                                             up : BOOLEAN]
  BY <1>1 DEF FwdRunnersInv
<1>4. /\ fwdTodo'.stop = fwdTodo.stop \ {n}
      /\ fwdTodo' \in [start : SUBSET FwdRules, stop : SUBSET FwdIds]
      /\ FwdIds' = FwdIds
  BY <1>2, <1>3 DEF FwdIds
<1>5. \A i \in FwdIds : /\ fwdRunner'[i] \in [port : FwdPorts, target : FwdTargets,
                                              up : BOOLEAN]
                        /\ fwdRunner'[i].port = fwdRunner[i].port
                        /\ fwdRunner'[i].target = fwdRunner[i].target
  BY <1>2, <1>3 DEF FwdIds
<1>6. \A r \in FwdRules : fwdTable[r] # 0 => fwdTable[r] # n
  BY <1>1, <1>2 DEF FwdTableInv
<1>7. FwdRunnersInv'
  <2>1. fwdSock' \in [FwdPorts -> FwdIds \union {0, -1}]
    BY <1>2, <1>3
  <2> QED BY <1>1, <1>2, <1>4, <1>5, <2>1 DEF FwdRunnersInv
<1>8. FwdTableInv'
  <2>1. ASSUME NEW r \in FwdRules, fwdTable[r] # 0
        PROVE  /\ fwdConf[r].on
               /\ fwdRunner'[fwdTable[r]].port = fwdConf[r].port
               /\ fwdRunner'[fwdTable[r]].target = fwdConf[r].target
               /\ fwdSock'[fwdConf[r].port] = fwdTable[r]
               /\ fwdTable[r] \notin fwdTodo'.stop
    <3>1. /\ fwdConf[r].on /\ fwdTable[r] \in FwdIds
          /\ fwdRunner[fwdTable[r]].port = fwdConf[r].port
          /\ fwdRunner[fwdTable[r]].target = fwdConf[r].target
          /\ fwdSock[fwdConf[r].port] = fwdTable[r]
          /\ fwdTable[r] \notin fwdTodo.stop
      BY <1>1, <1>3, <2>1 DEF FwdTableInv
    <3>2. fwdConf[r].port \in FwdPorts
      <4>1. fwdConf[r] \in FwdRule
        BY <1>3
      <4> QED BY <3>1, <4>1, FwdOnLemma
    <3> QED BY <1>2, <1>4, <1>5, <1>6, <2>1, <3>1, <3>2
  <2> QED BY <1>1, <1>2, <2>1 DEF FwdTableInv
<1>9. FwdSocketsInv'
  BY <1>1, <1>2, <1>3, <1>4 DEF FwdSocketsInv
<1>10. FwdErrorsInv'
  BY <1>1, <1>2 DEF FwdErrorsInv
<1> QED BY <1>7, <1>8, <1>9, <1>10 DEF FwdReloadInv

\* Nothing else moves a rule's runner from its port.
LEMMA FwdRestInv ==
    ASSUME FwdReloadInv,
           \/ FwdReloadEnds \/ \E p \in FwdPorts : FwdOther(p)
           \/ \E n \in FwdIds : FwdAcceptEnds(n)
    PROVE  FwdReloadInv'
<1>1. /\ FwdRunnersInv /\ FwdTableInv /\ FwdSocketsInv /\ FwdErrorsInv
  BY DEF FwdReloadInv
<1>2. CASE FwdReloadEnds
  <2>1. /\ fwdStep = "stop" /\ fwdTodo.stop = {} /\ fwdStep' = "idle"
        /\ UNCHANGED <<fwdConf, fwdTodo, fwdTable, fwdRunner, fwdSock, fwdErr>>
    BY <1>2 DEF FwdReloadEnds
  <2>2. FwdRunnersInv'
    BY <1>1, <2>1 DEF FwdRunnersInv, FwdIds
  <2>3. FwdTableInv' /\ FwdSocketsInv' /\ FwdErrorsInv'
    BY <1>1, <2>1 DEF FwdTableInv, FwdSocketsInv, FwdErrorsInv
  <2> QED BY <2>2, <2>3 DEF FwdReloadInv
<1>3. ASSUME NEW p \in FwdPorts, FwdOther(p)
      PROVE  FwdReloadInv'
  <2>1. /\ fwdStep = "idle" /\ fwdSock[p] \in {0, -1}
        /\ fwdSock' = [fwdSock EXCEPT ![p] = -1 - @]
        /\ UNCHANGED <<fwdConf, fwdStep, fwdTodo, fwdTable, fwdRunner, fwdErr>>
    BY <1>3 DEF FwdOther
  <2>2. fwdSock \in [FwdPorts -> FwdIds \union {0, -1}]
    BY <1>1 DEF FwdRunnersInv
  <2>3. /\ fwdSock'[p] \in {0, -1}
        /\ \A q \in FwdPorts : q # p => fwdSock'[q] = fwdSock[q]
        /\ fwdSock' \in [FwdPorts -> FwdIds \union {0, -1}]
    BY <2>1, <2>2
  <2>4. FwdRunnersInv'
    BY <1>1, <2>1, <2>3 DEF FwdRunnersInv, FwdIds
  <2>5. \A r \in FwdRules : fwdTable[r] # 0 =>
            fwdSock'[fwdConf[r].port] = fwdSock[fwdConf[r].port]
    <3>1. TAKE r \in FwdRules
    <3>2. HAVE fwdTable[r] # 0
    <3>3. /\ fwdConf[r].on /\ fwdSock[fwdConf[r].port] = fwdTable[r]
          /\ fwdTable[r] \in FwdIds
      BY <1>1, <3>2 DEF FwdTableInv, FwdRunnersInv
    <3>4. fwdTable[r] > 0 /\ fwdTable[r] \in Nat
      BY <1>1, <3>3, FwdIdsLemma
    <3>5. fwdConf[r].port \in FwdPorts /\ fwdConf[r].port # p
      <4>1. fwdConf[r] \in FwdRule
        BY <1>1 DEF FwdRunnersInv
      <4>2. fwdConf[r].port \in FwdPorts
        BY <3>3, <4>1, FwdOnLemma
      <4> QED BY <2>1, <3>3, <3>4, <4>2
    <3> QED BY <2>3, <3>5
  <2>6. FwdTableInv'
    BY <1>1, <2>1, <2>5 DEF FwdTableInv
  <2>7. FwdSocketsInv'
    BY <1>1, <2>1, <2>3 DEF FwdSocketsInv
  <2>8. FwdErrorsInv'
    BY <1>1, <2>1 DEF FwdErrorsInv
  <2> QED BY <2>4, <2>6, <2>7, <2>8 DEF FwdReloadInv
<1>4. ASSUME NEW n \in FwdIds, FwdAcceptEnds(n)
      PROVE  FwdReloadInv'
  <2>1. /\ fwdRunner' = [fwdRunner EXCEPT ![n].up = FALSE]
        /\ UNCHANGED <<fwdConf, fwdStep, fwdTodo, fwdTable, fwdSock, fwdErr>>
    BY <1>4 DEF FwdAcceptEnds
  <2>2. /\ FwdIds' = FwdIds
        /\ \A i \in FwdIds : fwdRunner[i] \in [port : FwdPorts, target : FwdTargets,
                                               up : BOOLEAN]
    BY <1>1, <2>1 DEF FwdRunnersInv, FwdIds
  <2>3. \A i \in FwdIds : /\ fwdRunner'[i] \in [port : FwdPorts, target : FwdTargets,
                                                up : BOOLEAN]
                          /\ fwdRunner'[i].port = fwdRunner[i].port
                          /\ fwdRunner'[i].target = fwdRunner[i].target
    BY <2>1, <2>2 DEF FwdIds
  <2>4. FwdRunnersInv'
    BY <1>1, <2>1, <2>2, <2>3 DEF FwdRunnersInv
  <2>5. FwdTableInv'
    BY <1>1, <2>1, <2>3 DEF FwdTableInv, FwdRunnersInv
  <2>6. FwdSocketsInv' /\ FwdErrorsInv'
    BY <1>1, <2>1 DEF FwdSocketsInv, FwdErrorsInv
  <2> QED BY <2>4, <2>5, <2>6 DEF FwdReloadInv
<1> QED BY <1>2, <1>3, <1>4

LEMMA FwdReloadStep == FwdReloadInv /\ [FwdNext]_fwdVars => FwdReloadInv'
<1> SUFFICES ASSUME FwdReloadInv, [FwdNext]_fwdVars
             PROVE  FwdReloadInv'
  OBVIOUS
<1>1. CASE UNCHANGED fwdVars
  BY <1>1 DEF fwdVars, FwdReloadInv, FwdRunnersInv, FwdTableInv, FwdSocketsInv,
              FwdErrorsInv, FwdIds
<1>2. ASSUME NEW r \in FwdRules, FwdStart(r)
      PROVE  FwdReloadInv'
  BY <1>2, FwdStartsInv, FwdStartFailsInv
<1> QED BY <1>1, <1>2, FwdReloadBeginsInv, FwdWriteInv, FwdStopInv, FwdRestInv
        DEF FwdNext

\* After a reload every rule runs as it says or shows an error, and no port is
\* held for a rule that is gone.
LEMMA FwdReloadShows == FwdReloadInv => FwdReported /\ FwdNoLeftovers
<1> SUFFICES ASSUME FwdReloadInv
             PROVE  FwdReported /\ FwdNoLeftovers
  OBVIOUS
<1>1. FwdRunnersInv /\ FwdTableInv /\ FwdSocketsInv /\ FwdErrorsInv
  BY DEF FwdReloadInv
<1>2. FwdReported
  BY <1>1 DEF FwdReported, FwdTableInv, FwdErrorsInv, FwdRunnersInv
<1>3. FwdNoLeftovers
  BY <1>1 DEF FwdNoLeftovers, FwdSocketsInv
<1> QED BY <1>2, <1>3

-----------------------------------------------------------------------------
(* The places keep their invariant. *)

\* A connection that moves from one step to another is counted there.
LEMMA FwdMoveLemma ==
    ASSUME fwdConn \in [FwdConns -> {"new", "counted", "within", "entering", "open",
                                     "over"}],
           NEW c \in FwdConns, NEW step, fwdConn' = [fwdConn EXCEPT ![c] = step],
           NEW steps
    PROVE  /\ FwdConnsAt(steps)' = IF step \in steps THEN FwdConnsAt(steps) \union {c}
                                   ELSE FwdConnsAt(steps) \ {c}
           /\ c \in FwdConnsAt(steps) <=> fwdConn[c] \in steps
BY DEF FwdConnsAt

\* A set that gains or loses one member.
LEMMA CountLemma ==
    ASSUME NEW S, IsFiniteSet(S), NEW x
    PROVE  /\ Cardinality(S) \in Nat
           /\ IsFiniteSet(S \union {x}) /\ IsFiniteSet(S \ {x})
           /\ x \notin S => Cardinality(S \union {x}) = Cardinality(S) + 1
           /\ x \in S => Cardinality(S \ {x}) = Cardinality(S) - 1
           /\ x \in S => Cardinality(S) >= 1
<1>1. Cardinality(S) \in Nat
  BY FS_CardinalityType
<1>2. /\ IsFiniteSet(S \union {x})
      /\ Cardinality(S \union {x}) = IF x \in S THEN Cardinality(S) ELSE Cardinality(S) + 1
  BY FS_AddElement
<1>3. /\ IsFiniteSet(S \ {x})
      /\ Cardinality(S \ {x}) = IF x \in S THEN Cardinality(S) - 1 ELSE Cardinality(S)
  BY FS_RemoveElement
<1>4. x \in S => S # {}
  OBVIOUS
<1>5. S # {} => Cardinality(S) # 0
  BY FS_EmptySet
<1> QED BY <1>1, <1>2, <1>3, <1>4, <1>5

\* At most one connection is turned away at a time, and it is arriving.
LEMMA FwdTurnedLemma ==
    ASSUME FwdPlacesInv
    PROVE  /\ FwdTurned \subseteq FwdArriving /\ IsFiniteSet(FwdTurned)
           /\ {Cardinality(FwdOpen), Cardinality(FwdArriving), Cardinality(FwdTurned),
               Cardinality(FwdSessions)} \subseteq Nat
           /\ FwdGateMax \in Nat /\ FwdRunnerMax \in Nat
<1>1. FwdTurned \subseteq FwdArriving
  BY DEF FwdTurned, FwdArriving, FwdConnsAt
<1>2. IsFiniteSet(FwdArriving) /\ IsFiniteSet(FwdOpen) /\ IsFiniteSet(FwdSessions)
  BY DEF FwdPlacesInv, FwdCountsInv
<1>3. IsFiniteSet(FwdTurned)
  BY <1>1, <1>2, FS_Subset
<1>4. /\ Cardinality(FwdOpen) \in Nat /\ Cardinality(FwdArriving) \in Nat
      /\ Cardinality(FwdTurned) \in Nat /\ Cardinality(FwdSessions) \in Nat
  BY <1>2, <1>3, FS_CardinalityType
<1> QED BY <1>1, <1>3, <1>4, FwdAssumption

LEMMA FwdPlacesInit == FwdConnInit => FwdPlacesInv
<1> SUFFICES ASSUME FwdConnInit
             PROVE  FwdPlacesInv
  OBVIOUS
<1> USE DEF FwdConnInit
<1>1. FwdOpen = {} /\ FwdArriving = {} /\ FwdTurned = {} /\ FwdSessions = {}
  BY DEF FwdOpen, FwdArriving, FwdTurned, FwdConnsAt, FwdSessions
<1>2. IsFiniteSet({}) /\ Cardinality({}) = 0
  BY FS_EmptySet
<1>3. FwdGateMax \in Nat /\ FwdRunnerMax \in Nat /\ FwdMaxSessions \in Nat
  BY FwdAssumption
<1>4. FwdCountsInv
  BY <1>1, <1>2 DEF FwdCountsInv
<1>5. FwdRoomInv
  BY <1>1, <1>2, <1>3 DEF FwdRoomInv
<1>6. FwdStoppedInv
  BY DEF FwdStoppedInv
<1>7. FwdUpstreamsInv
  BY <1>3 DEF FwdUpstreamsInv, FwdSessionsRead
<1> QED BY <1>4, <1>5, <1>6, <1>7 DEF FwdPlacesInv

\* What a step of a connection leaves alone.
LEMMA FwdConnKeeps ==
    ASSUME FwdPlacesInv, NEW c \in FwdConns, FwdRest,
           fwdServing = "yes" \/ fwdConn[c] \notin {"new", "over"},
           NEW step \in {"counted", "within", "entering", "open", "over"},
           fwdConn' = [fwdConn EXCEPT ![c] = step]
    PROVE  FwdStoppedInv' /\ FwdUpstreamsInv' /\ FwdSessions' = FwdSessions
<1>1. FwdStoppedInv /\ FwdUpstreamsInv
  BY DEF FwdPlacesInv
<1>2. UNCHANGED <<fwdSession, fwdReader, fwdLast, fwdServing>>
  BY DEF FwdRest
<1>3. FwdStoppedInv'
  BY <1>1, <1>2 DEF FwdStoppedInv, FwdUpstreamsInv
<1>4. FwdUpstreamsInv'
  BY <1>1, <1>2 DEF FwdUpstreamsInv, FwdSessionsRead
<1> QED BY <1>2, <1>3, <1>4 DEF FwdSessions

LEMMA FwdConnStep ==
    ASSUME FwdPlacesInv, NEW c \in FwdConns,
           \/ FwdAccept(c) \/ FwdRunnerFull(c) \/ FwdRunnerTakes(c)
           \/ FwdEnter(c) \/ FwdGateFull(c) \/ FwdConnEnds(c)
    PROVE  FwdPlacesInv'
<1> DEFINE O == Cardinality(FwdOpen)
           A == Cardinality(FwdArriving)
           T == Cardinality(FwdTurned)
           S == Cardinality(FwdSessions)
<1>1. /\ FwdCountsInv /\ FwdRoomInv /\ FwdStoppedInv /\ FwdUpstreamsInv
      /\ fwdConn \in [FwdConns -> {"new", "counted", "within", "entering", "open",
                                   "over"}]
  BY DEF FwdPlacesInv, FwdUpstreamsInv
<1>2. /\ IsFiniteSet(FwdOpen) /\ IsFiniteSet(FwdArriving) /\ IsFiniteSet(FwdTurned)
      /\ IsFiniteSet(FwdSessions)
      /\ O \in Nat /\ A \in Nat /\ T \in Nat /\ S \in Nat
      /\ FwdGateMax \in Nat /\ FwdRunnerMax \in Nat
  BY <1>1, FwdTurnedLemma DEF FwdCountsInv
<1>3. /\ fwdActive = O + A /\ fwdGate = O + T + S
      /\ O + S <= FwdGateMax /\ O <= FwdRunnerMax
      /\ \A b, d \in FwdArriving : b = d
      /\ \A d \in FwdArriving : fwdConn[d] # "counted" => O < FwdRunnerMax
  BY <1>1 DEF FwdCountsInv, FwdRoomInv
\* The members of the three sets, and their numbers with one more or less.
<1>4. /\ c \in FwdOpen <=> fwdConn[c] = "open"
      /\ c \in FwdTurned <=> fwdConn[c] = "entering"
      /\ c \in FwdArriving <=> fwdConn[c] \in {"counted", "within", "entering"}
  BY DEF FwdOpen, FwdTurned, FwdArriving, FwdConnsAt
<1>5. /\ IsFiniteSet(FwdOpen \union {c}) /\ IsFiniteSet(FwdOpen \ {c})
      /\ c \notin FwdOpen => Cardinality(FwdOpen \union {c}) = O + 1
      /\ c \in FwdOpen => Cardinality(FwdOpen \ {c}) = O - 1
      /\ c \in FwdOpen => O >= 1
  BY <1>2, CountLemma
<1>6. /\ IsFiniteSet(FwdArriving \union {c}) /\ IsFiniteSet(FwdArriving \ {c})
      /\ c \notin FwdArriving => Cardinality(FwdArriving \union {c}) = A + 1
      /\ c \in FwdArriving => Cardinality(FwdArriving \ {c}) = A - 1
      /\ c \in FwdArriving => A >= 1
  BY <1>2, CountLemma
<1>7. /\ c \notin FwdTurned => Cardinality(FwdTurned \union {c}) = T + 1
      /\ c \in FwdTurned => Cardinality(FwdTurned \ {c}) = T - 1
  BY <1>2, CountLemma
<1>8. ASSUME NEW step, fwdConn' = [fwdConn EXCEPT ![c] = step]
      PROVE  /\ FwdOpen' = IF step = "open" THEN FwdOpen \union {c} ELSE FwdOpen \ {c}
             /\ FwdTurned' = IF step = "entering" THEN FwdTurned \union {c}
                             ELSE FwdTurned \ {c}
             /\ FwdArriving' = IF step \in {"counted", "within", "entering"}
                               THEN FwdArriving \union {c} ELSE FwdArriving \ {c}
             /\ \A d \in FwdConns : fwdConn'[d] = IF d = c THEN step ELSE fwdConn[d]
  <2>1. \A steps : FwdConnsAt(steps)' = IF step \in steps
                                        THEN FwdConnsAt(steps) \union {c}
                                        ELSE FwdConnsAt(steps) \ {c}
    BY <1>1, <1>8, FwdMoveLemma
  <2>2. FwdOpen' = IF step = "open" THEN FwdOpen \union {c} ELSE FwdOpen \ {c}
    BY <2>1 DEF FwdOpen
  <2>3. FwdTurned' = IF step = "entering" THEN FwdTurned \union {c}
                     ELSE FwdTurned \ {c}
    BY <2>1 DEF FwdTurned
  <2>4. FwdArriving' = IF step \in {"counted", "within", "entering"}
                       THEN FwdArriving \union {c} ELSE FwdArriving \ {c}
    BY <2>1 DEF FwdArriving
  <2>5. \A d \in FwdConns : fwdConn'[d] = IF d = c THEN step ELSE fwdConn[d]
    BY <1>1, <1>8
  <2> QED BY <2>2, <2>3, <2>4, <2>5
<1>9. FwdArriving \subseteq FwdConns
  BY DEF FwdArriving, FwdConnsAt
<1>10. CASE FwdAccept(c)
  <2>1. /\ fwdServing = "yes" /\ fwdConn[c] = "new" /\ FwdRest
        /\ fwdActive' = fwdActive + 1 /\ fwdGate' = fwdGate
        /\ fwdConn' = [fwdConn EXCEPT ![c] = "counted"]
        /\ FwdArriving = {}
    BY <1>10 DEF FwdAccept, FwdAt, FwdArriving, FwdConnsAt
  <2>2. /\ FwdOpen' = FwdOpen /\ FwdTurned' = FwdTurned
        /\ FwdArriving' = FwdArriving \union {c}
    BY <1>4, <1>8, <2>1
  <2>3. /\ FwdStoppedInv' /\ FwdUpstreamsInv' /\ FwdSessions' = FwdSessions
    BY <2>1, FwdConnKeeps
  <2>4. FwdCountsInv'
    BY <1>2, <1>3, <1>4, <1>6, <2>1, <2>2, <2>3 DEF FwdCountsInv
  <2>5. FwdRoomInv'
    BY <1>3, <1>8, <2>1, <2>2, <2>3 DEF FwdRoomInv
  <2> QED BY <2>3, <2>4, <2>5 DEF FwdPlacesInv
<1>11. CASE FwdRunnerFull(c)
  <2>1. /\ fwdConn[c] = "counted" /\ FwdRest
        /\ fwdActive' = fwdActive - 1 /\ fwdGate' = fwdGate
        /\ fwdConn' = [fwdConn EXCEPT ![c] = "over"]
    BY <1>11 DEF FwdRunnerFull, FwdAt
  <2>2. /\ FwdOpen' = FwdOpen /\ FwdTurned' = FwdTurned
        /\ FwdArriving' = FwdArriving \ {c}
    BY <1>4, <1>8, <2>1
  <2>3. /\ FwdStoppedInv' /\ FwdUpstreamsInv' /\ FwdSessions' = FwdSessions
    BY <2>1, FwdConnKeeps
  <2>4. FwdCountsInv'
    BY <1>2, <1>3, <1>4, <1>6, <2>1, <2>2, <2>3 DEF FwdCountsInv
  <2>5. FwdRoomInv'
    BY <1>3, <1>8, <1>9, <2>1, <2>2, <2>3 DEF FwdRoomInv
  <2> QED BY <2>3, <2>4, <2>5 DEF FwdPlacesInv
<1>12. CASE FwdRunnerTakes(c)
  <2>1. /\ fwdConn[c] = "counted" /\ FwdRest /\ fwdActive <= FwdRunnerMax
        /\ fwdActive' = fwdActive /\ fwdGate' = fwdGate
        /\ fwdConn' = [fwdConn EXCEPT ![c] = "within"]
    BY <1>12 DEF FwdRunnerTakes, FwdAt
  <2>2. /\ FwdOpen' = FwdOpen /\ FwdTurned' = FwdTurned
        /\ FwdArriving' = FwdArriving
    BY <1>4, <1>8, <2>1
  <2>3. /\ FwdStoppedInv' /\ FwdUpstreamsInv' /\ FwdSessions' = FwdSessions
    BY <2>1, FwdConnKeeps
  <2>4. FwdCountsInv'
    BY <1>2, <1>3, <2>1, <2>2, <2>3 DEF FwdCountsInv
  <2>5. O < FwdRunnerMax
    BY <1>2, <1>3, <1>4, <1>6, <2>1
  <2>6. FwdRoomInv'
    BY <1>3, <2>2, <2>3, <2>5 DEF FwdRoomInv
  <2> QED BY <2>3, <2>4, <2>6 DEF FwdPlacesInv
<1>13. CASE FwdEnter(c)
  <2>1. /\ fwdConn[c] = "within" /\ FwdRest
        /\ fwdGate' = fwdGate + 1 /\ fwdActive' = fwdActive
    BY <1>13 DEF FwdEnter, FwdAt
  <2>2. /\ c \in FwdArriving /\ O < FwdRunnerMax
        /\ FwdArriving \ {c} = {} /\ FwdTurned = {}
    <3>1. c \in FwdArriving /\ O < FwdRunnerMax /\ FwdArriving \ {c} = {}
      BY <1>3, <1>4, <2>1
    <3>2. FwdTurned \subseteq FwdArriving
      BY FwdTurnedLemma
    <3> QED BY <1>4, <2>1, <3>1, <3>2
  <2>3. T = 0
    BY <2>2, FS_EmptySet
  <2>4. CASE fwdGate + 1 > FwdGateMax
    <3>1. fwdConn' = [fwdConn EXCEPT ![c] = "entering"]
      BY <1>13, <2>4 DEF FwdEnter
    <3>2. /\ FwdOpen' = FwdOpen /\ FwdTurned' = FwdTurned \union {c}
          /\ FwdArriving' = FwdArriving
      BY <1>4, <1>8, <2>1, <2>2, <3>1
    <3>3. /\ FwdStoppedInv' /\ FwdUpstreamsInv' /\ FwdSessions' = FwdSessions
      BY <2>1, <3>1, FwdConnKeeps
    <3>4. FwdCountsInv'
      BY <1>2, <1>3, <1>4, <1>7, <2>1, <3>2, <3>3 DEF FwdCountsInv
    <3>5. FwdRoomInv'
      BY <1>3, <2>2, <3>2, <3>3 DEF FwdRoomInv
    <3> QED BY <3>3, <3>4, <3>5 DEF FwdPlacesInv
  <2>5. CASE ~ (fwdGate + 1 > FwdGateMax)
    <3>1. fwdConn' = [fwdConn EXCEPT ![c] = "open"]
      BY <1>13, <2>5 DEF FwdEnter
    <3>2. /\ FwdOpen' = FwdOpen \union {c} /\ FwdTurned' = FwdTurned
          /\ FwdArriving' = FwdArriving \ {c}
      BY <1>4, <1>8, <2>1, <2>2, <3>1
    <3>3. /\ FwdStoppedInv' /\ FwdUpstreamsInv' /\ FwdSessions' = FwdSessions
      BY <2>1, <3>1, FwdConnKeeps
    <3>4. FwdCountsInv'
      BY <1>2, <1>3, <1>4, <1>5, <1>6, <2>1, <3>2, <3>3 DEF FwdCountsInv
    <3>5. O + 1 + S <= FwdGateMax /\ O + 1 <= FwdRunnerMax
      BY <1>2, <1>3, <2>2, <2>3, <2>5
    <3>6. FwdRoomInv'
      BY <1>2, <1>4, <1>5, <2>1, <2>2, <3>2, <3>3, <3>5 DEF FwdRoomInv
    <3> QED BY <3>3, <3>4, <3>6 DEF FwdPlacesInv
  <2> QED BY <2>4, <2>5
<1>14. CASE FwdGateFull(c)
  <2>1. /\ fwdConn[c] = "entering" /\ FwdRest
        /\ fwdActive' = fwdActive - 1 /\ fwdGate' = fwdGate - 1
        /\ fwdConn' = [fwdConn EXCEPT ![c] = "over"]
    BY <1>14 DEF FwdGateFull, FwdAt, FwdLeaves
  <2>2. /\ FwdOpen' = FwdOpen /\ FwdTurned' = FwdTurned \ {c}
        /\ FwdArriving' = FwdArriving \ {c}
    BY <1>4, <1>8, <2>1
  <2>3. /\ FwdStoppedInv' /\ FwdUpstreamsInv' /\ FwdSessions' = FwdSessions
    BY <2>1, FwdConnKeeps
  <2>4. FwdCountsInv'
    BY <1>2, <1>3, <1>4, <1>6, <1>7, <2>1, <2>2, <2>3 DEF FwdCountsInv
  <2>5. FwdRoomInv'
    BY <1>3, <1>8, <1>9, <2>1, <2>2, <2>3 DEF FwdRoomInv
  <2> QED BY <2>3, <2>4, <2>5 DEF FwdPlacesInv
<1>15. CASE FwdConnEnds(c)
  <2>1. /\ fwdConn[c] = "open" /\ FwdRest
        /\ fwdActive' = fwdActive - 1 /\ fwdGate' = fwdGate - 1
        /\ fwdConn' = [fwdConn EXCEPT ![c] = "over"]
    BY <1>15 DEF FwdConnEnds, FwdAt, FwdLeaves
  <2>2. /\ FwdOpen' = FwdOpen \ {c} /\ FwdTurned' = FwdTurned
        /\ FwdArriving' = FwdArriving
    BY <1>4, <1>8, <2>1
  <2>3. /\ FwdStoppedInv' /\ FwdUpstreamsInv' /\ FwdSessions' = FwdSessions
    BY <2>1, FwdConnKeeps
  <2>4. Cardinality(FwdOpen') = O - 1
    BY <1>4, <1>5, <2>1, <2>2
  <2>5. FwdCountsInv'
    BY <1>2, <1>3, <1>5, <2>1, <2>2, <2>3, <2>4 DEF FwdCountsInv
  <2>6. \A d \in FwdArriving : fwdConn'[d] = fwdConn[d]
    BY <1>4, <1>8, <1>9, <2>1
  <2>7. O - 1 + S <= FwdGateMax /\ O - 1 <= FwdRunnerMax
    BY <1>2, <1>3
  <2>8. \A d \in FwdArriving : fwdConn'[d] # "counted" => O - 1 < FwdRunnerMax
    BY <1>2, <1>3, <2>6
  <2>9. FwdRoomInv'
    BY <1>3, <2>2, <2>3, <2>4, <2>7, <2>8 DEF FwdRoomInv
  <2> QED BY <2>3, <2>5, <2>9 DEF FwdPlacesInv
<1> QED BY <1>10, <1>11, <1>12, <1>13, <1>14, <1>15

\* What a step of the sessions leaves alone.
LEMMA FwdTcpKeeps ==
    ASSUME FwdTcp
    PROVE  FwdOpen' = FwdOpen /\ FwdTurned' = FwdTurned /\ FwdArriving' = FwdArriving
BY DEF FwdTcp, FwdOpen, FwdTurned, FwdArriving, FwdConnsAt

\* The datagram of a client without a session.
LEMMA FwdDatagramStep ==
    ASSUME FwdPlacesInv, NEW k \in FwdClients, FwdDatagram(k)
    PROVE  FwdPlacesInv'
<1>1. /\ FwdCountsInv /\ FwdRoomInv /\ FwdStoppedInv /\ FwdUpstreamsInv
  BY DEF FwdPlacesInv
<1>2. /\ fwdServing = "yes" /\ fwdServing' = "yes" /\ fwdSession[k] = 0
      /\ fwdGate + 1 <= FwdGateMax /\ fwdLast < FwdMaxSessions
      /\ fwdGate' = fwdGate + 1 /\ fwdLast' = fwdLast + 1
      /\ fwdSession' = [fwdSession EXCEPT ![k] = fwdLast + 1]
      /\ fwdReader' = [fwdReader EXCEPT ![fwdLast + 1] = [of |-> k, on |-> TRUE]]
      /\ fwdConn' = fwdConn /\ fwdActive' = fwdActive
      /\ FwdOpen' = FwdOpen /\ FwdTurned' = FwdTurned /\ FwdArriving' = FwdArriving
  BY FwdTcpKeeps DEF FwdDatagram, FwdTcp
<1>3. /\ fwdSession \in [FwdClients -> 0..FwdMaxSessions]
      /\ fwdLast \in Nat /\ FwdMaxSessions \in Nat /\ fwdLast + 1 # 0
      /\ fwdLast + 1 \in 1..FwdMaxSessions
  BY <1>1, <1>2, FwdAssumption DEF FwdUpstreamsInv
<1>4. FwdSessions' = FwdSessions \union {k} /\ k \notin FwdSessions
  BY <1>2, <1>3 DEF FwdSessions
<1>5. /\ IsFiniteSet(FwdSessions')
      /\ Cardinality(FwdSessions') = Cardinality(FwdSessions) + 1
  BY <1>1, <1>4, CountLemma DEF FwdCountsInv
<1>6. FwdCountsInv'
  <2>1. /\ Cardinality(FwdOpen) \in Nat /\ Cardinality(FwdTurned) \in Nat
        /\ Cardinality(FwdSessions) \in Nat
    BY FwdTurnedLemma
  <2> QED BY <1>1, <1>2, <1>5, <2>1 DEF FwdCountsInv
<1>7. FwdRoomInv'
  <2>1. /\ Cardinality(FwdOpen) \in Nat /\ Cardinality(FwdTurned) \in Nat
        /\ Cardinality(FwdSessions) \in Nat /\ FwdGateMax \in Nat
    BY FwdTurnedLemma
  <2>2. Cardinality(FwdOpen) + Cardinality(FwdSessions) + 1 <= FwdGateMax
    BY <1>1, <1>2, <2>1 DEF FwdCountsInv
  <2> QED BY <1>1, <1>2, <1>5, <2>1, <2>2 DEF FwdRoomInv
<1>8. FwdStoppedInv'
  BY <1>2 DEF FwdStoppedInv
<1>9. FwdUpstreamsInv'
  <2>1. /\ \A j \in FwdClients :
               fwdSession'[j] = IF j = k THEN fwdLast + 1 ELSE fwdSession[j]
        /\ fwdSession' \in [FwdClients -> 0..FwdMaxSessions]
    BY <1>2, <1>3
  <2>2. /\ DOMAIN fwdReader = 1..FwdMaxSessions
        /\ \A u \in 1..FwdMaxSessions :
               /\ DOMAIN fwdReader[u] = {"of", "on"}
               /\ fwdReader[u].on => fwdReader[u].of \in FwdClients
        /\ \A j \in FwdClients : fwdSession[j] <= fwdLast
        /\ FwdSessionsRead
    BY <1>1 DEF FwdUpstreamsInv
  <2>3. /\ DOMAIN fwdReader' = 1..FwdMaxSessions
        /\ \A u \in 1..FwdMaxSessions : fwdReader'[u] =
               IF u = fwdLast + 1 THEN [of |-> k, on |-> TRUE] ELSE fwdReader[u]
    BY <1>2, <1>3, <2>2
  <2>4. ASSUME NEW j \in FwdClients
        PROVE  /\ fwdSession'[j] <= fwdLast'
               /\ fwdSession'[j] # 0 =>
                      fwdReader'[fwdSession'[j]].on /\ fwdReader'[fwdSession'[j]].of = j
    <3>1. CASE j = k
      BY <1>2, <1>3, <2>1, <2>3, <3>1
    <3>2. CASE j # k
      <4>1. /\ fwdSession'[j] = fwdSession[j] /\ fwdSession[j] \in 0..FwdMaxSessions
            /\ fwdSession[j] <= fwdLast
        BY <1>3, <2>1, <2>2, <3>2
      <4>2. fwdSession[j] # fwdLast + 1
        BY <1>3, <4>1
      <4>3. fwdSession[j] # 0 => fwdReader'[fwdSession[j]] = fwdReader[fwdSession[j]]
        BY <1>3, <2>3, <4>1, <4>2
      <4>4. fwdSession[j] # 0 =>
                fwdReader[fwdSession[j]].on /\ fwdReader[fwdSession[j]].of = j
        BY <2>2 DEF FwdSessionsRead
      <4> QED BY <1>2, <1>3, <4>1, <4>3, <4>4
    <3> QED BY <3>1, <3>2
  <2>5. \A u \in 1..FwdMaxSessions :
            /\ DOMAIN fwdReader'[u] = {"of", "on"}
            /\ fwdReader'[u].on => fwdReader'[u].of \in FwdClients
    BY <2>2, <2>3
  <2>6. fwdLast' \in 0..FwdMaxSessions
    BY <1>2, <1>3
  <2> QED BY <1>1, <1>2, <2>1, <2>3, <2>4, <2>5, <2>6
          DEF FwdUpstreamsInv, FwdSessionsRead
<1> QED BY <1>6, <1>7, <1>8, <1>9 DEF FwdPlacesInv

\* A session that is dropped gives its place back.
LEMMA FwdDropStep ==
    ASSUME FwdPlacesInv, NEW k \in FwdClients, fwdSession[k] # 0,
           fwdSession' = [fwdSession EXCEPT ![k] = 0], fwdGate' = fwdGate - 1,
           FwdTcp, UNCHANGED <<fwdLast, fwdServing>>,
           \/ fwdReader' = fwdReader
           \/ fwdReader' = [fwdReader EXCEPT ![fwdSession[k]].on = FALSE]
    PROVE  FwdPlacesInv'
<1>1. /\ FwdCountsInv /\ FwdRoomInv /\ FwdStoppedInv /\ FwdUpstreamsInv
  BY DEF FwdPlacesInv
<1>2. /\ fwdConn' = fwdConn /\ fwdActive' = fwdActive
      /\ FwdOpen' = FwdOpen /\ FwdTurned' = FwdTurned /\ FwdArriving' = FwdArriving
  BY FwdTcpKeeps DEF FwdTcp
<1>3. /\ fwdSession \in [FwdClients -> 0..FwdMaxSessions]
      /\ fwdLast \in 0..FwdMaxSessions /\ FwdMaxSessions \in Nat
  BY <1>1, FwdAssumption DEF FwdUpstreamsInv
<1>4. FwdSessions' = FwdSessions \ {k} /\ k \in FwdSessions
  BY <1>3 DEF FwdSessions
<1>5. /\ IsFiniteSet(FwdSessions')
      /\ Cardinality(FwdSessions') = Cardinality(FwdSessions) - 1
  BY <1>1, <1>4, CountLemma DEF FwdCountsInv
<1>6. /\ Cardinality(FwdOpen) \in Nat /\ Cardinality(FwdTurned) \in Nat
      /\ Cardinality(FwdSessions) \in Nat /\ FwdGateMax \in Nat
  BY FwdTurnedLemma
<1>7. FwdCountsInv'
  BY <1>1, <1>2, <1>5, <1>6 DEF FwdCountsInv
<1>8. FwdRoomInv'
  <2>1. Cardinality(FwdOpen) + (Cardinality(FwdSessions) - 1) <= FwdGateMax
    BY <1>1, <1>6 DEF FwdRoomInv
  <2> QED BY <1>1, <1>2, <1>5, <2>1 DEF FwdRoomInv
<1>9. \A j \in FwdClients : fwdSession'[j] = IF j = k THEN 0 ELSE fwdSession[j]
  BY <1>3
<1>10. FwdStoppedInv'
  BY <1>1, <1>2, <1>9 DEF FwdStoppedInv
<1>11. FwdUpstreamsInv'
  <2>1. fwdSession' \in [FwdClients -> 0..FwdMaxSessions]
    BY <1>3
  <2>2. /\ DOMAIN fwdReader = 1..FwdMaxSessions
        /\ \A u \in 1..FwdMaxSessions :
               /\ DOMAIN fwdReader[u] = {"of", "on"}
               /\ fwdReader[u].on => fwdReader[u].of \in FwdClients
        /\ \A j \in FwdClients : fwdSession[j] <= fwdLast
        /\ \A j \in FwdClients : fwdSession[j] # 0 =>
               fwdReader[fwdSession[j]].on /\ fwdReader[fwdSession[j]].of = j
    BY <1>1 DEF FwdUpstreamsInv, FwdSessionsRead
  <2>3. /\ DOMAIN fwdReader' = 1..FwdMaxSessions
        /\ \A u \in 1..FwdMaxSessions :
               /\ DOMAIN fwdReader'[u] = {"of", "on"}
               /\ fwdReader'[u].on => fwdReader'[u].of \in FwdClients
        /\ \A u \in 1..FwdMaxSessions : u # fwdSession[k] => fwdReader'[u] = fwdReader[u]
    BY <1>3, <2>2
  <2>4. ASSUME NEW j \in FwdClients, fwdSession'[j] # 0
        PROVE  fwdReader'[fwdSession'[j]].on /\ fwdReader'[fwdSession'[j]].of = j
    <3>1. j # k /\ fwdSession'[j] = fwdSession[j] /\ fwdSession[j] \in 1..FwdMaxSessions
      BY <1>3, <1>9, <2>4
    <3>2. fwdSession[j] # fwdSession[k]
      BY <2>2, <3>1
    <3> QED BY <2>2, <2>3, <3>1, <3>2
  <2>5. \A j \in FwdClients : fwdSession'[j] <= fwdLast
    BY <1>3, <1>9, <2>2
  <2> QED BY <1>1, <1>2, <1>3, <2>1, <2>3, <2>4, <2>5
          DEF FwdUpstreamsInv, FwdSessionsRead
<1> QED BY <1>7, <1>8, <1>10, <1>11 DEF FwdPlacesInv

\* A reader that ends late takes only its own session.
LEMMA FwdReaderStep ==
    ASSUME FwdPlacesInv, NEW u \in 1..FwdMaxSessions, FwdReaderEnds(u)
    PROVE  FwdPlacesInv'
<1>1. /\ FwdCountsInv /\ FwdRoomInv /\ FwdStoppedInv /\ FwdUpstreamsInv
  BY DEF FwdPlacesInv
<1>2. /\ fwdReader[u].on /\ fwdReader' = [fwdReader EXCEPT ![u].on = FALSE]
      /\ UNCHANGED <<fwdLast, fwdServing>> /\ FwdTcp
  BY DEF FwdReaderEnds
<1>3. ASSUME NEW k \in FwdClients, fwdSession[k] = u
      PROVE  FwdPlacesInv'
  <2>1. fwdReader[u].of = k /\ fwdSession[k] # 0
    BY <1>1, <1>3 DEF FwdUpstreamsInv, FwdSessionsRead
  <2>2. /\ fwdSession' = [fwdSession EXCEPT ![k] = 0] /\ fwdGate' = fwdGate - 1
    BY <1>3, <2>1 DEF FwdReaderEnds, FwdOwn, FwdLeaves
  <2> QED BY <1>2, <1>3, <2>1, <2>2, FwdDropStep
<1>4. ASSUME \A k \in FwdClients : fwdSession[k] # u
      PROVE  FwdPlacesInv'
  <2>1. fwdReader[u].of \in FwdClients
    BY <1>1, <1>2 DEF FwdUpstreamsInv
  <2>2. ~FwdOwn(u)
    BY <1>4, <2>1 DEF FwdOwn
  <2>3. /\ fwdGate' = fwdGate /\ fwdSession' = fwdSession
        /\ FwdSessions' = FwdSessions
    BY <2>2 DEF FwdReaderEnds, FwdSessions
  <2>4. /\ fwdConn' = fwdConn /\ fwdActive' = fwdActive
        /\ FwdOpen' = FwdOpen /\ FwdTurned' = FwdTurned /\ FwdArriving' = FwdArriving
    BY <1>2, FwdTcpKeeps DEF FwdTcp
  <2>5. FwdCountsInv' /\ FwdRoomInv' /\ FwdStoppedInv'
    BY <1>1, <1>2, <2>3, <2>4 DEF FwdCountsInv, FwdRoomInv, FwdStoppedInv
  <2>6. FwdUpstreamsInv'
    <3>1. /\ DOMAIN fwdReader = 1..FwdMaxSessions
          /\ \A v \in 1..FwdMaxSessions :
                 /\ DOMAIN fwdReader[v] = {"of", "on"}
                 /\ fwdReader[v].on => fwdReader[v].of \in FwdClients
      BY <1>1 DEF FwdUpstreamsInv
    <3>2. /\ DOMAIN fwdReader' = 1..FwdMaxSessions
          /\ \A v \in 1..FwdMaxSessions :
                 /\ DOMAIN fwdReader'[v] = {"of", "on"}
                 /\ fwdReader'[v].on => fwdReader'[v].of \in FwdClients
          /\ \A v \in 1..FwdMaxSessions : v # u => fwdReader'[v] = fwdReader[v]
      BY <1>2, <3>1
    <3>3. fwdSession \in [FwdClients -> 0..FwdMaxSessions] /\ FwdMaxSessions \in Nat
      BY <1>1, FwdAssumption DEF FwdUpstreamsInv
    <3>4. ASSUME NEW k \in FwdClients, fwdSession[k] # 0
          PROVE  fwdReader'[fwdSession[k]].on /\ fwdReader'[fwdSession[k]].of = k
      <4>1. fwdSession[k] \in 1..FwdMaxSessions /\ fwdSession[k] # u
        BY <1>4, <3>3, <3>4
      <4> QED BY <1>1, <3>2, <3>4, <4>1 DEF FwdUpstreamsInv, FwdSessionsRead
    <3> QED BY <1>1, <1>2, <2>3, <2>4, <3>2, <3>4
            DEF FwdUpstreamsInv, FwdSessionsRead
  <2> QED BY <2>5, <2>6 DEF FwdPlacesInv
<1> QED BY <1>3, <1>4

\* stop drops every session at once, and returns when nothing is left.
LEMMA FwdCancelStep ==
    ASSUME FwdPlacesInv, FwdCancel
    PROVE  FwdPlacesInv'
<1>1. /\ FwdCountsInv /\ FwdRoomInv /\ FwdStoppedInv /\ FwdUpstreamsInv
  BY DEF FwdPlacesInv
<1>2. /\ fwdServing' = "stopping" /\ UNCHANGED <<fwdReader, fwdLast>>
      /\ fwdSession' = [k \in FwdClients |-> 0]
      /\ fwdGate' = fwdGate - Cardinality(FwdSessions)
      /\ fwdConn' = fwdConn /\ fwdActive' = fwdActive
      /\ FwdOpen' = FwdOpen /\ FwdTurned' = FwdTurned /\ FwdArriving' = FwdArriving
  BY FwdTcpKeeps DEF FwdCancel, FwdTcp
<1>3. FwdSessions' = {} /\ IsFiniteSet({}) /\ Cardinality({}) = 0
  BY <1>2, FS_EmptySet DEF FwdSessions
<1>4. /\ Cardinality(FwdOpen) \in Nat /\ Cardinality(FwdTurned) \in Nat
      /\ Cardinality(FwdSessions) \in Nat /\ FwdGateMax \in Nat
  BY FwdTurnedLemma
<1>5. FwdCountsInv'
  BY <1>1, <1>2, <1>3, <1>4 DEF FwdCountsInv
<1>6. FwdRoomInv'
  <2>1. Cardinality(FwdOpen) + 0 <= FwdGateMax
    BY <1>1, <1>4 DEF FwdRoomInv
  <2> QED BY <1>1, <1>2, <1>3, <2>1 DEF FwdRoomInv
<1>7. FwdStoppedInv'
  BY <1>2 DEF FwdStoppedInv
<1>8. FwdUpstreamsInv'
  <2>1. fwdLast \in Nat /\ FwdMaxSessions \in Nat
    BY <1>1, FwdAssumption DEF FwdUpstreamsInv
  <2> QED BY <1>1, <1>2, <2>1 DEF FwdUpstreamsInv, FwdSessionsRead
<1> QED BY <1>5, <1>6, <1>7, <1>8 DEF FwdPlacesInv

LEMMA FwdPlacesStep == FwdPlacesInv /\ [FwdConnNext]_fwdConnVars => FwdPlacesInv'
<1> SUFFICES ASSUME FwdPlacesInv, [FwdConnNext]_fwdConnVars
             PROVE  FwdPlacesInv'
  OBVIOUS
<1>1. ASSUME FwdTcp, UNCHANGED <<fwdGate, fwdSession, fwdReader, fwdLast>>,
             \/ fwdServing' = fwdServing
             \/ /\ fwdServing = "stopping" /\ fwdServing' = "over"
                /\ \A c \in FwdConns : fwdConn[c] \in {"new", "over"}
      PROVE  FwdPlacesInv'
  <2>1. /\ fwdConn' = fwdConn /\ fwdActive' = fwdActive /\ FwdSessions' = FwdSessions
        /\ FwdOpen' = FwdOpen /\ FwdTurned' = FwdTurned /\ FwdArriving' = FwdArriving
    BY <1>1, FwdTcpKeeps DEF FwdTcp, FwdSessions
  <2>2. FwdCountsInv' /\ FwdRoomInv'
    BY <1>1, <2>1 DEF FwdPlacesInv, FwdCountsInv, FwdRoomInv
  <2>3. FwdStoppedInv'
    BY <1>1, <2>1 DEF FwdPlacesInv, FwdStoppedInv
  <2>4. FwdUpstreamsInv'
    BY <1>1, <2>1 DEF FwdPlacesInv, FwdUpstreamsInv, FwdSessionsRead
  <2> QED BY <2>2, <2>3, <2>4 DEF FwdPlacesInv
<1>2. CASE UNCHANGED fwdConnVars
  BY <1>1, <1>2 DEF fwdConnVars, FwdTcp
<1>3. CASE FwdStopReturns
  BY <1>1, <1>3 DEF FwdStopReturns
<1>4. ASSUME NEW k \in FwdClients, FwdDialFails(k)
      PROVE  FwdPlacesInv'
  <2>1. fwdGate \in Int
    <3>1. /\ Cardinality(FwdOpen) \in Nat /\ Cardinality(FwdTurned) \in Nat
          /\ Cardinality(FwdSessions) \in Nat
      BY FwdTurnedLemma
    <3> QED BY <3>1 DEF FwdPlacesInv, FwdCountsInv
  <2>2. fwdGate' = fwdGate
    BY <1>4, <2>1 DEF FwdDialFails
  <2> QED BY <1>1, <1>4, <2>2 DEF FwdDialFails
<1>5. ASSUME NEW k \in FwdClients, FwdIdle(k)
      PROVE  FwdPlacesInv'
  BY <1>5, FwdDropStep DEF FwdIdle, FwdLeaves
<1> QED BY <1>2, <1>3, <1>4, <1>5, FwdConnStep, FwdDatagramStep, FwdReaderStep,
           FwdCancelStep DEF FwdConnNext

\* The counters are the places held, never more than the limits, and a session
\* is read by its own reader.
LEMMA FwdPlacesShow == FwdPlacesInv => FwdPlacesHeld /\ FwdSessionsRead
<1> SUFFICES ASSUME FwdPlacesInv
             PROVE  FwdPlacesHeld /\ FwdSessionsRead
  OBVIOUS
<1>1. /\ FwdCountsInv /\ FwdRoomInv /\ FwdStoppedInv /\ FwdUpstreamsInv
  BY DEF FwdPlacesInv
<1>2. /\ FwdOpen = {c \in FwdConns : fwdConn[c] = "open"}
      /\ FwdTurned = {c \in FwdConns : fwdConn[c] = "entering"}
  BY DEF FwdOpen, FwdTurned, FwdConnsAt
<1>3. fwdServing = "over" => fwdGate = 0
  <2> SUFFICES ASSUME fwdServing = "over"
               PROVE  fwdGate = 0
    OBVIOUS
  <2>1. FwdOpen = {} /\ FwdTurned = {} /\ FwdSessions = {}
    BY <1>1, <1>2 DEF FwdStoppedInv, FwdSessions
  <2>2. Cardinality({}) = 0
    BY FS_EmptySet
  <2> QED BY <1>1, <2>1, <2>2 DEF FwdCountsInv
<1>4. FwdPlacesHeld
  BY <1>1, <1>2, <1>3 DEF FwdPlacesHeld, FwdCountsInv, FwdRoomInv
<1> QED BY <1>1, <1>4 DEF FwdUpstreamsInv

-----------------------------------------------------------------------------
(* The theorem. *)

FwdInv == FwdReloadInv /\ FwdPlacesInv

\* Port forwarding by itself shows what it does and loses no place: a rule that
\* is on listens or shows an error, no port outlives its rule, and the gate's
\* count is the number of places held, within the limits.
THEOREM ForwardIsHonest == FwdSpec => []ForwardsAreHonest
<1>1. FwdInit /\ FwdConnInit => FwdInv
  BY FwdReloadInit, FwdPlacesInit DEF FwdInv
<1>2. FwdInv /\ [\/ FwdNext /\ UNCHANGED fwdConnVars
                 \/ FwdConnNext /\ UNCHANGED fwdVars]_<<fwdVars, fwdConnVars>>
          => FwdInv'
  BY FwdReloadStep, FwdPlacesStep DEF FwdInv
<1>3. FwdInv => ForwardsAreHonest
  BY FwdReloadShows, FwdPlacesShow DEF FwdInv, ForwardsAreHonest
<1> QED BY <1>1, <1>2, <1>3, PTL DEF FwdSpec

-----------------------------------------------------------------------------
(* The intake of messages. *)

WhkReqType == [at : {"idle", "lost", "found", "inside", "sending", "over"}, on : BOOLEAN,
               testing : BOOLEAN, cut : BOOLEAN, src : Nat,
               fate : {"none", "captured", "merged", "recorded", "visit", "dropped",
                       "sent", "failed"}]
WhkIdType == [id : Nat, of : WhkRequests]
WhkSrcType == [ids : Seq(WhkIdType), seq : Nat, budget : WhkBudget]

WhkShapeInv ==
    /\ whkEnabled \in BOOLEAN
    /\ whkReq \in [WhkRequests -> WhkReqType]
    /\ whkTest \in [running : BOOLEAN, expired : BOOLEAN, total : Nat,
                    capture : {"none", "held", "gone"}]
    /\ whkQuota \in [WhkKeys -> [tokens : 0..WhkBurst, merged : Nat, told : Nat]]
    /\ whkHist \in [queue : 0..WhkQueueMax, hand : {"free", "full"}, lost : Nat,
                    closed : BOOLEAN]
    /\ whkFile \in [written : Nat, noted : Nat]
    /\ whkSrc \in WhkSrcType
    /\ whkCount \in [received : Nat, rejected : Nat, tested : Nat]
    /\ whkAdds \in Nat /\ whkSwitches \in 0..WhkMaxSwitches

\* Nothing is said of a request before it is over.
WhkOpen(r) == whkReq[r].at # "over" => whkReq[r].fate = "none" /\ whkReq[r].src = 0

\* An id is given once.
WhkIdsInv ==
    /\ \A i \in 1..Len(whkSrc.ids) : whkSrc.ids[i].id <= whkSrc.seq
    /\ \A r \in WhkRequests : whkReq[r].src <= whkSrc.seq

\* A request that began under a test run and did not see its end finds it
\* running; one that goes on to be sent saw it.
WhkTested(r) ==
    LET q == whkReq[r] IN
    /\ q.at \in {"found", "inside"} /\ q.testing /\ ~q.cut =>
          whkTest.running /\ ~whkTest.expired
    /\ q.at = "sending" /\ q.testing => q.cut
    /\ q.at \in {"found", "inside", "sending"} /\ ~q.on => q.testing

WhkRestInv ==
    /\ WhkShapeInv /\ WhkIdsInv /\ WhkOriginalsMatch
    /\ WhkAllCounted /\ WhkHistoryWhole /\ WhkTestsAreQuiet
    /\ \A r \in WhkRequests : WhkOpen(r) /\ WhkTested(r)

WhkInv == WhkRestInv /\ WhkGateHeld /\ whkGate \in 0..WhkGateMax

LEMMA WhkConstants ==
    /\ IsFiniteSet(WhkRequests) /\ WhkGateMax \in Nat \ {0} /\ WhkBurst \in Nat \ {0}
    /\ WhkQueueMax \in Nat \ {0} /\ WhkBudget \subseteq Nat /\ WhkMaxSwitches \in Nat
BY WhkAssumption

-----------------------------------------------------------------------------
(* The originals that are kept. *)

\* Every set of numbers has a least one.
LEMMA LeastNatural ==
    ASSUME NEW S \in SUBSET Nat, S # {}
    PROVE  \E n \in S : \A m \in S : n <= m
<1> DEFINE R == {ss \in Nat \X Nat : ss[1] < ss[2]}
<1>1. IsWellFoundedOn(R, Nat)
  BY NatLessThanWellFounded DEF OpToRel
<1>2. \A x, y \in Nat : <<y, x>> \in R <=> y < x
  OBVIOUS
<1> HIDE DEF R
<1>3. PICK x \in S : \A y \in S : <<y, x>> \notin R
  BY <1>1, WFMin
<1>4. ASSUME NEW y \in S PROVE x <= y
  <2>1. x \in Nat /\ y \in Nat /\ <<y, x>> \notin R
    BY <1>3
  <2>2. ~(y < x)
    BY <1>2, <2>1
  <2> QED BY <2>1, <2>2
<1> QED BY <1>4

\* What is made to fit is the end of what there was.
LEMMA WhkFitEnds ==
    ASSUME NEW S, NEW ids \in Seq(S), NEW budget
    PROVE  \E n \in 0..Len(ids) : WhkFit(ids, budget) = SubSeq(ids, n + 1, Len(ids))
<1> DEFINE left(n) == SubSeq(ids, n + 1, Len(ids))
           goes == {n \in 0..Len(ids) : Len(ids) - n <= 1 \/ WhkWeight(left(n)) <= budget}
<1>1. Len(ids) \in goes /\ goes \subseteq Nat
  OBVIOUS
<1>2. \E n \in goes : \A m \in goes : n <= m
  BY <1>1, LeastNatural
<1> DEFINE least == CHOOSE n \in goes : \A m \in goes : n <= m
<1>3. least \in goes
  BY <1>2
<1>4. WhkFit(ids, budget) = left(least)
  BY DEF WhkFit
<1>5. least \in 0..Len(ids)
  BY <1>3
<1> QED BY <1>4, <1>5

LEMMA WhkFitKeeps ==
    ASSUME NEW S, NEW ids \in Seq(S), NEW budget
    PROVE  /\ WhkFit(ids, budget) \in Seq(S)
           /\ \A i \in 1..Len(WhkFit(ids, budget)) :
                 \E j \in 1..Len(ids) : WhkFit(ids, budget)[i] = ids[j]
<1>1. PICK n \in 0..Len(ids) : WhkFit(ids, budget) = SubSeq(ids, n + 1, Len(ids))
  BY WhkFitEnds
<1> DEFINE fit == SubSeq(ids, n + 1, Len(ids))
<1>2. fit \in Seq(S) /\ Len(fit) = Len(ids) - n
  OBVIOUS
<1>3. ASSUME NEW i \in 1..Len(fit) PROVE \E j \in 1..Len(ids) : fit[i] = ids[j]
  <2>1. i + n \in 1..Len(ids) /\ fit[i] = ids[i + n]
    BY <1>2
  <2> QED BY <2>1
<1> QED BY <1>1, <1>2, <1>3

\* A request's original is kept under a new id, or none is given.
LEMMA WhkStoredKeeps ==
    ASSUME WhkShapeInv, NEW r \in WhkRequests
    PROVE  /\ WhkStored(r) \in WhkSrcType
           /\ WhkSourceOf(r) \in {0, whkSrc.seq + 1}
           /\ WhkStored(r).seq \in {whkSrc.seq, whkSrc.seq + 1}
           /\ WhkSourceOf(r) <= WhkStored(r).seq
           /\ \A i \in 1..Len(WhkStored(r).ids) :
                 \/ \E j \in 1..Len(whkSrc.ids) : WhkStored(r).ids[i] = whkSrc.ids[j]
                 \/ WhkSourceOf(r) # 0 /\ WhkStored(r).ids[i] = [id |-> WhkSourceOf(r), of |-> r]
<1>1. whkSrc \in WhkSrcType /\ whkSrc.seq \in Nat /\ whkSrc.ids \in Seq(WhkIdType)
  BY DEF WhkShapeInv, WhkSrcType
<1>2. CASE whkSrc.budget = 0
  BY <1>1, <1>2 DEF WhkStored, WhkSourceOf
<1>3. CASE whkSrc.budget # 0
  <2> DEFINE new == [id |-> whkSrc.seq + 1, of |-> r]
             ids == Append(whkSrc.ids, new)
             fit == WhkFit(ids, whkSrc.budget)
  <2>1. new \in WhkIdType
    BY <1>1 DEF WhkIdType
  <2>2. ids \in Seq(WhkIdType) /\ Len(ids) = Len(whkSrc.ids) + 1 /\ Len(whkSrc.ids) \in Nat
    BY <1>1, <2>1
  <2>3. \A j \in 1..Len(ids) : \/ j \in 1..Len(whkSrc.ids) /\ ids[j] = whkSrc.ids[j]
                               \/ ids[j] = new
    BY <1>1, <2>2
  <2> HIDE DEF ids
  <2>4. fit \in Seq(WhkIdType) /\ \A i \in 1..Len(fit) : \E j \in 1..Len(ids) : fit[i] = ids[j]
    BY <2>2, WhkFitKeeps
  <2> HIDE DEF fit
  <2>5. WhkStored(r) = [ids |-> fit, seq |-> whkSrc.seq + 1, budget |-> whkSrc.budget]
    <3>1. WhkStored(r) = [whkSrc EXCEPT !.seq = whkSrc.seq + 1, !.ids = fit]
      BY <1>1, <1>3 DEF WhkStored, WhkSrcType, fit, ids
    <3> QED BY <1>1, <3>1 DEF WhkSrcType
  <2>6. WhkStored(r) \in WhkSrcType /\ WhkStored(r).seq = whkSrc.seq + 1 /\ WhkStored(r).ids = fit
    BY <1>1, <2>4, <2>5 DEF WhkSrcType
  <2>7. WhkSourceOf(r) = whkSrc.seq + 1 /\ WhkSourceOf(r) # 0
    BY <1>1, <1>3 DEF WhkSourceOf
  <2>8. ASSUME NEW i \in 1..Len(fit)
        PROVE  (\E j \in 1..Len(whkSrc.ids) : fit[i] = whkSrc.ids[j]) \/ fit[i] = new
    BY <2>3, <2>4
  <2> QED BY <1>1, <2>6, <2>7, <2>8
<1> QED BY <1>2, <1>3

\* So a request that ends with its original on record, or with none, leaves
\* every id with its own request.
LEMMA WhkSourcesInv ==
    ASSUME WhkShapeInv, WhkIdsInv, WhkOriginalsMatch, NEW r \in WhkRequests,
           \A q \in WhkRequests : q # r => whkReq'[q].src = whkReq[q].src,
           \/ whkReq'[r].src = WhkSourceOf(r) /\ whkSrc' = WhkStored(r)
           \/ whkReq'[r].src \in {0, whkReq[r].src} /\ whkSrc' = whkSrc
    PROVE  whkSrc' \in WhkSrcType /\ WhkIdsInv' /\ WhkOriginalsMatch'
<1>0. /\ whkSrc \in WhkSrcType /\ whkSrc.seq \in Nat /\ whkSrc.ids \in Seq(WhkIdType)
      /\ \A q \in WhkRequests : whkReq[q].src \in Nat
  BY DEF WhkShapeInv, WhkSrcType, WhkReqType
<1>1. CASE whkReq'[r].src \in {0, whkReq[r].src} /\ whkSrc' = whkSrc
  BY <1>0, <1>1 DEF WhkIdsInv, WhkOriginalsMatch
<1>2. CASE whkReq'[r].src = WhkSourceOf(r) /\ whkSrc' = WhkStored(r)
  <2>1. /\ whkSrc' \in WhkSrcType
        /\ WhkSourceOf(r) \in {0, whkSrc.seq + 1} /\ WhkSourceOf(r) <= whkSrc'.seq
        /\ whkSrc'.seq \in {whkSrc.seq, whkSrc.seq + 1}
    BY <1>2, WhkStoredKeeps
  <2>2. \A i \in 1..Len(whkSrc'.ids) :
           \/ \E j \in 1..Len(whkSrc.ids) : whkSrc'.ids[i] = whkSrc.ids[j]
           \/ WhkSourceOf(r) # 0 /\ whkSrc'.ids[i] = [id |-> WhkSourceOf(r), of |-> r]
    BY <1>2, WhkStoredKeeps
  <2>3. \A j \in 1..Len(whkSrc.ids) : whkSrc.ids[j] \in WhkIdType
    BY <1>0
  <2>4. WhkIdsInv'
    <3>1. ASSUME NEW i \in 1..Len(whkSrc'.ids) PROVE whkSrc'.ids[i].id <= whkSrc'.seq
      <4>1. CASE WhkSourceOf(r) # 0 /\ whkSrc'.ids[i] = [id |-> WhkSourceOf(r), of |-> r]
        BY <2>1, <4>1
      <4>2. ASSUME NEW j \in 1..Len(whkSrc.ids), whkSrc'.ids[i] = whkSrc.ids[j]
            PROVE  whkSrc'.ids[i].id <= whkSrc'.seq
        <5>1. whkSrc.ids[j].id <= whkSrc.seq /\ whkSrc.ids[j].id \in Nat
          BY <2>3 DEF WhkIdsInv, WhkIdType
        <5> QED BY <1>0, <2>1, <4>2, <5>1
      <4> QED BY <2>2, <4>1, <4>2
    <3>2. ASSUME NEW q \in WhkRequests PROVE whkReq'[q].src <= whkSrc'.seq
      <4>1. whkReq[q].src <= whkSrc.seq /\ whkReq[q].src \in Nat
        BY <1>0 DEF WhkIdsInv
      <4> QED BY <1>0, <1>2, <2>1, <4>1
    <3> QED BY <3>1, <3>2 DEF WhkIdsInv
  <2>5. ASSUME NEW q \in WhkRequests, NEW i \in 1..Len(whkSrc'.ids),
               whkReq'[q].src # 0, whkSrc'.ids[i].id = whkReq'[q].src
        PROVE  whkSrc'.ids[i].of = q
    <3>1. CASE WhkSourceOf(r) # 0 /\ whkSrc'.ids[i] = [id |-> WhkSourceOf(r), of |-> r]
      BY <1>0, <1>2, <2>1, <2>5, <3>1 DEF WhkIdsInv
    <3>2. CASE \E j \in 1..Len(whkSrc.ids) : whkSrc'.ids[i] = whkSrc.ids[j]
      <4>1. PICK j \in 1..Len(whkSrc.ids) : whkSrc'.ids[i] = whkSrc.ids[j]
        BY <3>2
      <4>2. whkSrc.ids[j].id <= whkSrc.seq /\ whkSrc.ids[j].id \in Nat
        BY <2>3 DEF WhkIdsInv, WhkIdType
      <4>3. q # r
        BY <1>0, <1>2, <2>1, <2>5, <4>1, <4>2
      <4> QED BY <2>5, <4>1, <4>3 DEF WhkOriginalsMatch
    <3> QED BY <2>2, <3>1, <3>2
  <2> QED BY <2>1, <2>4, <2>5 DEF WhkOriginalsMatch
<1> QED BY <1>1, <1>2

-----------------------------------------------------------------------------
(* The counts. *)

WhkOne(b) == IF b THEN 1 ELSE 0

\* Two sets that differ in one request at most.
LEMMA WhkDiffer ==
    ASSUME NEW S \in SUBSET WhkRequests, NEW T \in SUBSET WhkRequests, NEW r \in WhkRequests,
           \A q \in WhkRequests \ {r} : q \in S <=> q \in T
    PROVE  /\ Cardinality(S) \in Nat /\ Cardinality(T) \in Nat
           /\ Cardinality(S) + WhkOne(r \in T) = Cardinality(T) + WhkOne(r \in S)
           /\ r \in S => Cardinality(S) > 0
<1>1. IsFiniteSet(S) /\ IsFiniteSet(T)
  BY WhkConstants, FS_Subset
<1>2. Cardinality(S) \in Nat /\ Cardinality(T) \in Nat
  BY <1>1, FS_CardinalityType
<1>3. r \in S => Cardinality(S) > 0
  <2>1. S # {} => Cardinality(S) # 0
    BY <1>1, FS_EmptySet
  <2> QED BY <1>2, <2>1
<1>4. CASE r \in S <=> r \in T
  <2>1. S = T
    BY <1>4
  <2> QED BY <1>2, <1>3, <2>1
<1>5. CASE r \in T /\ r \notin S
  <2>1. T = S \union {r}
    BY <1>5
  <2>2. Cardinality(T) = Cardinality(S) + 1
    BY <1>1, <1>5, <2>1, FS_AddElement
  <2> QED BY <1>2, <1>3, <1>5, <2>2 DEF WhkOne
<1>6. CASE r \in S /\ r \notin T
  <2>1. S = T \union {r}
    BY <1>6
  <2>2. Cardinality(S) = Cardinality(T) + 1
    BY <1>1, <1>6, <2>1, FS_AddElement
  <2> QED BY <1>2, <1>3, <1>6, <2>2 DEF WhkOne
<1> QED BY <1>4, <1>5, <1>6

WhkSending == {r \in WhkRequests : WhkAt(r, "sending")}

\* Requests are counted by where they are and what became of them; a step of
\* one of them counts that one.
LEMMA WhkCountsOne ==
    ASSUME WhkShapeInv, NEW r \in WhkRequests, NEW q \in WhkReqType, WhkOpen(r),
           ~WhkAt(r, "over"), whkReq' = [whkReq EXCEPT ![r] = q]
    PROVE  /\ Cardinality(WhkFate({"merged", "recorded"}))' =
                  Cardinality(WhkFate({"merged", "recorded"})) + WhkOne(q.fate \in {"merged", "recorded"})
           /\ Cardinality(WhkFate({"captured"}))' =
                  Cardinality(WhkFate({"captured"})) + WhkOne(q.fate = "captured")
           /\ Cardinality(WhkFate({"dropped", "sent", "failed"}))' =
                  Cardinality(WhkFate({"dropped", "sent", "failed"}))
                  + WhkOne(q.fate \in {"dropped", "sent", "failed"})
           /\ Cardinality(WhkSending)' + WhkOne(WhkAt(r, "sending")) =
                  Cardinality(WhkSending) + WhkOne(q.at = "sending")
           /\ Cardinality(WhkInside)' + WhkOne(r \in WhkInside) =
                  Cardinality(WhkInside) + WhkOne(q.at \in {"inside", "sending"})
           /\ r \in WhkInside => Cardinality(WhkInside) > 0
<1>1. /\ whkReq'[r] = q /\ whkReq[r].fate = "none"
      /\ \A p \in WhkRequests \ {r} : whkReq'[p] = whkReq[p]
  BY DEF WhkShapeInv, WhkOpen, WhkAt
<1>2. ASSUME NEW fates \in {{"merged", "recorded"}, {"captured"}, {"dropped", "sent", "failed"}}
      PROVE  Cardinality(WhkFate(fates))' = Cardinality(WhkFate(fates)) + WhkOne(q.fate \in fates)
  <2> DEFINE S == WhkFate(fates)
             T == {p \in WhkRequests : whkReq'[p].fate \in fates}
  <2>1. /\ S \in SUBSET WhkRequests /\ T \in SUBSET WhkRequests /\ T = S'
        /\ \A p \in WhkRequests \ {r} : p \in S <=> p \in T
        /\ r \notin S /\ (r \in T <=> q.fate \in fates)
    BY <1>1 DEF WhkFate
  <2>2. Cardinality(S) \in Nat /\ Cardinality(T) \in Nat
        /\ Cardinality(S) + WhkOne(r \in T) = Cardinality(T) + WhkOne(r \in S)
    BY <2>1, WhkDiffer
  <2>3. T = WhkFate(fates)'
    BY <2>1
  <2> HIDE DEF T
  <2> QED BY <2>1, <2>2, <2>3 DEF WhkOne
<1>3. /\ Cardinality(WhkSending)' + WhkOne(WhkAt(r, "sending")) =
            Cardinality(WhkSending) + WhkOne(q.at = "sending")
  <2> DEFINE S == WhkSending
             T == {p \in WhkRequests : whkReq'[p].at = "sending"}
  <2>1. /\ S \in SUBSET WhkRequests /\ T \in SUBSET WhkRequests /\ T = WhkSending'
        /\ \A p \in WhkRequests \ {r} : p \in S <=> p \in T
        /\ (r \in S <=> WhkAt(r, "sending")) /\ (r \in T <=> q.at = "sending")
    BY <1>1 DEF WhkSending, WhkAt
  <2>2. Cardinality(S) \in Nat /\ Cardinality(T) \in Nat
        /\ Cardinality(S) + WhkOne(r \in T) = Cardinality(T) + WhkOne(r \in S)
    BY <2>1, WhkDiffer
  <2> HIDE DEF S, T
  <2> QED BY <2>1, <2>2 DEF WhkOne, S
<1>4. /\ Cardinality(WhkInside)' + WhkOne(r \in WhkInside) =
            Cardinality(WhkInside) + WhkOne(q.at \in {"inside", "sending"})
      /\ r \in WhkInside => Cardinality(WhkInside) > 0
  <2> DEFINE S == WhkInside
             T == {p \in WhkRequests : whkReq'[p].at \in {"inside", "sending"}}
  <2>1. /\ S \in SUBSET WhkRequests /\ T \in SUBSET WhkRequests /\ T = WhkInside'
        /\ \A p \in WhkRequests \ {r} : p \in S <=> p \in T
        /\ (r \in T <=> q.at \in {"inside", "sending"})
    BY <1>1 DEF WhkInside
  <2>2. /\ Cardinality(S) \in Nat /\ Cardinality(T) \in Nat
        /\ Cardinality(S) + WhkOne(r \in T) = Cardinality(T) + WhkOne(r \in S)
        /\ r \in S => Cardinality(S) > 0
    BY <2>1, WhkDiffer
  <2> HIDE DEF S, T
  <2> QED BY <2>1, <2>2 DEF WhkOne, S
<1>5. /\ Cardinality(WhkFate({"merged", "recorded"}))' =
            Cardinality(WhkFate({"merged", "recorded"})) + WhkOne(q.fate \in {"merged", "recorded"})
      /\ Cardinality(WhkFate({"captured"}))' =
            Cardinality(WhkFate({"captured"})) + WhkOne(q.fate \in {"captured"})
      /\ Cardinality(WhkFate({"dropped", "sent", "failed"}))' =
            Cardinality(WhkFate({"dropped", "sent", "failed"}))
            + WhkOne(q.fate \in {"dropped", "sent", "failed"})
  BY <1>2
<1>6. q.fate \in {"captured"} <=> q.fate = "captured"
  OBVIOUS
<1> QED BY <1>3, <1>4, <1>5, <1>6

-----------------------------------------------------------------------------
(* The steps. *)

WhkOnRecord == whkQuota["anon"].told + whkQuota["anon"].merged
               + whkQuota["receiver"].told + whkQuota["receiver"].merged

\* An entry is with the writer, or counted as lost.
LEMMA WhkRecordWhole ==
    ASSUME WhkShapeInv, WhkHistoryWhole, WhkRecord \/ UNCHANGED <<whkHist, whkAdds>>,
           UNCHANGED whkFile
    PROVE  /\ whkHist' \in [queue : 0..WhkQueueMax, hand : {"free", "full"}, lost : Nat,
                            closed : BOOLEAN]
           /\ whkAdds' \in Nat /\ WhkHistoryWhole'
<1>0. /\ whkHist \in [queue : 0..WhkQueueMax, hand : {"free", "full"}, lost : Nat,
                      closed : BOOLEAN]
      /\ whkFile \in [written : Nat, noted : Nat] /\ whkAdds \in Nat /\ WhkQueueMax \in Nat \ {0}
  BY WhkConstants DEF WhkShapeInv
<1>1. CASE UNCHANGED <<whkHist, whkAdds>>
  BY <1>0, <1>1 DEF WhkHistoryWhole
<1> DEFINE room == ~whkHist.closed /\ whkHist.queue < WhkQueueMax
           full == ~whkHist.closed /\ whkHist.queue = WhkQueueMax
<1>a. ASSUME WhkRecord
      PROVE  whkHist' = [queue |-> IF room THEN whkHist.queue + 1 ELSE whkHist.queue,
                         hand |-> whkHist.hand,
                         lost |-> IF full THEN whkHist.lost + 1 ELSE whkHist.lost,
                         closed |-> whkHist.closed]
  <2>1. whkHist' = [whkHist EXCEPT !.queue = IF room THEN whkHist.queue + 1 ELSE whkHist.queue,
                                   !.lost = IF full THEN whkHist.lost + 1 ELSE whkHist.lost]
    BY <1>a DEF WhkRecord, WhkAdded
  <2> HIDE DEF room, full
  <2> QED BY <1>0, <2>1
<1>b. whkHist.closed => ~room /\ ~full
  OBVIOUS
<1>c. ~whkHist.closed => (room <=> whkHist.queue # WhkQueueMax)
                         /\ (full <=> whkHist.queue = WhkQueueMax)
  BY <1>0
<1> HIDE DEF room, full
<1>2. CASE WhkRecord /\ whkHist.closed
  <2>1. whkHist' = whkHist /\ whkAdds' = whkAdds
    <3>1. whkAdds' = whkAdds
      BY <1>0, <1>2 DEF WhkRecord
    <3> QED BY <1>0, <1>a, <1>b, <1>2, <3>1
  <2> QED BY <1>0, <2>1 DEF WhkHistoryWhole
<1>3. CASE WhkRecord /\ ~whkHist.closed /\ whkHist.queue = WhkQueueMax
  <2>1. whkHist' = [queue |-> whkHist.queue, hand |-> whkHist.hand, lost |-> whkHist.lost + 1,
                    closed |-> whkHist.closed]
    BY <1>a, <1>c, <1>3
  <2>2. whkAdds' = whkAdds + 1
    BY <1>3 DEF WhkRecord
  <2> QED BY <1>0, <2>1, <2>2 DEF WhkHistoryWhole
<1>4. CASE WhkRecord /\ ~whkHist.closed /\ whkHist.queue # WhkQueueMax
  <2>1. whkHist' = [queue |-> whkHist.queue + 1, hand |-> whkHist.hand, lost |-> whkHist.lost,
                    closed |-> whkHist.closed]
    BY <1>a, <1>c, <1>4
  <2>2. whkAdds' = whkAdds + 1
    BY <1>4 DEF WhkRecord
  <2> QED BY <1>0, <1>4, <2>1, <2>2 DEF WhkHistoryWhole
<1> QED BY <1>1, <1>2, <1>3, <1>4

\* A step of one request: where it leads,
WhkMoves(r, q) ==
    /\ whkReq' = [whkReq EXCEPT ![r] = q] /\ q \in WhkReqType /\ ~WhkAt(r, "over")
    /\ q.at # "over" => q.fate = "none" /\ q.src = 0
    /\ WhkTested(r)'
    /\ q.fate \in {"dropped", "sent", "failed"} =>
          (q.testing => q.cut) /\ (~q.on => q.testing)

\* what it does to the stores,
WhkKeeps(r, q) ==
    /\ WhkSame /\ UNCHANGED whkFile
    /\ \/ q.src = WhkSourceOf(r) /\ whkSrc' = WhkStored(r)
       \/ q.src = 0 /\ whkSrc' = whkSrc
    /\ WhkRecord \/ UNCHANGED <<whkHist, whkAdds>>

\* to the test run,
WhkRunsOn ==
    /\ whkTest' \in [running : BOOLEAN, expired : BOOLEAN, total : Nat,
                     capture : {"none", "held", "gone"}]
    /\ whkTest.running /\ ~whkTest.expired => whkTest'.running /\ ~whkTest'.expired

\* and to the counts.
WhkCounts(r, q) ==
    /\ whkQuota' \in [WhkKeys -> [tokens : 0..WhkBurst, merged : Nat, told : Nat]]
    /\ whkCount' \in [received : Nat, rejected : Nat, tested : Nat]
    /\ WhkOnRecord' = WhkOnRecord + WhkOne(q.fate \in {"merged", "recorded"})
    /\ whkCount'.rejected = whkCount.rejected + WhkOne(q.fate \in {"merged", "recorded"})
    /\ whkCount'.tested = whkCount.tested + WhkOne(q.fate = "captured")
    /\ whkCount'.received + WhkOne(WhkAt(r, "sending")) =
          whkCount.received + WhkOne(q.fate \in {"dropped", "sent", "failed"})
          + WhkOne(q.at = "sending")
    /\ whkGate' + WhkOne(r \in WhkInside) = whkGate + WhkOne(q.at \in {"inside", "sending"})
    /\ whkGate' \in Int /\ whkGate' <= WhkGateMax

LEMMA WhkStepOf ==
    ASSUME WhkInv, NEW r \in WhkRequests, NEW q,
           WhkMoves(r, q), WhkKeeps(r, q), WhkRunsOn, WhkCounts(r, q)
    PROVE  WhkInv'
<1>0. /\ WhkShapeInv /\ WhkIdsInv /\ WhkOriginalsMatch /\ WhkAllCounted /\ WhkHistoryWhole
      /\ WhkTestsAreQuiet /\ WhkOpen(r) /\ WhkTested(r) /\ WhkGateHeld
      /\ whkReq \in [WhkRequests -> WhkReqType]
      /\ whkGate \in 0..WhkGateMax
  BY DEF WhkInv, WhkRestInv, WhkShapeInv
<1>1. /\ whkReq' \in [WhkRequests -> WhkReqType] /\ whkReq'[r] = q
      /\ \A p \in WhkRequests : p # r => whkReq'[p] = whkReq[p]
      /\ q \in WhkReqType
  BY <1>0 DEF WhkMoves
<1>2. whkSrc' \in WhkSrcType /\ WhkIdsInv' /\ WhkOriginalsMatch'
  BY <1>0, <1>1, WhkSourcesInv DEF WhkKeeps
<1>3. /\ whkHist' \in [queue : 0..WhkQueueMax, hand : {"free", "full"}, lost : Nat,
                       closed : BOOLEAN]
      /\ whkAdds' \in Nat /\ WhkHistoryWhole'
  BY <1>0, WhkRecordWhole DEF WhkKeeps
<1>4. WhkShapeInv'
  BY <1>0, <1>1, <1>2, <1>3 DEF WhkShapeInv, WhkSame, WhkKeeps, WhkRunsOn, WhkCounts
<1>5. WhkAllCounted'
  <2>1. /\ whkCount.received \in Nat /\ whkCount.rejected \in Nat /\ whkCount.tested \in Nat
        /\ whkCount'.received \in Nat
    BY <1>0 DEF WhkShapeInv, WhkCounts
  <2>2. /\ whkCount.rejected = Cardinality(WhkFate({"merged", "recorded"}))
        /\ whkCount.rejected = WhkOnRecord
        /\ whkCount.tested = Cardinality(WhkFate({"captured"}))
        /\ whkCount.received = Cardinality(WhkFate({"dropped", "sent", "failed"}))
                               + Cardinality(WhkSending)
    BY <1>0 DEF WhkAllCounted, WhkOnRecord, WhkSending
  <2>3. /\ Cardinality(WhkFate({"dropped", "sent", "failed"})) \in Nat
        /\ Cardinality(WhkSending) \in Nat /\ Cardinality(WhkSending)' \in Nat
    <3>1. /\ IsFiniteSet(WhkFate({"dropped", "sent", "failed"})) /\ IsFiniteSet(WhkSending)
          /\ IsFiniteSet(WhkSending')
      BY WhkConstants, FS_Subset DEF WhkFate, WhkSending
    <3> QED BY <3>1, FS_CardinalityType
  <2>4. /\ Cardinality(WhkFate({"merged", "recorded"}))' =
              Cardinality(WhkFate({"merged", "recorded"})) + WhkOne(q.fate \in {"merged", "recorded"})
        /\ Cardinality(WhkFate({"captured"}))' =
              Cardinality(WhkFate({"captured"})) + WhkOne(q.fate = "captured")
        /\ Cardinality(WhkFate({"dropped", "sent", "failed"}))' =
              Cardinality(WhkFate({"dropped", "sent", "failed"}))
              + WhkOne(q.fate \in {"dropped", "sent", "failed"})
        /\ Cardinality(WhkSending)' + WhkOne(WhkAt(r, "sending")) =
              Cardinality(WhkSending) + WhkOne(q.at = "sending")
    BY <1>0, <1>1, WhkCountsOne DEF WhkMoves
  <2>5. /\ whkCount'.rejected = Cardinality(WhkFate({"merged", "recorded"}))'
        /\ whkCount'.rejected = WhkOnRecord'
        /\ whkCount'.tested = Cardinality(WhkFate({"captured"}))'
    BY <2>2, <2>4 DEF WhkCounts
  <2>6. whkCount'.received = Cardinality(WhkFate({"dropped", "sent", "failed"}))'
                             + Cardinality(WhkSending)'
    BY <2>1, <2>2, <2>3, <2>4 DEF WhkOne, WhkCounts
  <2> QED BY <2>5, <2>6 DEF WhkAllCounted, WhkOnRecord, WhkSending
<1>6. WhkTestsAreQuiet'
  BY <1>0, <1>1 DEF WhkTestsAreQuiet, WhkMoves
<1>7. ASSUME NEW p \in WhkRequests PROVE WhkOpen(p)' /\ WhkTested(p)'
  <2>1. CASE p = r
    BY <1>1, <2>1 DEF WhkOpen, WhkMoves
  <2>2. CASE p # r
    <3>1. WhkOpen(p) /\ WhkTested(p) /\ whkReq'[p] = whkReq[p]
      BY <1>1, <2>2 DEF WhkInv, WhkRestInv
    <3> QED BY <3>1 DEF WhkOpen, WhkTested, WhkRunsOn
  <2> QED BY <2>1, <2>2
<1>8. WhkGateHeld' /\ whkGate' \in 0..WhkGateMax
  <2>1. /\ Cardinality(WhkInside)' + WhkOne(r \in WhkInside) =
              Cardinality(WhkInside) + WhkOne(q.at \in {"inside", "sending"})
        /\ whkGate = Cardinality(WhkInside)
    BY <1>0, <1>1, WhkCountsOne DEF WhkGateHeld, WhkMoves
  <2>2. Cardinality(WhkInside)' \in Nat
    <3>1. IsFiniteSet(WhkInside')
      BY WhkConstants, FS_Subset DEF WhkInside
    <3> QED BY <3>1, FS_CardinalityType
  <2>3. whkGate \in Nat /\ WhkGateMax \in Nat
    BY <1>0, WhkConstants
  <2>4. whkGate' = Cardinality(WhkInside)'
    BY <2>1, <2>2, <2>3 DEF WhkOne, WhkCounts
  <2> QED BY <2>2, <2>3, <2>4 DEF WhkGateHeld, WhkCounts
<1> QED BY <1>2, <1>3, <1>4, <1>5, <1>6, <1>7, <1>8 DEF WhkInv, WhkRestInv

LEMMA WhkOneReq ==
    ASSUME WhkInv, NEW r \in WhkRequests
    PROVE  /\ WhkShapeInv /\ whkReq \in [WhkRequests -> WhkReqType] /\ whkReq[r] \in WhkReqType
           /\ WhkOpen(r) /\ WhkTested(r) /\ whkGate \in Nat /\ whkGate <= WhkGateMax
           /\ WhkGateMax \in Nat
           /\ whkCount \in [received : Nat, rejected : Nat, tested : Nat]
           /\ whkTest \in [running : BOOLEAN, expired : BOOLEAN, total : Nat,
                            capture : {"none", "held", "gone"}]
           /\ whkEnabled \in BOOLEAN
           /\ whkQuota \in [WhkKeys -> [tokens : 0..WhkBurst, merged : Nat, told : Nat]]
           /\ WhkBurst \in Nat /\ WhkOnRecord \in Nat
BY WhkConstants DEF WhkInv, WhkRestInv, WhkShapeInv, WhkOnRecord, WhkKeys

LEMMA WhkOneIs == WhkOne(TRUE) = 1 /\ WhkOne(FALSE) = 0
BY DEF WhkOne

\* The steps that end nothing, and the visit that leaves nothing behind.
LEMMA WhkMoveInv ==
    ASSUME WhkInv, NEW r \in WhkRequests,
           \/ WhkArrive(r) \/ WhkStray(r) \/ WhkEnter(r) \/ WhkBlank(r)
           \/ WhkProcess(r) /\ ~WhkCaptures(r)
    PROVE  WhkInv'
<1>1. CASE WhkArrive(r)
  <2> DEFINE q == [WhkFresh EXCEPT !.at = IF whkEnabled \/ WhkActive THEN "found" ELSE "lost",
                                   !.on = whkEnabled, !.testing = WhkActive]
  <2>0. WhkActive \in BOOLEAN /\ whkEnabled \in BOOLEAN
    BY WhkOneReq DEF WhkActive
  <2>1. /\ q \in WhkReqType /\ q.at \in {"found", "lost"} /\ q.fate = "none" /\ q.src = 0
        /\ (q.testing <=> WhkActive) /\ (q.on <=> whkEnabled)
        /\ q.at = "found" => whkEnabled \/ WhkActive
    BY <2>0 DEF WhkFresh, WhkReqType
  <2>2. whkReq' = [whkReq EXCEPT ![r] = q] /\ WhkAt(r, "idle")
    BY <1>1 DEF WhkArrive
  <2> HIDE DEF q
  <2>3. /\ whkTest' \in [running : BOOLEAN, expired : BOOLEAN, total : Nat,
                         capture : {"none", "held", "gone"}]
        /\ ~whkTest.expired => whkTest' = whkTest
    BY <1>1, WhkOneReq DEF WhkArrive, WhkLooked
  <2>4. WhkTested(r)'
    <3>1. whkReq'[r] = q
      BY <2>2, WhkOneReq
    <3>2. WhkActive => whkTest.running /\ ~whkTest.expired
      BY DEF WhkActive
    <3> QED BY <2>1, <2>3, <3>1, <3>2 DEF WhkTested
  <2>6. WhkMoves(r, q)
    BY <2>1, <2>2, <2>3, <2>4 DEF WhkMoves, WhkAt
  <2>7. WhkKeeps(r, q) /\ WhkRunsOn
    BY <1>1, <2>1, <2>2, <2>3, <2>4, WhkOneReq DEF WhkArrive, WhkKeeps, WhkRunsOn, WhkSame
  <2>8. WhkOnRecord' = WhkOnRecord /\ whkQuota' = whkQuota
    BY <1>1 DEF WhkArrive, WhkOnRecord
  <2>9. WhkCounts(r, q)
    BY <1>1, <2>1, <2>2, <2>3, <2>4, <2>8, WhkOneReq DEF WhkArrive, WhkAt, WhkInside, WhkOne, WhkCounts
  <2> QED BY <2>6, <2>7, <2>9, WhkStepOf
<1>2. CASE WhkStray(r)
  <2> DEFINE q == [WhkFresh EXCEPT !.at = "lost"]
  <2>1. q \in WhkReqType /\ q.at = "lost" /\ q.fate = "none" /\ q.src = 0
    BY DEF WhkFresh, WhkReqType
  <2>2. whkReq' = [whkReq EXCEPT ![r] = q] /\ WhkAt(r, "idle")
    BY <1>2 DEF WhkStray
  <2> HIDE DEF q
  <2>3. WhkTested(r)'
    BY <2>1, <2>2, WhkOneReq DEF WhkTested
  <2>6. WhkMoves(r, q)
    BY <2>1, <2>2, <2>3 DEF WhkMoves, WhkAt
  <2>7. WhkKeeps(r, q) /\ WhkRunsOn
    BY <1>2, <2>1, <2>2, <2>3, WhkOneReq DEF WhkStray, WhkKeeps, WhkRunsOn, WhkSame
  <2>8. WhkOnRecord' = WhkOnRecord /\ whkQuota' = whkQuota
    BY <1>2 DEF WhkStray, WhkOnRecord
  <2>9. WhkCounts(r, q)
    BY <1>2, <2>1, <2>2, <2>3, <2>8, WhkOneReq DEF WhkStray, WhkAt, WhkInside, WhkOne, WhkCounts
  <2> QED BY <2>6, <2>7, <2>9, WhkStepOf
<1>3. CASE WhkEnter(r)
  <2> DEFINE q == [whkReq[r] EXCEPT !.at = "inside"]
  <2>1. /\ q \in WhkReqType /\ q.at = "inside" /\ q.fate = "none" /\ q.src = 0
        /\ q.testing = whkReq[r].testing /\ q.on = whkReq[r].on /\ q.cut = whkReq[r].cut
    BY <1>3, WhkOneReq DEF WhkReqType, WhkEnter, WhkAt, WhkOpen
  <2>2. whkReq' = [whkReq EXCEPT ![r] = q] /\ WhkAt(r, "found")
    BY <1>3 DEF WhkEnter
  <2> HIDE DEF q
  <2>3. WhkTested(r)'
    BY <1>3, <2>1, <2>2, WhkOneReq DEF WhkTested, WhkAt, WhkEnter
  <2>6. WhkMoves(r, q)
    BY <2>1, <2>2, <2>3 DEF WhkMoves, WhkAt
  <2>7. WhkKeeps(r, q) /\ WhkRunsOn
    BY <1>3, <2>1, <2>2, <2>3, WhkOneReq DEF WhkEnter, WhkKeeps, WhkRunsOn, WhkSame
  <2>8. WhkOnRecord' = WhkOnRecord /\ whkQuota' = whkQuota
    BY <1>3 DEF WhkEnter, WhkOnRecord
  <2>9. WhkCounts(r, q)
    BY <1>3, <2>1, <2>2, <2>3, <2>8, WhkOneReq DEF WhkEnter, WhkAt, WhkInside, WhkOne, WhkCounts
  <2> QED BY <2>6, <2>7, <2>9, WhkStepOf
<1>4. CASE WhkBlank(r)
  <2> DEFINE q == [whkReq[r] EXCEPT !.at = "over", !.fate = "visit", !.src = 0]
  <2>1. q \in WhkReqType /\ q.at = "over" /\ q.fate = "visit" /\ q.src = 0
    BY WhkOneReq DEF WhkReqType
  <2>2. whkReq' = [whkReq EXCEPT ![r] = q] /\ WhkAt(r, "inside")
    BY <1>4, WhkOneReq DEF WhkBlank, WhkEnds
  <2> HIDE DEF q
  <2>3. WhkTested(r)'
    BY <2>1, <2>2, WhkOneReq DEF WhkTested
  <2>6. WhkMoves(r, q)
    BY <2>1, <2>2, <2>3 DEF WhkMoves, WhkAt
  <2>7. WhkKeeps(r, q) /\ WhkRunsOn
    BY <1>4, <2>1, <2>2, <2>3, WhkOneReq DEF WhkBlank, WhkKeeps, WhkRunsOn, WhkSame
  <2>8. WhkOnRecord' = WhkOnRecord /\ whkQuota' = whkQuota
    BY <1>4 DEF WhkBlank, WhkOnRecord
  <2>9. WhkCounts(r, q)
    BY <1>4, <2>1, <2>2, <2>3, <2>8, WhkOneReq DEF WhkBlank, WhkAt, WhkInside, WhkOne, WhkCounts
  <2> QED BY <2>6, <2>7, <2>9, WhkStepOf
<1>5. CASE WhkProcess(r) /\ ~WhkCaptures(r)
  <2> DEFINE q == [whkReq[r] EXCEPT !.at = "sending"]
  <2>1. /\ q \in WhkReqType /\ q.at = "sending" /\ q.fate = "none" /\ q.src = 0
        /\ q.testing = whkReq[r].testing /\ q.on = whkReq[r].on /\ q.cut = whkReq[r].cut
    BY <1>5, WhkOneReq DEF WhkReqType, WhkProcess, WhkAt, WhkOpen
  <2>2. whkReq' = [whkReq EXCEPT ![r] = q] /\ WhkAt(r, "inside")
    BY <1>5 DEF WhkProcess
  <2> HIDE DEF q
  <2>3. WhkTested(r)'
    BY <1>5, <2>1, <2>2, WhkOneReq DEF WhkTested, WhkAt, WhkCaptures
  <2>4. /\ whkCount' \in [received : Nat, rejected : Nat, tested : Nat]
        /\ whkCount'.received = whkCount.received + 1
        /\ whkCount'.rejected = whkCount.rejected /\ whkCount'.tested = whkCount.tested
    BY <1>5, WhkOneReq DEF WhkProcess
  <2>6. WhkMoves(r, q)
    BY <2>1, <2>2, <2>3, <2>4 DEF WhkMoves, WhkAt
  <2>7. WhkKeeps(r, q) /\ WhkRunsOn
    BY <1>5, <2>1, <2>2, <2>3, <2>4, WhkOneReq DEF WhkProcess, WhkKeeps, WhkRunsOn, WhkSame
  <2>8. WhkOnRecord' = WhkOnRecord /\ whkQuota' = whkQuota
    BY <1>5 DEF WhkProcess, WhkOnRecord
  <2>9. WhkCounts(r, q)
    BY <1>5, <2>1, <2>2, <2>3, <2>4, <2>8, WhkOneReq DEF WhkProcess, WhkAt, WhkInside, WhkOne, WhkCounts
  <2> QED BY <2>6, <2>7, <2>9, WhkStepOf
<1> QED BY <1>1, <1>2, <1>3, <1>4, <1>5

\* The test run takes it.
LEMMA WhkCaptureInv ==
    ASSUME WhkInv, NEW r \in WhkRequests, WhkAt(r, "found") \/ WhkAt(r, "inside"),
           WhkCapture(r), WhkSame, UNCHANGED <<whkQuota, whkHist, whkFile, whkSrc, whkAdds>>,
           whkGate' = IF WhkAt(r, "inside") THEN whkGate - 1 ELSE whkGate
    PROVE  WhkInv'
<1> DEFINE q == [whkReq[r] EXCEPT !.at = "over", !.fate = "captured", !.src = 0]
<1>1. q \in WhkReqType /\ q.at = "over" /\ q.fate = "captured" /\ q.src = 0
  BY WhkOneReq DEF WhkReqType
<1>2. whkReq' = [whkReq EXCEPT ![r] = q]
  BY WhkOneReq DEF WhkCapture, WhkEnds
<1> HIDE DEF q
<1>3. WhkTested(r)'
  BY <1>1, <1>2, WhkOneReq DEF WhkTested
<1>4. /\ whkTest' \in [running : BOOLEAN, expired : BOOLEAN, total : Nat,
                       capture : {"none", "held", "gone"}]
      /\ whkTest'.running = whkTest.running /\ whkTest'.expired = whkTest.expired
  <2>1. whkTest' = [running |-> whkTest.running, expired |-> whkTest.expired,
                    total |-> whkTest.total + 1, capture |-> "held"]
    BY WhkOneReq DEF WhkCapture
  <2> QED BY <2>1, WhkOneReq
<1>5. /\ whkCount' \in [received : Nat, rejected : Nat, tested : Nat]
      /\ whkCount'.tested = whkCount.tested + 1
      /\ whkCount'.rejected = whkCount.rejected /\ whkCount'.received = whkCount.received
  BY WhkOneReq DEF WhkCapture
<1>6. /\ whkGate' + WhkOne(r \in WhkInside) = whkGate
      /\ whkGate' \in Int /\ whkGate' <= WhkGateMax
  BY WhkOneReq DEF WhkInside, WhkAt, WhkOne
<1>7. ~WhkAt(r, "over") /\ ~WhkAt(r, "sending")
  BY DEF WhkAt
<1>8. WhkMoves(r, q) /\ WhkRunsOn
  BY <1>1, <1>2, <1>3, <1>4, <1>7 DEF WhkMoves, WhkRunsOn
<1>9. WhkKeeps(r, q)
  BY <1>1 DEF WhkKeeps
<1>10. WhkOnRecord' = WhkOnRecord /\ whkQuota' = whkQuota
  BY DEF WhkOnRecord
<1>11. r \in WhkInside <=> WhkAt(r, "inside")
  BY DEF WhkInside, WhkAt
<1>12. WhkCounts(r, q)
  BY <1>1, <1>5, <1>6, <1>7, <1>10, WhkOneReq DEF WhkCounts, WhkOne
<1> QED BY <1>8, <1>9, <1>12, WhkStepOf

\* Or it is rejected and counted: by itself, or with those before it.
LEMMA WhkTakeInv ==
    ASSUME WhkInv, NEW r \in WhkRequests, NEW key \in WhkKeys, NEW kept \in BOOLEAN,
           whkReq[r].at \in {"lost", "found", "inside"},
           WhkTake(r, key, kept), WhkSame, UNCHANGED <<whkTest, whkFile>>,
           whkGate' = IF WhkAt(r, "inside") THEN whkGate - 1 ELSE whkGate
    PROVE  WhkInv'
<1> DEFINE merged == whkQuota[key].tokens = 0
           fate == IF merged THEN "merged" ELSE "recorded"
           src == IF ~merged /\ kept THEN WhkSourceOf(r) ELSE 0
           q == [whkReq[r] EXCEPT !.at = "over", !.fate = fate, !.src = src]
<1>1. src \in Nat
  BY WhkOneReq DEF WhkSourceOf, WhkShapeInv, WhkSrcType
<1>2. q \in WhkReqType /\ q.at = "over" /\ q.fate \in {"merged", "recorded"} /\ q.src = src
  BY <1>1, WhkOneReq DEF WhkReqType
<1>3. whkReq' = [whkReq EXCEPT ![r] = q]
  BY WhkOneReq DEF WhkTake, WhkEnds
<1>4. \/ q.src = WhkSourceOf(r) /\ whkSrc' = WhkStored(r)
      \/ q.src = 0 /\ whkSrc' = whkSrc
  BY <1>2 DEF WhkTake
<1>5. /\ whkQuota' \in [WhkKeys -> [tokens : 0..WhkBurst, merged : Nat, told : Nat]]
      /\ \A k \in WhkKeys : whkQuota'[k].told + whkQuota'[k].merged =
             whkQuota[k].told + whkQuota[k].merged + (IF k = key THEN 1 ELSE 0)
  <2>0. /\ whkQuota \in [WhkKeys -> [tokens : 0..WhkBurst, merged : Nat, told : Nat]]
        /\ WhkBurst \in Nat
    BY WhkOneReq
  <2>1. CASE merged
    <3> DEFINE e == [tokens |-> whkQuota[key].tokens, merged |-> whkQuota[key].merged + 1,
                     told |-> whkQuota[key].told]
    <3>1. whkQuota' = [whkQuota EXCEPT ![key] = e]
      BY <2>0, <2>1 DEF WhkTake
    <3>2. e \in [tokens : 0..WhkBurst, merged : Nat, told : Nat]
      BY <2>0
    <3> QED BY <2>0, <3>1, <3>2
  <2>2. CASE ~merged
    <3> DEFINE e == [tokens |-> whkQuota[key].tokens - 1, merged |-> 0,
                     told |-> whkQuota[key].told + whkQuota[key].merged + 1]
    <3>1. whkQuota' = [whkQuota EXCEPT ![key] = e]
      BY <2>0, <2>2 DEF WhkTake
    <3>2. e \in [tokens : 0..WhkBurst, merged : Nat, told : Nat]
      BY <2>0, <2>2
    <3> QED BY <2>0, <3>1, <3>2
  <2> QED BY <2>1, <2>2
<1>6. WhkRecord \/ UNCHANGED <<whkHist, whkAdds>>
  BY DEF WhkTake
<1> HIDE DEF q, src, fate, merged
<1>7. WhkTested(r)'
  BY <1>2, <1>3, WhkOneReq DEF WhkTested
<1>8. /\ whkCount' \in [received : Nat, rejected : Nat, tested : Nat]
      /\ whkCount'.rejected = whkCount.rejected + 1
      /\ whkCount'.tested = whkCount.tested /\ whkCount'.received = whkCount.received
  BY WhkOneReq DEF WhkTake
<1>9. /\ whkGate' + WhkOne(r \in WhkInside) = whkGate
      /\ whkGate' \in Int /\ whkGate' <= WhkGateMax
  BY WhkOneReq DEF WhkInside, WhkAt, WhkOne
<1>10. WhkOnRecord' = WhkOnRecord + 1
  <2>1. \A k \in WhkKeys : /\ whkQuota'[k].told \in Nat /\ whkQuota'[k].merged \in Nat
                            /\ whkQuota[k].told \in Nat /\ whkQuota[k].merged \in Nat
    BY <1>5, WhkOneReq
  <2>2. CASE key = "anon"
    <3>1. /\ whkQuota'["anon"].told + whkQuota'["anon"].merged =
                whkQuota["anon"].told + whkQuota["anon"].merged + 1
          /\ whkQuota'["receiver"].told + whkQuota'["receiver"].merged =
                whkQuota["receiver"].told + whkQuota["receiver"].merged
      BY <1>5, <2>1, <2>2 DEF WhkKeys
    <3> QED BY <2>1, <3>1 DEF WhkOnRecord, WhkKeys
  <2>3. CASE key = "receiver"
    <3>1. /\ whkQuota'["anon"].told + whkQuota'["anon"].merged =
                whkQuota["anon"].told + whkQuota["anon"].merged
          /\ whkQuota'["receiver"].told + whkQuota'["receiver"].merged =
                whkQuota["receiver"].told + whkQuota["receiver"].merged + 1
      BY <1>5, <2>1, <2>3 DEF WhkKeys
    <3> QED BY <2>1, <3>1 DEF WhkOnRecord, WhkKeys
  <2> QED BY <2>2, <2>3 DEF WhkKeys
<1>11. ~WhkAt(r, "over") /\ ~WhkAt(r, "sending")
  BY DEF WhkAt
<1>12. WhkMoves(r, q)
  BY <1>2, <1>3, <1>7, <1>11 DEF WhkMoves
<1>13. WhkKeeps(r, q) /\ WhkRunsOn
  BY <1>4, <1>6, WhkOneReq DEF WhkKeeps, WhkRunsOn
<1>14. WhkCounts(r, q)
  BY <1>2, <1>5, <1>8, <1>9, <1>10, <1>11, WhkOneReq DEF WhkCounts, WhkOne
<1> QED BY <1>12, <1>13, <1>14, WhkStepOf

LEMMA WhkRejectInv ==
    ASSUME WhkInv, NEW r \in WhkRequests,
           WhkLost(r) \/ WhkRefuse(r) \/ WhkFull(r) \/ WhkBadBody(r)
    PROVE  WhkInv'
<1>1. ASSUME NEW kept \in BOOLEAN, WhkReject(r, kept), WhkSame, UNCHANGED whkFile,
             WhkAt(r, "found") \/ WhkAt(r, "inside"),
             whkGate' = IF WhkAt(r, "inside") THEN whkGate - 1 ELSE whkGate
      PROVE  WhkInv'
  <2>1. CASE WhkCaptures(r)
    BY <1>1, <2>1, WhkCaptureInv DEF WhkReject
  <2>2. CASE ~WhkCaptures(r)
    BY <1>1, <2>2, WhkTakeInv DEF WhkReject, WhkKeys, WhkAt
  <2> QED BY <2>1, <2>2
<1>2. CASE WhkLost(r)
  BY <1>2, WhkTakeInv DEF WhkLost, WhkKeys, WhkAt
<1>3. CASE WhkRefuse(r)
  BY <1>1, <1>3 DEF WhkRefuse, WhkAt
<1>4. CASE WhkFull(r)
  BY <1>1, <1>4 DEF WhkFull, WhkAt
<1>5. CASE WhkBadBody(r)
  BY <1>1, <1>5 DEF WhkBadBody, WhkAt
<1> QED BY <1>2, <1>3, <1>4, <1>5

\* What is sent, or turns out to be nothing to send.
LEMMA WhkDispatchInv ==
    ASSUME WhkInv, NEW r \in WhkRequests, WhkDispatch(r)
    PROVE  WhkInv'
<1>1. PICK fate \in {"dropped", "sent", "failed"} :
         /\ WhkEnds(r, fate, IF fate = "dropped" THEN WhkSourceOf(r) ELSE 0)
         /\ whkSrc' = IF fate = "dropped" THEN WhkStored(r) ELSE whkSrc
  BY DEF WhkDispatch
<1> DEFINE src == IF fate = "dropped" THEN WhkSourceOf(r) ELSE 0
           q == [whkReq[r] EXCEPT !.at = "over", !.fate = fate, !.src = src]
<1>2. src \in Nat
  BY WhkOneReq DEF WhkSourceOf, WhkShapeInv, WhkSrcType
<1>3. /\ q \in WhkReqType /\ q.at = "over" /\ q.fate = fate /\ q.src = src
      /\ q.testing = whkReq[r].testing /\ q.on = whkReq[r].on /\ q.cut = whkReq[r].cut
  BY <1>2, WhkOneReq DEF WhkReqType
<1>4. whkReq' = [whkReq EXCEPT ![r] = q]
  BY <1>1, WhkOneReq DEF WhkEnds
<1>5. \/ q.src = WhkSourceOf(r) /\ whkSrc' = WhkStored(r)
      \/ q.src = 0 /\ whkSrc' = whkSrc
  BY <1>1, <1>3
<1> HIDE DEF q, src
<1>6. WhkTested(r)'
  BY <1>3, <1>4, WhkOneReq DEF WhkTested
<1>7. WhkAt(r, "sending") /\ ~WhkAt(r, "over") /\ r \in WhkInside
  BY DEF WhkDispatch, WhkAt, WhkInside
<1>8. (q.testing => q.cut) /\ (~q.on => q.testing)
  BY <1>3, <1>7, WhkOneReq DEF WhkTested, WhkAt
<1>9. WhkOnRecord' = WhkOnRecord
  BY DEF WhkDispatch, WhkOnRecord
<1>10. WhkMoves(r, q)
  BY <1>3, <1>4, <1>6, <1>7, <1>8 DEF WhkMoves
<1>11. WhkKeeps(r, q) /\ WhkRunsOn
  BY <1>5, WhkOneReq DEF WhkKeeps, WhkRunsOn, WhkDispatch
<1>12. WhkCounts(r, q)
  BY <1>3, <1>7, <1>9, WhkOneReq DEF WhkCounts, WhkOne, WhkDispatch
<1> QED BY <1>10, <1>11, <1>12, WhkStepOf

-----------------------------------------------------------------------------
(* The panel, the clock, the writer. *)

\* A step that only cuts requests off their test run changes no count.
LEMMA WhkCutCounts ==
    ASSUME \A r \in WhkRequests : /\ whkReq'[r].at = whkReq[r].at /\ whkReq'[r].fate = whkReq[r].fate
                                  /\ whkReq'[r].src = whkReq[r].src
    PROVE  /\ WhkFate({"merged", "recorded"})' = WhkFate({"merged", "recorded"})
           /\ WhkFate({"captured"})' = WhkFate({"captured"})
           /\ WhkFate({"dropped", "sent", "failed"})' = WhkFate({"dropped", "sent", "failed"})
           /\ WhkSending' = WhkSending /\ WhkInside' = WhkInside
BY DEF WhkFate, WhkSending, WhkInside, WhkAt

LEMMA WhkCutTyped ==
    ASSUME WhkInv
    PROVE  /\ WhkCut \in [WhkRequests -> WhkReqType]
           /\ \A r \in WhkRequests :
                 /\ WhkCut[r].at = whkReq[r].at /\ WhkCut[r].fate = whkReq[r].fate
                 /\ WhkCut[r].src = whkReq[r].src /\ WhkCut[r].on = whkReq[r].on
                 /\ WhkCut[r].testing = whkReq[r].testing
                 /\ whkReq[r].cut => WhkCut[r].cut
                 /\ whkReq[r].at \in {"found", "inside"} /\ whkReq[r].testing => WhkCut[r].cut
BY WhkOneReq DEF WhkCut, WhkReqType

\* A step of the panel, the clock or the writer.
LEMMA WhkWorldOf ==
    ASSUME WhkInv, WhkShapeInv', WhkIdsInv', WhkOriginalsMatch', WhkHistoryWhole',
           \/ whkReq' = WhkCut
           \/ /\ whkReq' = whkReq
              /\ whkTest.running /\ ~whkTest.expired => whkTest'.running /\ ~whkTest'.expired,
           WhkOnRecord' = WhkOnRecord, UNCHANGED <<whkCount, whkGate>>
    PROVE  WhkInv'
<1>1. \A r \in WhkRequests :
         /\ whkReq'[r].at = whkReq[r].at /\ whkReq'[r].fate = whkReq[r].fate
         /\ whkReq'[r].src = whkReq[r].src /\ whkReq'[r].on = whkReq[r].on
         /\ whkReq'[r].testing = whkReq[r].testing
         /\ whkReq[r].cut => whkReq'[r].cut
  BY WhkCutTyped
<1>2. WhkAllCounted' /\ WhkGateHeld' /\ whkGate' \in 0..WhkGateMax
  <2>1. WhkAllCounted /\ WhkGateHeld /\ whkGate \in 0..WhkGateMax
    BY DEF WhkInv, WhkRestInv
  <2>2. /\ WhkFate({"merged", "recorded"})' = WhkFate({"merged", "recorded"})
        /\ WhkFate({"captured"})' = WhkFate({"captured"})
        /\ WhkFate({"dropped", "sent", "failed"})' = WhkFate({"dropped", "sent", "failed"})
        /\ WhkSending' = WhkSending /\ WhkInside' = WhkInside
    BY <1>1, WhkCutCounts
  <2> QED BY <2>1, <2>2 DEF WhkAllCounted, WhkOnRecord, WhkSending, WhkGateHeld
<1>3. WhkTestsAreQuiet'
  BY <1>1 DEF WhkInv, WhkRestInv, WhkTestsAreQuiet
<1>4. ASSUME NEW r \in WhkRequests PROVE WhkOpen(r)' /\ WhkTested(r)'
  <2>1. WhkOpen(r) /\ WhkTested(r)
    BY DEF WhkInv, WhkRestInv
  <2>2. WhkOpen(r)'
    BY <1>1, <2>1 DEF WhkOpen
  <2>3. CASE whkReq' = WhkCut
    <3>1. /\ whkReq[r].at \in {"found", "inside"} /\ whkReq[r].testing => whkReq'[r].cut
          /\ whkReq[r].cut => whkReq'[r].cut
      BY <2>3, WhkCutTyped
    <3>2. /\ whkReq[r].at = "sending" /\ whkReq[r].testing => whkReq[r].cut
          /\ whkReq[r].at \in {"found", "inside", "sending"} /\ ~whkReq[r].on => whkReq[r].testing
      BY <2>1 DEF WhkTested
    <3>3. /\ whkReq'[r].at = whkReq[r].at /\ (whkReq'[r].on <=> whkReq[r].on)
          /\ (whkReq'[r].testing <=> whkReq[r].testing)
      BY <1>1
    <3>4. /\ whkReq'[r].at \in {"found", "inside"} /\ whkReq'[r].testing => whkReq'[r].cut
          /\ whkReq'[r].at = "sending" /\ whkReq'[r].testing => whkReq'[r].cut
          /\ whkReq'[r].at \in {"found", "inside", "sending"} /\ ~whkReq'[r].on => whkReq'[r].testing
      BY <3>1, <3>2, <3>3
    <3> QED BY <2>2, <3>4 DEF WhkTested
  <2>4. ASSUME whkReq' = whkReq,
               whkTest.running /\ ~whkTest.expired => whkTest'.running /\ ~whkTest'.expired
        PROVE  WhkTested(r)'
    BY <2>1, <2>4 DEF WhkTested
  <2> QED BY <2>2, <2>3, <2>4
<1> QED BY <1>2, <1>3, <1>4 DEF WhkInv, WhkRestInv

LEMMA WhkTestRunInv ==
    ASSUME WhkInv, WhkToggle \/ WhkTestStart \/ WhkTestStop \/ WhkTestExpires \/ WhkCaptureExpires
    PROVE  WhkInv'
<1>0. /\ WhkShapeInv /\ WhkIdsInv /\ WhkOriginalsMatch /\ WhkHistoryWhole
      /\ whkReq \in [WhkRequests -> WhkReqType]
      /\ whkTest \in [running : BOOLEAN, expired : BOOLEAN, total : Nat,
                      capture : {"none", "held", "gone"}]
      /\ whkEnabled \in BOOLEAN /\ whkSwitches \in 0..WhkMaxSwitches /\ WhkMaxSwitches \in Nat
  BY WhkConstants DEF WhkInv, WhkRestInv, WhkShapeInv
<1>1. UNCHANGED <<whkGate, whkQuota, whkHist, whkFile, whkSrc, whkCount, whkAdds>>
  BY DEF WhkToggle, WhkTestStart, WhkTestStop, WhkTestExpires, WhkCaptureExpires
<1>2. \/ whkReq' = WhkCut
      \/ /\ whkReq' = whkReq
         /\ whkTest.running /\ ~whkTest.expired => whkTest'.running /\ ~whkTest'.expired
  <2>1. CASE WhkToggle
    BY <2>1 DEF WhkToggle
  <2>2. CASE WhkTestStart
    BY <2>2 DEF WhkTestStart
  <2>3. CASE WhkCaptureExpires
    BY <1>0, <2>3 DEF WhkCaptureExpires
  <2> QED BY <2>1, <2>2, <2>3 DEF WhkTestStop, WhkTestExpires
<1>3. whkReq' \in [WhkRequests -> WhkReqType]
      /\ \A r \in WhkRequests : whkReq'[r].src = whkReq[r].src
  BY <1>0, <1>2, WhkCutTyped
<1>4. whkTest' \in [running : BOOLEAN, expired : BOOLEAN, total : Nat,
                    capture : {"none", "held", "gone"}]
  <2>1. CASE WhkToggle
    BY <1>0, <2>1 DEF WhkToggle
  <2>2. CASE WhkTestStart
    BY <2>2 DEF WhkTestStart
  <2>3. CASE WhkTestStop
    BY <1>0, <2>3 DEF WhkTestStop
  <2>4. CASE WhkTestExpires
    BY <1>0, <2>4 DEF WhkTestExpires
  <2>5. CASE WhkCaptureExpires
    BY <1>0, <2>5 DEF WhkCaptureExpires
  <2> QED BY <2>1, <2>2, <2>3, <2>4, <2>5
<1>5. whkEnabled' \in BOOLEAN /\ whkSwitches' \in 0..WhkMaxSwitches
  <2>1. whkEnabled' \in BOOLEAN
    BY <1>0 DEF WhkToggle, WhkTestStart, WhkTestStop, WhkTestExpires, WhkCaptureExpires, WhkSame
  <2>2. whkSwitches' = whkSwitches \/ WhkSwitch
    BY DEF WhkToggle, WhkTestStart, WhkTestStop, WhkTestExpires, WhkCaptureExpires, WhkSame
  <2> QED BY <1>0, <2>1, <2>2 DEF WhkSwitch
<1>6. WhkShapeInv'
  BY <1>0, <1>1, <1>3, <1>4, <1>5 DEF WhkShapeInv
<1>7. WhkIdsInv' /\ WhkOriginalsMatch' /\ WhkHistoryWhole' /\ WhkOnRecord' = WhkOnRecord
  BY <1>0, <1>1, <1>3 DEF WhkIdsInv, WhkOriginalsMatch, WhkHistoryWhole, WhkOnRecord
<1> QED BY <1>1, <1>2, <1>6, <1>7, WhkWorldOf

\* Originals only go.
LEMMA WhkBudgetInv ==
    ASSUME WhkInv, (\E n \in WhkBudget : WhkSetBudget(n)) \/ WhkClearSources
    PROVE  WhkInv'
<1>0. /\ WhkShapeInv /\ WhkIdsInv /\ WhkOriginalsMatch /\ WhkHistoryWhole
      /\ whkSrc \in WhkSrcType /\ whkSrc.ids \in Seq(WhkIdType)
      /\ whkSwitches \in 0..WhkMaxSwitches /\ WhkMaxSwitches \in Nat
  BY WhkConstants DEF WhkInv, WhkRestInv, WhkShapeInv, WhkSrcType
<1>1. UNCHANGED <<whkEnabled, whkReq, whkTest, whkGate, whkQuota, whkHist, whkFile, whkCount, whkAdds>>
  BY DEF WhkSetBudget, WhkClearSources
<1>2. whkSwitches' \in 0..WhkMaxSwitches
  <2>1. WhkSwitch
    BY DEF WhkSetBudget, WhkClearSources
  <2> QED BY <1>0, <2>1 DEF WhkSwitch
<1>3. /\ whkSrc' \in WhkSrcType /\ whkSrc'.seq = whkSrc.seq
      /\ \A i \in 1..Len(whkSrc'.ids) : \E j \in 1..Len(whkSrc.ids) : whkSrc'.ids[i] = whkSrc.ids[j]
  <2>1. ASSUME NEW ids \in Seq(WhkIdType), NEW n \in WhkBudget,
               \A i \in 1..Len(ids) : \E j \in 1..Len(whkSrc.ids) : ids[i] = whkSrc.ids[j],
               whkSrc' = [ids |-> ids, seq |-> whkSrc.seq, budget |-> n]
        PROVE  /\ whkSrc' \in WhkSrcType /\ whkSrc'.seq = whkSrc.seq
               /\ \A i \in 1..Len(whkSrc'.ids) : \E j \in 1..Len(whkSrc.ids) : whkSrc'.ids[i] = whkSrc.ids[j]
    BY <1>0, <2>1 DEF WhkSrcType
  <2>2. <<>> \in Seq(WhkIdType) /\ \A i \in 1..Len(<<>>) : FALSE
    OBVIOUS
  <2>3. CASE WhkClearSources
    <3>1. whkSrc' = [ids |-> <<>>, seq |-> whkSrc.seq, budget |-> whkSrc.budget]
      BY <1>0, <2>3 DEF WhkClearSources, WhkCleared, WhkSrcType
    <3>2. whkSrc.budget \in WhkBudget
      BY <1>0 DEF WhkSrcType
    <3> QED BY <2>1, <2>2, <3>1, <3>2
  <2>4. ASSUME NEW n \in WhkBudget, WhkSetBudget(n)
        PROVE  /\ whkSrc' \in WhkSrcType /\ whkSrc'.seq = whkSrc.seq
               /\ \A i \in 1..Len(whkSrc'.ids) : \E j \in 1..Len(whkSrc.ids) : whkSrc'.ids[i] = whkSrc.ids[j]
    <3>1. CASE n = 0
      <4>1. whkSrc' = [ids |-> <<>>, seq |-> whkSrc.seq, budget |-> n]
        BY <1>0, <2>4, <3>1 DEF WhkSetBudget, WhkSrcType
      <4> QED BY <2>1, <2>2, <4>1
    <3>2. CASE n # 0
      <4> DEFINE ids == WhkFit(whkSrc.ids, n)
      <4>1. ids \in Seq(WhkIdType) /\ \A i \in 1..Len(ids) : \E j \in 1..Len(whkSrc.ids) : ids[i] = whkSrc.ids[j]
        <5>1. whkSrc.ids \in Seq(WhkIdType)
          BY <1>0
        <5> QED BY <5>1, WhkFitKeeps
      <4>2. whkSrc' = [whkSrc EXCEPT !.budget = n, !.ids = ids]
        BY <2>4, <3>2 DEF WhkSetBudget
      <4> HIDE DEF ids
      <4>3. whkSrc' = [ids |-> ids, seq |-> whkSrc.seq, budget |-> n]
        BY <1>0, <4>2 DEF WhkSrcType
      <4> QED BY <2>1, <4>1, <4>3
    <3> QED BY <3>1, <3>2
  <2> QED BY <2>3, <2>4
<1>4. WhkShapeInv'
  BY <1>0, <1>1, <1>2, <1>3 DEF WhkShapeInv
<1>5. WhkIdsInv' /\ WhkOriginalsMatch'
  BY <1>0, <1>1, <1>3 DEF WhkIdsInv, WhkOriginalsMatch
<1>6. WhkHistoryWhole' /\ WhkOnRecord' = WhkOnRecord
  BY <1>0, <1>1 DEF WhkHistoryWhole, WhkOnRecord
<1> QED BY <1>1, <1>4, <1>5, <1>6, WhkWorldOf

LEMMA WhkWriterInv ==
    ASSUME WhkInv,
           \/ (\E k \in WhkKeys : WhkRefill(k)) \/ WhkWriterTakes \/ WhkWriterWrites
           \/ WhkClose \/ UNCHANGED whkVars
    PROVE  WhkInv'
<1> DEFINE HistType == [queue : 0..WhkQueueMax, hand : {"free", "full"}, lost : Nat, closed : BOOLEAN]
           TestType == [running : BOOLEAN, expired : BOOLEAN, total : Nat,
                        capture : {"none", "held", "gone"}]
           FileType == [written : Nat, noted : Nat]
<1>0. /\ WhkShapeInv /\ WhkIdsInv /\ WhkOriginalsMatch /\ WhkHistoryWhole
      /\ whkReq \in [WhkRequests -> WhkReqType] /\ whkTest \in TestType
      /\ whkHist \in HistType /\ whkFile \in FileType /\ whkAdds \in Nat
      /\ whkQuota \in [WhkKeys -> [tokens : 0..WhkBurst, merged : Nat, told : Nat]]
      /\ WhkQueueMax \in Nat /\ WhkBurst \in Nat
  BY WhkConstants DEF WhkInv, WhkRestInv, WhkShapeInv
<1>1. UNCHANGED <<whkEnabled, whkGate, whkSrc, whkCount, whkAdds, whkSwitches>>
  BY DEF WhkRefill, WhkWriterTakes, WhkWriterWrites, WhkClose, WhkSame, whkVars
<1>2. ASSUME NEW k \in WhkKeys, WhkRefill(k) PROVE WhkInv'
  <2> DEFINE e == [tokens |-> whkQuota[k].tokens + 1, merged |-> whkQuota[k].merged,
                   told |-> whkQuota[k].told]
  <2>1. whkQuota' = [whkQuota EXCEPT ![k] = e]
    <3>1. whkQuota' = [whkQuota EXCEPT ![k] = [whkQuota[k] EXCEPT !.tokens = whkQuota[k].tokens + 1]]
      BY <1>0, <1>2 DEF WhkRefill
    <3>2. whkQuota[k] \in [tokens : 0..WhkBurst, merged : Nat, told : Nat]
      BY <1>0
    <3>3. [whkQuota[k] EXCEPT !.tokens = whkQuota[k].tokens + 1] = e
      BY <3>2
    <3> QED BY <3>1, <3>3
  <2>2. e \in [tokens : 0..WhkBurst, merged : Nat, told : Nat]
    <3>1. whkQuota[k] \in [tokens : 0..WhkBurst, merged : Nat, told : Nat]
      BY <1>0
    <3>2. whkQuota[k].tokens < WhkBurst
      BY <1>2 DEF WhkRefill
    <3> QED BY <1>0, <3>1, <3>2
  <2>3. /\ whkQuota' \in [WhkKeys -> [tokens : 0..WhkBurst, merged : Nat, told : Nat]]
        /\ \A l \in WhkKeys : whkQuota'[l].told = whkQuota[l].told /\ whkQuota'[l].merged = whkQuota[l].merged
    BY <1>0, <2>1, <2>2
  <2>4. WhkOnRecord' = WhkOnRecord
    BY <2>3 DEF WhkOnRecord, WhkKeys
  <2>5. UNCHANGED <<whkReq, whkTest, whkHist, whkFile>>
    BY <1>2 DEF WhkRefill
  <2> HIDE DEF e
  <2>6. WhkShapeInv'
    BY <1>0, <1>1, <2>3, <2>5 DEF WhkShapeInv
  <2>7. WhkIdsInv' /\ WhkOriginalsMatch' /\ WhkHistoryWhole'
    BY <1>0, <1>1, <2>5 DEF WhkIdsInv, WhkOriginalsMatch, WhkHistoryWhole
  <2> QED BY <1>1, <2>4, <2>5, <2>6, <2>7, WhkWorldOf
<1>3. CASE WhkWriterTakes
  <2>1. whkHist' = [queue |-> whkHist.queue - 1, hand |-> "full", lost |-> whkHist.lost,
                    closed |-> whkHist.closed]
    BY <1>0, <1>3 DEF WhkWriterTakes
  <2>2. whkHist' \in HistType
    BY <1>0, <1>3, <2>1 DEF WhkWriterTakes
  <2>3. WhkHistoryWhole'
    BY <1>0, <1>1, <1>3, <2>1 DEF WhkWriterTakes, WhkHistoryWhole
  <2>4. UNCHANGED <<whkReq, whkTest, whkFile, whkQuota>>
    BY <1>3 DEF WhkWriterTakes
  <2>5. WhkShapeInv'
    BY <1>0, <1>1, <2>2, <2>4 DEF WhkShapeInv
  <2>6. WhkIdsInv' /\ WhkOriginalsMatch' /\ WhkOnRecord' = WhkOnRecord
    BY <1>0, <1>1, <2>4 DEF WhkIdsInv, WhkOriginalsMatch, WhkOnRecord
  <2> QED BY <1>1, <2>3, <2>4, <2>5, <2>6, WhkWorldOf
<1>4. CASE WhkWriterWrites
  <2>1. /\ whkHist' = [queue |-> whkHist.queue, hand |-> "free", lost |-> 0,
                       closed |-> whkHist.closed]
        /\ whkFile' = [written |-> whkFile.written + 1, noted |-> whkFile.noted + whkHist.lost]
    BY <1>0, <1>4 DEF WhkWriterWrites
  <2>2. whkHist' \in HistType /\ whkFile' \in FileType
    BY <1>0, <2>1
  <2>3. WhkHistoryWhole'
    BY <1>0, <1>1, <1>4, <2>1 DEF WhkWriterWrites, WhkHistoryWhole
  <2>4. UNCHANGED <<whkReq, whkTest, whkQuota>>
    BY <1>4 DEF WhkWriterWrites
  <2>5. WhkShapeInv'
    BY <1>0, <1>1, <2>2, <2>4 DEF WhkShapeInv
  <2>6. WhkIdsInv' /\ WhkOriginalsMatch' /\ WhkOnRecord' = WhkOnRecord
    BY <1>0, <1>1, <2>4 DEF WhkIdsInv, WhkOriginalsMatch, WhkOnRecord
  <2> QED BY <1>1, <2>3, <2>4, <2>5, <2>6, WhkWorldOf
<1>5. CASE WhkClose
  <2>1. /\ whkHist' = [queue |-> whkHist.queue, hand |-> whkHist.hand, lost |-> whkHist.lost,
                       closed |-> TRUE]
        /\ whkTest' \in TestType /\ whkReq' = WhkCut /\ UNCHANGED <<whkFile, whkQuota>>
    BY <1>0, <1>5 DEF WhkClose
  <2>2. whkHist' \in HistType
    BY <1>0, <2>1
  <2>3. WhkHistoryWhole'
    BY <1>0, <1>1, <2>1 DEF WhkHistoryWhole
  <2>4. whkReq' \in [WhkRequests -> WhkReqType]
        /\ \A r \in WhkRequests : whkReq'[r].src = whkReq[r].src
    BY <2>1, WhkCutTyped
  <2>5. WhkShapeInv'
    BY <1>0, <1>1, <2>1, <2>2, <2>4 DEF WhkShapeInv
  <2>6. WhkIdsInv' /\ WhkOriginalsMatch' /\ WhkOnRecord' = WhkOnRecord
    <3>1. WhkOnRecord' = WhkOnRecord
      BY <2>1 DEF WhkOnRecord
    <3>2. whkSrc' = whkSrc /\ \A r \in WhkRequests : whkReq'[r].src = whkReq[r].src
      BY <1>1, <2>4
    <3>3. WhkIdsInv' /\ WhkOriginalsMatch'
      BY <1>0, <3>2 DEF WhkIdsInv, WhkOriginalsMatch
    <3> QED BY <3>1, <3>3
  <2> QED BY <1>1, <2>1, <2>3, <2>5, <2>6, WhkWorldOf
<1>6. CASE UNCHANGED whkVars
  <2>1. WhkShapeInv' /\ WhkIdsInv' /\ WhkOriginalsMatch' /\ WhkHistoryWhole' /\ WhkOnRecord' = WhkOnRecord
    BY <1>0, <1>6 DEF whkVars, WhkShapeInv, WhkIdsInv, WhkOriginalsMatch, WhkHistoryWhole, WhkOnRecord
  <2>2. whkReq' = whkReq /\ whkTest' = whkTest
    BY <1>6 DEF whkVars
  <2> QED BY <1>1, <2>1, <2>2, WhkWorldOf
<1> QED BY <1>2, <1>3, <1>4, <1>5, <1>6

LEMMA WhkStepInv == ASSUME WhkInv, [WhkNext]_whkVars PROVE WhkInv'
<1>1. ASSUME NEW r \in WhkRequests, WhkProcess(r), WhkCaptures(r) PROVE WhkInv'
  BY <1>1, WhkCaptureInv DEF WhkProcess
<1> QED BY <1>1, WhkMoveInv, WhkRejectInv, WhkDispatchInv, WhkTestRunInv, WhkBudgetInv, WhkWriterInv
        DEF WhkNext

LEMMA WhkInitInv == WhkInit => WhkInv
<1> SUFFICES ASSUME WhkInit PROVE WhkInv
  OBVIOUS
<1>1. /\ whkReq \in [WhkRequests -> WhkReqType]
      /\ \A r \in WhkRequests : whkReq[r].at = "idle" /\ whkReq[r].fate = "none" /\ whkReq[r].src = 0
  BY DEF WhkInit, WhkFresh, WhkReqType
<1>2. whkSrc \in WhkSrcType /\ whkSrc.ids = <<>> /\ whkSrc.seq = 0
  <2>1. (CHOOSE b \in WhkBudget : \A c \in WhkBudget : c <= b) \in WhkBudget
    BY WhkAssumption
  <2>2. <<>> \in Seq(WhkIdType)
    OBVIOUS
  <2> QED BY <2>1, <2>2 DEF WhkInit, WhkSrcType
<1>3. WhkShapeInv
  BY <1>1, <1>2, WhkConstants DEF WhkInit, WhkShapeInv
<1>4. WhkIdsInv /\ WhkOriginalsMatch
  BY <1>1, <1>2 DEF WhkIdsInv, WhkOriginalsMatch
<1>5. WhkAllCounted /\ WhkGateHeld
  <2>1. /\ WhkFate({"merged", "recorded"}) = {} /\ WhkFate({"captured"}) = {}
        /\ WhkFate({"dropped", "sent", "failed"}) = {}
        /\ {r \in WhkRequests : WhkAt(r, "sending")} = {} /\ WhkInside = {}
    BY <1>1 DEF WhkFate, WhkAt, WhkInside
  <2>2. Cardinality({}) = 0
    BY FS_EmptySet
  <2>3. /\ whkCount.received = 0 /\ whkCount.rejected = 0 /\ whkCount.tested = 0 /\ whkGate = 0
        /\ \A k \in WhkKeys : whkQuota[k].told = 0 /\ whkQuota[k].merged = 0
    BY DEF WhkInit
  <2> QED BY <2>1, <2>2, <2>3 DEF WhkAllCounted, WhkGateHeld, WhkKeys
<1>6. WhkHistoryWhole /\ WhkTestsAreQuiet
  BY <1>1 DEF WhkInit, WhkHistoryWhole, WhkTestsAreQuiet
<1>7. \A r \in WhkRequests : WhkOpen(r) /\ WhkTested(r)
  BY <1>1 DEF WhkOpen, WhkTested
<1>8. whkGate \in 0..WhkGateMax
  BY WhkConstants DEF WhkInit
<1> QED BY <1>3, <1>4, <1>5, <1>6, <1>7, <1>8 DEF WhkInv, WhkRestInv

LEMMA WhkShows == WhkInv => MessagesAreAccounted
BY DEF WhkInv, WhkRestInv, MessagesAreAccounted

-----------------------------------------------------------------------------
(* Resources. *)

ResRecvs == [on : BOOLEAN, path : ResReceivers, rules : SUBSET ResRules]
ResReqs == {ResIdle} \union [pc : {"checked"}, q : ResAsks, seen : ResConfs]
ResShapeInv ==
    /\ resConf \in ResConfs /\ resReq \in [ResTabs -> ResReqs]
    /\ resKept.rules \subseteq ResRules /\ resKept.secret \in {"first", "second"}
    /\ resRaced \in BOOLEAN /\ resOverwrote \in BOOLEAN

\* Rule r is in exactly one receiver when it was created, or in none.
ResRuleStands(c, kept, r) ==
    IF r \in kept
    THEN \E v \in ResReceivers : \A o \in ResReceivers : r \in c.recv[o].rules <=> o = v
    ELSE \A o \in ResReceivers : r \notin c.recv[o].rules
ResKeptInv ==
    \/ resOverwrote
    \/ /\ \A r \in ResRules : ResRuleStands(resConf, resKept.rules, r)
       /\ resConf.secret = resKept.secret

\* A rule that is being created is new, and nobody else creates one.
ResAddsInv ==
    \A t \in ResTabs : resReq[t].q.op = "addRule" =>
       /\ resReq[t].q.r \notin resKept.rules
       /\ \A u \in ResTabs : resReq[u].q.op = "addRule" => u = t

ResInv == ResShapeInv /\ ResStaysLegal /\ ResKeptInv /\ ResAddsInv /\ ResRefusedIsInert

LEMMA ResConstants ==
    /\ ResWebMax \in Nat /\ ResWebMax >= 1 /\ IsFiniteSet(ResWebs) /\ IsFiniteSet(ResTabs)
    /\ Cardinality(ResWebs) >= ResWebMax + Cardinality(ResTabs) - 1
    /\ ResMaxRequests \in Nat /\ ResPanelPort \in ResPorts /\ ResPorts # {ResPanelPort}
    /\ \A q \in ResAsks : ResWellFormed(q)
BY ResAssumption

\* The parts of a legal configuration.
ResSome(c) == {w \in ResWebs : c.webs[w].has}
ResWebLegal(c, w) ==
    c.webs[w].has /\ c.webs[w].on =>
       /\ c.webs[w].port # ResPanelPort
       /\ \A o \in ResWebs : ResServes(c, o, c.webs[w].port) => o = w
       /\ c.webs[w].kid => c.cert # "off"
       /\ c.webs[w].kid /\ c.hook.on /\ c.hook.port = c.webs[w].port => c.hook.https
ResPathsDiffer(c) == \A v, o \in ResReceivers : c.recv[v].path = c.recv[o].path => v = o
ResRecvServed(c) == (\E v \in ResReceivers : c.recv[v].on) => c.hook.made

LEMMA ResLegalParts ==
    ASSUME NEW c
    PROVE  ResLegal(c) <=> /\ Cardinality(ResSome(c)) <= ResWebMax
                           /\ \A w \in ResWebs : ResWebLegal(c, w)
                           /\ c.hook.https => c.cert = "on"
                           /\ ResPathsDiffer(c) /\ ResRecvServed(c)
BY DEF ResLegal, ResSome, ResWebLegal, ResPathsDiffer, ResRecvServed

-----------------------------------------------------------------------------
(* A web service that is put in its place. *)

LEMMA ResWithIs ==
    ASSUME NEW c \in ResConfs, NEW w \in ResWebs, NEW it \in ResWeb
    PROVE  /\ ResWith(c, w, it) \in ResConfs
           /\ ResWith(c, w, it).webs = [c.webs EXCEPT ![w] = it]
           /\ ResWith(c, w, it).cert = c.cert /\ ResWith(c, w, it).hook = c.hook
           /\ ResWith(c, w, it).recv = c.recv /\ ResWith(c, w, it).tmpl = c.tmpl
           /\ ResWith(c, w, it).secret = c.secret
BY DEF ResWith, ResConfs

LEMMA ResWithSame ==
    ASSUME NEW c \in ResConfs, NEW w \in ResWebs
    PROVE  ResWith(c, w, c.webs[w]) = c
BY DEF ResWith, ResConfs

\* A switch of a web service puts it in its place as well.
LEMMA ResTurnIs ==
    ASSUME NEW c \in ResConfs, NEW w \in ResWebs, NEW b \in BOOLEAN
    PROVE  /\ c.webs[w] \in ResWeb
           /\ [c.webs[w] EXCEPT !.on = b] \in ResWeb /\ [c.webs[w] EXCEPT !.kid = b] \in ResWeb
           /\ [c EXCEPT !.webs[w].on = b] = ResWith(c, w, [c.webs[w] EXCEPT !.on = b])
           /\ [c EXCEPT !.webs[w].kid = b] = ResWith(c, w, [c.webs[w] EXCEPT !.kid = b])
BY DEF ResWith, ResConfs, ResWeb

\* What a web service is checked against is the others.
LEMMA ResValidSame ==
    ASSUME NEW c \in ResConfs, NEW w \in ResWebs, NEW it \in ResWeb
    PROVE  /\ ResWebValid(ResWith(c, w, it), w, it) <=> ResWebValid(c, w, it)
           /\ ResWith(c, w, it).webs[w] = it
<1> DEFINE d == ResWith(c, w, it)
<1>1. /\ d.webs = [c.webs EXCEPT ![w] = it] /\ d.cert = c.cert /\ d.hook = c.hook
      /\ DOMAIN c.webs = ResWebs
  BY ResWithIs DEF ResConfs
<1>2. d.webs[w] = it /\ \A o \in ResWebs \ {w} : d.webs[o] = c.webs[o]
  BY <1>1
<1> HIDE DEF d
<1>3. ResPortFree(d, w, it.port) <=> ResPortFree(c, w, it.port)
  BY <1>2 DEF ResPortFree, ResServes
<1> QED BY <1>1, <1>2, <1>3 DEF ResWebValid, d

\* A valid one, or one that is off, leaves a legal configuration legal.
LEMMA ResWithLegal ==
    ASSUME NEW c \in ResConfs, NEW w \in ResWebs, NEW it \in ResWeb, ResLegal(c),
           it.has /\ it.on => ResWebValid(c, w, it),
           it.has /\ ~c.webs[w].has => Cardinality(ResSome(c)) < ResWebMax
    PROVE  ResLegal(ResWith(c, w, it))
<1> DEFINE d == ResWith(c, w, it)
<1>1. /\ d.webs = [c.webs EXCEPT ![w] = it] /\ d.cert = c.cert /\ d.hook = c.hook
      /\ d.recv = c.recv /\ DOMAIN c.webs = ResWebs
  BY ResWithIs DEF ResConfs
<1>2. d.webs[w] = it /\ \A o \in ResWebs \ {w} : d.webs[o] = c.webs[o]
  BY <1>1
<1> HIDE DEF d
<1>3. IsFiniteSet(ResSome(c)) /\ Cardinality(ResSome(c)) \in Nat
  BY ResConstants, FS_Subset, FS_CardinalityType DEF ResSome
<1>4. Cardinality(ResSome(d)) <= ResWebMax
  <2>1. CASE it.has /\ ~c.webs[w].has
    <3>1. ResSome(d) = ResSome(c) \union {w} /\ w \notin ResSome(c)
      BY <1>2, <2>1 DEF ResSome
    <3>2. Cardinality(ResSome(d)) = Cardinality(ResSome(c)) + 1
      BY <1>3, <3>1, FS_AddElement
    <3> QED BY <1>3, <2>1, <3>2, ResConstants
  <2>2. CASE ~it.has \/ c.webs[w].has
    <3>1. ResSome(d) \subseteq ResSome(c)
      BY <1>2, <2>2 DEF ResSome
    <3>2. Cardinality(ResSome(d)) <= Cardinality(ResSome(c)) /\ Cardinality(ResSome(d)) \in Nat
      BY <1>3, <3>1, FS_Subset, FS_CardinalityType
    <3> QED BY <1>3, <3>2, ResConstants, ResLegalParts
  <2> QED BY <2>1, <2>2
<1>5. ASSUME NEW o \in ResWebs, d.webs[o].has, d.webs[o].on PROVE ResWebLegal(d, o)
  <2>1. CASE o = w
    <3>1. ResWebValid(c, w, it) /\ it.has /\ it.on
      BY <1>2, <1>5, <2>1
    <3>2. \A p \in ResWebs : ResServes(d, p, it.port) => p = w
      BY <1>2, <3>1 DEF ResWebValid, ResPortFree, ResServes
    <3> QED BY <1>1, <1>2, <2>1, <3>1, <3>2 DEF ResWebLegal, ResWebValid
  <2>2. CASE o # w
    <3>1. d.webs[o] = c.webs[o] /\ ResWebLegal(c, o)
      BY <1>2, <2>2, ResLegalParts
    <3>2. ~ResServes(d, w, d.webs[o].port)
      <4> SUFFICES ASSUME it.has, it.on, it.port = c.webs[o].port
                   PROVE  FALSE
        BY <1>2, <3>1 DEF ResServes
      <4> QED BY <1>5, <2>2, <3>1 DEF ResWebValid, ResPortFree, ResServes
    <3>3. \A p \in ResWebs : ResServes(d, p, d.webs[o].port) => p = o
      BY <1>2, <1>5, <3>1, <3>2 DEF ResWebLegal, ResServes
    <3> QED BY <1>1, <1>5, <3>1, <3>3 DEF ResWebLegal
  <2> QED BY <2>1, <2>2
<1>6. \A o \in ResWebs : ResWebLegal(d, o)
  BY <1>5 DEF ResWebLegal
<1>7. /\ d.hook.https => d.cert = "on"
      /\ ResPathsDiffer(d) /\ ResRecvServed(d)
  BY <1>1, ResLegalParts DEF ResPathsDiffer, ResRecvServed
<1> QED BY <1>4, <1>6, <1>7, ResLegalParts DEF d

\* One that is on in a legal configuration is valid there.
LEMMA ResLegalValid ==
    ASSUME NEW c \in ResConfs, NEW w \in ResWebs, ResLegal(c), c.webs[w].has, c.webs[w].on
    PROVE  ResWebValid(c, w, c.webs[w])
<1>1. ResWebLegal(c, w)
  BY ResLegalParts
<1> QED BY <1>1 DEF ResWebLegal, ResWebValid, ResPortFree

-----------------------------------------------------------------------------
(* What each request leaves. *)

\* What is stored in the end.
ResStored(q, seen, c) ==
    IF ResHolds(q, ResAsked(q, seen, c)) THEN ResAsked(q, seen, c)
    ELSE ResRolledBack(q, c, ResAsked(q, seen, c))
ResRefuses(q, seen, c) == ~ResHolds(q, ResAsked(q, seen, c))

\* What a request leaves, when it was right to be applied, of a configuration
\* that is legal; and of any, when it is refused.
ResSound(q, seen, c) ==
    /\ ResStored(q, seen, c) \in ResConfs
    /\ ResLegal(c) /\ ResChecked(q, c) => ResLegal(ResStored(q, seen, c))
    /\ ResRefuses(q, seen, c) /\ ResStored(q, seen, c) # c =>
          q.op = "turnKid" /\ c.webs[q.w].kid = q.on
\* And the receivers and the secret, when it is about something else.
ResApart(q, seen, c) ==
    /\ ResStored(q, seen, c).recv = c.recv
    /\ ResStored(q, seen, c).secret = c.secret

LEMMA ResWithSound ==
    ASSUME NEW c \in ResConfs, NEW seen, NEW q, NEW w \in ResWebs, NEW it \in ResWeb,
           ResStored(q, seen, c) = ResWith(c, w, it),
           ResLegal(c) /\ ResChecked(q, c) => ResLegal(ResWith(c, w, it)),
           ResRefuses(q, seen, c) => q.op = "turnKid" /\ c.webs[q.w].kid = q.on
    PROVE  ResSound(q, seen, c) /\ ResApart(q, seen, c)
<1>1. /\ ResWith(c, w, it) \in ResConfs
      /\ ResWith(c, w, it).recv = c.recv /\ ResWith(c, w, it).secret = c.secret
  BY ResWithIs
<1> QED BY <1>1 DEF ResSound, ResApart

LEMMA ResNewWeb ==
    ASSUME NEW c \in ResConfs, NEW seen, NEW q, ResWellFormed(q), q.op = "newWeb"
    PROVE  ResSound(q, seen, c) /\ ResApart(q, seen, c)
<1>1. q.it \in ResWeb /\ q.it.has
  BY DEF ResWellFormed
<1>2. ResStored(q, seen, c) = ResWith(c, ResFree(c), q.it) /\ ~ResRefuses(q, seen, c)
  BY DEF ResStored, ResRefuses, ResHolds, ResAsked
<1>3. CASE ResFree(c) \in ResWebs
  <2>1. ASSUME ResLegal(c), ResChecked(q, c) PROVE ResLegal(ResWith(c, ResFree(c), q.it))
    <3>1. Cardinality(ResSome(c)) < ResWebMax /\ ResWebValid(c, ResFree(c), q.it)
      BY <2>1 DEF ResChecked, ResSome
    <3> QED BY <1>1, <1>3, <2>1, <3>1, ResWithLegal
  <2> QED BY <1>1, <1>2, <1>3, <2>1, ResWithSound
<1>4. CASE ResFree(c) \notin ResWebs
  <2>1. ResWith(c, ResFree(c), q.it) = c
    BY <1>4 DEF ResWith, ResConfs
  <2> QED BY <1>2, <2>1 DEF ResSound, ResApart
<1> QED BY <1>3, <1>4

LEMMA ResSaveWeb ==
    ASSUME NEW c \in ResConfs, NEW seen, NEW q, ResWellFormed(q), q.op = "saveWeb"
    PROVE  ResSound(q, seen, c) /\ ResApart(q, seen, c)
<1>1. q.it \in ResWeb /\ q.it.has /\ q.w \in ResWebs
  BY DEF ResWellFormed
<1>2. CASE c.webs[q.w].has
  <2>1. ResStored(q, seen, c) = ResWith(c, q.w, q.it) /\ ~ResRefuses(q, seen, c)
    BY <1>2 DEF ResStored, ResRefuses, ResHolds, ResAsked
  <2>2. ResChecked(q, c) => ResWebValid(c, q.w, q.it)
    BY DEF ResChecked
  <2>3. ResLegal(c) /\ ResChecked(q, c) => ResLegal(ResWith(c, q.w, q.it))
    BY <1>1, <1>2, <2>2, ResWithLegal
  <2> QED BY <1>1, <2>1, <2>3, ResWithSound
<1>3. CASE ~c.webs[q.w].has
  <2>1. ResStored(q, seen, c) = c /\ ~ResRefuses(q, seen, c)
    BY <1>3 DEF ResStored, ResRefuses, ResHolds, ResAsked
  <2> QED BY <2>1 DEF ResSound, ResApart
<1> QED BY <1>2, <1>3

LEMMA ResDropWeb ==
    ASSUME NEW c \in ResConfs, NEW seen, NEW q, ResWellFormed(q), q.op = "dropWeb"
    PROVE  ResSound(q, seen, c) /\ ResApart(q, seen, c)
<1>1. q.w \in ResWebs /\ ResNoWeb \in ResWeb /\ ~ResNoWeb.has
  BY ResConstants DEF ResWellFormed, ResNoWeb, ResWeb
<1>2. ResStored(q, seen, c) = ResWith(c, q.w, ResNoWeb) /\ ~ResRefuses(q, seen, c)
  BY DEF ResStored, ResRefuses, ResHolds, ResAsked
<1>3. ResLegal(c) => ResLegal(ResWith(c, q.w, ResNoWeb))
  BY <1>1, ResWithLegal
<1> QED BY <1>1, <1>2, <1>3, ResWithSound

LEMMA ResTurnWeb ==
    ASSUME NEW c \in ResConfs, NEW seen, NEW q, ResWellFormed(q), q.op = "turnWeb"
    PROVE  ResSound(q, seen, c) /\ ResApart(q, seen, c)
<1> DEFINE it == [c.webs[q.w] EXCEPT !.on = q.on]
<1>1. q.w \in ResWebs /\ q.on \in BOOLEAN
  BY DEF ResWellFormed
<1>2. CASE ResRefuses(q, seen, c) \/ ~c.webs[q.w].has
  <2>1. ResStored(q, seen, c) = c
    BY <1>2 DEF ResStored, ResRefuses, ResHolds, ResAsked, ResRolledBack
  <2> QED BY <2>1 DEF ResSound, ResApart
<1>3. CASE ~ResRefuses(q, seen, c) /\ c.webs[q.w].has
  <2>1. ResAsked(q, seen, c) = ResWith(c, q.w, it) /\ it \in ResWeb
    BY <1>1, <1>3, ResTurnIs DEF ResAsked
  <2>2. ResStored(q, seen, c) = ResWith(c, q.w, it)
    BY <1>3, <2>1 DEF ResStored, ResRefuses
  <2>3. q.on => ResWebValid(ResWith(c, q.w, it), q.w, ResWith(c, q.w, it).webs[q.w])
    BY <1>3, <2>1 DEF ResRefuses, ResHolds
  <2>4. it.on = q.on /\ c.webs[q.w] \in ResWeb
    BY <1>1 DEF ResConfs, ResWeb
  <2> HIDE DEF it
  <2>5. it.has /\ it.on => ResWebValid(c, q.w, it)
    BY <1>1, <2>1, <2>3, <2>4, ResValidSame
  <2>6. ResLegal(c) => ResLegal(ResWith(c, q.w, it))
    BY <1>1, <1>3, <2>1, <2>5, ResWithLegal
  <2> QED BY <1>1, <1>3, <2>1, <2>2, <2>6, ResWithSound
<1> QED BY <1>2, <1>3

LEMMA ResTurnKid ==
    ASSUME NEW c \in ResConfs, NEW seen, NEW q, ResWellFormed(q), q.op = "turnKid"
    PROVE  ResSound(q, seen, c) /\ ResApart(q, seen, c)
<1> DEFINE web == c.webs[q.w]
           it == IF web.has THEN [web EXCEPT !.kid = q.on] ELSE web
           back == [it EXCEPT !.kid = ~q.on]
<1>1. q.w \in ResWebs /\ q.on \in BOOLEAN /\ web \in ResWeb
  BY DEF ResWellFormed, ResConfs
<1>2. /\ it \in ResWeb /\ back \in ResWeb /\ it.has = web.has /\ it.on = web.on
      /\ back.has = web.has /\ back.on = web.on /\ back.kid = ~q.on
      /\ web.kid # q.on => back = web
      /\ web.has /\ web.kid = q.on => it = web
  BY <1>1 DEF ResWeb
<1>3. ResAsked(q, seen, c) = ResWith(c, q.w, it)
  <2>1. CASE web.has
    BY <1>1, <2>1, ResTurnIs DEF ResAsked
  <2>2. CASE ~web.has
    BY <1>1, <2>2, ResWithSame DEF ResAsked
  <2> QED BY <2>1, <2>2
<1>4. [ResWith(c, q.w, it) EXCEPT !.webs[q.w].kid = ~q.on] = ResWith(c, q.w, back)
  BY <1>1, <1>2 DEF ResWith, ResConfs
<1>5. ResRefuses(q, seen, c) <=> ~ResWebValid(c, q.w, it)
  <2>1. ResRefuses(q, seen, c) <=>
           ~ResWebValid(ResWith(c, q.w, it), q.w, ResWith(c, q.w, it).webs[q.w])
    BY <1>3 DEF ResRefuses, ResHolds
  <2> QED BY <1>1, <1>2, <2>1, ResValidSame
<1>6. ResStored(q, seen, c) = ResWith(c, q.w, IF ResRefuses(q, seen, c) THEN back ELSE it)
  BY <1>3, <1>4 DEF ResStored, ResRefuses, ResRolledBack
<1>7. CASE ~ResRefuses(q, seen, c)
  <2>1. ResStored(q, seen, c) = ResWith(c, q.w, it) /\ ResWebValid(c, q.w, it)
    BY <1>5, <1>6, <1>7
  <2>2. ResLegal(c) => ResLegal(ResWith(c, q.w, it))
    BY <1>1, <1>2, <2>1, ResWithLegal
  <2> QED BY <1>1, <1>2, <1>7, <2>1, <2>2, ResWithSound
<1>8. CASE ResRefuses(q, seen, c)
  <2>1. ResStored(q, seen, c) = ResWith(c, q.w, back)
    BY <1>6, <1>8
  <2>2. CASE web.kid # q.on
    <3>1. ResStored(q, seen, c) = c
      BY <1>1, <1>2, <2>1, <2>2, ResWithSame
    <3> QED BY <3>1 DEF ResSound, ResApart
  <2>3. CASE web.kid = q.on
    <3>1. ASSUME ResLegal(c) PROVE ~(web.has /\ web.on)
      BY <1>1, <1>2, <1>5, <1>8, <2>3, <3>1, ResLegalValid
    <3>2. ResLegal(c) => ResLegal(ResWith(c, q.w, back))
      BY <1>1, <1>2, <3>1, ResWithLegal
    <3> QED BY <1>1, <1>2, <2>1, <2>3, <3>2, ResWithSound
  <2> QED BY <2>2, <2>3
<1> QED BY <1>7, <1>8

\* A request that leaves things as they are.
LEMMA ResSameSound ==
    ASSUME NEW c \in ResConfs, NEW seen, NEW q, ResStored(q, seen, c) = c
    PROVE  ResSound(q, seen, c) /\ ResApart(q, seen, c)
BY DEF ResSound, ResApart

LEMMA ResCertSound ==
    ASSUME NEW c \in ResConfs, NEW seen, NEW q, NEW cert \in {"none", "off", "on"},
           ResStored(q, seen, c) = [c EXCEPT !.cert = cert], ~ResRefuses(q, seen, c),
           ResChecked(q, c) => cert = "on" \/ ~ResCertInUse(c)
    PROVE  ResSound(q, seen, c) /\ ResApart(q, seen, c)
<1> DEFINE d == [c EXCEPT !.cert = cert]
<1>1. /\ d \in ResConfs /\ d.webs = c.webs /\ d.hook = c.hook /\ d.recv = c.recv
      /\ d.secret = c.secret /\ d.cert = cert
  BY DEF ResConfs
<1>2. ASSUME ResLegal(c), ResChecked(q, c) PROVE ResLegal(d)
  <2> HIDE DEF d
  <2>1. \A w \in ResWebs : ResWebLegal(d, w)
    <3> SUFFICES ASSUME NEW w \in ResWebs, c.webs[w].has, c.webs[w].on
                 PROVE  ResWebLegal(d, w)
      BY <1>1 DEF ResWebLegal
    <3>1. ResWebLegal(c, w)
      BY <1>2, ResLegalParts
    <3>2. c.webs[w].kid => cert # "off"
      BY <1>2 DEF ResCertInUse
    <3> QED BY <1>1, <3>1, <3>2 DEF ResWebLegal, ResServes
  <2>2. d.hook.https => d.cert = "on"
    BY <1>1, <1>2 DEF ResCertInUse
  <2>3. ResSome(d) = ResSome(c) /\ ResPathsDiffer(d) /\ ResRecvServed(d)
    <3>1. ResPathsDiffer(c) /\ ResRecvServed(c)
      BY <1>2, ResLegalParts
    <3> QED BY <1>1, <1>2, <3>1 DEF ResSome, ResPathsDiffer, ResRecvServed
  <2> QED BY <1>2, <2>1, <2>2, <2>3, ResLegalParts
<1> QED BY <1>1, <1>2 DEF ResSound, ResApart

LEMMA ResCert ==
    ASSUME NEW c \in ResConfs, NEW seen, NEW q, ResWellFormed(q),
           q.op \in {"saveCert", "turnCert", "dropCert"}
    PROVE  ResSound(q, seen, c) /\ ResApart(q, seen, c)
<1>1. ~ResRefuses(q, seen, c) /\ ResStored(q, seen, c) = ResAsked(q, seen, c)
  BY DEF ResStored, ResRefuses, ResHolds
<1>2. CASE q.op = "dropCert"
  <2>1. ResAsked(q, seen, c) = [c EXCEPT !.cert = "none"]
    BY <1>2 DEF ResAsked
  <2>2. ResChecked(q, c) => ~ResCertInUse(c)
    BY <1>2 DEF ResChecked
  <2> QED BY <1>1, <2>1, <2>2, ResCertSound
<1>3. CASE q.op # "dropCert" /\ c.cert = "none"
  <2>1. ResAsked(q, seen, c) = c
    BY <1>3 DEF ResAsked
  <2> QED BY <1>1, <2>1, ResSameSound
<1>4. CASE q.op # "dropCert" /\ c.cert # "none"
  <2>1. ResAsked(q, seen, c) = [c EXCEPT !.cert = IF q.on THEN "on" ELSE "off"]
    BY <1>4 DEF ResAsked
  <2>2. ResChecked(q, c) => q.on \/ ~ResCertInUse(c)
    BY <1>4 DEF ResChecked
  <2>3. CASE q.on
    BY <1>1, <2>1, <2>3, ResCertSound
  <2>4. CASE ~q.on
    BY <1>1, <2>1, <2>2, <2>4, ResCertSound
  <2> QED BY <2>3, <2>4
<1> QED BY <1>2, <1>3, <1>4

LEMMA ResHookSound ==
    ASSUME NEW c \in ResConfs, NEW seen, NEW q, NEW h \in ResHook,
           ResStored(q, seen, c) = [c EXCEPT !.hook = h], ~ResRefuses(q, seen, c),
           ResLegal(c) /\ ResChecked(q, c) =>
              /\ h.on => ResHookValid(c, h)
              /\ h.https => c.cert = "on"
              /\ (\E v \in ResReceivers : c.recv[v].on) => h.made
    PROVE  ResSound(q, seen, c) /\ ResApart(q, seen, c)
<1> DEFINE d == [c EXCEPT !.hook = h]
<1>1. /\ d \in ResConfs /\ d.webs = c.webs /\ d.hook = h /\ d.recv = c.recv
      /\ d.secret = c.secret /\ d.cert = c.cert
  BY DEF ResConfs
<1>2. ASSUME ResLegal(c), ResChecked(q, c) PROVE ResLegal(d)
  <2> HIDE DEF d
  <2>1. \A w \in ResWebs : ResWebLegal(d, w)
    <3> SUFFICES ASSUME NEW w \in ResWebs, c.webs[w].has, c.webs[w].on
                 PROVE  ResWebLegal(d, w)
      BY <1>1 DEF ResWebLegal
    <3>1. ResWebLegal(c, w)
      BY <1>2, ResLegalParts
    <3>2. c.webs[w].kid /\ h.on /\ h.port = c.webs[w].port => h.https
      BY <1>2 DEF ResHookValid, ResServes
    <3> QED BY <1>1, <3>1, <3>2 DEF ResWebLegal, ResServes
  <2>2. d.hook.https => d.cert = "on"
    BY <1>1, <1>2
  <2>3. ResSome(d) = ResSome(c) /\ ResPathsDiffer(d) /\ ResRecvServed(d)
    <3>1. ResPathsDiffer(c) /\ ResRecvServed(c)
      BY <1>2, ResLegalParts
    <3> QED BY <1>1, <1>2, <3>1 DEF ResSome, ResPathsDiffer, ResRecvServed
  <2> QED BY <1>2, <2>1, <2>2, <2>3, ResLegalParts
<1> QED BY <1>1, <1>2 DEF ResSound, ResApart

LEMMA ResHookOps ==
    ASSUME NEW c \in ResConfs, NEW seen, NEW q, ResWellFormed(q),
           q.op \in {"saveHook", "turnHook", "dropHook"}
    PROVE  ResSound(q, seen, c) /\ ResApart(q, seen, c)
<1>1. ~ResRefuses(q, seen, c) /\ ResStored(q, seen, c) = ResAsked(q, seen, c)
  BY DEF ResStored, ResRefuses, ResHolds
<1>2. ResLegal(c) => /\ c.hook.https => c.cert = "on"
                     /\ (\E v \in ResReceivers : c.recv[v].on) => c.hook.made
  BY ResLegalParts DEF ResRecvServed
<1>3. CASE q.op = "saveHook"
  <2>1. ResAsked(q, seen, c) = [c EXCEPT !.hook = q.it] /\ q.it \in ResHook /\ q.it.made
    BY <1>3 DEF ResAsked, ResWellFormed
  <2>2. ResChecked(q, c) => ResHookValid(c, q.it)
    BY <1>3 DEF ResChecked
  <2>3. ResHookValid(c, q.it) => (q.it.https => c.cert = "on")
    BY DEF ResHookValid
  <2> QED BY <1>1, <2>1, <2>2, <2>3, ResHookSound
<1>4. CASE q.op = "turnHook"
  <2> DEFINE h == [c.hook EXCEPT !.on = q.on]
  <2>1. q.on \in BOOLEAN /\ c.hook \in ResHook
    BY <1>4 DEF ResWellFormed, ResConfs
  <2>2. /\ h \in ResHook /\ h.on = q.on /\ h.https = c.hook.https /\ h.made = c.hook.made
        /\ q.on => h = [c.hook EXCEPT !.on = TRUE]
    BY <2>1 DEF ResHook
  <2>3. ResAsked(q, seen, c) = [c EXCEPT !.hook = h]
    BY <1>4, <2>1 DEF ResAsked, ResConfs
  <2>4. ResChecked(q, c) => (q.on => ResHookValid(c, h))
    BY <1>4, <2>2 DEF ResChecked
  <2> HIDE DEF h
  <2> QED BY <1>1, <1>2, <2>2, <2>3, <2>4, ResHookSound
<1>5. CASE q.op = "dropHook"
  <2>1. ResAsked(q, seen, c) = [c EXCEPT !.hook = ResNoHook]
    BY <1>5 DEF ResAsked
  <2>2. ResNoHook \in ResHook /\ ~ResNoHook.on /\ ~ResNoHook.https
    BY ResConstants DEF ResNoHook, ResHook
  <2>3. ResChecked(q, c) => \A v \in ResReceivers : ~c.recv[v].on
    BY <1>5 DEF ResChecked
  <2> QED BY <1>1, <2>1, <2>2, <2>3, ResHookSound
<1> QED BY <1>3, <1>4, <1>5

-----------------------------------------------------------------------------
(* Receivers and their rules. *)

\* Receivers that have paths of their own, and a module when one is on.
LEMMA ResRecvLegal ==
    ASSUME NEW c, NEW d, d.webs = c.webs, d.hook = c.hook, d.cert = c.cert,
           ResLegal(c), ResPathsDiffer(d), ResRecvServed(d)
    PROVE  ResLegal(d)
<1>1. ResSome(d) = ResSome(c)
  BY DEF ResSome
<1>2. \A w \in ResWebs : ResWebLegal(c, w) => ResWebLegal(d, w)
  BY DEF ResWebLegal, ResServes
<1> QED BY <1>1, <1>2, ResLegalParts

\* The receivers are replaced by others.
LEMMA ResRecvIs ==
    ASSUME NEW c \in ResConfs, NEW recv \in [ResReceivers -> ResRecvs]
    PROVE  LET d == [c EXCEPT !.recv = recv] IN
           /\ d \in ResConfs /\ d.recv = recv /\ d.webs = c.webs /\ d.hook = c.hook
           /\ d.cert = c.cert /\ d.secret = c.secret
BY DEF ResConfs, ResRecvs

LEMMA ResSaveRecv ==
    ASSUME NEW c \in ResConfs, NEW seen \in ResConfs, NEW q, ResWellFormed(q),
           q.op = "saveRecv"
    PROVE  /\ ResSound(q, seen, c) /\ ResStored(q, seen, c).secret = c.secret
           /\ \A v \in ResReceivers : ResStored(q, seen, c).recv[v].rules =
                 IF v = q.v THEN seen.recv[v].rules ELSE c.recv[v].rules
<1> DEFINE new == [on |-> q.on, path |-> q.path, rules |-> seen.recv[q.v].rules]
           recv == [c.recv EXCEPT ![q.v] = new]
           d == [c EXCEPT !.recv = recv]
           e == [c EXCEPT !.recv[q.v].on = q.on, !.recv[q.v].path = q.path]
<1>1. /\ q.v \in ResReceivers /\ new \in ResRecvs
      /\ c.recv \in [ResReceivers -> ResRecvs] /\ recv \in [ResReceivers -> ResRecvs]
  BY DEF ResWellFormed, ResConfs, ResRecvs
<1>2. ResStored(q, seen, c) = d /\ ~ResRefuses(q, seen, c)
  <2>1. ~ResRefuses(q, seen, c) /\ ResStored(q, seen, c) = ResAsked(q, seen, c)
    BY DEF ResStored, ResRefuses, ResHolds
  <2>2. ResAsked(q, seen, c) = [c EXCEPT !.recv[q.v] = new]
    BY DEF ResAsked, ResRulesOf
  <2> QED BY <2>1, <2>2 DEF ResConfs
<1>3. /\ d \in ResConfs /\ d.recv = recv /\ d.webs = c.webs /\ d.hook = c.hook
      /\ d.cert = c.cert /\ d.secret = c.secret
  BY <1>1, ResRecvIs
<1>4. /\ recv[q.v] = new /\ \A v \in ResReceivers \ {q.v} : recv[v] = c.recv[v]
      /\ new.on = q.on /\ new.path = q.path /\ new.rules = seen.recv[q.v].rules
  BY <1>1
<1>5. /\ e.recv[q.v].on = q.on /\ e.recv[q.v].path = q.path /\ e.hook = c.hook
      /\ \A v \in ResReceivers \ {q.v} : e.recv[v] = c.recv[v]
  BY <1>1 DEF ResConfs, ResRecvs
<1>6. ResChecked(q, c) => ResRecvValid(e, q.v)
  BY DEF ResChecked
<1> HIDE DEF new, recv, d, e
<1>7. ASSUME ResLegal(c), ResChecked(q, c) PROVE ResLegal(d)
  <2>1. ResPathsDiffer(c) /\ ResRecvServed(c)
    BY <1>7, ResLegalParts
  <2>2. ResPathsDiffer(d)
    BY <1>1, <1>3, <1>4, <1>5, <1>6, <1>7, <2>1 DEF ResPathsDiffer, ResRecvValid
  <2>3. ResRecvServed(d)
    BY <1>1, <1>3, <1>4, <1>5, <1>6, <1>7, <2>1 DEF ResRecvServed, ResRecvValid
  <2> QED BY <1>3, <1>7, <2>2, <2>3, ResRecvLegal
<1> QED BY <1>1, <1>2, <1>3, <1>4, <1>7 DEF ResSound

LEMMA ResTurnRecv ==
    ASSUME NEW c \in ResConfs, NEW seen, NEW q, ResWellFormed(q), q.op = "turnRecv"
    PROVE  /\ ResSound(q, seen, c) /\ ResStored(q, seen, c).secret = c.secret
           /\ \A v \in ResReceivers :
                 ResStored(q, seen, c).recv[v].rules = c.recv[v].rules
<1> DEFINE new == [c.recv[q.v] EXCEPT !.on = q.on]
           recv == [c.recv EXCEPT ![q.v] = new]
           d == [c EXCEPT !.recv = recv]
<1>1. /\ q.v \in ResReceivers /\ new \in ResRecvs
      /\ c.recv \in [ResReceivers -> ResRecvs] /\ recv \in [ResReceivers -> ResRecvs]
  BY DEF ResWellFormed, ResConfs, ResRecvs
<1>2. ResAsked(q, seen, c) = d
  BY <1>1 DEF ResAsked, ResConfs
<1>3. /\ d \in ResConfs /\ d.recv = recv /\ d.webs = c.webs /\ d.hook = c.hook
      /\ d.cert = c.cert /\ d.secret = c.secret
  BY <1>1, ResRecvIs
<1>4. /\ recv[q.v] = new /\ \A v \in ResReceivers \ {q.v} : recv[v] = c.recv[v]
      /\ new.on = q.on /\ new.path = c.recv[q.v].path /\ new.rules = c.recv[q.v].rules
  BY <1>1 DEF ResRecvs
<1>5. ResHolds(q, d) => (q.on => ResRecvValid(d, q.v))
  BY DEF ResHolds
<1> HIDE DEF new, recv, d
<1>6. ASSUME ResLegal(c), ResHolds(q, d) PROVE ResLegal(d)
  <2>1. ResPathsDiffer(c) /\ ResRecvServed(c)
    BY <1>6, ResLegalParts
  <2>2. ResPathsDiffer(d)
    BY <1>1, <1>3, <1>4, <2>1 DEF ResPathsDiffer
  <2>3. ResRecvServed(d)
    BY <1>1, <1>3, <1>4, <1>5, <1>6, <2>1 DEF ResRecvServed, ResRecvValid
  <2> QED BY <1>3, <1>6, <2>2, <2>3, ResRecvLegal
<1>7. CASE ResHolds(q, d)
  <2>1. ResStored(q, seen, c) = d /\ ~ResRefuses(q, seen, c)
    BY <1>2, <1>7 DEF ResStored, ResRefuses
  <2> QED BY <1>1, <1>3, <1>4, <1>6, <1>7, <2>1 DEF ResSound
<1>8. CASE ~ResHolds(q, d)
  <2>1. ResStored(q, seen, c) = c
    BY <1>2, <1>8 DEF ResStored, ResRolledBack
  <2> QED BY <2>1, ResSameSound DEF ResApart
<1> QED BY <1>7, <1>8

\* What is done to the rules of each receiver, and to nothing else.
LEMMA ResRulesSound ==
    ASSUME NEW c \in ResConfs, NEW seen, NEW q, q.op # "turnKid",
           NEW rules \in [ResReceivers -> SUBSET ResRules],
           ResAsked(q, seen, c) = [c EXCEPT !.recv = [v \in ResReceivers |->
                                      [c.recv[v] EXCEPT !.rules = rules[v]]]]
    PROVE  /\ ResSound(q, seen, c) /\ ResStored(q, seen, c).secret = c.secret
           /\ ResRefuses(q, seen, c) => ResStored(q, seen, c) = c
           /\ ~ResRefuses(q, seen, c) => \A v \in ResReceivers :
                 ResStored(q, seen, c).recv[v].rules = rules[v]
<1> DEFINE recv == [v \in ResReceivers |-> [c.recv[v] EXCEPT !.rules = rules[v]]]
           d == [c EXCEPT !.recv = recv]
<1>1. /\ recv \in [ResReceivers -> ResRecvs]
      /\ \A v \in ResReceivers : /\ recv[v].on = c.recv[v].on /\ recv[v].path = c.recv[v].path
                                 /\ recv[v].rules = rules[v]
  BY DEF ResConfs, ResRecvs
<1>2. ResAsked(q, seen, c) = d
  OBVIOUS
<1>3. /\ d \in ResConfs /\ d.recv = recv /\ d.webs = c.webs /\ d.hook = c.hook
      /\ d.cert = c.cert /\ d.secret = c.secret
  BY <1>1, ResRecvIs
<1> HIDE DEF recv, d
<1>4. ASSUME ResLegal(c) PROVE ResLegal(d)
  <2>1. ResPathsDiffer(c) /\ ResRecvServed(c)
    BY <1>4, ResLegalParts
  <2>2. ResPathsDiffer(d) /\ ResRecvServed(d)
    BY <1>1, <1>3, <2>1 DEF ResPathsDiffer, ResRecvServed
  <2> QED BY <1>3, <1>4, <2>2, ResRecvLegal
<1>5. CASE ~ResRefuses(q, seen, c)
  <2>1. ResStored(q, seen, c) = d
    BY <1>2, <1>5 DEF ResStored, ResRefuses
  <2> QED BY <1>1, <1>3, <1>4, <1>5, <2>1 DEF ResSound
<1>6. CASE ResRefuses(q, seen, c)
  <2>1. ResStored(q, seen, c) = c
    BY <1>6 DEF ResStored, ResRefuses, ResRolledBack
  <2> QED BY <1>6, <2>1, ResSameSound DEF ResApart
<1> QED BY <1>5, <1>6

LEMMA ResAddRule ==
    ASSUME NEW c \in ResConfs, NEW seen, NEW q, ResWellFormed(q), q.op = "addRule"
    PROVE  /\ ResSound(q, seen, c) /\ ResStored(q, seen, c).secret = c.secret
           /\ ResRefuses(q, seen, c) => ResStored(q, seen, c) = c
           /\ ~ResRefuses(q, seen, c) => \A v \in ResReceivers :
                 ResStored(q, seen, c).recv[v].rules =
                    IF v = q.v THEN c.recv[v].rules \union {q.r} ELSE c.recv[v].rules
<1> DEFINE rules == [v \in ResReceivers |-> IF v = q.v THEN c.recv[v].rules \union {q.r}
                                            ELSE c.recv[v].rules]
<1>1. /\ q.v \in ResReceivers /\ q.r \in ResRules /\ c.recv \in [ResReceivers -> ResRecvs]
      /\ \A v \in ResReceivers : c.recv[v] \in ResRecvs /\ c.recv[v].rules \subseteq ResRules
  BY DEF ResWellFormed, ResConfs, ResRecvs
<1>2. rules \in [ResReceivers -> SUBSET ResRules]
  BY <1>1
<1>3. [c.recv EXCEPT ![q.v] = [c.recv[q.v] EXCEPT !.rules = c.recv[q.v].rules \union {q.r}]]
         = [v \in ResReceivers |-> [c.recv[v] EXCEPT !.rules = rules[v]]]
  BY <1>1 DEF ResRecvs
<1>4. ResAsked(q, seen, c) = [c EXCEPT !.recv = [v \in ResReceivers |->
                                [c.recv[v] EXCEPT !.rules = rules[v]]]]
  <2>1. ResAsked(q, seen, c) = [c EXCEPT !.recv = [c.recv EXCEPT ![q.v] =
              [c.recv[q.v] EXCEPT !.rules = c.recv[q.v].rules \union {q.r}]]]
    BY <1>1 DEF ResAsked, ResConfs
  <2> QED BY <1>3, <2>1
<1>5. \A v \in ResReceivers : rules[v] = IF v = q.v THEN c.recv[v].rules \union {q.r}
                                         ELSE c.recv[v].rules
  OBVIOUS
<1> HIDE DEF rules
<1>6. /\ ResSound(q, seen, c) /\ ResStored(q, seen, c).secret = c.secret
      /\ ResRefuses(q, seen, c) => ResStored(q, seen, c) = c
      /\ ~ResRefuses(q, seen, c) => \A v \in ResReceivers :
            ResStored(q, seen, c).recv[v].rules = rules[v]
  BY <1>2, <1>4, ResRulesSound
<1> QED BY <1>5, <1>6

LEMMA ResMoveRule ==
    ASSUME NEW c \in ResConfs, NEW seen, NEW q, ResWellFormed(q), q.op = "moveRule"
    PROVE  /\ ResSound(q, seen, c) /\ ResStored(q, seen, c).secret = c.secret
           /\ \/ ResStored(q, seen, c) = c
              \/ /\ ResHasRule(c, q.r)
                 /\ \A v \in ResReceivers :
                       ResStored(q, seen, c).recv[v].rules =
                          IF v = q.v THEN c.recv[v].rules \union {q.r}
                          ELSE c.recv[v].rules \ {q.r}
<1> DEFINE rules == [v \in ResReceivers |-> IF v = q.v THEN c.recv[v].rules \union {q.r}
                                            ELSE c.recv[v].rules \ {q.r}]
<1>1. /\ q.v \in ResReceivers /\ q.r \in ResRules
      /\ \A v \in ResReceivers : c.recv[v].rules \subseteq ResRules
  BY DEF ResWellFormed, ResConfs
<1>2. CASE ~ResHasRule(c, q.r)
  <2>1. ResAsked(q, seen, c) = c
    BY <1>2 DEF ResAsked
  <2>2. ResStored(q, seen, c) = c
    BY <2>1 DEF ResStored, ResRolledBack
  <2> QED BY <2>2, ResSameSound DEF ResApart
<1>3. CASE ResHasRule(c, q.r)
  <2>1. rules \in [ResReceivers -> SUBSET ResRules]
    BY <1>1
  <2>2. ResAsked(q, seen, c) = [c EXCEPT !.recv = [v \in ResReceivers |->
                                  [c.recv[v] EXCEPT !.rules = rules[v]]]]
    BY <1>3 DEF ResAsked
  <2>3. \A v \in ResReceivers : rules[v] = IF v = q.v THEN c.recv[v].rules \union {q.r}
                                           ELSE c.recv[v].rules \ {q.r}
    OBVIOUS
  <2> HIDE DEF rules
  <2>4. /\ ResSound(q, seen, c) /\ ResStored(q, seen, c).secret = c.secret
        /\ ResRefuses(q, seen, c) => ResStored(q, seen, c) = c
        /\ ~ResRefuses(q, seen, c) => \A v \in ResReceivers :
              ResStored(q, seen, c).recv[v].rules = rules[v]
    BY <2>1, <2>2, ResRulesSound
  <2> QED BY <1>3, <2>3, <2>4
<1> QED BY <1>2, <1>3

LEMMA ResDropRule ==
    ASSUME NEW c \in ResConfs, NEW seen, NEW q, ResWellFormed(q), q.op = "dropRule"
    PROVE  /\ ResSound(q, seen, c) /\ ResStored(q, seen, c).secret = c.secret
           /\ \A v \in ResReceivers :
                 ResStored(q, seen, c).recv[v].rules = c.recv[v].rules \ {q.r}
<1> DEFINE rules == [v \in ResReceivers |-> c.recv[v].rules \ {q.r}]
<1>1. \A v \in ResReceivers : c.recv[v].rules \subseteq ResRules
  BY DEF ResConfs
<1>2. rules \in [ResReceivers -> SUBSET ResRules]
  BY <1>1
<1>3. ResAsked(q, seen, c) = [c EXCEPT !.recv = [v \in ResReceivers |->
                                [c.recv[v] EXCEPT !.rules = rules[v]]]]
  BY DEF ResAsked
<1>4. ~ResRefuses(q, seen, c) /\ \A v \in ResReceivers : rules[v] = c.recv[v].rules \ {q.r}
  BY DEF ResRefuses, ResHolds
<1> HIDE DEF rules
<1> QED BY <1>2, <1>3, <1>4, ResRulesSound

LEMMA ResOtherOps ==
    ASSUME NEW c \in ResConfs, NEW seen \in ResConfs, NEW q, ResWellFormed(q),
           q.op \in {"dropTmpl", "saveSecret"}
    PROVE  /\ ResSound(q, seen, c) /\ ResStored(q, seen, c).recv = c.recv
           /\ q.op = "saveSecret" =>
                 ResStored(q, seen, c).secret = ResSecretOf(seen, q.typed)
           /\ q.op # "saveSecret" => ResStored(q, seen, c).secret = c.secret
<1>1. ~ResRefuses(q, seen, c) /\ ResStored(q, seen, c) = ResAsked(q, seen, c)
  BY DEF ResStored, ResRefuses, ResHolds
<1> DEFINE d == ResAsked(q, seen, c)
<1>2. /\ d \in ResConfs /\ d.webs = c.webs /\ d.hook = c.hook /\ d.cert = c.cert
      /\ d.recv = c.recv
      /\ d.secret = IF q.op = "saveSecret" THEN ResSecretOf(seen, q.typed) ELSE c.secret
  <2>1. ResSecretOf(seen, q.typed) \in {"first", "second"} \/ q.op # "saveSecret"
    BY DEF ResSecretOf, ResConfs, ResWellFormed
  <2>2. CASE q.op = "dropTmpl"
    <3>1. d = [c EXCEPT !.tmpl = FALSE]
      BY <2>2 DEF ResAsked
    <3> QED BY <2>2, <3>1 DEF ResConfs
  <2>3. CASE q.op = "saveSecret"
    <3>1. d = [c EXCEPT !.secret = ResSecretOf(seen, q.typed)]
      BY <2>3 DEF ResAsked
    <3> QED BY <2>1, <2>3, <3>1 DEF ResConfs
  <2> QED BY <2>2, <2>3
<1> HIDE DEF d
<1>3. ASSUME ResLegal(c) PROVE ResLegal(d)
  <2>1. ResPathsDiffer(c) /\ ResRecvServed(c)
    BY <1>3, ResLegalParts
  <2>2. ResPathsDiffer(d) /\ ResRecvServed(d)
    BY <1>2, <2>1 DEF ResPathsDiffer, ResRecvServed
  <2> QED BY <1>2, <1>3, <2>2, ResRecvLegal
<1> QED BY <1>1, <1>2, <1>3 DEF ResSound, d

\* Whatever is asked for.
LEMMA ResAllSound ==
    ASSUME NEW c \in ResConfs, NEW seen \in ResConfs, NEW q, ResWellFormed(q)
    PROVE  ResSound(q, seen, c)
<1>1. CASE q.op \in {"newWeb", "saveWeb", "dropWeb", "turnWeb", "turnKid"}
  BY <1>1, ResNewWeb, ResSaveWeb, ResDropWeb, ResTurnWeb, ResTurnKid
<1>2. CASE q.op \in {"saveCert", "turnCert", "dropCert", "saveHook", "turnHook", "dropHook"}
  BY <1>2, ResCert, ResHookOps
<1>3. CASE q.op \in {"saveRecv", "turnRecv", "addRule", "moveRule", "dropRule", "dropTmpl",
                     "saveSecret"}
  BY <1>3, ResSaveRecv, ResTurnRecv, ResAddRule, ResMoveRule, ResDropRule, ResOtherOps
<1> QED BY <1>1, <1>2, <1>3 DEF ResWellFormed

\* The rules that were created, after a request.
ResKeptRules(q, seen, c, kept) ==
    CASE ~ResRefuses(q, seen, c) /\ q.op = "addRule" -> kept \union {q.r}
      [] q.op = "dropRule" -> kept \ {q.r}
      [] OTHER -> kept

LEMMA ResRulesStand ==
    ASSUME NEW c \in ResConfs, NEW seen \in ResConfs, NEW q, ResWellFormed(q),
           NEW kept \in SUBSET ResRules, \A r \in ResRules : ResRuleStands(c, kept, r),
           q.op = "addRule" => q.r \notin kept,
           q.op = "saveRecv" => seen.recv[q.v].rules = c.recv[q.v].rules
    PROVE  \A r \in ResRules :
              ResRuleStands(ResStored(q, seen, c), ResKeptRules(q, seen, c, kept), r)
<1> DEFINE d == ResStored(q, seen, c)
           after == ResKeptRules(q, seen, c, kept)
<1>1. ASSUME \A v \in ResReceivers : d.recv[v].rules = c.recv[v].rules, after = kept
      PROVE  \A r \in ResRules : ResRuleStands(d, after, r)
  BY <1>1 DEF ResRuleStands
<1>2. CASE q.op \notin {"saveRecv", "turnRecv", "addRule", "moveRule", "dropRule"}
  <2>1. d.recv = c.recv
    <3>1. CASE q.op \in {"newWeb", "saveWeb", "dropWeb", "turnWeb", "turnKid"}
      BY <3>1, ResNewWeb, ResSaveWeb, ResDropWeb, ResTurnWeb, ResTurnKid DEF ResApart
    <3>2. CASE q.op \in {"saveCert", "turnCert", "dropCert", "saveHook", "turnHook", "dropHook"}
      BY <3>2, ResCert, ResHookOps DEF ResApart
    <3>3. CASE q.op \in {"dropTmpl", "saveSecret"}
      BY <3>3, ResOtherOps
    <3> QED BY <1>2, <3>1, <3>2, <3>3 DEF ResWellFormed
  <2>2. after = kept
    BY <1>2 DEF ResKeptRules
  <2> QED BY <1>1, <2>1, <2>2
<1>3. CASE q.op \in {"saveRecv", "turnRecv"}
  <2>1. \A v \in ResReceivers : d.recv[v].rules = c.recv[v].rules
    BY <1>3, ResSaveRecv, ResTurnRecv
  <2>2. after = kept
    BY <1>3 DEF ResKeptRules
  <2> QED BY <1>1, <2>1, <2>2
<1>4. CASE q.op = "addRule"
  <2>1. CASE ResRefuses(q, seen, c)
    <3>1. d = c /\ after = kept
      BY <1>4, <2>1, ResAddRule DEF ResKeptRules
    <3> QED BY <1>1, <3>1
  <2>2. CASE ~ResRefuses(q, seen, c)
    <3>1. /\ after = kept \union {q.r} /\ q.r \notin kept /\ q.v \in ResReceivers
          /\ q.r \in ResRules
      BY <1>4, <2>2 DEF ResKeptRules, ResWellFormed
    <3>2. \A v \in ResReceivers : d.recv[v].rules =
             IF v = q.v THEN c.recv[v].rules \union {q.r} ELSE c.recv[v].rules
      BY <1>4, <2>2, ResAddRule
    <3> HIDE DEF d, after
    <3>3. ResRuleStands(c, kept, q.r)
      BY <3>1
    <3>4. ResRuleStands(d, after, q.r)
      BY <3>1, <3>2, <3>3 DEF ResRuleStands
    <3>5. ASSUME NEW r \in ResRules, r # q.r PROVE ResRuleStands(d, after, r)
      <4>1. \A v \in ResReceivers : r \in d.recv[v].rules <=> r \in c.recv[v].rules
        BY <3>2, <3>5
      <4>2. ResRuleStands(c, kept, r) /\ (r \in after <=> r \in kept)
        BY <3>1, <3>5
      <4> QED BY <4>1, <4>2 DEF ResRuleStands
    <3> QED BY <3>4, <3>5 DEF d, after
  <2> QED BY <2>1, <2>2
<1>5. CASE q.op = "moveRule"
  <2>1. after = kept /\ q.v \in ResReceivers /\ q.r \in ResRules
    BY <1>5 DEF ResKeptRules, ResWellFormed
  <2>2. CASE d = c
    BY <1>1, <2>1, <2>2
  <2>3. CASE /\ ResHasRule(c, q.r)
             /\ \A v \in ResReceivers : d.recv[v].rules =
                   IF v = q.v THEN c.recv[v].rules \union {q.r} ELSE c.recv[v].rules \ {q.r}
    <3> HIDE DEF d, after
    <3>1. q.r \in kept
      BY <2>1, <2>3 DEF ResHasRule, ResRuleStands
    <3>2. ResRuleStands(d, after, q.r)
      <4>1. \A o \in ResReceivers : q.r \in d.recv[o].rules <=> o = q.v
        BY <2>3
      <4> QED BY <2>1, <3>1, <4>1 DEF ResRuleStands
    <3>3. ASSUME NEW r \in ResRules, r # q.r PROVE ResRuleStands(d, after, r)
      <4>1. \A v \in ResReceivers : r \in d.recv[v].rules <=> r \in c.recv[v].rules
        BY <2>3, <3>3
      <4> QED BY <2>1, <4>1 DEF ResRuleStands
    <3> QED BY <3>2, <3>3 DEF d, after
  <2> QED BY <1>5, <2>2, <2>3, ResMoveRule
<1>6. CASE q.op = "dropRule"
  <2>1. after = kept \ {q.r}
    BY <1>6 DEF ResKeptRules
  <2>2. \A v \in ResReceivers : d.recv[v].rules = c.recv[v].rules \ {q.r}
    BY <1>6, ResDropRule
  <2> HIDE DEF d, after
  <2>3. ASSUME NEW r \in ResRules PROVE ResRuleStands(d, after, r)
    <3>1. CASE r = q.r
      BY <2>1, <2>2, <3>1 DEF ResRuleStands
    <3>2. CASE r # q.r
      <4>1. \A v \in ResReceivers : r \in d.recv[v].rules <=> r \in c.recv[v].rules
        BY <2>2, <3>2
      <4>2. ResRuleStands(c, kept, r) /\ (r \in after <=> r \in kept)
        BY <2>1, <3>2
      <4> QED BY <4>1, <4>2 DEF ResRuleStands
    <3> QED BY <3>1, <3>2
  <2> QED BY <2>3 DEF d, after
<1> QED BY <1>2, <1>3, <1>4, <1>5, <1>6

\* The secret, after a request.
LEMMA ResSecretStands ==
    ASSUME NEW c \in ResConfs, NEW seen \in ResConfs, NEW q, ResWellFormed(q)
    PROVE  /\ q.op = "saveSecret" =>
                 ResStored(q, seen, c).secret = ResSecretOf(seen, q.typed)
           /\ q.op # "saveSecret" => ResStored(q, seen, c).secret = c.secret
<1>1. CASE q.op \in {"newWeb", "saveWeb", "dropWeb", "turnWeb", "turnKid"}
  BY <1>1, ResNewWeb, ResSaveWeb, ResDropWeb, ResTurnWeb, ResTurnKid DEF ResApart
<1>2. CASE q.op \in {"saveCert", "turnCert", "dropCert", "saveHook", "turnHook", "dropHook"}
  BY <1>2, ResCert, ResHookOps DEF ResApart
<1>3. CASE q.op \in {"saveRecv", "turnRecv", "addRule", "moveRule", "dropRule", "dropTmpl",
                     "saveSecret"}
  BY <1>3, ResSaveRecv, ResTurnRecv, ResAddRule, ResMoveRule, ResDropRule, ResOtherOps
<1> QED BY <1>1, <1>2, <1>3 DEF ResWellFormed

-----------------------------------------------------------------------------
(* The steps. *)

LEMMA ResInitInv == ASSUME ResInit PROVE ResInv
<1> DEFINE first == CHOOSE w \in ResWebs : TRUE
           web == [has |-> TRUE, on |-> FALSE, kid |-> TRUE,
                   port |-> CHOOSE p \in ResPorts : p # ResPanelPort]
           webs == [w \in ResWebs |-> IF w = first THEN web ELSE ResNoWeb]
           recv == [v \in ResReceivers |-> [on |-> FALSE, path |-> v, rules |-> {}]]
<1>1. web \in ResWeb /\ ResNoWeb \in ResWeb /\ ResNoHook \in ResHook
  <2>1. \E p \in ResPorts : p # ResPanelPort
    BY ResConstants
  <2>2. (CHOOSE p \in ResPorts : p # ResPanelPort) \in ResPorts
    BY <2>1
  <2> QED BY <2>2, ResConstants DEF ResWeb, ResNoWeb, ResHook, ResNoHook
<1>2. /\ resConf.webs = webs /\ resConf.cert = "on" /\ resConf.hook = ResNoHook
      /\ resConf.recv = recv /\ resConf.secret = "first"
  BY DEF ResInit, ResFirst
<1>3. resConf \in ResConfs
  <2>1. webs \in [ResWebs -> ResWeb]
    BY <1>1
  <2>2. recv \in [ResReceivers -> ResRecvs]
    BY DEF ResRecvs
  <2>3. resConf = [webs |-> webs, cert |-> "on", hook |-> ResNoHook, recv |-> recv,
                   tmpl |-> TRUE, secret |-> "first"]
    BY DEF ResInit, ResFirst
  <2> HIDE DEF webs, recv
  <2> QED BY <1>1, <2>1, <2>2, <2>3 DEF ResConfs, ResRecvs
<1>4. \A w \in ResWebs : ~webs[w].on /\ (webs[w].has => w = first)
  BY DEF ResNoWeb
<1>5. \A v \in ResReceivers : recv[v].path = v /\ ~recv[v].on /\ recv[v].rules = {}
  OBVIOUS
<1> HIDE DEF webs, recv
<1>6. Cardinality(ResSome(resConf)) <= ResWebMax
  <2>1. ResSome(resConf) \subseteq {first} /\ IsFiniteSet({first}) /\ Cardinality({first}) = 1
    BY <1>2, <1>4, FS_Singleton DEF ResSome
  <2>2. Cardinality(ResSome(resConf)) <= 1 /\ Cardinality(ResSome(resConf)) \in Nat
    BY <2>1, FS_Subset, FS_CardinalityType
  <2> QED BY <2>2, ResConstants
<1>7. \A w \in ResWebs : ResWebLegal(resConf, w)
  BY <1>2, <1>4 DEF ResWebLegal
<1>8. ResPathsDiffer(resConf) /\ ResRecvServed(resConf) /\ ~resConf.hook.https
  BY <1>2, <1>5 DEF ResPathsDiffer, ResRecvServed, ResNoHook
<1>9. ResLegal(resConf)
  BY <1>6, <1>7, <1>8, ResLegalParts
<1>10. ResKeptInv
  BY <1>2, <1>5 DEF ResInit, ResKeptInv, ResRuleStands
<1>11. \A t \in ResTabs : resReq[t].q.op # "addRule"
  BY DEF ResInit, ResIdle
<1>12. ResShapeInv
  BY <1>3 DEF ResInit, ResShapeInv, ResReqs
<1> QED BY <1>9, <1>10, <1>11, <1>12
        DEF ResInit, ResInv, ResStaysLegal, ResAddsInv, ResRefusedIsInert

LEMMA ResArrivesInv ==
    ASSUME ResInv, NEW t \in ResTabs, NEW q \in ResAsks, ResArrives(t, q)
    PROVE  ResInv'
<1>1. UNCHANGED <<resConf, resRaced, resOverwrote, resKept>>
  BY DEF ResArrives
<1>2. ResStaysLegal' /\ ResKeptInv'
  BY <1>1 DEF ResInv, ResStaysLegal, ResKeptInv
<1>3. CASE ~ResChecked(q, resConf)
  <2>1. UNCHANGED resReq /\ resLast' = [refused |-> TRUE, changed |-> FALSE, again |-> FALSE]
    BY <1>3 DEF ResArrives
  <2>2. ResShapeInv' /\ ResAddsInv' /\ ResRefusedIsInert'
    BY <1>1, <2>1 DEF ResInv, ResShapeInv, ResAddsInv, ResRefusedIsInert
  <2> QED BY <1>2, <2>2 DEF ResInv
<1>4. CASE ResChecked(q, resConf)
  <2> DEFINE new == [pc |-> "checked", q |-> q, seen |-> resConf]
  <2>1. resReq' = [resReq EXCEPT ![t] = new] /\ UNCHANGED resLast
    BY <1>4 DEF ResArrives
  <2>2. new \in ResReqs /\ new.q = q
    BY DEF ResInv, ResShapeInv, ResReqs
  <2> HIDE DEF new
  <2>3. /\ resReq' \in [ResTabs -> ResReqs]
        /\ \A u \in ResTabs : resReq'[u].q = IF u = t THEN q ELSE resReq[u].q
    BY <2>1, <2>2 DEF ResInv, ResShapeInv
  <2>4. q.op = "addRule" => q.r \notin resKept.rules /\ \A u \in ResTabs : resReq[u].q.op # "addRule"
    BY DEF ResArrives
  <2>5. ResAddsInv'
    BY <1>1, <2>3, <2>4 DEF ResInv, ResAddsInv
  <2>6. ResShapeInv' /\ ResRefusedIsInert'
    BY <1>1, <2>1, <2>3 DEF ResInv, ResShapeInv, ResRefusedIsInert
  <2> QED BY <1>2, <2>5, <2>6 DEF ResInv
<1> QED BY <1>3, <1>4

LEMMA ResAppliesInv ==
    ASSUME ResInv, NEW t \in ResTabs, ResApplies(t)
    PROVE  ResInv'
<1> DEFINE q == resReq[t].q
           seen == resReq[t].seen
           next == ResStored(q, seen, resConf)
           refused == ResRefuses(q, seen, resConf)
<1>1. q \in ResAsks /\ seen \in ResConfs /\ ResWellFormed(q) /\ resConf \in ResConfs
  <2>1. resReq[t] \in ResReqs /\ resReq[t].pc = "checked"
    BY DEF ResInv, ResShapeInv, ResApplies
  <2> QED BY <2>1, ResConstants DEF ResReqs, ResIdle, ResInv, ResShapeInv
<1>2. /\ resConf' = next
      /\ resRaced' = (resRaced \/ ~ResChecked(q, resConf))
      /\ resOverwrote' = (resOverwrote \/ ResPutsBack(q, seen))
      /\ resKept' = [rules |-> ResKeptRules(q, seen, resConf, resKept.rules),
                      secret |-> IF q.op = "saveSecret" /\ q.typed # "masked"
                                 THEN q.typed ELSE resKept.secret]
      /\ resLast' = [refused |-> refused, changed |-> next # resConf,
                      again |-> q.op = "turnKid" /\ resConf.webs[q.w].kid = q.on]
      /\ resReq' = [resReq EXCEPT ![t] = ResIdle]
  BY DEF ResApplies, ResStored, ResRefuses, ResKeptRules
<1>3. ResSound(q, seen, resConf)
  BY <1>1, ResAllSound
<1>4. \A u \in ResTabs : resReq'[u] = IF u = t THEN ResIdle ELSE resReq[u]
  BY <1>2 DEF ResInv, ResShapeInv
<1>5. resKept.rules \in SUBSET ResRules /\ (q.op = "addRule" => q.r \notin resKept.rules)
  BY DEF ResInv, ResShapeInv, ResAddsInv
<1>6. /\ resKept'.rules = ResKeptRules(q, seen, resConf, resKept.rules)
      /\ resKept'.secret = IF q.op = "saveSecret" /\ q.typed # "masked"
                           THEN q.typed ELSE resKept.secret
      /\ resLast'.refused = refused /\ resLast'.changed = (next # resConf)
      /\ resLast'.again = (q.op = "turnKid" /\ resConf.webs[q.w].kid = q.on)
  BY <1>2
<1> HIDE DEF q, seen, next, refused
<1>7. ResShapeInv'
  <2>1. ResKeptRules(q, seen, resConf, resKept.rules) \subseteq ResRules
    <3>1. q.op = "addRule" => q.r \in ResRules
      BY <1>1 DEF ResWellFormed
    <3> QED BY <1>5, <3>1 DEF ResKeptRules
  <2>2. resKept'.secret \in {"first", "second"}
    BY <1>1, <1>6 DEF ResInv, ResShapeInv, ResWellFormed
  <2>3. resReq' \in [ResTabs -> ResReqs]
    BY <1>2 DEF ResInv, ResShapeInv, ResReqs
  <2>4. resConf' \in ResConfs
    BY <1>2, <1>3 DEF ResSound, next
  <2>5. resRaced' \in BOOLEAN /\ resOverwrote' \in BOOLEAN
    BY <1>2
  <2> QED BY <1>6, <2>1, <2>2, <2>3, <2>4, <2>5 DEF ResShapeInv
<1>8. ResStaysLegal'
  BY <1>2, <1>3 DEF ResInv, ResStaysLegal, ResSound, next
<1>9. ResKeptInv'
  <2> SUFFICES ASSUME ~resOverwrote, ~ResPutsBack(q, seen)
               PROVE  /\ \A r \in ResRules : ResRuleStands(resConf', resKept'.rules, r)
                      /\ resConf'.secret = resKept'.secret
    BY <1>2 DEF ResKeptInv
  <2>1. /\ \A r \in ResRules : ResRuleStands(resConf, resKept.rules, r)
        /\ resConf.secret = resKept.secret
    BY DEF ResInv, ResKeptInv
  <2>2. q.op = "saveRecv" => seen.recv[q.v].rules = resConf.recv[q.v].rules
    BY DEF ResPutsBack
  <2>3. \A r \in ResRules : ResRuleStands(resConf', resKept'.rules, r)
    BY <1>1, <1>2, <1>5, <1>6, <2>1, <2>2, ResRulesStand DEF next
  <2>4. resConf'.secret = resKept'.secret
    <3>1. CASE q.op = "saveSecret"
      <4>1. q.typed = "masked" => seen.secret = resConf.secret
        BY <3>1 DEF ResPutsBack
      <4>2. resConf'.secret = ResSecretOf(seen, q.typed)
        BY <1>1, <1>2, <3>1, ResSecretStands DEF next
      <4> QED BY <1>6, <2>1, <3>1, <4>1, <4>2 DEF ResSecretOf
    <3>2. CASE q.op # "saveSecret"
      BY <1>1, <1>2, <1>6, <2>1, <3>2, ResSecretStands DEF next
    <3> QED BY <3>1, <3>2
  <2> QED BY <2>3, <2>4
<1>10. ResAddsInv'
  <2>1. \A u \in ResTabs : resReq'[u].q.op = "addRule" => u # t /\ resReq'[u] = resReq[u]
    BY <1>4 DEF ResIdle
  <2>2. ASSUME NEW u \in ResTabs, resReq'[u].q.op = "addRule"
        PROVE  /\ resReq'[u].q.r \notin resKept'.rules
               /\ \A o \in ResTabs : resReq'[o].q.op = "addRule" => o = u
    <3>1. u # t /\ resReq'[u] = resReq[u] /\ resReq[u].q.r \notin resKept.rules
      BY <2>1, <2>2 DEF ResInv, ResAddsInv
    <3>2. q.op # "addRule"
      BY <2>1, <2>2, <3>1 DEF ResInv, ResAddsInv, q
    <3>3. ResKeptRules(q, seen, resConf, resKept.rules) \subseteq resKept.rules
      BY <3>2 DEF ResKeptRules
    <3>4. \A o \in ResTabs : resReq'[o].q.op = "addRule" => o = u
      BY <2>1, <2>2 DEF ResInv, ResAddsInv
    <3> QED BY <1>6, <3>1, <3>3, <3>4
  <2> QED BY <2>2 DEF ResAddsInv
<1>11. ResRefusedIsInert'
  BY <1>3, <1>6 DEF ResRefusedIsInert, ResSound, next, refused
<1> QED BY <1>7, <1>8, <1>9, <1>10, <1>11 DEF ResInv

LEMMA ResStepInv == ASSUME ResInv, [ResNext]_resVars PROVE ResInv'
<1>1. CASE UNCHANGED resVars
  BY <1>1 DEF resVars, ResInv, ResShapeInv, ResStaysLegal, ResKeptInv, ResAddsInv,
              ResRefusedIsInert
<1>2. CASE ResNext
  BY <1>2, ResArrivesInv, ResAppliesInv DEF ResNext
<1> QED BY <1>1, <1>2

LEMMA ResShows == ASSUME ResInv PROVE ResourcesHold
<1>1. ASSUME NEW r \in ResRules, ResRuleStands(resConf, resKept.rules, r)
      PROVE  Cardinality({v \in ResReceivers : r \in resConf.recv[v].rules}) =
                IF r \in resKept.rules THEN 1 ELSE 0
  <2> DEFINE in == {v \in ResReceivers : r \in resConf.recv[v].rules}
  <2>1. CASE r \in resKept.rules
    <3>1. PICK v \in ResReceivers :
            \A o \in ResReceivers : r \in resConf.recv[o].rules <=> o = v
      BY <1>1, <2>1 DEF ResRuleStands
    <3>2. in = {v} /\ Cardinality({v}) = 1
      BY <3>1, FS_Singleton
    <3> QED BY <2>1, <3>2
  <2>2. CASE r \notin resKept.rules
    <3>1. in = {}
      BY <1>1, <2>2 DEF ResRuleStands
    <3> QED BY <2>2, <3>1, FS_EmptySet
  <2> QED BY <2>1, <2>2
<1>2. ResNothingLost
  BY <1>1 DEF ResInv, ResKeptInv, ResNothingLost
<1> QED BY <1>2 DEF ResInv, ResourcesHold


-----------------------------------------------------------------------------
(* Listeners. *)

LsnHooks == [spec : [enabled : BOOLEAN, port : LsnPorts, named : BOOLEAN, shared : BOOLEAN],
             srv : LsnPorts \union {0}, err : BOOLEAN, dead : BOOLEAN]
LsnServers == [state : {"none", "up", "failed"}, route : BOOLEAN]

LsnShapeInv ==
    /\ lsnConf \in LsnConfs
    /\ lsnPass \in [at : {"idle", "web", "start", "hook", "bind", "install"},
                    todo : SUBSET LsnPorts, held : LsnPorts \union {0}]
    /\ lsnWeb \in [LsnPorts -> LsnServers] /\ lsnHook \in LsnHooks
    /\ lsnSock \in [LsnPorts -> {"free", "web", "hook", "other"}]
    /\ lsnClosing \in {"no", "begun", "web", "marked", "closed"}
    /\ lsnBound \in [passes : Nat, troubles : Nat]

\* Who has a socket, and what is on record of it.
LsnSocketsInv ==
    /\ \A p \in LsnPorts : lsnWeb[p].state = "up" <=> lsnSock[p] = "web"
    /\ \A p \in LsnPorts : lsnSock[p] = "hook" =>
          lsnHook.srv = p \/ (lsnPass.at = "install" /\ lsnConf.port = p)
    /\ \A p \in LsnPorts : lsnSock[p] = "other" => lsnBound.troubles > 0
    /\ lsnHook.srv # 0 =>
          lsnHook.srv = lsnHook.spec.port /\ (lsnSock[lsnHook.srv] = "hook" \/ lsnHook.err)

\* How far the pass is, and what CloseAll has taken away from it.
LsnPassInv ==
    /\ lsnPass.at \in {"web", "start"} => lsnHook.srv \in {0, lsnPass.held}
    /\ lsnPass.at = "start" =>
          /\ lsnClosing \in {"no", "begun"}
          /\ \A p \in lsnPass.todo : lsnWeb[p] = LsnAbsent /\ lsnConf.web[p] = "on"
    /\ lsnPass.at \in {"bind", "install"} =>
          /\ lsnConf.hook /\ ~LsnShares(lsnConf) /\ lsnHook.spec = LsnSpec(lsnConf)
          /\ lsnHook.srv = 0
    /\ lsnPass.at = "install" => lsnSock[lsnConf.port] = "hook"
    /\ lsnClosing \in {"web", "marked", "closed"} => \A p \in LsnPorts : lsnWeb[p] = LsnAbsent

\* What the pass has given the web services so far.
LsnGiven(p) ==
    IF lsnConf.web[p] # "on" THEN lsnWeb[p] = LsnAbsent
    ELSE /\ lsnWeb[p].state \in {"up", "failed"} /\ lsnWeb[p].route = LsnRoute(lsnConf, p)
         /\ lsnWeb[p].state = "failed" =>
               lsnBound.troubles > 0 \/ (lsnPass.held = p /\ ~LsnRoute(lsnConf, p))
LsnGivenInv ==
    lsnClosing = "no" /\ lsnPass.at # "web" =>
        \A p \in LsnPorts : (lsnPass.at = "start" /\ p \in lsnPass.todo) \/ LsnGiven(p)

\* And what it leaves to the webhook.
LsnHookInv ==
    lsnPass.at = "idle" /\ lsnClosing = "no" =>
        /\ lsnHook.srv # 0 =>
              lsnConf.hook /\ ~LsnShares(lsnConf) /\ lsnHook.srv = lsnConf.port
        /\ lsnConf.hook /\ ~LsnShares(lsnConf) =>
              lsnHook.err \/ (lsnHook.srv = lsnConf.port /\ lsnSock[lsnConf.port] = "hook")

LsnInv == LsnShapeInv /\ LsnSocketsInv /\ LsnPassInv /\ LsnGivenInv /\ LsnHookInv

LEMMA LsnConstants ==
    /\ LsnPorts \subseteq Nat /\ 0 \notin LsnPorts /\ LsnPorts # {}
    /\ LsnNone \in LsnConfs /\ LsnAbsent \in LsnServers
    /\ LsnNone.hook = FALSE /\ \A p \in LsnPorts : LsnNone.web[p] = "off"
<1>1. LsnPorts \subseteq Nat /\ 0 \notin LsnPorts /\ LsnPorts # {}
  BY LsnAssumption
<1>2. PICK n \in LsnPorts : \A m \in LsnPorts : n <= m
  BY <1>1, LeastNatural
<1>3. LsnNone.port \in LsnPorts
  BY <1>2 DEF LsnNone
<1>4. LsnNone \in LsnConfs
  BY <1>3 DEF LsnNone, LsnConfs
<1> QED BY <1>1, <1>4 DEF LsnNone, LsnAbsent, LsnServer, LsnServers

\* The fields of what is shaped so.
LsnFields ==
    /\ lsnConf.web \in [LsnPorts -> {"off", "on", "loop"}] /\ lsnConf.port \in LsnPorts
    /\ lsnConf.hook \in BOOLEAN /\ lsnConf.named \in BOOLEAN
    /\ lsnPass.at \in {"idle", "web", "start", "hook", "bind", "install"}
    /\ lsnPass.todo \in SUBSET LsnPorts /\ lsnPass.held \in LsnPorts \union {0}
    /\ lsnHook.srv \in LsnPorts \union {0} /\ lsnHook.err \in BOOLEAN
    /\ lsnBound.passes \in Nat /\ lsnBound.troubles \in Nat
LEMMA LsnTyped == LsnShapeInv => LsnFields
BY DEF LsnShapeInv, LsnFields, LsnConfs, LsnHooks

LEMMA LsnSpecTyped == ASSUME LsnShapeInv PROVE LsnSpec(lsnConf) \in
    [enabled : BOOLEAN, port : LsnPorts, named : BOOLEAN, shared : BOOLEAN]
BY LsnTyped DEF LsnFields, LsnSpec, LsnShares

LEMMA LsnInitInv == LsnInit => LsnInv
<1> SUFFICES ASSUME LsnInit PROVE LsnInv
  OBVIOUS
<1>1. lsnConf \in LsnConfs /\ lsnConf.hook = FALSE /\ \A p \in LsnPorts : lsnConf.web[p] = "off"
  BY LsnConstants DEF LsnInit
<1>2. LsnSpec(LsnNone) \in [enabled : BOOLEAN, port : LsnPorts, named : BOOLEAN, shared : BOOLEAN]
  BY LsnConstants DEF LsnSpec, LsnShares, LsnConfs
<1>3. LsnShapeInv
  BY <1>1, <1>2, LsnConstants DEF LsnInit, LsnShapeInv, LsnHooks
<1>4. LsnSocketsInv
  BY LsnConstants DEF LsnInit, LsnSocketsInv, LsnAbsent, LsnServer
<1>5. LsnPassInv
  BY DEF LsnInit, LsnPassInv
<1>6. LsnGivenInv
  BY <1>1 DEF LsnInit, LsnGivenInv, LsnGiven
<1>7. LsnHookInv
  BY <1>1 DEF LsnInit, LsnHookInv
<1> QED BY <1>3, <1>4, <1>5, <1>6, <1>7 DEF LsnInv

LEMMA LsnPassBeginsInv == ASSUME LsnInv, LsnPassBegins PROVE LsnInv'
<1>1. LsnFields /\ LsnShapeInv /\ LsnSocketsInv /\ LsnPassInv /\ LsnGivenInv /\ LsnHookInv
  BY LsnTyped DEF LsnInv
<1>2. LsnShapeInv'
  BY <1>1, LsnConstants DEF LsnPassBegins, LsnRest, LsnFields, LsnShapeInv, LsnHooks
<1>3. LsnSocketsInv'
  BY <1>1, LsnConstants DEF LsnPassBegins, LsnRest, LsnFields, LsnSocketsInv, LsnPassInv
<1>4. LsnPassInv'
  BY <1>1, LsnConstants DEF LsnPassBegins, LsnRest, LsnFields, LsnPassInv, LsnSocketsInv, LsnShares, LsnSpec
<1>5. LsnGivenInv'
  BY <1>1, LsnConstants DEF LsnPassBegins, LsnRest, LsnFields, LsnGivenInv, LsnGiven, LsnPassInv, LsnSocketsInv, LsnRoute, LsnShares
<1>6. LsnHookInv'
  BY <1>1, LsnConstants DEF LsnPassBegins, LsnRest, LsnFields, LsnHookInv, LsnPassInv, LsnSocketsInv, LsnShares
<1> QED BY <1>2, <1>3, <1>4, <1>5, <1>6 DEF LsnInv

LEMMA LsnWebRefusesInv == ASSUME LsnInv, LsnWebRefuses PROVE LsnInv'
<1>1. LsnFields /\ LsnShapeInv /\ LsnSocketsInv /\ LsnPassInv /\ LsnGivenInv /\ LsnHookInv
  BY LsnTyped DEF LsnInv
<1>2. LsnShapeInv'
  BY <1>1, LsnConstants DEF LsnWebRefuses, LsnRest, LsnFields, LsnShapeInv, LsnHooks
<1>3. LsnSocketsInv'
  BY <1>1, LsnConstants DEF LsnWebRefuses, LsnRest, LsnFields, LsnSocketsInv, LsnPassInv
<1>4. LsnPassInv'
  BY <1>1, LsnConstants DEF LsnWebRefuses, LsnRest, LsnFields, LsnPassInv, LsnSocketsInv, LsnShares, LsnSpec
<1>5. LsnGivenInv'
  BY <1>1, LsnConstants DEF LsnWebRefuses, LsnRest, LsnFields, LsnGivenInv, LsnGiven, LsnPassInv, LsnSocketsInv, LsnRoute, LsnShares
<1>6. LsnHookInv'
  BY <1>1, LsnConstants DEF LsnWebRefuses, LsnRest, LsnFields, LsnHookInv, LsnPassInv, LsnSocketsInv, LsnShares
<1> QED BY <1>2, <1>3, <1>4, <1>5, <1>6 DEF LsnInv

LEMMA LsnWebDoneInv == ASSUME LsnInv, LsnWebDone PROVE LsnInv'
<1>1. LsnFields /\ LsnShapeInv /\ LsnSocketsInv /\ LsnPassInv /\ LsnGivenInv /\ LsnHookInv
  BY LsnTyped DEF LsnInv
<1>2. LsnShapeInv'
  BY <1>1, LsnConstants DEF LsnWebDone, LsnRest, LsnFields, LsnShapeInv, LsnHooks
<1>3. LsnSocketsInv'
  BY <1>1, LsnConstants DEF LsnWebDone, LsnRest, LsnFields, LsnSocketsInv, LsnPassInv
<1>4. LsnPassInv'
  BY <1>1, LsnConstants DEF LsnWebDone, LsnRest, LsnFields, LsnPassInv, LsnSocketsInv, LsnShares, LsnSpec
<1>5. LsnGivenInv'
  BY <1>1, LsnConstants DEF LsnWebDone, LsnRest, LsnFields, LsnGivenInv, LsnGiven, LsnPassInv, LsnSocketsInv, LsnRoute, LsnShares
<1>6. LsnHookInv'
  BY <1>1, LsnConstants DEF LsnWebDone, LsnRest, LsnFields, LsnHookInv, LsnPassInv, LsnSocketsInv, LsnShares
<1> QED BY <1>2, <1>3, <1>4, <1>5, <1>6 DEF LsnInv

LEMMA LsnHookStaysInv == ASSUME LsnInv, LsnHookStays PROVE LsnInv'
<1>1. LsnFields /\ LsnShapeInv /\ LsnSocketsInv /\ LsnPassInv /\ LsnGivenInv /\ LsnHookInv
  BY LsnTyped DEF LsnInv
<1>2. LsnShapeInv'
  BY <1>1, LsnConstants DEF LsnHookStays, LsnRest, LsnFields, LsnShapeInv, LsnHooks
<1>3. LsnSocketsInv'
  BY <1>1, LsnConstants DEF LsnHookStays, LsnRest, LsnFields, LsnSocketsInv, LsnPassInv
<1>4. LsnPassInv'
  BY <1>1, LsnConstants DEF LsnHookStays, LsnRest, LsnFields, LsnPassInv, LsnSocketsInv, LsnShares, LsnSpec
<1>5. LsnGivenInv'
  BY <1>1, LsnConstants DEF LsnHookStays, LsnRest, LsnFields, LsnGivenInv, LsnGiven, LsnPassInv, LsnSocketsInv, LsnRoute, LsnShares
<1>6. LsnHookInv'
  BY <1>1, LsnConstants DEF LsnHookStays, LsnRest, LsnFields, LsnHookInv, LsnPassInv, LsnSocketsInv, LsnShares, LsnHookSame, LsnSpec
<1> QED BY <1>2, <1>3, <1>4, <1>5, <1>6 DEF LsnInv

LEMMA LsnHookFailsInv == ASSUME LsnInv, LsnHookFails PROVE LsnInv'
<1>1. LsnFields /\ LsnShapeInv /\ LsnSocketsInv /\ LsnPassInv /\ LsnGivenInv /\ LsnHookInv
  BY LsnTyped DEF LsnInv
<1>a. /\ lsnPass' = [at |-> "idle", todo |-> lsnPass.todo, held |-> lsnPass.held]
      /\ lsnHook' = [spec |-> lsnHook.spec, srv |-> lsnHook.srv, err |-> TRUE, dead |-> lsnHook.dead]
      /\ lsnBound'.passes = lsnBound.passes /\ lsnBound'.troubles >= lsnBound.troubles
      /\ lsnBound' \in [passes : Nat, troubles : Nat]
      /\ UNCHANGED <<lsnConf, lsnWeb, lsnSock, lsnClosing>>
  <2>1. lsnBound' = lsnBound
        \/ lsnBound' = [passes |-> lsnBound.passes, troubles |-> lsnBound.troubles + 1]
    BY <1>1 DEF LsnHookFails, LsnShapeInv
  <2>2. /\ lsnBound'.passes = lsnBound.passes /\ lsnBound'.troubles >= lsnBound.troubles
        /\ lsnBound' \in [passes : Nat, troubles : Nat]
    BY <1>1, <2>1 DEF LsnShapeInv, LsnFields
  <2> QED BY <1>1, <2>2 DEF LsnHookFails, LsnShapeInv, LsnHooks
<1>b. lsnHook.srv = 0 /\ lsnPass.at = "bind"
  BY <1>1 DEF LsnHookFails, LsnPassInv
<1>2. LsnShapeInv'
  BY <1>1, <1>a, <1>b, LsnConstants DEF LsnRest, LsnFields, LsnShapeInv, LsnHooks
<1>3. LsnSocketsInv'
  BY <1>1, <1>a, <1>b, LsnConstants DEF LsnRest, LsnFields, LsnSocketsInv, LsnPassInv
<1>4. LsnPassInv'
  BY <1>1, <1>a, <1>b, LsnConstants DEF LsnRest, LsnFields, LsnPassInv, LsnSocketsInv, LsnShares, LsnSpec
<1>5. LsnGivenInv'
  BY <1>1, <1>a, <1>b, LsnConstants DEF LsnRest, LsnFields, LsnGivenInv, LsnGiven, LsnPassInv, LsnSocketsInv, LsnRoute, LsnShares
<1>6. LsnHookInv'
  BY <1>1, <1>a, <1>b, LsnConstants DEF LsnRest, LsnFields, LsnHookInv, LsnPassInv, LsnSocketsInv, LsnShares
<1> QED BY <1>2, <1>3, <1>4, <1>5, <1>6 DEF LsnInv

LEMMA LsnHookListensInv == ASSUME LsnInv, LsnHookListens PROVE LsnInv'
<1>1. LsnFields /\ LsnShapeInv /\ LsnSocketsInv /\ LsnPassInv /\ LsnGivenInv /\ LsnHookInv
  BY LsnTyped DEF LsnInv
<1>a. /\ lsnPass' = [at |-> "install", todo |-> lsnPass.todo, held |-> lsnPass.held]
      /\ lsnPass.at = "bind" /\ lsnSock'[lsnConf.port] = "hook"
      /\ UNCHANGED <<lsnConf, lsnWeb, lsnHook, lsnClosing>>
  BY <1>1 DEF LsnHookListens, LsnRest, LsnShapeInv, LsnFields
<1>2. LsnShapeInv'
  BY <1>1, LsnConstants DEF LsnHookListens, LsnRest, LsnFields, LsnShapeInv, LsnHooks
<1>3. LsnSocketsInv'
  BY <1>1, LsnConstants DEF LsnHookListens, LsnRest, LsnFields, LsnSocketsInv, LsnPassInv
<1>4. LsnPassInv'
  BY <1>1, <1>a, LsnConstants DEF LsnRest, LsnFields, LsnPassInv, LsnSocketsInv, LsnShares, LsnSpec
<1>5. LsnGivenInv'
  BY <1>1, LsnConstants DEF LsnHookListens, LsnRest, LsnFields, LsnGivenInv, LsnGiven, LsnPassInv, LsnSocketsInv, LsnRoute, LsnShares
<1>6. LsnHookInv'
  BY <1>1, LsnConstants DEF LsnHookListens, LsnRest, LsnFields, LsnHookInv, LsnPassInv, LsnSocketsInv, LsnShares
<1> QED BY <1>2, <1>3, <1>4, <1>5, <1>6 DEF LsnInv

LEMMA LsnHookInstallsInv == ASSUME LsnInv, LsnHookInstalls PROVE LsnInv'
<1>1. LsnFields /\ LsnShapeInv /\ LsnSocketsInv /\ LsnPassInv /\ LsnGivenInv /\ LsnHookInv
  BY LsnTyped DEF LsnInv
<1>a. /\ lsnPass' = [at |-> "idle", todo |-> lsnPass.todo, held |-> lsnPass.held]
      /\ lsnHook' = [spec |-> lsnHook.spec, srv |-> lsnConf.port, err |-> lsnHook.err,
                     dead |-> lsnHook.dead]
      /\ UNCHANGED <<lsnConf, lsnWeb, lsnSock, lsnClosing, lsnBound>>
      /\ lsnPass.at = "install" /\ lsnHook.srv = 0 /\ lsnHook.spec = LsnSpec(lsnConf)
      /\ lsnSock[lsnConf.port] = "hook" /\ lsnHook.spec.port = lsnConf.port
  BY <1>1 DEF LsnHookInstalls, LsnRest, LsnShapeInv, LsnHooks, LsnPassInv, LsnSpec
<1>2. LsnShapeInv'
  BY <1>1, LsnConstants DEF LsnHookInstalls, LsnRest, LsnFields, LsnShapeInv, LsnHooks
<1>3. LsnSocketsInv'
  BY <1>1, <1>a, LsnConstants DEF LsnRest, LsnFields, LsnSocketsInv, LsnPassInv
<1>4. LsnPassInv'
  BY <1>1, LsnConstants DEF LsnHookInstalls, LsnRest, LsnFields, LsnPassInv, LsnSocketsInv, LsnShares, LsnSpec
<1>5. LsnGivenInv'
  BY <1>1, LsnConstants DEF LsnHookInstalls, LsnRest, LsnFields, LsnGivenInv, LsnGiven, LsnPassInv, LsnSocketsInv, LsnRoute, LsnShares
<1>6. LsnHookInv'
  BY <1>1, LsnConstants DEF LsnHookInstalls, LsnRest, LsnFields, LsnHookInv, LsnPassInv, LsnSocketsInv, LsnShares
<1> QED BY <1>2, <1>3, <1>4, <1>5, <1>6 DEF LsnInv

LEMMA LsnCloseInv == ASSUME LsnInv, LsnClose PROVE LsnInv'
<1>1. LsnFields /\ LsnShapeInv /\ LsnSocketsInv /\ LsnPassInv /\ LsnGivenInv /\ LsnHookInv
  BY LsnTyped DEF LsnInv
<1>2. LsnShapeInv'
  BY <1>1, LsnConstants DEF LsnClose, LsnRest, LsnFields, LsnShapeInv, LsnHooks
<1>3. LsnSocketsInv'
  BY <1>1, LsnConstants DEF LsnClose, LsnRest, LsnFields, LsnSocketsInv, LsnPassInv
<1>4. LsnPassInv'
  BY <1>1, LsnConstants DEF LsnClose, LsnRest, LsnFields, LsnPassInv, LsnSocketsInv, LsnShares, LsnSpec
<1>5. LsnGivenInv'
  BY <1>1, LsnConstants DEF LsnClose, LsnRest, LsnFields, LsnGivenInv, LsnGiven, LsnPassInv, LsnSocketsInv, LsnRoute, LsnShares
<1>6. LsnHookInv'
  BY <1>1, LsnConstants DEF LsnClose, LsnRest, LsnFields, LsnHookInv, LsnPassInv, LsnSocketsInv, LsnShares
<1> QED BY <1>2, <1>3, <1>4, <1>5, <1>6 DEF LsnInv

LEMMA LsnCloseHookInv == ASSUME LsnInv, LsnCloseHook PROVE LsnInv'
<1>1. LsnFields /\ LsnShapeInv /\ LsnSocketsInv /\ LsnPassInv /\ LsnGivenInv /\ LsnHookInv
  BY LsnTyped DEF LsnInv
<1>2. LsnShapeInv'
  BY <1>1, LsnConstants DEF LsnCloseHook, LsnRest, LsnFields, LsnShapeInv, LsnHooks
<1>3. LsnSocketsInv'
  BY <1>1, LsnConstants DEF LsnCloseHook, LsnRest, LsnFields, LsnSocketsInv, LsnPassInv
<1>4. LsnPassInv'
  BY <1>1, LsnConstants DEF LsnCloseHook, LsnRest, LsnFields, LsnPassInv, LsnSocketsInv, LsnShares, LsnSpec
<1>5. LsnGivenInv'
  BY <1>1, LsnConstants DEF LsnCloseHook, LsnRest, LsnFields, LsnGivenInv, LsnGiven, LsnPassInv, LsnSocketsInv, LsnRoute, LsnShares
<1>6. LsnHookInv'
  BY <1>1, LsnConstants DEF LsnCloseHook, LsnRest, LsnFields, LsnHookInv, LsnPassInv, LsnSocketsInv, LsnShares
<1> QED BY <1>2, <1>3, <1>4, <1>5, <1>6 DEF LsnInv

LEMMA LsnWebClosesInv == ASSUME LsnInv, LsnWebCloses PROVE LsnInv'
<1>1. LsnFields /\ LsnShapeInv /\ LsnSocketsInv /\ LsnPassInv /\ LsnGivenInv /\ LsnHookInv
  BY LsnTyped DEF LsnInv
<1>2. LsnShapeInv'
  BY <1>1, LsnConstants DEF LsnWebCloses, LsnRest, LsnFields, LsnShapeInv, LsnHooks, LsnStale, LsnServer, LsnAbsent, LsnGroups, LsnServers
<1>3. LsnSocketsInv'
  BY <1>1, LsnConstants DEF LsnWebCloses, LsnRest, LsnFields, LsnSocketsInv, LsnPassInv, LsnStale, LsnServer, LsnAbsent, LsnGroups, LsnServers
<1>4. LsnPassInv'
  BY <1>1, LsnConstants DEF LsnWebCloses, LsnRest, LsnFields, LsnPassInv, LsnSocketsInv, LsnShares, LsnSpec, LsnStale, LsnServer, LsnAbsent, LsnGroups, LsnServers
<1>5. LsnGivenInv'
  <2>1. lsnPass'.at = "start" /\ UNCHANGED <<lsnConf, lsnClosing, lsnBound>>
    BY <1>1 DEF LsnWebCloses, LsnRest, LsnShapeInv
  <2>2. \A p \in LsnPorts :
           /\ lsnWeb'[p] = IF p \in LsnStale THEN LsnAbsent ELSE lsnWeb[p]
           /\ p \in lsnPass'.todo <=> lsnConf.web[p] = "on" /\ lsnWeb'[p] = LsnAbsent
    BY <1>1 DEF LsnWebCloses, LsnShapeInv
  <2>3. ASSUME NEW p \in LsnPorts, p \notin lsnPass'.todo
        PROVE  LsnGiven(p)'
    <3>1. CASE lsnWeb'[p] = LsnAbsent
      BY <2>1, <2>2, <2>3, <3>1 DEF LsnGiven
    <3>2. CASE lsnWeb'[p] # LsnAbsent
      <4>1. p \notin LsnStale /\ lsnWeb'[p] = lsnWeb[p] /\ lsnWeb[p] # LsnAbsent
        BY <2>2, <3>2
      <4>2. /\ lsnWeb[p] = LsnServer("up", LsnRoute(lsnConf, p)) /\ lsnConf.web[p] # "loop"
            /\ lsnConf.web[p] # "off"
        BY <4>1 DEF LsnStale, LsnGroups
      <4>3. lsnConf.web[p] = "on"
        BY <1>1, <4>2 DEF LsnFields
      <4>4. /\ lsnWeb[p].state = "up" /\ lsnWeb[p].route = LsnRoute(lsnConf, p)
        BY <4>2 DEF LsnServer
      <4>5. LsnRoute(lsnConf, p)' = LsnRoute(lsnConf, p)
        BY <2>1 DEF LsnRoute, LsnShares
      <4> QED BY <2>1, <4>1, <4>3, <4>4, <4>5 DEF LsnGiven
    <3> QED BY <3>1, <3>2
  <2> QED BY <2>1, <2>3 DEF LsnGivenInv
<1>6. LsnHookInv'
  BY <1>1, LsnConstants DEF LsnWebCloses, LsnRest, LsnFields, LsnHookInv, LsnPassInv, LsnSocketsInv, LsnShares, LsnStale, LsnServer, LsnAbsent, LsnGroups, LsnServers
<1> QED BY <1>2, <1>3, <1>4, <1>5, <1>6 DEF LsnInv

LEMMA LsnHookStopsInv == ASSUME LsnInv, LsnHookStops PROVE LsnInv'
<1>1. LsnFields /\ LsnShapeInv /\ LsnSocketsInv /\ LsnPassInv /\ LsnGivenInv /\ LsnHookInv
  BY LsnTyped DEF LsnInv
<1>2. LsnShapeInv'
  BY <1>1, LsnSpecTyped, LsnConstants DEF LsnHookStops, LsnRest, LsnFields, LsnShapeInv, LsnHooks, LsnHookFreed
<1>3. LsnSocketsInv'
  <2>1. /\ UNCHANGED <<lsnConf, lsnWeb, lsnBound>> /\ lsnHook'.srv = 0 /\ lsnHook'.err = FALSE
        /\ lsnPass.at # "install" \/ lsnPass' = lsnPass
    BY <1>1 DEF LsnHookStops, LsnRest, LsnShapeInv, LsnHooks
  <2>2. lsnSock' = LsnHookFreed
    BY DEF LsnHookStops
  <2>3. \A q \in LsnPorts : lsnSock'[q] = IF q = lsnHook.srv /\ lsnSock[q] = "hook" THEN "free"
                                          ELSE lsnSock[q]
    BY <1>1, <2>2, LsnConstants DEF LsnHookFreed, LsnShapeInv, LsnFields
  <2> QED BY <1>1, <2>1, <2>3, LsnConstants DEF LsnSocketsInv, LsnFields
<1>4. LsnPassInv'
  BY <1>1, LsnConstants DEF LsnHookStops, LsnRest, LsnFields, LsnPassInv, LsnSocketsInv, LsnShares, LsnSpec, LsnHookFreed
<1>5. LsnGivenInv'
  BY <1>1, LsnConstants DEF LsnHookStops, LsnRest, LsnFields, LsnGivenInv, LsnGiven, LsnPassInv, LsnSocketsInv, LsnRoute, LsnShares, LsnHookFreed
<1>6. LsnHookInv'
  BY <1>1, LsnConstants DEF LsnHookStops, LsnRest, LsnFields, LsnHookInv, LsnPassInv, LsnSocketsInv, LsnShares, LsnHookFreed
<1> QED BY <1>2, <1>3, <1>4, <1>5, <1>6 DEF LsnInv

LEMMA LsnCloseWebInv == ASSUME LsnInv, LsnCloseWeb PROVE LsnInv'
<1>1. LsnFields /\ LsnShapeInv /\ LsnSocketsInv /\ LsnPassInv /\ LsnGivenInv /\ LsnHookInv
  BY LsnTyped DEF LsnInv
<1>2. LsnShapeInv'
  BY <1>1, LsnConstants DEF LsnCloseWeb, LsnRest, LsnFields, LsnShapeInv, LsnHooks, LsnAbsent, LsnServer, LsnServers, LsnWebBusy
<1>3. LsnSocketsInv'
  BY <1>1, LsnConstants DEF LsnCloseWeb, LsnRest, LsnFields, LsnSocketsInv, LsnPassInv, LsnAbsent, LsnServer, LsnServers, LsnWebBusy
<1>4. LsnPassInv'
  BY <1>1, LsnConstants DEF LsnCloseWeb, LsnRest, LsnFields, LsnPassInv, LsnSocketsInv, LsnShares, LsnSpec, LsnAbsent, LsnServer, LsnServers, LsnWebBusy
<1>5. LsnGivenInv'
  BY <1>1, LsnConstants DEF LsnCloseWeb, LsnRest, LsnFields, LsnGivenInv, LsnGiven, LsnPassInv, LsnSocketsInv, LsnRoute, LsnShares, LsnAbsent, LsnServer, LsnServers, LsnWebBusy
<1>6. LsnHookInv'
  BY <1>1, LsnConstants DEF LsnCloseWeb, LsnRest, LsnFields, LsnHookInv, LsnPassInv, LsnSocketsInv, LsnShares, LsnAbsent, LsnServer, LsnServers, LsnWebBusy
<1> QED BY <1>2, <1>3, <1>4, <1>5, <1>6 DEF LsnInv

LEMMA LsnCloseHookStopsInv == ASSUME LsnInv, LsnCloseHookStops PROVE LsnInv'
<1>1. LsnFields /\ LsnShapeInv /\ LsnSocketsInv /\ LsnPassInv /\ LsnGivenInv /\ LsnHookInv
  BY LsnTyped DEF LsnInv
<1>2. LsnShapeInv'
  BY <1>1, LsnConstants DEF LsnCloseHookStops, LsnRest, LsnFields, LsnShapeInv, LsnHooks, LsnHookFreed
<1>3. LsnSocketsInv'
  <2>1. /\ UNCHANGED <<lsnConf, lsnWeb, lsnBound>> /\ lsnHook'.srv = 0 /\ lsnPass' = lsnPass
        /\ lsnPass.at # "install" \/ lsnPass' = lsnPass
    BY <1>1 DEF LsnCloseHookStops, LsnRest, LsnShapeInv, LsnHooks
  <2>2. lsnSock' = LsnHookFreed
    BY DEF LsnCloseHookStops
  <2>3. \A q \in LsnPorts : lsnSock'[q] = IF q = lsnHook.srv /\ lsnSock[q] = "hook" THEN "free"
                                          ELSE lsnSock[q]
    BY <1>1, <2>2, LsnConstants DEF LsnHookFreed, LsnShapeInv, LsnFields
  <2> QED BY <1>1, <2>1, <2>3, LsnConstants DEF LsnSocketsInv, LsnFields
<1>4. LsnPassInv'
  BY <1>1, LsnConstants DEF LsnCloseHookStops, LsnRest, LsnFields, LsnPassInv, LsnSocketsInv, LsnShares, LsnSpec, LsnHookFreed
<1>5. LsnGivenInv'
  BY <1>1, LsnConstants DEF LsnCloseHookStops, LsnRest, LsnFields, LsnGivenInv, LsnGiven, LsnPassInv, LsnSocketsInv, LsnRoute, LsnShares, LsnHookFreed
<1>6. LsnHookInv'
  BY <1>1, LsnConstants DEF LsnCloseHookStops, LsnRest, LsnFields, LsnHookInv, LsnPassInv, LsnSocketsInv, LsnShares, LsnHookFreed
<1> QED BY <1>2, <1>3, <1>4, <1>5, <1>6 DEF LsnInv

LEMMA LsnOtherInv == ASSUME LsnInv, NEW p \in LsnPorts, LsnOther(p) PROVE LsnInv'
<1>1. LsnFields /\ LsnShapeInv /\ LsnSocketsInv /\ LsnPassInv /\ LsnGivenInv /\ LsnHookInv
  BY LsnTyped DEF LsnInv
<1>2. LsnShapeInv'
  BY <1>1, LsnConstants DEF LsnOther, LsnRest, LsnFields, LsnShapeInv, LsnHooks, LsnTrouble
<1>3. LsnSocketsInv'
  BY <1>1, LsnConstants DEF LsnOther, LsnRest, LsnFields, LsnSocketsInv, LsnPassInv, LsnTrouble
<1>4. LsnPassInv'
  BY <1>1, LsnConstants DEF LsnOther, LsnRest, LsnFields, LsnPassInv, LsnSocketsInv, LsnShares, LsnSpec, LsnTrouble
<1>5. LsnGivenInv'
  BY <1>1, LsnConstants DEF LsnOther, LsnRest, LsnFields, LsnGivenInv, LsnGiven, LsnPassInv, LsnSocketsInv, LsnRoute, LsnShares, LsnTrouble
<1>6. LsnHookInv'
  BY <1>1, LsnConstants DEF LsnOther, LsnRest, LsnFields, LsnHookInv, LsnPassInv, LsnSocketsInv, LsnShares, LsnTrouble
<1> QED BY <1>2, <1>3, <1>4, <1>5, <1>6 DEF LsnInv

LEMMA LsnServeEndsInv == ASSUME LsnInv, NEW p \in LsnPorts, LsnServeEnds(p) PROVE LsnInv'
<1>1. LsnFields /\ LsnShapeInv /\ LsnSocketsInv /\ LsnPassInv /\ LsnGivenInv /\ LsnHookInv
  BY LsnTyped DEF LsnInv
<1>a. /\ lsnPass.at = "idle" /\ lsnBound' = [passes |-> lsnBound.passes, troubles |-> lsnBound.troubles + 1]
      /\ UNCHANGED <<lsnConf, lsnPass, lsnClosing>>
  BY <1>1 DEF LsnServeEnds, LsnTrouble, LsnShapeInv
<1>b. /\ lsnSock' \in [LsnPorts -> {"free", "web", "hook", "other"}]
      /\ \A q \in LsnPorts : lsnSock'[q] = IF q = p THEN "free" ELSE lsnSock[q]
  BY <1>1 DEF LsnServeEnds, LsnShapeInv
<1>c. /\ lsnWeb' \in [LsnPorts -> LsnServers]
      /\ \A q \in LsnPorts : lsnWeb'[q] = IF q = p /\ lsnSock[p] = "web"
             THEN [state |-> "failed", route |-> lsnWeb[p].route] ELSE lsnWeb[q]
  BY <1>1 DEF LsnServeEnds, LsnShapeInv, LsnServers
<1>d. lsnHook' = IF lsnSock[p] = "hook"
             THEN [spec |-> lsnHook.spec, srv |-> lsnHook.srv, err |-> TRUE, dead |-> TRUE]
             ELSE lsnHook
  BY <1>1 DEF LsnServeEnds, LsnShapeInv, LsnHooks
<1>e. \A q \in LsnPorts : lsnWeb'[q].state = "up" <=> lsnSock'[q] = "web"
  BY <1>1, <1>b, <1>c DEF LsnSocketsInv
<1>f. lsnSock[p] = "web" => lsnWeb[p] # LsnAbsent
  BY <1>1 DEF LsnSocketsInv, LsnAbsent, LsnServer
<1>g. lsnSock[p] \in {"web", "hook"}
  BY DEF LsnServeEnds
<1>2. LsnShapeInv'
  BY <1>1, <1>a, <1>b, <1>c, <1>d, <1>e, <1>f, <1>g, LsnConstants DEF LsnFields, LsnShapeInv, LsnHooks
<1>3. LsnSocketsInv'
  BY <1>1, <1>a, <1>b, <1>c, <1>d, <1>e, <1>f, <1>g, LsnConstants DEF LsnFields, LsnSocketsInv, LsnPassInv
<1>4. LsnPassInv'
  BY <1>1, <1>a, <1>b, <1>c, <1>d, <1>e, <1>f, <1>g, LsnConstants DEF LsnFields, LsnPassInv, LsnSocketsInv, LsnShares, LsnSpec
<1>5. LsnGivenInv'
  BY <1>1, <1>a, <1>b, <1>c, <1>d, <1>e, <1>f, <1>g, LsnConstants DEF LsnFields, LsnGivenInv, LsnGiven, LsnPassInv, LsnSocketsInv, LsnRoute, LsnShares
<1>6. LsnHookInv'
  BY <1>1, <1>a, <1>b, <1>c, <1>d, <1>e, <1>f, <1>g, LsnConstants DEF LsnFields, LsnHookInv, LsnPassInv, LsnSocketsInv, LsnShares
<1> QED BY <1>2, <1>3, <1>4, <1>5, <1>6 DEF LsnInv

LEMMA LsnWebStartsInv == ASSUME LsnInv, NEW p \in LsnPorts, LsnWebStarts(p) PROVE LsnInv'
<1>1. LsnFields /\ LsnShapeInv /\ LsnSocketsInv /\ LsnPassInv /\ LsnGivenInv /\ LsnHookInv
  BY LsnTyped DEF LsnInv
<1>a. /\ lsnPass.at = "start" /\ p \in lsnPass.todo /\ lsnWeb[p] = LsnAbsent
      /\ lsnPass' = [at |-> "start", todo |-> lsnPass.todo \ {p}, held |-> lsnPass.held]
      /\ UNCHANGED <<lsnConf, lsnClosing, lsnBound>>
  BY <1>1 DEF LsnWebStarts, LsnRest, LsnShapeInv, LsnPassInv
<1> DEFINE freed == IF LsnReleases(p) /\ lsnSock[p] = "hook" THEN [lsnSock EXCEPT ![p] = "free"]
                    ELSE lsnSock
           state == IF freed[p] = "free" THEN "up" ELSE "failed"
<1>b. /\ lsnWeb' = [lsnWeb EXCEPT ![p] = LsnServer(state, LsnRoute(lsnConf, p))]
      /\ lsnSock' = IF state = "up" THEN [freed EXCEPT ![p] = "web"] ELSE freed
      /\ lsnHook' = IF LsnReleases(p) THEN [lsnHook EXCEPT !.srv = 0] ELSE lsnHook
  BY DEF LsnWebStarts
<1>c. /\ freed \in [LsnPorts -> {"free", "web", "hook", "other"}] /\ freed[p] # "web"
      /\ \A q \in LsnPorts : q # p => freed[q] = lsnSock[q]
      /\ freed[p] = lsnSock[p] \/ (freed[p] = "free" /\ LsnReleases(p))
      /\ freed[p] = "hook" => ~LsnReleases(p)
  BY <1>1, <1>a DEF LsnShapeInv, LsnSocketsInv, LsnAbsent, LsnServer
<1>d. LsnRoute(lsnConf, p) \in BOOLEAN
  BY <1>1 DEF LsnFields, LsnRoute, LsnShares
<1> HIDE DEF freed
<1>e. state \in {"up", "failed"} /\ (state = "up" <=> freed[p] = "free")
  OBVIOUS
<1> HIDE DEF state
<1>f. /\ lsnWeb' \in [LsnPorts -> LsnServers]
      /\ \A q \in LsnPorts : q # p => lsnWeb'[q] = lsnWeb[q]
      /\ lsnWeb'[p].state = state /\ lsnWeb'[p].route = LsnRoute(lsnConf, p)
  BY <1>1, <1>b, <1>d, <1>e DEF LsnShapeInv, LsnServer, LsnServers
<1>g. /\ lsnSock' \in [LsnPorts -> {"free", "web", "hook", "other"}]
      /\ \A q \in LsnPorts : q # p => lsnSock'[q] = lsnSock[q]
      /\ lsnSock'[p] = IF state = "up" THEN "web" ELSE freed[p]
  <2>1. CASE state = "up"
    BY <1>b, <1>c, <2>1
  <2>2. CASE state # "up"
    BY <1>b, <1>c, <2>2
  <2> QED BY <2>1, <2>2
<1>h. /\ lsnHook' \in LsnHooks /\ lsnHook'.spec = lsnHook.spec /\ lsnHook'.err = lsnHook.err
      /\ lsnHook'.srv = IF LsnReleases(p) THEN 0 ELSE lsnHook.srv
  BY <1>1, <1>b DEF LsnShapeInv, LsnHooks
<1>i. lsnSock'[p] # "free" /\ (lsnSock'[p] = "web" <=> state = "up")
  BY <1>c, <1>e, <1>g
<1>j. state = "failed" => lsnSock'[p] = lsnSock[p] /\ lsnSock[p] \in {"hook", "other"}
                          /\ (lsnSock[p] = "hook" => ~LsnReleases(p))
  BY <1>c, <1>e, <1>g
<1>2. LsnShapeInv'
  BY <1>1, <1>a, <1>c, <1>e, <1>f, <1>g, <1>h, <1>i, <1>j, LsnConstants DEF LsnFields, LsnShapeInv, LsnHooks, LsnReleases
<1>k. lsnHook.srv # 0 => lsnHook.srv = lsnHook.spec.port
                        /\ (lsnSock[lsnHook.srv] = "hook" \/ lsnHook.err)
  BY <1>1 DEF LsnSocketsInv
<1>l. LsnReleases(p) => lsnHook.srv = p /\ LsnRoute(lsnConf, p)
  BY <1>k DEF LsnReleases
<1>m. lsnHook.srv = p /\ LsnRoute(lsnConf, p) => LsnReleases(p)
  BY <1>k, LsnConstants DEF LsnReleases
<1>3. LsnSocketsInv'
  <2>1. \A q \in LsnPorts : lsnWeb'[q].state = "up" <=> lsnSock'[q] = "web"
    BY <1>1, <1>f, <1>g, <1>i DEF LsnSocketsInv
  <2>2. ASSUME NEW q \in LsnPorts, lsnSock'[q] = "hook" PROVE lsnHook'.srv = q
    <3>1. lsnSock[q] = "hook" /\ (q = p => ~LsnReleases(p))
      BY <1>e, <1>g, <1>i, <1>j, <2>2
    <3>2. lsnHook.srv = q
      BY <1>1, <1>a, <3>1 DEF LsnSocketsInv
    <3> QED BY <1>h, <1>l, <3>1, <3>2
  <2>3. ASSUME NEW q \in LsnPorts, lsnSock'[q] = "other" PROVE lsnBound'.troubles > 0
    <3>1. lsnSock[q] = "other"
      BY <1>e, <1>g, <1>i, <1>j, <2>3
    <3> QED BY <1>1, <1>a, <3>1 DEF LsnSocketsInv
  <2>4. ASSUME lsnHook'.srv # 0
        PROVE  lsnHook'.srv = lsnHook'.spec.port
               /\ (lsnSock'[lsnHook'.srv] = "hook" \/ lsnHook'.err)
    <3>1. lsnHook'.srv = lsnHook.srv /\ lsnHook.srv # 0 /\ lsnHook.srv \in LsnPorts
          /\ ~LsnReleases(p)
      BY <1>1, <1>h, <2>4 DEF LsnFields
    <3>2. CASE lsnHook.err
      BY <1>h, <1>k, <3>1, <3>2
    <3>3. CASE ~lsnHook.err
      <4>1. lsnSock[lsnHook.srv] = "hook"
        BY <1>k, <3>1, <3>3
      <4>2. lsnHook.srv = p => lsnSock'[p] = "hook"
        BY <1>c, <1>e, <1>g, <3>1, <4>1
      <4> QED BY <1>g, <1>h, <1>k, <3>1, <4>1, <4>2
    <3> QED BY <3>2, <3>3
  <2> QED BY <2>1, <2>2, <2>3, <2>4 DEF LsnSocketsInv
<1>4. LsnPassInv'
  <2>1. lsnHook'.srv \in {0, lsnPass'.held}
    BY <1>1, <1>a, <1>h DEF LsnPassInv
  <2>2. lsnClosing' \in {"no", "begun"} /\ \A q \in lsnPass'.todo : lsnWeb'[q] = LsnAbsent /\ lsnConf'.web[q] = "on"
    BY <1>1, <1>a, <1>f DEF LsnPassInv, LsnFields
  <2> QED BY <1>a, <2>1, <2>2 DEF LsnPassInv
<1>5. LsnGivenInv'
  <2> SUFFICES ASSUME lsnClosing = "no", NEW q \in LsnPorts, q \notin lsnPass'.todo
               PROVE  LsnGiven(q)'
    BY <1>a DEF LsnGivenInv
  <2>1. LsnRoute(lsnConf, q)' = LsnRoute(lsnConf, q)
    BY <1>a DEF LsnRoute, LsnShares
  <2>2. CASE q # p
    <3>1. LsnGiven(q)
      BY <1>1, <1>a, <2>2 DEF LsnGivenInv
    <3> QED BY <1>a, <1>f, <2>1, <2>2, <3>1 DEF LsnGiven
  <2>3. CASE q = p
    <3>1. lsnConf.web[p] = "on"
      BY <1>1, <1>a DEF LsnPassInv
    <3>2. lsnWeb'[p].state = "failed" => lsnBound.troubles > 0
                 \/ (lsnPass.held = p /\ ~LsnRoute(lsnConf, p))
      <4>1. CASE lsnSock[p] = "other"
        BY <1>1, <4>1 DEF LsnSocketsInv
      <4>2. CASE lsnSock[p] = "hook"
        <5>1. lsnHook.srv = p
          BY <1>1, <1>a, <4>2 DEF LsnSocketsInv
        <5>2. lsnPass.held = p
          BY <1>1, <1>a, <5>1, LsnConstants DEF LsnPassInv
        <5> QED BY <1>f, <1>j, <1>m, <4>2, <5>1, <5>2
      <4> QED BY <1>f, <1>j, <4>1, <4>2
    <3> QED BY <1>a, <1>e, <1>f, <2>1, <2>3, <3>1, <3>2 DEF LsnGiven
  <2> QED BY <2>2, <2>3
<1>6. LsnHookInv'
  BY <1>1, <1>a, <1>c, <1>e, <1>f, <1>g, <1>h, <1>i, <1>j, LsnConstants DEF LsnFields, LsnHookInv, LsnPassInv, LsnSocketsInv, LsnShares, LsnReleases
<1> QED BY <1>2, <1>3, <1>4, <1>5, <1>6 DEF LsnInv

LEMMA LsnStepInv == LsnInv /\ [LsnNext]_lsnVars => LsnInv'
<1> SUFFICES ASSUME LsnInv, [LsnNext]_lsnVars PROVE LsnInv'
  OBVIOUS
<1>1. CASE UNCHANGED lsnVars
  <2>1. LsnShapeInv <=> LsnShapeInv'
    BY <1>1 DEF lsnVars, LsnShapeInv
  <2>2. LsnSocketsInv <=> LsnSocketsInv'
    BY <1>1 DEF lsnVars, LsnSocketsInv
  <2>3. LsnPassInv <=> LsnPassInv'
    BY <1>1 DEF lsnVars, LsnPassInv
  <2>4. LsnGivenInv <=> LsnGivenInv'
    BY <1>1 DEF lsnVars, LsnGivenInv, LsnGiven
  <2>5. LsnHookInv <=> LsnHookInv'
    BY <1>1 DEF lsnVars, LsnHookInv
  <2> QED BY <2>1, <2>2, <2>3, <2>4, <2>5 DEF LsnInv
<1>2. CASE LsnNext
  BY <1>2, LsnPassBeginsInv, LsnWebRefusesInv, LsnWebClosesInv, LsnWebDoneInv, LsnHookStaysInv,
     LsnHookStopsInv, LsnHookFailsInv, LsnHookListensInv, LsnHookInstallsInv, LsnCloseInv,
     LsnCloseWebInv, LsnCloseHookInv, LsnCloseHookStopsInv, LsnWebStartsInv, LsnOtherInv,
     LsnServeEndsInv DEF LsnNext
<1> QED BY <1>1, <1>2

LEMMA LsnShows == LsnInv => PortsAreServed
<1> SUFFICES ASSUME LsnInv PROVE PortsAreServed
  OBVIOUS
<1>1. LsnFields /\ LsnShapeInv /\ LsnSocketsInv /\ LsnPassInv /\ LsnGivenInv /\ LsnHookInv
  BY LsnTyped DEF LsnInv
<1>2. LsnWebReached
  BY <1>1 DEF LsnWebReached, LsnSettled, LsnGivenInv, LsnGiven, LsnSocketsInv, LsnFields
<1>3. LsnHookReached
  BY <1>1 DEF LsnHookReached, LsnSettled, LsnGivenInv, LsnGiven, LsnSocketsInv, LsnFields, LsnHookInv,
     LsnShapeInv, LsnServers, LsnServer, LsnRoute, LsnShares
<1>4. LsnNobodyLingers
  <2>1. ASSUME LsnSettled, NEW p \in LsnPorts
        PROVE  /\ lsnSock[p] = "web" => lsnConf.web[p] = "on"
               /\ lsnSock[p] = "hook" => lsnConf.hook /\ lsnConf.port = p /\ ~LsnShares(lsnConf)
    <3>1. lsnPass.at = "idle" /\ lsnClosing = "no"
      BY <2>1 DEF LsnSettled
    <3>2. LsnGiven(p)
      BY <1>1, <3>1 DEF LsnGivenInv
    <3>3. lsnSock[p] = "web" => lsnConf.web[p] = "on"
      BY <1>1, <3>2 DEF LsnGiven, LsnSocketsInv, LsnAbsent, LsnServer
    <3> QED BY <1>1, <3>1, <3>3, LsnConstants DEF LsnSocketsInv, LsnHookInv
  <2>2. ASSUME lsnClosing \in {"web", "marked", "closed"}, NEW p \in LsnPorts
        PROVE  lsnSock[p] # "web" /\ lsnWeb[p] = LsnAbsent
    BY <1>1, <2>2 DEF LsnPassInv, LsnSocketsInv, LsnAbsent, LsnServer
  <2> QED BY <2>1, <2>2 DEF LsnNobodyLingers
<1> QED BY <1>2, <1>3, <1>4 DEF PortsAreServed


-----------------------------------------------------------------------------
(* Probes. *)

PrbTargetSet == [PrbChildren -> PrbBackends \union {0}]
PrbShapeInv ==
    /\ prbTargets \in PrbTargetSet /\ prbNext \in [PrbChildren -> Nat]
    /\ prbStatus \in [PrbChildren -> [backend : PrbBackends \union {0}, ok : BOOLEAN]]
    /\ prbSweep \in [at : {"idle", "wakes", "copied", "probes"}, now : Nat, targets : PrbTargetSet]
    /\ prbReload = <<>> \/ \E targets \in PrbTargetSet : prbReload = <<targets>>
    /\ prbClock \in Nat /\ prbKick \in BOOLEAN
    /\ prbLogged \in [PrbChildren -> {"none", "well", "ill"}] /\ prbSaid = prbLogged

\* A child that is due at once has a kick or a sweep coming that will see it.
PrbComing(c) ==
    prbKick \/ prbSweep.at = "wakes" \/ (prbSweep.at = "copied" /\ prbSweep.targets[c] = prbTargets[c])
PrbDueInv ==
    /\ prbSweep.at = "idle" => prbSweep.targets = PrbNobody
    /\ \A c \in PrbChildren : prbTargets[c] # 0 /\ prbNext[c] = 0 => PrbComing(c)
    /\ \A c \in PrbChildren \ prbLate :
          /\ PrbWanted[c] = 0 => prbStatus[c] = PrbUnknown
          /\ prbReload = <<>> /\ prbTargets[c] # 0 /\ prbStatus[c].backend # prbTargets[c] =>
                prbNext[c] = 0 \/ (prbSweep.at = "probes" /\ prbSweep.targets[c] = prbTargets[c])
PrbInv == PrbShapeInv /\ PrbDueInv

-----------------------------------------------------------------------------
(* Refused sources. *)

DenLine == [key : DenKeys, time : Nat \ {0}]
DenShapeInv ==
    /\ denSeen \in [DenKeys -> Nat] /\ denClean \in Nat /\ denClock \in Nat \ {0}
    /\ denTokens \in 0..DenRate /\ denLast \in Nat /\ denLast <= denClock
    /\ denLines \in Seq(DenLine) /\ denEmptied \in Nat
DenAt(t) == {i \in DOMAIN denLines : denLines[i].time = t}
DenLinesInv ==
    /\ \A i \in DOMAIN denLines : denLines[i].time <= denLast
    /\ \A t \in Nat : Cardinality(DenAt(t)) <= DenRate
    /\ Cardinality(DenAt(denLast)) + denTokens <= DenRate
\* A line's source is still among the buckets, at the line's time or later,
\* unless a window has passed or the buckets were thrown away since.
DenSpacingInv ==
    /\ \A i \in DOMAIN denLines :
          \/ denEmptied >= denLines[i].time
          \/ denSeen[denLines[i].key] >= denLines[i].time
          \/ denClock - denLines[i].time >= DenWindow
    /\ \A i, j \in DOMAIN denLines :
          i < j /\ denLines[i].key = denLines[j].key /\ ~(denEmptied >= denLines[i].time) =>
             denLines[j].time - denLines[i].time >= DenWindow
DenInv == DenShapeInv /\ DenLinesInv /\ DenSpacingInv

LEMMA PrbConstants ==
    /\ PrbInterval \in Nat /\ PrbInterval # 0 /\ 0 \notin PrbBackends /\ PrbNobody \in PrbTargetSet
    /\ DenWindow \in Nat /\ DenSweep \in Nat /\ DenWindow # 0 /\ DenRate \in Nat /\ DenRate # 0 /\ DenCap \in Nat
BY PrbAssumption DEF PrbNobody, PrbTargetSet

LEMMA PrbWantedTyped == PrbShapeInv => PrbWanted \in PrbTargetSet
BY DEF PrbShapeInv, PrbWanted

LEMMA PrbInitInv == PrbInit => PrbInv
<1> SUFFICES ASSUME PrbInit PROVE PrbInv
  OBVIOUS
<1>1. PrbShapeInv
  BY PrbConstants DEF PrbInit, PrbShapeInv, PrbIdle, PrbUnknown, PrbNobody, PrbTargetSet
<1>2. PrbDueInv
  BY DEF PrbInit, PrbDueInv, PrbIdle, PrbNobody, PrbWanted, PrbUnknown
<1> QED BY <1>1, <1>2 DEF PrbInv

LEMMA PrbReloadBeginsInv == ASSUME PrbInv, NEW targets \in PrbTargetSet, PrbReloadBegins(targets) PROVE PrbInv'
<1>1. PrbShapeInv /\ PrbDueInv /\ PrbWanted \in PrbTargetSet
  BY PrbWantedTyped DEF PrbInv
<1>2. PrbShapeInv'
  BY <1>1, PrbConstants DEF PrbReloadBegins, PrbShapeInv, PrbTargetSet, PrbUnknown, PrbNobody
<1>3. PrbDueInv'
  BY <1>1, PrbConstants DEF PrbReloadBegins, PrbShapeInv, PrbDueInv, PrbComing, PrbTargetSet, PrbUnknown, PrbNobody, PrbWanted
<1> QED BY <1>2, <1>3 DEF PrbInv

LEMMA PrbReloadEndsInv == ASSUME PrbInv, PrbReloadEnds PROVE PrbInv'
<1>1. PrbShapeInv /\ PrbDueInv /\ PrbWanted \in PrbTargetSet
  BY PrbWantedTyped DEF PrbInv
<1>2. PrbShapeInv'
  BY <1>1, PrbConstants DEF PrbReloadEnds, PrbShapeInv, PrbTargetSet, PrbUnknown, PrbNobody, PrbDueAgain
<1>3. PrbDueInv'
  BY <1>1, PrbConstants DEF PrbReloadEnds, PrbShapeInv, PrbDueInv, PrbComing, PrbTargetSet, PrbUnknown, PrbNobody, PrbWanted, PrbDueAgain
<1> QED BY <1>2, <1>3 DEF PrbInv

LEMMA PrbWakesInv == ASSUME PrbInv, PrbWakes PROVE PrbInv'
<1>1. PrbShapeInv /\ PrbDueInv /\ PrbWanted \in PrbTargetSet
  BY PrbWantedTyped DEF PrbInv
<1>2. PrbShapeInv'
  BY <1>1, PrbConstants DEF PrbWakes, PrbShapeInv, PrbTargetSet, PrbUnknown, PrbNobody
<1>3. PrbDueInv'
  BY <1>1, PrbConstants DEF PrbWakes, PrbShapeInv, PrbDueInv, PrbComing, PrbTargetSet, PrbUnknown, PrbNobody, PrbWanted
<1> QED BY <1>2, <1>3 DEF PrbInv

LEMMA PrbCopiesInv == ASSUME PrbInv, PrbCopies PROVE PrbInv'
<1>1. PrbShapeInv /\ PrbDueInv /\ PrbWanted \in PrbTargetSet
  BY PrbWantedTyped DEF PrbInv
<1>2. PrbShapeInv'
  BY <1>1, PrbConstants DEF PrbCopies, PrbShapeInv, PrbTargetSet, PrbUnknown, PrbNobody
<1>3. PrbDueInv'
  BY <1>1, PrbConstants DEF PrbCopies, PrbShapeInv, PrbDueInv, PrbComing, PrbTargetSet, PrbUnknown, PrbNobody, PrbWanted
<1> QED BY <1>2, <1>3 DEF PrbInv

LEMMA PrbPicksInv == ASSUME PrbInv, PrbPicks PROVE PrbInv'
<1>1. PrbShapeInv /\ PrbDueInv /\ PrbWanted \in PrbTargetSet
  BY PrbWantedTyped DEF PrbInv
<1>a. prbSweep' = [at |-> "probes", now |-> prbSweep.now,
          targets |-> [c \in PrbChildren |-> IF c \in PrbDue THEN prbSweep.targets[c] ELSE 0]]
  BY <1>1 DEF PrbPicks, PrbShapeInv
<1>b. [c \in PrbChildren |-> IF c \in PrbDue THEN prbSweep.targets[c] ELSE 0] \in PrbTargetSet
  BY <1>1 DEF PrbShapeInv, PrbTargetSet
<1>c. prbNext' \in [PrbChildren -> Nat]
  BY <1>1, PrbConstants DEF PrbPicks, PrbShapeInv
<1>2. PrbShapeInv'
  BY <1>1, <1>a, <1>b, <1>c DEF PrbPicks, PrbShapeInv
<1>3. PrbDueInv'
  BY <1>1, PrbConstants DEF PrbPicks, PrbShapeInv, PrbDueInv, PrbComing, PrbTargetSet, PrbUnknown, PrbNobody, PrbWanted, PrbDue
<1> QED BY <1>2, <1>3 DEF PrbInv

LEMMA PrbRecordsInv == ASSUME PrbInv, NEW c \in PrbChildren, NEW ok \in BOOLEAN, PrbRecords(c, ok) PROVE PrbInv'
<1>1. PrbShapeInv /\ PrbDueInv /\ PrbWanted \in PrbTargetSet
  BY PrbWantedTyped DEF PrbInv
<1>2. PrbShapeInv'
  BY <1>1, PrbConstants DEF PrbRecords, PrbShapeInv, PrbTargetSet, PrbUnknown, PrbNobody
<1>3. PrbDueInv'
  BY <1>1, PrbConstants DEF PrbRecords, PrbShapeInv, PrbDueInv, PrbComing, PrbTargetSet, PrbUnknown, PrbNobody, PrbWanted
<1> QED BY <1>2, <1>3 DEF PrbInv

LEMMA PrbSweepEndsInv == ASSUME PrbInv, PrbSweepEnds PROVE PrbInv'
<1>1. PrbShapeInv /\ PrbDueInv /\ PrbWanted \in PrbTargetSet
  BY PrbWantedTyped DEF PrbInv
<1>2. PrbShapeInv'
  BY <1>1, PrbConstants DEF PrbSweepEnds, PrbShapeInv, PrbTargetSet, PrbUnknown, PrbNobody, PrbIdle
<1>3. PrbDueInv'
  BY <1>1, PrbConstants DEF PrbSweepEnds, PrbShapeInv, PrbDueInv, PrbComing, PrbTargetSet, PrbUnknown, PrbNobody, PrbWanted, PrbIdle
<1> QED BY <1>2, <1>3 DEF PrbInv

LEMMA PrbCloseInv == ASSUME PrbInv, PrbClose PROVE PrbInv'
<1>1. PrbShapeInv /\ PrbDueInv /\ PrbWanted \in PrbTargetSet
  BY PrbWantedTyped DEF PrbInv
<1>2. PrbShapeInv'
  BY <1>1, PrbConstants DEF PrbClose, PrbShapeInv, PrbTargetSet, PrbUnknown, PrbNobody
<1>3. PrbDueInv'
  BY <1>1, PrbConstants DEF PrbClose, PrbShapeInv, PrbDueInv, PrbComing, PrbTargetSet, PrbUnknown, PrbNobody, PrbWanted
<1> QED BY <1>2, <1>3 DEF PrbInv

LEMMA PrbTimePassesInv == ASSUME PrbInv, PrbTimePasses PROVE PrbInv'
<1>1. PrbShapeInv /\ PrbDueInv /\ PrbWanted \in PrbTargetSet
  BY PrbWantedTyped DEF PrbInv
<1>2. PrbShapeInv'
  BY <1>1, PrbConstants DEF PrbTimePasses, PrbShapeInv, PrbTargetSet, PrbUnknown, PrbNobody
<1>3. PrbDueInv'
  BY <1>1, PrbConstants DEF PrbTimePasses, PrbShapeInv, PrbDueInv, PrbComing, PrbTargetSet, PrbUnknown, PrbNobody, PrbWanted
<1> QED BY <1>2, <1>3 DEF PrbInv

LEMMA PrbStepInv == PrbInv /\ [PrbNextStep]_prbVars => PrbInv'
<1> SUFFICES ASSUME PrbInv, [PrbNextStep]_prbVars PROVE PrbInv'
  OBVIOUS
<1>1. CASE UNCHANGED prbVars
  <2>1. PrbShapeInv <=> PrbShapeInv'
    BY <1>1 DEF prbVars, PrbShapeInv
  <2>2. PrbDueInv <=> PrbDueInv'
    BY <1>1 DEF prbVars, PrbDueInv, PrbComing, PrbWanted
  <2> QED BY <2>1, <2>2 DEF PrbInv
<1>2. CASE PrbNextStep
  BY <1>2, PrbReloadBeginsInv, PrbReloadEndsInv, PrbWakesInv, PrbCopiesInv, PrbPicksInv,
     PrbRecordsInv, PrbSweepEndsInv, PrbCloseInv, PrbTimePassesInv DEF PrbNextStep, PrbTargetSet
<1> QED BY <1>1, <1>2

LEMMA PrbShows == PrbInv => PrbIsTrue
BY PrbWantedTyped DEF PrbInv, PrbShapeInv, PrbDueInv, PrbComing, PrbIsTrue, PrbWanted

-----------------------------------------------------------------------------
(* What the bucket and the table of sources let through. *)

LEMMA DenAtFinite ==
    ASSUME DenShapeInv, NEW t
    PROVE  IsFiniteSet(DenAt(t)) /\ Cardinality(DenAt(t)) \in Nat
<1>1. DOMAIN denLines = 1..Len(denLines) /\ Len(denLines) \in Nat
  BY DEF DenShapeInv
<1>2. IsFiniteSet(1..Len(denLines))
  BY <1>1, FS_Interval
<1>3. DenAt(t) \subseteq 1..Len(denLines)
  BY <1>1 DEF DenAt
<1> QED BY <1>2, <1>3, FS_Subset, FS_CardinalityType

LEMMA DenLineTyped ==
    ASSUME DenShapeInv, NEW i \in DOMAIN denLines
    PROVE  /\ denLines[i].key \in DenKeys /\ denLines[i].time \in Nat /\ denLines[i].time # 0
           /\ denSeen[denLines[i].key] \in Nat
           /\ i \in Nat /\ Len(denLines) \in Nat /\ i <= Len(denLines)
<1>1. denLines \in Seq(DenLine) /\ denSeen \in [DenKeys -> Nat]
  BY DEF DenShapeInv
<1>2. DOMAIN denLines = 1..Len(denLines) /\ Len(denLines) \in Nat
  BY <1>1
<1>3. denLines[i] \in DenLine
  BY <1>1, <1>2
<1> QED BY <1>1, <1>2, <1>3 DEF DenLine

LEMMA DenInitInv == DenInit => DenInv
<1> SUFFICES ASSUME DenInit PROVE DenInv
  OBVIOUS
<1>1. DenShapeInv
  BY PrbConstants DEF DenInit, DenShapeInv
<1>2. \A t : DenAt(t) = {}
  BY DEF DenInit, DenAt
<1>3. Cardinality({}) = 0
  BY FS_EmptySet
<1>4. DenLinesInv
  <2>1. \A t : Cardinality(DenAt(t)) = 0
    BY <1>2, <1>3
  <2>2. DOMAIN denLines = {} /\ denTokens = DenRate /\ DenRate \in Nat
    BY PrbConstants DEF DenInit
  <2> QED BY <2>1, <2>2 DEF DenLinesInv
<1>5. DenSpacingInv
  BY DEF DenInit, DenSpacingInv
<1> QED BY <1>1, <1>4, <1>5 DEF DenInv

\* Cleaning throws away what is a window old, nothing else.
DenSpared(seen, next, o) == next[o] = seen[o] \/ denClock - seen[o] >= DenWindow
LEMMA DenKeptSpares ==
    ASSUME DenShapeInv, NEW seen \in [DenKeys -> Nat]
    PROVE  /\ DenKept(seen) \in [DenKeys -> Nat]
           /\ \A o \in DenKeys : seen[o] # 0 => DenSpared(seen, DenKept(seen), o)
           /\ \A o \in DenKeys : seen[o] = 0 => DenKept(seen)[o] = 0
           /\ \A o \in DenKeys : seen[o] = denClock => DenKept(seen)[o] = denClock
BY PrbConstants DEF DenKept, DenSpared, DenShapeInv

LEMMA DenNowSpares ==
    ASSUME DenShapeInv
    PROVE  /\ DenNow \in [DenKeys -> Nat]
           /\ \A o \in DenKeys : denSeen[o] # 0 => DenSpared(denSeen, DenNow, o)
<1>1. denSeen \in [DenKeys -> Nat]
  BY DEF DenShapeInv
<1>2. CASE denClock - denClean >= DenSweep
  BY <1>1, <1>2, DenKeptSpares DEF DenNow
<1>3. CASE ~(denClock - denClean >= DenSweep)
  BY <1>1, <1>3 DEF DenNow, DenSpared
<1> QED BY <1>2, <1>3

LEMMA DenPutSpares ==
    ASSUME DenShapeInv, NEW k \in DenKeys
    PROVE  /\ DenPut(k).seen \in [DenKeys -> Nat]
           /\ ~DenPut(k).emptied =>
                 /\ DenPut(k).seen[k] = denClock
                 /\ \A o \in DenKeys \ {k} : denSeen[o] # 0 => DenSpared(denSeen, DenPut(k).seen, o)
<1> DEFINE put == [DenNow EXCEPT ![k] = denClock]
<1>1. /\ DenNow \in [DenKeys -> Nat] /\ denSeen \in [DenKeys -> Nat] /\ denClock \in Nat
      /\ \A o \in DenKeys : denSeen[o] # 0 => DenSpared(denSeen, DenNow, o)
  BY DenNowSpares DEF DenShapeInv
<1>2. /\ put \in [DenKeys -> Nat] /\ put[k] = denClock
      /\ \A o \in DenKeys \ {k} : put[o] = DenNow[o]
  BY <1>1
<1>3. \A o \in DenKeys \ {k} : denSeen[o] # 0 => DenSpared(denSeen, put, o)
  BY <1>1, <1>2 DEF DenSpared
<1>4. DenPut(k) = IF DenNumber(put) <= DenCap THEN [seen |-> put, emptied |-> FALSE]
        ELSE IF DenNumber(DenKept(put)) <= DenCap THEN [seen |-> DenKept(put), emptied |-> FALSE]
        ELSE [seen |-> [o \in DenKeys |-> 0], emptied |-> TRUE]
  BY DEF DenPut
<1> HIDE DEF put
<1>5. /\ DenKept(put) \in [DenKeys -> Nat] /\ DenKept(put)[k] = denClock
      /\ \A o \in DenKeys \ {k} : denSeen[o] # 0 => DenSpared(denSeen, DenKept(put), o)
  <2>1. /\ DenKept(put) \in [DenKeys -> Nat] /\ DenKept(put)[k] = denClock
        /\ \A o \in DenKeys : put[o] # 0 => DenSpared(put, DenKept(put), o)
    BY <1>2, DenKeptSpares
  <2>2. ASSUME NEW o \in DenKeys \ {k}, denSeen[o] # 0
        PROVE  DenSpared(denSeen, DenKept(put), o)
    <3>1. DenSpared(denSeen, put, o)
      BY <1>3, <2>2
    <3>2. put[o] = denSeen[o] => DenSpared(put, DenKept(put), o)
      BY <2>1, <2>2
    <3> QED BY <3>1, <3>2 DEF DenSpared
  <2> QED BY <2>1, <2>2
<1>6. CASE DenNumber(put) <= DenCap
  BY <1>2, <1>3, <1>4, <1>6
<1>7. CASE ~(DenNumber(put) <= DenCap) /\ DenNumber(DenKept(put)) <= DenCap
  BY <1>4, <1>5, <1>7
<1>8. CASE ~(DenNumber(put) <= DenCap) /\ ~(DenNumber(DenKept(put)) <= DenCap)
  BY <1>4, <1>8
<1> QED BY <1>6, <1>7, <1>8

\* What the rate allows now.
LEMMA DenFilledFits ==
    ASSUME DenShapeInv, DenLinesInv
    PROVE  DenFilled \in 0..DenRate /\ Cardinality(DenAt(denClock)) + DenFilled <= DenRate
<1>1. /\ denTokens \in 0..DenRate /\ DenRate \in Nat /\ denClock \in Nat /\ denLast \in Nat
      /\ denLast <= denClock
  BY PrbConstants DEF DenShapeInv
<1>2. (denClock - denLast) * DenRate \in Nat
  BY <1>1
<1>3. DenFilled \in 0..DenRate
  BY <1>1, <1>2 DEF DenFilled
<1>4. CASE denClock = denLast
  <2>1. (denClock - denLast) * DenRate = 0
    BY <1>1, <1>4
  <2>2. DenFilled = denTokens
    BY <1>1, <2>1 DEF DenFilled
  <2> QED BY <1>3, <1>4, <2>2 DEF DenLinesInv
<1>5. CASE denClock # denLast
  <2>1. DenAt(denClock) = {}
    BY <1>1, <1>5 DEF DenLinesInv, DenAt, DenShapeInv
  <2> QED BY <1>1, <1>3, <2>1, FS_EmptySet
<1> QED BY <1>3, <1>4, <1>5

LEMMA DenTimePassesInv == ASSUME DenInv, DenTimePasses PROVE DenInv'
<1>1. DenShapeInv /\ DenLinesInv /\ DenSpacingInv
  BY DEF DenInv
<1>2. DenShapeInv'
  BY <1>1 DEF DenTimePasses, DenShapeInv
<1>3. \A t : DenAt(t)' = DenAt(t)
  BY DEF DenTimePasses, DenAt
<1>4. DenLinesInv'
  BY <1>1, <1>3 DEF DenTimePasses, DenLinesInv, DenAt
<1>5. DenSpacingInv'
  <2>1. /\ UNCHANGED <<denLines, denSeen, denEmptied>> /\ denClock' = denClock + 1
        /\ denClock \in Nat /\ DenWindow \in Nat
    BY <1>1, PrbConstants DEF DenTimePasses, DenShapeInv
  <2>2. \A i \in DOMAIN denLines : denLines[i].time \in Nat
    BY <1>1, DenLineTyped
  <2>3. \A i \in DOMAIN denLines : denClock - denLines[i].time >= DenWindow
                                    => denClock' - denLines[i].time >= DenWindow
    BY <2>1, <2>2
  <2> QED BY <1>1, <2>1, <2>3 DEF DenSpacingInv
<1> QED BY <1>2, <1>4, <1>5 DEF DenInv

\* A source that is suppressed changes nothing but what is thrown away.
LEMMA DenSuppressedInv ==
    ASSUME DenInv, NEW k \in DenKeys, DenAsk(k), DenSuppressed(k) PROVE DenInv'
<1>1. DenShapeInv /\ DenLinesInv /\ DenSpacingInv
  BY DEF DenInv
<1>2. /\ denSeen' = DenNow /\ UNCHANGED <<denTokens, denLast, denLines, denEmptied, denClock>>
      /\ denClean' = denClean \/ denClean' = denClock
  BY DEF DenAsk
<1>3. /\ DenNow \in [DenKeys -> Nat]
      /\ \A o \in DenKeys : denSeen[o] # 0 => DenSpared(denSeen, DenNow, o)
  BY <1>1, DenNowSpares
<1>4. DenShapeInv'
  BY <1>1, <1>2, <1>3 DEF DenShapeInv
<1>5. DenLinesInv'
  BY <1>1, <1>2 DEF DenLinesInv, DenAt
<1>6. ASSUME NEW i \in DOMAIN denLines
      PROVE  \/ denEmptied >= denLines[i].time
             \/ DenNow[denLines[i].key] >= denLines[i].time
             \/ denClock - denLines[i].time >= DenWindow
  <2> DEFINE key == denLines[i].key
             time == denLines[i].time
  <2>1. /\ key \in DenKeys /\ time \in Nat /\ time # 0 /\ denSeen[key] \in Nat
        /\ denClock \in Nat /\ DenWindow \in Nat
    BY <1>1, DenLineTyped, PrbConstants DEF DenShapeInv
  <2>2. denEmptied >= time \/ denSeen[key] >= time \/ denClock - time >= DenWindow
    BY <1>1 DEF DenSpacingInv
  <2>3. denSeen[key] # 0 => DenSpared(denSeen, DenNow, key)
    BY <1>3, <2>1
  <2> HIDE DEF key, time
  <2>4. denEmptied >= time \/ DenNow[key] >= time \/ denClock - time >= DenWindow
    BY <2>1, <2>2, <2>3 DEF DenSpared
  <2> QED BY <2>4 DEF key, time
<1>7. DenSpacingInv'
  BY <1>1, <1>2, <1>6 DEF DenSpacingInv
<1> QED BY <1>4, <1>5, <1>7 DEF DenInv

\* A source that is let through is noted at this time, and gets a line while the
\* rate allows.
LEMMA DenLetThroughInv ==
    ASSUME DenInv, NEW k \in DenKeys, DenAsk(k), ~DenSuppressed(k) PROVE DenInv'
<1>1. DenShapeInv /\ DenLinesInv /\ DenSpacingInv
  BY DEF DenInv
<1>2. /\ denSeen' = DenPut(k).seen /\ UNCHANGED denClock /\ denLast' = denClock
      /\ denEmptied' = IF DenPut(k).emptied THEN denClock ELSE denEmptied
      /\ denTokens' = IF DenFilled >= 1 THEN DenFilled - 1 ELSE DenFilled
      /\ denLines' = IF DenFilled >= 1 THEN Append(denLines, [key |-> k, time |-> denClock])
                     ELSE denLines
      /\ denClean' = denClean \/ denClean' = denClock
  BY DEF DenAsk
<1>3. DenFilled \in 0..DenRate /\ Cardinality(DenAt(denClock)) + DenFilled <= DenRate
  BY <1>1, DenFilledFits
<1>4. /\ denLines \in Seq(DenLine) /\ Len(denLines) \in Nat
      /\ DOMAIN denLines = 1..Len(denLines)
      /\ denClock \in Nat /\ denClock # 0 /\ denLast \in Nat /\ denLast <= denClock
      /\ denEmptied \in Nat /\ DenWindow \in Nat /\ DenSweep \in Nat /\ DenWindow # 0 /\ DenRate \in Nat
  BY <1>1, PrbConstants DEF DenShapeInv
<1>5. /\ DenPut(k).seen \in [DenKeys -> Nat]
      /\ ~DenPut(k).emptied =>
            /\ DenPut(k).seen[k] = denClock
            /\ \A o \in DenKeys \ {k} : denSeen[o] # 0 => DenSpared(denSeen, DenPut(k).seen, o)
  BY <1>1, DenPutSpares
<1>6. \A i \in DOMAIN denLines :
         /\ denLines[i].key \in DenKeys /\ denLines[i].time \in Nat /\ denLines[i].time # 0
         /\ denLines[i].time <= denClock /\ denSeen[denLines[i].key] \in Nat
  BY <1>1, <1>4, DenLineTyped DEF DenLinesInv
<1>7. [key |-> k, time |-> denClock] \in DenLine
  BY <1>4 DEF DenLine
<1> DEFINE line == [key |-> k, time |-> denClock]
           last == Len(denLines) + 1
<1> HIDE DEF line
<1>a. /\ Append(denLines, line) \in Seq(DenLine)
      /\ DOMAIN Append(denLines, line) = DOMAIN denLines \union {last}
      /\ \A i \in DOMAIN denLines : Append(denLines, line)[i] = denLines[i]
      /\ Append(denLines, line)[last] = line
  BY <1>4, <1>7 DEF line
<1>b. denLines' = IF DenFilled >= 1 THEN Append(denLines, line) ELSE denLines
  BY <1>2 DEF line
<1>8. /\ denLines' \in Seq(DenLine)
      /\ \A i \in DOMAIN denLines : i \in DOMAIN denLines' /\ denLines'[i] = denLines[i]
      /\ DenFilled >= 1 => /\ DOMAIN denLines' = DOMAIN denLines \union {last}
                           /\ denLines'[last].key = k /\ denLines'[last].time = denClock
      /\ ~(DenFilled >= 1) => denLines' = denLines
  <2>1. line.key = k /\ line.time = denClock
    BY DEF line
  <2>2. CASE DenFilled >= 1
    BY <1>a, <1>b, <2>1, <2>2
  <2>3. CASE ~(DenFilled >= 1)
    BY <1>4, <1>b, <2>3
  <2> QED BY <2>2, <2>3
<1>9. DenShapeInv'
  <2>1. denTokens' \in 0..DenRate
    BY <1>2, <1>3, <1>4
  <2>2. denEmptied' \in Nat /\ denClean' \in Nat
    BY <1>1, <1>2, <1>4 DEF DenShapeInv
  <2>3. denSeen' \in [DenKeys -> Nat] /\ denLines' \in Seq(DenLine)
    BY <1>2, <1>5, <1>8
  <2>4. denClock' \in Nat \ {0} /\ denLast' \in Nat /\ denLast' <= denClock'
    BY <1>2, <1>4
  <2> HIDE DEF last
  <2> QED BY <2>1, <2>2, <2>3, <2>4 DEF DenShapeInv
<1>10. DenLinesInv'
  <2>1. ASSUME NEW i \in DOMAIN denLines' PROVE denLines'[i].time <= denLast'
    <3>1. CASE i \in DOMAIN denLines
      BY <1>2, <1>6, <1>8, <3>1
    <3>2. CASE i \notin DOMAIN denLines
      <4>1. DenFilled >= 1 /\ i = last
        BY <1>8, <3>2
      <4>2. denLines'[i].time = denClock
        BY <1>8, <4>1
      <4> QED BY <1>2, <1>4, <4>2
    <3> QED BY <3>1, <3>2
  <2>2. \A t \in Nat : t # denClock => {i \in DOMAIN denLines' : denLines'[i].time = t} = DenAt(t)
    BY <1>8 DEF DenAt
  <2>3. IsFiniteSet(DenAt(denClock)) /\ Cardinality(DenAt(denClock)) \in Nat
    BY <1>1, DenAtFinite
  <2> DEFINE now == {i \in DOMAIN denLines' : denLines'[i].time = denClock}
  <2>4. Cardinality(now) + denTokens' <= DenRate /\ Cardinality(now) \in Nat /\ denTokens' \in Nat
    <3> DEFINE before == Cardinality(DenAt(denClock))
    <3>0. before \in Nat /\ before + DenFilled <= DenRate /\ DenFilled \in Nat /\ DenRate \in Nat
      BY <1>3, <1>4, <2>3
    <3>1. CASE DenFilled >= 1
      <4>1. now = DenAt(denClock) \union {last}
        BY <1>8, <3>1 DEF DenAt
      <4>2. last \notin DenAt(denClock)
        BY <1>4 DEF DenAt
      <4>3. Cardinality(now) = before + 1
        BY <2>3, <4>1, <4>2, FS_AddElement
      <4>4. denTokens' = DenFilled - 1
        BY <1>2, <3>1
      <4> HIDE DEF before, now
      <4> QED BY <3>0, <3>1, <4>3, <4>4
    <3>2. CASE ~(DenFilled >= 1)
      <4>1. now = DenAt(denClock)
        BY <1>8, <3>2 DEF DenAt
      <4>2. denTokens' = DenFilled
        BY <1>2, <3>2
      <4> QED BY <3>0, <4>1, <4>2
    <3> QED BY <3>1, <3>2
  <2>5. \A t \in Nat : DenAt(t)' = IF t = denClock THEN now ELSE DenAt(t)
    BY <2>2 DEF DenAt
  <2> HIDE DEF now
  <2>6. Cardinality(now) <= DenRate
    BY <1>4, <2>4
  <2>7. \A t \in Nat : Cardinality(DenAt(t)') <= DenRate
    BY <1>1, <2>5, <2>6 DEF DenLinesInv
  <2>8. DenAt(denLast)' = now
    BY <1>2, <1>4, <2>5 DEF DenAt, now
  <2> QED BY <2>1, <2>4, <2>7, <2>8 DEF DenLinesInv
<1> DEFINE Kept(i) == \/ denEmptied' >= denLines'[i].time
                      \/ denSeen'[denLines'[i].key] >= denLines'[i].time
                      \/ denClock - denLines'[i].time >= DenWindow
<1>11. ASSUME NEW i \in DOMAIN denLines PROVE Kept(i)
  <2> DEFINE key == denLines[i].key
             time == denLines[i].time
  <2>1. /\ key \in DenKeys /\ time \in Nat /\ time # 0 /\ time <= denClock /\ denSeen[key] \in Nat
        /\ denLines'[i].key = key /\ denLines'[i].time = time
    BY <1>6, <1>8
  <2>2. denEmptied >= time \/ denSeen[key] >= time \/ denClock - time >= DenWindow
    BY <1>1 DEF DenSpacingInv
  <2> HIDE DEF key, time
  <2>3. CASE DenPut(k).emptied
    BY <1>2, <1>4, <2>1, <2>3
  <2>4. CASE ~DenPut(k).emptied /\ key = k
    BY <1>2, <1>5, <2>1, <2>4
  <2>5. CASE ~DenPut(k).emptied /\ key # k
    <3>1. denSeen[key] # 0 => DenSpared(denSeen, denSeen', key)
      BY <1>2, <1>5, <2>1, <2>5
    <3>2. denEmptied' = denEmptied
      BY <1>2, <2>5
    <3>3. denEmptied >= time \/ denSeen'[key] >= time \/ denClock - time >= DenWindow
      BY <1>4, <2>1, <2>2, <3>1 DEF DenSpared
    <3> QED BY <2>1, <3>2, <3>3
  <2> QED BY <2>3, <2>4, <2>5
<1>12. ASSUME DenFilled >= 1 PROVE Kept(last)
  <2>1. denLines'[last].key = k /\ denLines'[last].time = denClock
    BY <1>8, <1>12
  <2>2. denEmptied' = denClock \/ denSeen'[k] = denClock
    BY <1>2, <1>5
  <2> QED BY <1>4, <2>1, <2>2
<1>13. \A i \in DOMAIN denLines' : Kept(i)
  BY <1>8, <1>11, <1>12
<1>14. ASSUME NEW i \in DOMAIN denLines, denLines[i].key = k, ~(denEmptied' >= denLines[i].time)
       PROVE  denClock - denLines[i].time >= DenWindow
  <2> DEFINE time == denLines[i].time
  <2>1. time \in Nat /\ time # 0 /\ time <= denClock /\ denSeen[k] \in Nat
    BY <1>6, <1>14
  <2>2. denEmptied >= time \/ denSeen[k] >= time \/ denClock - time >= DenWindow
    BY <1>1, <1>14 DEF DenSpacingInv
  <2>3. ~(denEmptied >= time)
    BY <1>2, <1>4, <1>14, <2>1
  <2>4. denSeen[k] # 0 => DenSpared(denSeen, DenNow, k)
    BY <1>1, DenNowSpares
  <2>5. DenNow[k] = 0 \/ ~(denClock - DenNow[k] < DenWindow)
    BY DEF DenSuppressed
  <2> HIDE DEF time
  <2>6. denClock - time >= DenWindow
    BY <1>4, <2>1, <2>2, <2>3, <2>4, <2>5 DEF DenSpared
  <2> QED BY <2>6 DEF time
<1>15. ASSUME NEW i \in DOMAIN denLines', NEW j \in DOMAIN denLines', i < j,
              denLines'[i].key = denLines'[j].key, ~(denEmptied' >= denLines'[i].time)
       PROVE  denLines'[j].time - denLines'[i].time >= DenWindow
  <2>1. CASE j \in DOMAIN denLines
    <3>1. i \in DOMAIN denLines
      BY <1>4, <1>8, <1>15, <2>1
    <3>2. denLines[i].time \in Nat /\ denLines[i].time <= denClock
      BY <1>6, <3>1
    <3>3. ~(denEmptied >= denLines[i].time)
      BY <1>2, <1>4, <1>8, <1>15, <3>1, <3>2
    <3> QED BY <1>1, <1>8, <1>15, <2>1, <3>1, <3>3 DEF DenSpacingInv
  <2>2. CASE j \notin DOMAIN denLines
    <3>1. j = last /\ DenFilled >= 1
      BY <1>8, <1>15, <2>2
    <3>2. i \in DOMAIN denLines
      BY <1>4, <1>8, <1>15, <3>1
    <3>3. denLines'[j].key = k /\ denLines'[j].time = denClock
      BY <1>8, <3>1
    <3> QED BY <1>8, <1>14, <1>15, <3>2, <3>3
  <2> QED BY <2>1, <2>2
<1>16. DenSpacingInv'
  BY <1>2, <1>13, <1>15 DEF DenSpacingInv
<1> QED BY <1>9, <1>10, <1>16 DEF DenInv

LEMMA DenStepInv == DenInv /\ [DenNextStep]_denVars => DenInv'
<1> SUFFICES ASSUME DenInv, [DenNextStep]_denVars PROVE DenInv'
  OBVIOUS
<1>1. CASE UNCHANGED denVars
  <2>1. DenShapeInv <=> DenShapeInv'
    BY <1>1 DEF denVars, DenShapeInv
  <2>2. DenLinesInv <=> DenLinesInv'
    BY <1>1 DEF denVars, DenLinesInv, DenAt
  <2>3. DenSpacingInv <=> DenSpacingInv'
    BY <1>1 DEF denVars, DenSpacingInv
  <2> QED BY <2>1, <2>2, <2>3 DEF DenInv
<1>2. CASE DenNextStep
  BY <1>2, DenSuppressedInv, DenLetThroughInv, DenTimePassesInv DEF DenNextStep
<1> QED BY <1>1, <1>2

LEMMA DenShows == DenInv => DenIsBounded
<1> SUFFICES ASSUME DenInv PROVE DenIsBounded
  OBVIOUS
<1>1. DenShapeInv /\ DenLinesInv /\ DenSpacingInv
  BY DEF DenInv
<1>2. ASSUME NEW t \in Nat
      PROVE  Cardinality({i \in DOMAIN denLines : denLines[i].time \in {t, t + 1}}) <= 2 * DenRate
  <2>1. {i \in DOMAIN denLines : denLines[i].time \in {t, t + 1}} = DenAt(t) \union DenAt(t + 1)
    BY DEF DenAt
  <2>2. \A u \in {t, t + 1} : /\ IsFiniteSet(DenAt(u)) /\ Cardinality(DenAt(u)) \in Nat
                             /\ Cardinality(DenAt(u)) <= DenRate
    BY <1>1, DenAtFinite DEF DenLinesInv
  <2>3. /\ IsFiniteSet(DenAt(t) \intersect DenAt(t + 1))
        /\ Cardinality(DenAt(t) \intersect DenAt(t + 1)) \in Nat
    BY <2>2, FS_Subset, FS_CardinalityType
  <2>4. Cardinality(DenAt(t) \union DenAt(t + 1))
           = Cardinality(DenAt(t)) + Cardinality(DenAt(t + 1))
             - Cardinality(DenAt(t) \intersect DenAt(t + 1))
    BY <2>2, FS_Union
  <2> DEFINE a == Cardinality(DenAt(t))
             b == Cardinality(DenAt(t + 1))
             c == Cardinality(DenAt(t) \intersect DenAt(t + 1))
  <2>5. a \in Nat /\ b \in Nat /\ c \in Nat /\ a <= DenRate /\ b <= DenRate /\ DenRate \in Nat
    BY <2>2, <2>3, PrbConstants
  <2> HIDE DEF a, b, c
  <2>6. a + b - c <= 2 * DenRate
    BY <2>5
  <2> QED BY <2>1, <2>4, <2>6 DEF a, b, c
<1>3. 1..DenHorizon \subseteq Nat
  BY PrbAssumption
<1> QED BY <1>1, <1>2, <1>3 DEF DenIsBounded, DenSpacingInv

LEMMA ProbesShow == PrbInv /\ DenInv => ProbesAreTrue
BY PrbShows, DenShows DEF ProbesAreTrue

-----------------------------------------------------------------------------
(* The records that prove a name. *)

ChlOwn(j) == ToSet(ChlValues[j])

ChlRecord ==
    [at : {"next", "adds", "written", "waits", "cleans", "removes", "done"},
     todo : Seq(ChlTexts), cleanups : Seq(ChlTexts), read : SUBSET (ChlTexts \union {ChlForeign})]

\* An issuance has values of its own to do and to clean up, and a place where
\* there is one to write or to remove.
ChlJobsInv ==
    /\ chlJob \in [ChlJobs -> ChlRecord]
    /\ chlZone \subseteq ChlTexts \union {ChlForeign}
    /\ chlLost \subseteq {"missed", "raced", "unknown"}
    /\ \A j \in ChlJobs :
          /\ chlJob[j].todo \in Seq(ChlOwn(j))
          /\ chlJob[j].cleanups \in Seq(ChlOwn(j))
          /\ chlJob[j].at \in {"adds", "written", "waits"} => chlJob[j].todo # <<>>
          /\ chlJob[j].at = "removes" => chlJob[j].cleanups # <<>>

\* Who holds the lock is in a call.
ChlLockInv ==
    chlLock # ChlFree =>
       /\ chlLock \in ChlJobs
       /\ chlJob[chlLock].at \in {"adds", "written", "removes"}

\* The foreign record stays; what was written is there until it was checked.
ChlStaysInv ==
    /\ ChlForeign \in chlZone
    /\ \A j \in ChlJobs : chlJob[j].at = "removes" => ChlForeign \in chlJob[j].read
    /\ "raced" \notin chlLost =>
          /\ "missed" \notin chlLost
          /\ \A j \in ChlJobs : chlJob[j].at \in {"written", "waits"} => ChlValue(j) \in chlZone

\* What is there belongs to somebody who will take it away.
ChlGoesInv ==
    chlLost = {} =>
       /\ \A v \in chlZone :
             \/ v = ChlForeign
             \/ \E j \in ChlJobs :
                   \/ v \in ToSet(chlJob[j].cleanups)
                   \/ chlJob[j].at = "written" /\ v = ChlValue(j)
       /\ \A j \in ChlJobs :
             /\ chlJob[j].at = "removes" /\ ChlCleanup(j) \in chlZone =>
                   ChlCleanup(j) \in chlJob[j].read
             /\ chlJob[j].at = "done" => chlJob[j].cleanups = <<>>

ChlInv ==
    /\ ChlJobsInv
    /\ ChlLockInv
    /\ ChlStaysInv
    /\ ChlGoesInv

\* The assumption, with names for its sets.
LEMMA ChlConstants ==
    /\ \A j \in ChlJobs : ChlValues[j] \in Seq(ChlOwn(j)) /\ ChlOwn(j) \subseteq ChlTexts
    /\ \A j, o \in ChlJobs : \A v \in ChlOwn(j) : v \in ChlOwn(o) => j = o
    /\ \A j \in ChlJobs : ChlForeign \notin ChlOwn(j)
<1>1. \A j \in ChlJobs : ChlOwn(j) \subseteq ChlTexts
  BY DEF ChlTexts, ChlOwn
<1>2. ASSUME NEW j \in ChlJobs
      PROVE  ChlValues[j] \in Seq(ChlOwn(j))
  <2>1. ChlValues[j] \in Seq(ChlTexts)
    BY ChlAssumption
  <2>2. \A i \in DOMAIN ChlValues[j] : ChlValues[j][i] \in ChlOwn(j)
    BY DEF ChlOwn, ToSet
  <2> QED BY <2>1, <2>2
<1> QED BY <1>1, <1>2, ChlAssumption DEF ChlOwn

\* The members of a sequence, and what a step does to them.
LEMMA SeqMembers ==
    ASSUME NEW S, NEW s \in Seq(S)
    PROVE  /\ ToSet(s) \subseteq S
           /\ s # <<>> => Head(s) \in ToSet(s) /\ Tail(s) \in Seq(S)
                          /\ ToSet(s) = {Head(s)} \union ToSet(Tail(s))
           /\ \A e \in S : Append(s, e) \in Seq(S) /\ ToSet(Append(s, e)) = ToSet(s) \union {e}
<1>1. ToSet(s) \subseteq S
  BY DEF ToSet
<1>2. ASSUME s # <<>>
      PROVE  Head(s) \in ToSet(s) /\ Tail(s) \in Seq(S) /\ ToSet(s) = {Head(s)} \union ToSet(Tail(s))
  <2>1. Len(s) \in Nat \ {0} /\ DOMAIN s = 1..Len(s) /\ Head(s) = s[1] /\ Tail(s) \in Seq(S)
    BY <1>2
  <2>2. DOMAIN Tail(s) = 1..Len(s) - 1 /\ \A i \in 1..Len(s) - 1 : Tail(s)[i] = s[i + 1]
    BY <1>2, <2>1
  <2>3. \A i \in DOMAIN s : i = 1 \/ (i - 1 \in DOMAIN Tail(s) /\ Tail(s)[i - 1] = s[i])
    BY <2>1, <2>2
  <2>4. \A i \in DOMAIN Tail(s) : i + 1 \in DOMAIN s
    BY <2>1, <2>2
  <2>5. 1 \in DOMAIN s
    BY <2>1
  <2> QED BY <2>1, <2>2, <2>3, <2>4, <2>5 DEF ToSet
<1>3. ASSUME NEW e \in S
      PROVE  Append(s, e) \in Seq(S) /\ ToSet(Append(s, e)) = ToSet(s) \union {e}
  <2>1. Append(s, e) \in Seq(S) /\ DOMAIN Append(s, e) = 1..Len(s) + 1 /\ DOMAIN s = 1..Len(s)
        /\ Len(s) \in Nat
    OBVIOUS
  <2>2. Append(s, e)[Len(s) + 1] = e /\ \A i \in 1..Len(s) : Append(s, e)[i] = s[i]
    OBVIOUS
  <2>3. \A i \in 1..Len(s) + 1 : i = Len(s) + 1 \/ i \in 1..Len(s)
    BY <2>1
  <2>4. 1..Len(s) \subseteq 1..Len(s) + 1 /\ Len(s) + 1 \in 1..Len(s) + 1
    BY <2>1
  <2> QED BY <2>1, <2>2, <2>3, <2>4 DEF ToSet
<1> QED BY <1>1, <1>2, <1>3

\* An issuance in a state of the invariant: what its head and its lists are.
LEMMA ChlTyped ==
    ASSUME ChlJobsInv, NEW j \in ChlJobs
    PROVE  /\ chlJob[j] = [at |-> chlJob[j].at, todo |-> chlJob[j].todo,
                           cleanups |-> chlJob[j].cleanups, read |-> chlJob[j].read]
           /\ chlJob[j].todo # <<>> =>
                 /\ ChlValue(j) \in ChlOwn(j)
                 /\ Tail(chlJob[j].todo) \in Seq(ChlOwn(j))
           /\ chlJob[j].cleanups # <<>> =>
                 /\ ChlCleanup(j) \in ChlOwn(j)
                 /\ Tail(chlJob[j].cleanups) \in Seq(ChlOwn(j))
                 /\ ToSet(chlJob[j].cleanups) = {ChlCleanup(j)} \union ToSet(Tail(chlJob[j].cleanups))
           /\ \A v \in ChlOwn(j) :
                 /\ Append(chlJob[j].cleanups, v) \in Seq(ChlOwn(j))
                 /\ ToSet(Append(chlJob[j].cleanups, v)) = ToSet(chlJob[j].cleanups) \union {v}
<1>1. chlJob[j] \in ChlRecord /\ chlJob[j].todo \in Seq(ChlOwn(j)) /\ chlJob[j].cleanups \in Seq(ChlOwn(j))
  BY DEF ChlJobsInv
<1>2. chlJob[j] = [at |-> chlJob[j].at, todo |-> chlJob[j].todo,
                   cleanups |-> chlJob[j].cleanups, read |-> chlJob[j].read]
  BY <1>1 DEF ChlRecord
<1>3. chlJob[j].todo # <<>> => Head(chlJob[j].todo) \in ChlOwn(j) /\ Tail(chlJob[j].todo) \in Seq(ChlOwn(j))
  BY <1>1, SeqMembers
<1>4. chlJob[j].cleanups # <<>> =>
         /\ Head(chlJob[j].cleanups) \in ChlOwn(j)
         /\ Tail(chlJob[j].cleanups) \in Seq(ChlOwn(j))
         /\ ToSet(chlJob[j].cleanups) = {Head(chlJob[j].cleanups)} \union ToSet(Tail(chlJob[j].cleanups))
  BY <1>1, SeqMembers
<1>5. \A v \in ChlOwn(j) :
         /\ Append(chlJob[j].cleanups, v) \in Seq(ChlOwn(j))
         /\ ToSet(Append(chlJob[j].cleanups, v)) = ToSet(chlJob[j].cleanups) \union {v}
  BY <1>1, SeqMembers
<1> QED BY <1>2, <1>3, <1>4, <1>5 DEF ChlValue, ChlCleanup

\* It holds at the start.
LEMMA ChlInitInv ==
    ASSUME ChlInit
    PROVE  ChlInv
<1>1. \A j \in ChlJobs : chlJob[j] = [at |-> "next", todo |-> ChlValues[j], cleanups |-> <<>>, read |-> {}]
  BY DEF ChlInit
<1>2. \A j \in ChlJobs : <<>> \in Seq(ChlOwn(j)) /\ <<>> \in Seq(ChlTexts)
  OBVIOUS
<1>3. \A j \in ChlJobs : ChlValues[j] \in Seq(ChlTexts)
  BY ChlAssumption
<1>4. ASSUME NEW j \in ChlJobs
      PROVE  chlJob[j] \in ChlRecord
  <2> DEFINE T == Seq(ChlTexts)
             Z == SUBSET (ChlTexts \union {ChlForeign})
  <2>1. ChlValues[j] \in T /\ <<>> \in T /\ {} \in Z
    BY <1>2, <1>3
  <2> HIDE DEF T, Z
  <2>2. [at |-> "next", todo |-> ChlValues[j], cleanups |-> <<>>, read |-> {}] \in
           [at : {"next", "adds", "written", "waits", "cleans", "removes", "done"},
            todo : T, cleanups : T, read : Z]
    BY <2>1
  <2> QED BY <2>2, <1>1 DEF ChlRecord, T, Z
<1>5. ChlJobsInv
  BY <1>1, <1>2, <1>4, ChlConstants DEF ChlJobsInv, ChlInit
<1>6. ChlLockInv
  BY DEF ChlLockInv, ChlInit
<1>7. ChlStaysInv
  BY <1>1 DEF ChlStaysInv, ChlInit
<1>8. ChlGoesInv
  BY <1>1 DEF ChlGoesInv, ChlInit
<1> QED BY <1>5, <1>6, <1>7, <1>8 DEF ChlInv

\* g is f, but for the record of j, which has these fields.
ChlSets(g, f, j, at, todo, cleanups, read) ==
    /\ g \in [ChlJobs -> ChlRecord]
    /\ g[j].at = at /\ g[j].todo = todo /\ g[j].cleanups = cleanups /\ g[j].read = read
    /\ \A o \in ChlJobs : o # j => g[o] = f[o]

\* What the updates of a record that the actions make come to.
LEMMA ChlUpdates ==
    ASSUME NEW j \in ChlJobs, chlJob \in [ChlJobs -> ChlRecord],
           NEW at \in {"next", "adds", "written", "waits", "cleans", "removes", "done"},
           NEW todo \in Seq(ChlTexts), NEW cleanups \in Seq(ChlTexts),
           NEW read \in SUBSET (ChlTexts \union {ChlForeign})
    PROVE  /\ ChlSets([chlJob EXCEPT ![j].at = at], chlJob, j,
                      at, chlJob[j].todo, chlJob[j].cleanups, chlJob[j].read)
           /\ ChlSets([chlJob EXCEPT ![j].at = at, ![j].todo = todo], chlJob, j,
                      at, todo, chlJob[j].cleanups, chlJob[j].read)
           /\ ChlSets([chlJob EXCEPT ![j].todo = todo, ![j].at = at], chlJob, j,
                      at, todo, chlJob[j].cleanups, chlJob[j].read)
           /\ ChlSets([chlJob EXCEPT ![j].at = at, ![j].cleanups = cleanups], chlJob, j,
                      at, chlJob[j].todo, cleanups, chlJob[j].read)
           /\ ChlSets([chlJob EXCEPT ![j].at = at, ![j].read = read], chlJob, j,
                      at, chlJob[j].todo, chlJob[j].cleanups, read)
           /\ ChlSets([chlJob EXCEPT ![j].at = at, ![j].cleanups = cleanups, ![j].read = read], chlJob, j,
                      at, chlJob[j].todo, cleanups, read)
<1> DEFINE A == {"next", "adds", "written", "waits", "cleans", "removes", "done"}
           T == Seq(ChlTexts)
           R == SUBSET (ChlTexts \union {ChlForeign})
           Rec == [at : A, todo : T, cleanups : T, read : R]
<1>1. chlJob \in [ChlJobs -> Rec] /\ Rec = ChlRecord
  BY DEF ChlRecord
<1>2. at \in A /\ todo \in T /\ cleanups \in T /\ read \in R
  OBVIOUS
<1> HIDE DEF A, T, R
<1>3. ChlSets([chlJob EXCEPT ![j].at = at], chlJob, j,
              at, chlJob[j].todo, chlJob[j].cleanups, chlJob[j].read)
  BY <1>1, <1>2 DEF ChlSets
<1>4. ChlSets([chlJob EXCEPT ![j].at = at, ![j].todo = todo], chlJob, j,
              at, todo, chlJob[j].cleanups, chlJob[j].read)
  BY <1>1, <1>2 DEF ChlSets
<1>5. ChlSets([chlJob EXCEPT ![j].todo = todo, ![j].at = at], chlJob, j,
              at, todo, chlJob[j].cleanups, chlJob[j].read)
  BY <1>1, <1>2 DEF ChlSets
<1>6. ChlSets([chlJob EXCEPT ![j].at = at, ![j].cleanups = cleanups], chlJob, j,
              at, chlJob[j].todo, cleanups, chlJob[j].read)
  BY <1>1, <1>2 DEF ChlSets
<1>7. ChlSets([chlJob EXCEPT ![j].at = at, ![j].read = read], chlJob, j,
              at, chlJob[j].todo, chlJob[j].cleanups, read)
  BY <1>1, <1>2 DEF ChlSets
<1>8. ChlSets([chlJob EXCEPT ![j].at = at, ![j].cleanups = cleanups, ![j].read = read], chlJob, j,
              at, chlJob[j].todo, cleanups, read)
  BY <1>1, <1>2 DEF ChlSets
<1> QED BY <1>3, <1>4, <1>5, <1>6, <1>7, <1>8

\* An issuance that gives up has nothing to do but its cleanups.
LEMMA ChlGivesUpSets ==
    ASSUME NEW j \in ChlJobs, chlJob \in [ChlJobs -> ChlRecord], ChlGivesUp(j)
    PROVE  ChlSets(chlJob', chlJob, j, "cleans", <<>>, chlJob[j].cleanups, chlJob[j].read)
<1> DEFINE none == <<>>
           at == "cleans"
<1>1. none \in Seq(ChlTexts) /\ at \in {"next", "adds", "written", "waits", "cleans", "removes", "done"}
  OBVIOUS
<1>2. chlJob' = [chlJob EXCEPT ![j].at = at, ![j].todo = none]
  BY DEF ChlGivesUp
<1>3. chlJob[j].cleanups \in Seq(ChlTexts) /\ chlJob[j].read \in SUBSET (ChlTexts \union {ChlForeign})
  BY DEF ChlRecord
<1> HIDE DEF none, at
<1>4. ChlSets(chlJob', chlJob, j, at, none, chlJob[j].cleanups, chlJob[j].read)
  BY <1>1, <1>2, <1>3, ChlUpdates
<1> QED BY <1>4 DEF none, at

\* A step of one issuance that leaves it values of its own keeps the first part.
LEMMA ChlMove ==
    ASSUME ChlJobsInv, NEW j \in ChlJobs, chlJob' \in [ChlJobs -> ChlRecord],
           \A o \in ChlJobs : o # j => chlJob'[o] = chlJob[o],
           chlJob'[j].todo \in Seq(ChlOwn(j)), chlJob'[j].cleanups \in Seq(ChlOwn(j)),
           chlJob'[j].at \in {"adds", "written", "waits"} => chlJob'[j].todo # <<>>,
           chlJob'[j].at = "removes" => chlJob'[j].cleanups # <<>>,
           chlZone' \subseteq ChlTexts \union {ChlForeign},
           chlLost' \subseteq {"missed", "raced", "unknown"}
    PROVE  ChlJobsInv'
<1>1. ASSUME NEW o \in ChlJobs
      PROVE  /\ chlJob'[o].todo \in Seq(ChlOwn(o))
             /\ chlJob'[o].cleanups \in Seq(ChlOwn(o))
             /\ chlJob'[o].at \in {"adds", "written", "waits"} => chlJob'[o].todo # <<>>
             /\ chlJob'[o].at = "removes" => chlJob'[o].cleanups # <<>>
  <2>1. CASE o = j
    BY <2>1
  <2>2. CASE o # j
    BY <2>2 DEF ChlJobsInv
  <2> QED BY <2>1, <2>2
<1> QED BY <1>1 DEF ChlJobsInv, ChlOwn

\* SetTXT begins.
LEMMA ChlSetLooksInv ==
    ASSUME ChlInv, NEW j \in ChlJobs, ChlSetLooks(j)
    PROVE  ChlInv'
<1> DEFINE at == IF chlKind # "godaddy" /\ ChlValue(j) \in chlZone THEN "written" ELSE "adds"
           todo == chlJob[j].todo
           cleanups == chlJob[j].cleanups
           read == chlJob[j].read
<1>1. ChlJobsInv /\ ChlLockInv /\ ChlStaysInv /\ ChlGoesInv
  BY DEF ChlInv
<1>2. /\ chlJob \in [ChlJobs -> ChlRecord]
      /\ chlJob[j].todo \in Seq(ChlOwn(j)) /\ chlJob[j].cleanups \in Seq(ChlOwn(j))
      /\ chlZone \subseteq ChlTexts \union {ChlForeign}
  BY <1>1 DEF ChlJobsInv
<1>3. /\ at \in {"next", "adds", "written", "waits", "cleans", "removes", "done"}
      /\ todo \in Seq(ChlOwn(j)) /\ cleanups \in Seq(ChlOwn(j))
      /\ todo \in Seq(ChlTexts) /\ cleanups \in Seq(ChlTexts)
      /\ chlZone' \subseteq ChlTexts \union {ChlForeign}
      /\ chlLost' \subseteq {"missed", "raced", "unknown"}
      /\ at \in {"adds", "written", "waits"} => todo # <<>>
      /\ at = "removes" => cleanups # <<>>
  BY <1>1, <1>2, ChlTyped, ChlConstants DEF ChlSetLooks, ChlJobsInv, ChlRest, ChlRecord
<1>4. ChlSets(chlJob', chlJob, j, at, todo, cleanups, read)
  BY <1>2, <1>3, ChlUpdates DEF ChlSetLooks, ChlGo, ChlGivesUp
<1> HIDE DEF at, todo, cleanups, read
<1>5. /\ chlJob' \in [ChlJobs -> ChlRecord]
      /\ chlJob'[j].at = at /\ chlJob'[j].todo = todo
      /\ chlJob'[j].cleanups = cleanups /\ chlJob'[j].read = read
      /\ \A o \in ChlJobs : o # j => chlJob'[o] = chlJob[o]
  BY <1>4 DEF ChlSets
<1>6. ChlJobsInv'
  BY <1>1, <1>3, <1>5, ChlMove
<1>7. ChlLockInv'
  BY <1>1, <1>5 DEF at, ChlSetLooks, ChlLockInv, ChlEnter, ChlLeave
<1>8. ChlStaysInv'
  BY <1>1, <1>5, ChlTyped, ChlConstants DEF at, todo, cleanups, read, ChlSetLooks, ChlStaysInv, ChlValue, ChlCleanup, ChlRest
<1>9. ChlGoesInv'
  BY <1>1, <1>5, ChlTyped, ChlConstants DEF at, todo, cleanups, read, ChlSetLooks, ChlGoesInv, ChlValue, ChlCleanup, ChlRest
<1> QED BY <1>6, <1>7, <1>8, <1>9 DEF ChlInv

\* The value is added.
LEMMA ChlSetAddsInv ==
    ASSUME ChlInv, NEW j \in ChlJobs, ChlSetAdds(j)
    PROVE  ChlInv'
<1> DEFINE at == "written"
           todo == chlJob[j].todo
           cleanups == chlJob[j].cleanups
           read == chlJob[j].read
<1>1. ChlJobsInv /\ ChlLockInv /\ ChlStaysInv /\ ChlGoesInv
  BY DEF ChlInv
<1>2. /\ chlJob \in [ChlJobs -> ChlRecord]
      /\ chlJob[j].todo \in Seq(ChlOwn(j)) /\ chlJob[j].cleanups \in Seq(ChlOwn(j))
      /\ chlZone \subseteq ChlTexts \union {ChlForeign}
  BY <1>1 DEF ChlJobsInv
<1>3. /\ at \in {"next", "adds", "written", "waits", "cleans", "removes", "done"}
      /\ todo \in Seq(ChlOwn(j)) /\ cleanups \in Seq(ChlOwn(j))
      /\ todo \in Seq(ChlTexts) /\ cleanups \in Seq(ChlTexts)
      /\ chlZone' \subseteq ChlTexts \union {ChlForeign}
      /\ chlLost' \subseteq {"missed", "raced", "unknown"}
      /\ at \in {"adds", "written", "waits"} => todo # <<>>
      /\ at = "removes" => cleanups # <<>>
  BY <1>1, <1>2, ChlTyped, ChlConstants DEF ChlSetAdds, ChlJobsInv, ChlRest, ChlRecord
<1>4. ChlSets(chlJob', chlJob, j, at, todo, cleanups, read)
  BY <1>2, <1>3, ChlUpdates DEF ChlSetAdds, ChlGo, ChlGivesUp
<1> HIDE DEF at, todo, cleanups, read
<1>5. /\ chlJob' \in [ChlJobs -> ChlRecord]
      /\ chlJob'[j].at = at /\ chlJob'[j].todo = todo
      /\ chlJob'[j].cleanups = cleanups /\ chlJob'[j].read = read
      /\ \A o \in ChlJobs : o # j => chlJob'[o] = chlJob[o]
  BY <1>4 DEF ChlSets
<1>6. ChlJobsInv'
  BY <1>1, <1>3, <1>5, ChlMove
<1>7. ChlLockInv'
  BY <1>1, <1>5 DEF at, ChlSetAdds, ChlLockInv, ChlEnter, ChlLeave
<1>8. ChlStaysInv'
  BY <1>1, <1>5, ChlTyped, ChlConstants DEF at, todo, cleanups, read, ChlSetAdds, ChlStaysInv, ChlValue, ChlCleanup, ChlRest
<1>9. ASSUME chlLost = {}
      PROVE  /\ \A v \in chlZone' :
                   \/ v = ChlForeign
                   \/ \E o \in ChlJobs :
                         \/ v \in ToSet(chlJob'[o].cleanups)
                         \/ chlJob'[o].at = "written" /\ v = ChlValue(o)'
             /\ \A o \in ChlJobs :
                   /\ chlJob'[o].at = "removes" /\ ChlCleanup(o)' \in chlZone' =>
                         ChlCleanup(o)' \in chlJob'[o].read
                   /\ chlJob'[o].at = "done" => chlJob'[o].cleanups = <<>>
  <2>1. chlJob[j].at = "adds" /\ chlJob[j].todo # <<>> /\ chlZone' = chlZone \union {ChlValue(j)}
    BY <1>1 DEF ChlSetAdds, ChlJobsInv
  <2>2. \A o \in ChlJobs :
           /\ chlJob'[o].cleanups = chlJob[o].cleanups /\ chlJob'[o].read = chlJob[o].read
           /\ ChlValue(o)' = ChlValue(o) /\ ChlCleanup(o)' = ChlCleanup(o)
           /\ o # j => chlJob'[o].at = chlJob[o].at
    BY <1>5 DEF at, todo, cleanups, read, ChlValue, ChlCleanup
  <2>3. chlJob'[j].at = "written"
    BY <1>5 DEF at
  <2>4. \A v \in chlZone :
           \/ v = ChlForeign
           \/ \E o \in ChlJobs :
                 \/ v \in ToSet(chlJob[o].cleanups)
                 \/ chlJob[o].at = "written" /\ v = ChlValue(o)
    BY <1>1, <1>9 DEF ChlGoesInv
  <2>5. ASSUME NEW o \in ChlJobs, chlJob'[o].at = "removes", ChlCleanup(o) \in chlZone'
        PROVE  ChlCleanup(o) \in chlJob[o].read
    <3>1. o # j /\ chlJob[o].at = "removes" /\ chlJob[o].cleanups # <<>>
      BY <2>2, <2>3, <2>5, <1>1 DEF ChlJobsInv
    <3>2. ChlCleanup(o) \in ChlOwn(o) /\ ChlValue(j) \in ChlOwn(j)
      BY <1>1, <2>1, <3>1, ChlTyped
    <3>3. ChlCleanup(o) \in chlZone
      BY <2>1, <2>5, <3>1, <3>2, ChlConstants
    <3> QED BY <1>1, <1>9, <3>1, <3>3 DEF ChlGoesInv
  <2>6. \A o \in ChlJobs : chlJob[o].at = "done" => chlJob[o].cleanups = <<>>
    BY <1>1, <1>9 DEF ChlGoesInv
  <2> QED BY <2>1, <2>2, <2>3, <2>4, <2>5, <2>6
<1>10. ChlGoesInv'
  BY <1>9 DEF ChlGoesInv, ChlSetAdds
<1> QED BY <1>6, <1>7, <1>8, <1>10 DEF ChlInv

\* SetTXT is over.
LEMMA ChlSetReturnsInv ==
    ASSUME ChlInv, NEW j \in ChlJobs, ChlSetReturns(j)
    PROVE  ChlInv'
<1> DEFINE at == "waits"
           todo == chlJob[j].todo
           cleanups == Append(chlJob[j].cleanups, ChlValue(j))
           read == chlJob[j].read
<1>1. ChlJobsInv /\ ChlLockInv /\ ChlStaysInv /\ ChlGoesInv
  BY DEF ChlInv
<1>2. /\ chlJob \in [ChlJobs -> ChlRecord]
      /\ chlJob[j].todo \in Seq(ChlOwn(j)) /\ chlJob[j].cleanups \in Seq(ChlOwn(j))
      /\ chlZone \subseteq ChlTexts \union {ChlForeign}
  BY <1>1 DEF ChlJobsInv
<1>3. /\ at \in {"next", "adds", "written", "waits", "cleans", "removes", "done"}
      /\ todo \in Seq(ChlOwn(j)) /\ cleanups \in Seq(ChlOwn(j))
      /\ todo \in Seq(ChlTexts) /\ cleanups \in Seq(ChlTexts)
      /\ chlZone' \subseteq ChlTexts \union {ChlForeign}
      /\ chlLost' \subseteq {"missed", "raced", "unknown"}
      /\ at \in {"adds", "written", "waits"} => todo # <<>>
      /\ at = "removes" => cleanups # <<>>
  BY <1>1, <1>2, ChlTyped, ChlConstants DEF ChlSetReturns, ChlJobsInv, ChlRest, ChlRecord
<1>4. ChlSets(chlJob', chlJob, j, at, todo, cleanups, read)
  BY <1>2, <1>3, ChlUpdates DEF ChlSetReturns, ChlGo, ChlGivesUp
<1> HIDE DEF at, todo, cleanups, read
<1>5. /\ chlJob' \in [ChlJobs -> ChlRecord]
      /\ chlJob'[j].at = at /\ chlJob'[j].todo = todo
      /\ chlJob'[j].cleanups = cleanups /\ chlJob'[j].read = read
      /\ \A o \in ChlJobs : o # j => chlJob'[o] = chlJob[o]
  BY <1>4 DEF ChlSets
<1>6. ChlJobsInv'
  BY <1>1, <1>3, <1>5, ChlMove
<1>7. ChlLockInv'
  BY <1>1, <1>5 DEF at, ChlSetReturns, ChlLockInv, ChlEnter, ChlLeave
<1>8. ChlStaysInv'
  BY <1>1, <1>5, ChlTyped, ChlConstants DEF at, todo, cleanups, read, ChlSetReturns, ChlStaysInv, ChlValue, ChlCleanup, ChlRest
<1>9. ChlGoesInv'
  BY <1>1, <1>5, ChlTyped, ChlConstants DEF at, todo, cleanups, read, ChlSetReturns, ChlGoesInv, ChlValue, ChlCleanup, ChlRest
<1> QED BY <1>6, <1>7, <1>8, <1>9 DEF ChlInv

\* The order is finished.
LEMMA ChlOrderedInv ==
    ASSUME ChlInv, NEW j \in ChlJobs, ChlOrdered(j)
    PROVE  ChlInv'
<1> DEFINE at == "cleans"
           todo == chlJob[j].todo
           cleanups == chlJob[j].cleanups
           read == chlJob[j].read
<1>1. ChlJobsInv /\ ChlLockInv /\ ChlStaysInv /\ ChlGoesInv
  BY DEF ChlInv
<1>2. /\ chlJob \in [ChlJobs -> ChlRecord]
      /\ chlJob[j].todo \in Seq(ChlOwn(j)) /\ chlJob[j].cleanups \in Seq(ChlOwn(j))
      /\ chlZone \subseteq ChlTexts \union {ChlForeign}
  BY <1>1 DEF ChlJobsInv
<1>3. /\ at \in {"next", "adds", "written", "waits", "cleans", "removes", "done"}
      /\ todo \in Seq(ChlOwn(j)) /\ cleanups \in Seq(ChlOwn(j))
      /\ todo \in Seq(ChlTexts) /\ cleanups \in Seq(ChlTexts)
      /\ chlZone' \subseteq ChlTexts \union {ChlForeign}
      /\ chlLost' \subseteq {"missed", "raced", "unknown"}
      /\ at \in {"adds", "written", "waits"} => todo # <<>>
      /\ at = "removes" => cleanups # <<>>
  BY <1>1, <1>2, ChlTyped, ChlConstants DEF ChlOrdered, ChlJobsInv, ChlRest, ChlRecord
<1>4. ChlSets(chlJob', chlJob, j, at, todo, cleanups, read)
  BY <1>2, <1>3, ChlUpdates DEF ChlOrdered, ChlGo, ChlGivesUp
<1> HIDE DEF at, todo, cleanups, read
<1>5. /\ chlJob' \in [ChlJobs -> ChlRecord]
      /\ chlJob'[j].at = at /\ chlJob'[j].todo = todo
      /\ chlJob'[j].cleanups = cleanups /\ chlJob'[j].read = read
      /\ \A o \in ChlJobs : o # j => chlJob'[o] = chlJob[o]
  BY <1>4 DEF ChlSets
<1>6. ChlJobsInv'
  BY <1>1, <1>3, <1>5, ChlMove
<1>7. ChlLockInv'
  BY <1>1, <1>5 DEF at, ChlOrdered, ChlLockInv, ChlEnter, ChlLeave
<1>8. ChlStaysInv'
  BY <1>1, <1>5, ChlTyped, ChlConstants DEF at, todo, cleanups, read, ChlOrdered, ChlStaysInv, ChlValue, ChlCleanup, ChlRest
<1>9. ChlGoesInv'
  BY <1>1, <1>5, ChlTyped, ChlConstants DEF at, todo, cleanups, read, ChlOrdered, ChlGoesInv, ChlValue, ChlCleanup, ChlRest
<1> QED BY <1>6, <1>7, <1>8, <1>9 DEF ChlInv

\* RemoveTXT begins.
LEMMA ChlRemoveLooksInv ==
    ASSUME ChlInv, NEW j \in ChlJobs, ChlRemoveLooks(j)
    PROVE  ChlInv'
<1> DEFINE at == "removes"
           todo == chlJob[j].todo
           cleanups == chlJob[j].cleanups
           read == chlZone
<1>1. ChlJobsInv /\ ChlLockInv /\ ChlStaysInv /\ ChlGoesInv
  BY DEF ChlInv
<1>2. /\ chlJob \in [ChlJobs -> ChlRecord]
      /\ chlJob[j].todo \in Seq(ChlOwn(j)) /\ chlJob[j].cleanups \in Seq(ChlOwn(j))
      /\ chlZone \subseteq ChlTexts \union {ChlForeign}
  BY <1>1 DEF ChlJobsInv
<1>3. /\ at \in {"next", "adds", "written", "waits", "cleans", "removes", "done"}
      /\ todo \in Seq(ChlOwn(j)) /\ cleanups \in Seq(ChlOwn(j))
      /\ todo \in Seq(ChlTexts) /\ cleanups \in Seq(ChlTexts)
      /\ chlZone' \subseteq ChlTexts \union {ChlForeign}
      /\ chlLost' \subseteq {"missed", "raced", "unknown"}
      /\ at \in {"adds", "written", "waits"} => todo # <<>>
      /\ at = "removes" => cleanups # <<>>
  BY <1>1, <1>2, ChlTyped, ChlConstants DEF ChlRemoveLooks, ChlJobsInv, ChlRest, ChlRecord
<1>4. ChlSets(chlJob', chlJob, j, at, todo, cleanups, read)
  BY <1>2, <1>3, ChlUpdates DEF ChlRemoveLooks, ChlGo, ChlGivesUp
<1> HIDE DEF at, todo, cleanups, read
<1>5. /\ chlJob' \in [ChlJobs -> ChlRecord]
      /\ chlJob'[j].at = at /\ chlJob'[j].todo = todo
      /\ chlJob'[j].cleanups = cleanups /\ chlJob'[j].read = read
      /\ \A o \in ChlJobs : o # j => chlJob'[o] = chlJob[o]
  BY <1>4 DEF ChlSets
<1>6. ChlJobsInv'
  BY <1>1, <1>3, <1>5, ChlMove
<1>7. ChlLockInv'
  BY <1>1, <1>5 DEF at, ChlRemoveLooks, ChlLockInv, ChlEnter, ChlLeave
<1>8. ChlStaysInv'
  BY <1>1, <1>5, ChlTyped, ChlConstants DEF at, todo, cleanups, read, ChlRemoveLooks, ChlStaysInv, ChlValue, ChlCleanup, ChlRest
<1>9. ChlGoesInv'
  BY <1>1, <1>5, ChlTyped, ChlConstants DEF at, todo, cleanups, read, ChlRemoveLooks, ChlGoesInv, ChlValue, ChlCleanup, ChlRest
<1> QED BY <1>6, <1>7, <1>8, <1>9 DEF ChlInv

\* The value is removed.
LEMMA ChlRemovesInv ==
    ASSUME ChlInv, NEW j \in ChlJobs, ChlRemoves(j)
    PROVE  ChlInv'
<1> DEFINE at == "cleans"
           todo == chlJob[j].todo
           cleanups == Tail(chlJob[j].cleanups)
           read == {}
<1>1. ChlJobsInv /\ ChlLockInv /\ ChlStaysInv /\ ChlGoesInv
  BY DEF ChlInv
<1>2. /\ chlJob \in [ChlJobs -> ChlRecord]
      /\ chlJob[j].todo \in Seq(ChlOwn(j)) /\ chlJob[j].cleanups \in Seq(ChlOwn(j))
      /\ chlZone \subseteq ChlTexts \union {ChlForeign}
  BY <1>1 DEF ChlJobsInv
<1>3. /\ at \in {"next", "adds", "written", "waits", "cleans", "removes", "done"}
      /\ todo \in Seq(ChlOwn(j)) /\ cleanups \in Seq(ChlOwn(j))
      /\ todo \in Seq(ChlTexts) /\ cleanups \in Seq(ChlTexts)
      /\ chlZone' \subseteq ChlTexts \union {ChlForeign}
      /\ chlLost' \subseteq {"missed", "raced", "unknown"}
      /\ at \in {"adds", "written", "waits"} => todo # <<>>
      /\ at = "removes" => cleanups # <<>>
  BY <1>1, <1>2, ChlTyped, ChlConstants DEF ChlRemoves, ChlJobsInv, ChlRest, ChlRecord
<1>4. ChlSets(chlJob', chlJob, j, at, todo, cleanups, read)
  BY <1>2, <1>3, ChlUpdates DEF ChlRemoves, ChlGo, ChlGivesUp
<1> HIDE DEF at, todo, cleanups, read
<1>5. /\ chlJob' \in [ChlJobs -> ChlRecord]
      /\ chlJob'[j].at = at /\ chlJob'[j].todo = todo
      /\ chlJob'[j].cleanups = cleanups /\ chlJob'[j].read = read
      /\ \A o \in ChlJobs : o # j => chlJob'[o] = chlJob[o]
  BY <1>4 DEF ChlSets
<1>6. ChlJobsInv'
  BY <1>1, <1>3, <1>5, ChlMove
<1>7. ChlLockInv'
  BY <1>1, <1>5 DEF at, ChlRemoves, ChlLockInv, ChlEnter, ChlLeave
<1>8. ChlStaysInv'
  BY <1>1, <1>5, ChlTyped, ChlConstants DEF at, todo, cleanups, read, ChlRemoves, ChlStaysInv, ChlValue, ChlCleanup, ChlRest
<1>9. ASSUME chlLost' = {}
      PROVE  /\ \A v \in chlZone' :
                   \/ v = ChlForeign
                   \/ \E o \in ChlJobs :
                         \/ v \in ToSet(chlJob'[o].cleanups)
                         \/ chlJob'[o].at = "written" /\ v = ChlValue(o)'
             /\ \A o \in ChlJobs :
                   /\ chlJob'[o].at = "removes" /\ ChlCleanup(o)' \in chlZone' =>
                         ChlCleanup(o)' \in chlJob'[o].read
                   /\ chlJob'[o].at = "done" => chlJob'[o].cleanups = <<>>
  <2>1. chlJob[j].at = "removes" /\ chlJob[j].cleanups # <<>> /\ chlLost = {}
        /\ (chlKind = "godaddy" => chlJob[j].read = chlZone)
    BY <1>1, <1>9 DEF ChlRemoves, ChlJobsInv
  <2>2. chlZone' = chlZone \ {ChlCleanup(j)}
    <3>1. ChlCleanup(j) \in chlZone => ChlCleanup(j) \in chlJob[j].read
      BY <1>1, <2>1 DEF ChlGoesInv
    <3> QED BY <2>1, <3>1 DEF ChlRemoves, ChlRest
  <2>3. \A o \in ChlJobs : o # j => chlJob'[o] = chlJob[o] /\ ChlValue(o)' = ChlValue(o)
                                    /\ ChlCleanup(o)' = ChlCleanup(o)
    BY <1>5 DEF ChlValue, ChlCleanup
  <2>4. chlJob'[j].at = "cleans" /\ chlJob'[j].cleanups = Tail(chlJob[j].cleanups)
    BY <1>5 DEF at, cleanups
  <2>5. ToSet(chlJob[j].cleanups) = {ChlCleanup(j)} \union ToSet(Tail(chlJob[j].cleanups))
    BY <1>1, <2>1, ChlTyped
  <2>6. \A v \in chlZone :
           \/ v = ChlForeign
           \/ \E o \in ChlJobs :
                 \/ v \in ToSet(chlJob[o].cleanups)
                 \/ chlJob[o].at = "written" /\ v = ChlValue(o)
    BY <1>1, <2>1 DEF ChlGoesInv
  <2>7. ASSUME NEW v \in chlZone', v # ChlForeign
        PROVE  \E o \in ChlJobs :
                  \/ v \in ToSet(chlJob'[o].cleanups)
                  \/ chlJob'[o].at = "written" /\ v = ChlValue(o)'
    <3>1. v \in chlZone /\ v # ChlCleanup(j)
      BY <2>2
    <3>2. PICK o \in ChlJobs :
             \/ v \in ToSet(chlJob[o].cleanups)
             \/ chlJob[o].at = "written" /\ v = ChlValue(o)
      BY <2>6, <2>7, <3>1
    <3>3. CASE o = j
      BY <2>1, <2>4, <2>5, <3>1, <3>2, <3>3
    <3>4. CASE o # j
      BY <2>3, <3>2, <3>4
    <3> QED BY <3>3, <3>4
  <2>8. \A o \in ChlJobs :
           /\ chlJob[o].at = "removes" /\ ChlCleanup(o) \in chlZone => ChlCleanup(o) \in chlJob[o].read
           /\ chlJob[o].at = "done" => chlJob[o].cleanups = <<>>
    BY <1>1, <2>1 DEF ChlGoesInv
  <2> QED BY <2>2, <2>3, <2>4, <2>7, <2>8
<1>10. ChlGoesInv'
  BY <1>9 DEF ChlGoesInv
<1> QED BY <1>6, <1>7, <1>8, <1>10 DEF ChlInv

\* The removal fails.
LEMMA ChlRemoveFailsInv ==
    ASSUME ChlInv, NEW j \in ChlJobs, ChlRemoveFails(j)
    PROVE  ChlInv'
<1> DEFINE at == "cleans"
           todo == chlJob[j].todo
           cleanups == Tail(chlJob[j].cleanups)
           read == {}
<1>1. ChlJobsInv /\ ChlLockInv /\ ChlStaysInv /\ ChlGoesInv
  BY DEF ChlInv
<1>2. /\ chlJob \in [ChlJobs -> ChlRecord]
      /\ chlJob[j].todo \in Seq(ChlOwn(j)) /\ chlJob[j].cleanups \in Seq(ChlOwn(j))
      /\ chlZone \subseteq ChlTexts \union {ChlForeign}
  BY <1>1 DEF ChlJobsInv
<1>3. /\ at \in {"next", "adds", "written", "waits", "cleans", "removes", "done"}
      /\ todo \in Seq(ChlOwn(j)) /\ cleanups \in Seq(ChlOwn(j))
      /\ todo \in Seq(ChlTexts) /\ cleanups \in Seq(ChlTexts)
      /\ chlZone' \subseteq ChlTexts \union {ChlForeign}
      /\ chlLost' \subseteq {"missed", "raced", "unknown"}
      /\ at \in {"adds", "written", "waits"} => todo # <<>>
      /\ at = "removes" => cleanups # <<>>
  BY <1>1, <1>2, ChlTyped, ChlConstants DEF ChlRemoveFails, ChlJobsInv, ChlRest, ChlRecord
<1>4. ChlSets(chlJob', chlJob, j, at, todo, cleanups, read)
  BY <1>2, <1>3, ChlUpdates DEF ChlRemoveFails, ChlGo, ChlGivesUp
<1> HIDE DEF at, todo, cleanups, read
<1>5. /\ chlJob' \in [ChlJobs -> ChlRecord]
      /\ chlJob'[j].at = at /\ chlJob'[j].todo = todo
      /\ chlJob'[j].cleanups = cleanups /\ chlJob'[j].read = read
      /\ \A o \in ChlJobs : o # j => chlJob'[o] = chlJob[o]
  BY <1>4 DEF ChlSets
<1>6. ChlJobsInv'
  BY <1>1, <1>3, <1>5, ChlMove
<1>7. ChlLockInv'
  BY <1>1, <1>5 DEF at, ChlRemoveFails, ChlLockInv, ChlEnter, ChlLeave
<1>8. ChlStaysInv'
  BY <1>1, <1>5, ChlTyped, ChlConstants DEF at, todo, cleanups, read, ChlRemoveFails, ChlStaysInv, ChlValue, ChlCleanup, ChlRest
<1>9. ChlGoesInv'
  BY <1>1, <1>5, ChlTyped, ChlConstants DEF at, todo, cleanups, read, ChlRemoveFails, ChlGoesInv, ChlValue, ChlCleanup, ChlRest
<1> QED BY <1>6, <1>7, <1>8, <1>9 DEF ChlInv

\* All is cleaned up.
LEMMA ChlEndsInv ==
    ASSUME ChlInv, NEW j \in ChlJobs, ChlEnds(j)
    PROVE  ChlInv'
<1> DEFINE at == "done"
           todo == chlJob[j].todo
           cleanups == chlJob[j].cleanups
           read == chlJob[j].read
<1>1. ChlJobsInv /\ ChlLockInv /\ ChlStaysInv /\ ChlGoesInv
  BY DEF ChlInv
<1>2. /\ chlJob \in [ChlJobs -> ChlRecord]
      /\ chlJob[j].todo \in Seq(ChlOwn(j)) /\ chlJob[j].cleanups \in Seq(ChlOwn(j))
      /\ chlZone \subseteq ChlTexts \union {ChlForeign}
  BY <1>1 DEF ChlJobsInv
<1>3. /\ at \in {"next", "adds", "written", "waits", "cleans", "removes", "done"}
      /\ todo \in Seq(ChlOwn(j)) /\ cleanups \in Seq(ChlOwn(j))
      /\ todo \in Seq(ChlTexts) /\ cleanups \in Seq(ChlTexts)
      /\ chlZone' \subseteq ChlTexts \union {ChlForeign}
      /\ chlLost' \subseteq {"missed", "raced", "unknown"}
      /\ at \in {"adds", "written", "waits"} => todo # <<>>
      /\ at = "removes" => cleanups # <<>>
  BY <1>1, <1>2, ChlTyped, ChlConstants DEF ChlEnds, ChlJobsInv, ChlRest, ChlRecord
<1>4. ChlSets(chlJob', chlJob, j, at, todo, cleanups, read)
  BY <1>2, <1>3, ChlUpdates DEF ChlEnds, ChlGo, ChlGivesUp
<1> HIDE DEF at, todo, cleanups, read
<1>5. /\ chlJob' \in [ChlJobs -> ChlRecord]
      /\ chlJob'[j].at = at /\ chlJob'[j].todo = todo
      /\ chlJob'[j].cleanups = cleanups /\ chlJob'[j].read = read
      /\ \A o \in ChlJobs : o # j => chlJob'[o] = chlJob[o]
  BY <1>4 DEF ChlSets
<1>6. ChlJobsInv'
  BY <1>1, <1>3, <1>5, ChlMove
<1>7. ChlLockInv'
  BY <1>1, <1>5 DEF at, ChlEnds, ChlLockInv, ChlEnter, ChlLeave
<1>8. ChlStaysInv'
  BY <1>1, <1>5, ChlTyped, ChlConstants DEF at, todo, cleanups, read, ChlEnds, ChlStaysInv, ChlValue, ChlCleanup, ChlRest
<1>9. ChlGoesInv'
  BY <1>1, <1>5, ChlTyped, ChlConstants DEF at, todo, cleanups, read, ChlEnds, ChlGoesInv, ChlValue, ChlCleanup, ChlRest
<1> QED BY <1>6, <1>7, <1>8, <1>9 DEF ChlInv

\* The authority looks for a value.
LEMMA ChlCheckedInv ==
    ASSUME ChlInv, NEW j \in ChlJobs, ChlChecked(j)
    PROVE  ChlInv'
<1>1. ChlJobsInv /\ ChlLockInv /\ ChlStaysInv /\ ChlGoesInv
  BY DEF ChlInv
<1>2. /\ chlJob \in [ChlJobs -> ChlRecord]
      /\ chlJob[j].todo \in Seq(ChlOwn(j)) /\ chlJob[j].cleanups \in Seq(ChlOwn(j))
      /\ chlZone \subseteq ChlTexts \union {ChlForeign}
      /\ chlLost \subseteq {"missed", "raced", "unknown"}
      /\ chlJob[j].todo # <<>>
  BY <1>1 DEF ChlJobsInv, ChlChecked
<1>3. PICK at \in {"next", "cleans"}, todo \in Seq(ChlOwn(j)) :
         ChlSets(chlJob', chlJob, j, at, todo, chlJob[j].cleanups, chlJob[j].read)
  <2>1. Tail(chlJob[j].todo) \in Seq(ChlOwn(j)) /\ <<>> \in Seq(ChlOwn(j))
        /\ Tail(chlJob[j].todo) \in Seq(ChlTexts) /\ <<>> \in Seq(ChlTexts)
    BY <1>1, <1>2, ChlTyped, ChlConstants
  <2>2. CASE ChlValue(j) \in chlZone
    <3>1. chlJob' = [chlJob EXCEPT ![j].todo = Tail(chlJob[j].todo), ![j].at = "next"]
      BY <1>2, <2>2 DEF ChlChecked
    <3> QED BY <1>2, <2>1, <3>1, ChlUpdates
  <2>3. CASE ChlValue(j) \notin chlZone
    BY <1>2, <2>1, <2>3, ChlGivesUpSets DEF ChlChecked
  <2> QED BY <2>2, <2>3
<1>4. /\ chlJob' \in [ChlJobs -> ChlRecord]
      /\ chlJob'[j].at = at /\ chlJob'[j].todo = todo
      /\ chlJob'[j].cleanups = chlJob[j].cleanups /\ chlJob'[j].read = chlJob[j].read
      /\ \A o \in ChlJobs : o # j => chlJob'[o] = chlJob[o]
  BY <1>3 DEF ChlSets
<1>5. /\ chlJob[j].at = "waits" /\ chlZone' = chlZone /\ chlLock' = chlLock
      /\ chlLost' \subseteq {"missed", "raced", "unknown"}
      /\ chlLost' = chlLost \/ (chlLost' = chlLost \union {"missed"} /\ ChlValue(j) \notin chlZone)
  BY <1>2 DEF ChlChecked
<1>6. ChlJobsInv'
  BY <1>1, <1>2, <1>4, <1>5, ChlMove
<1>7. ChlLockInv'
  BY <1>1, <1>4, <1>5 DEF ChlLockInv
<1>8. ChlStaysInv'
  BY <1>1, <1>4, <1>5 DEF ChlStaysInv, ChlValue
<1>9. ChlGoesInv'
  BY <1>1, <1>4, <1>5 DEF ChlGoesInv, ChlValue, ChlCleanup
<1> QED BY <1>6, <1>7, <1>8, <1>9 DEF ChlInv

\* A write fails, carried out or not.
LEMMA ChlSetFailsInv ==
    ASSUME ChlInv, NEW j \in ChlJobs, NEW done \in BOOLEAN, ChlSetFails(j, done)
    PROVE  ChlInv'
<1>1. ChlJobsInv /\ ChlLockInv /\ ChlStaysInv /\ ChlGoesInv
  BY DEF ChlInv
<1>2. /\ chlJob \in [ChlJobs -> ChlRecord]
      /\ chlJob[j].cleanups \in Seq(ChlOwn(j))
      /\ chlZone \subseteq ChlTexts \union {ChlForeign}
      /\ chlLost \subseteq {"missed", "raced", "unknown"}
      /\ chlJob[j].at = "adds" /\ chlJob[j].todo # <<>>
  BY <1>1 DEF ChlJobsInv, ChlSetFails
<1>3. /\ chlJob' \in [ChlJobs -> ChlRecord]
      /\ chlJob'[j].at = "cleans" /\ chlJob'[j].todo = <<>>
      /\ chlJob'[j].cleanups = chlJob[j].cleanups /\ chlJob'[j].read = chlJob[j].read
      /\ \A o \in ChlJobs : o # j => chlJob'[o] = chlJob[o]
  BY <1>2, ChlGivesUpSets DEF ChlSetFails, ChlSets
<1>4. ChlValue(j) \in ChlTexts
  BY <1>1, <1>2, ChlTyped, ChlConstants
<1>5. /\ chlZone' \subseteq ChlTexts \union {ChlForeign}
      /\ chlLost' \subseteq {"missed", "raced", "unknown"}
      /\ chlZone \subseteq chlZone'
      /\ \/ chlLost' = chlLost /\ chlZone' = chlZone
         \/ chlLost' = chlLost \union {"unknown"}
  BY <1>2, <1>4 DEF ChlSetFails
<1>6. ChlJobsInv'
  <2>1. <<>> \in Seq(ChlOwn(j))
    OBVIOUS
  <2> QED BY <1>1, <1>2, <1>3, <1>5, <2>1, ChlMove
<1>7. ChlLockInv'
  BY <1>1, <1>3 DEF ChlLockInv, ChlSetFails, ChlLeave
<1>8. ChlStaysInv'
  BY <1>1, <1>3, <1>5 DEF ChlStaysInv, ChlValue
<1>9. ChlGoesInv'
  BY <1>1, <1>2, <1>3, <1>5 DEF ChlGoesInv, ChlValue, ChlCleanup
<1> QED BY <1>6, <1>7, <1>8, <1>9 DEF ChlInv

\* The process stops.
LEMMA ChlCrashInv ==
    ASSUME ChlInv, NEW j \in ChlJobs, ChlCrash(j)
    PROVE  ChlInv'
<1>1. ChlJobsInv /\ ChlStaysInv
  BY DEF ChlInv
<1>2. /\ chlJob \in [ChlJobs -> ChlRecord]
      /\ chlLost' = chlLost \union {"unknown"} /\ chlZone' = chlZone /\ chlLock' = ChlFree
      /\ chlJob' = [o \in ChlJobs |-> [chlJob[o] EXCEPT !.at = "done", !.read = {}]]
  BY <1>1 DEF ChlCrash, ChlJobsInv
<1>3. ASSUME NEW o \in ChlJobs
      PROVE  /\ chlJob'[o] \in ChlRecord
             /\ chlJob'[o].at = "done" /\ chlJob'[o].todo = chlJob[o].todo
             /\ chlJob'[o].cleanups = chlJob[o].cleanups
  <2> DEFINE A == {"next", "adds", "written", "waits", "cleans", "removes", "done"}
             T == Seq(ChlTexts)
             R == SUBSET (ChlTexts \union {ChlForeign})
  <2>1. chlJob[o] \in [at : A, todo : T, cleanups : T, read : R]
    BY <1>2 DEF ChlRecord
  <2>2. "done" \in A /\ {} \in R /\ chlJob'[o] = [chlJob[o] EXCEPT !.at = "done", !.read = {}]
    BY <1>2
  <2> HIDE DEF A, T, R
  <2>3. /\ chlJob'[o] \in [at : A, todo : T, cleanups : T, read : R]
        /\ chlJob'[o].at = "done" /\ chlJob'[o].todo = chlJob[o].todo
        /\ chlJob'[o].cleanups = chlJob[o].cleanups
    BY <2>1, <2>2
  <2> QED BY <2>3 DEF A, T, R, ChlRecord
<1>4. chlJob' \in [ChlJobs -> ChlRecord]
  BY <1>2, <1>3
<1>5. ChlJobsInv'
  BY <1>1, <1>2, <1>3, <1>4 DEF ChlJobsInv, ChlOwn
<1>6. ChlLockInv'
  BY <1>2 DEF ChlLockInv
<1>7. ChlStaysInv'
  BY <1>1, <1>2, <1>3 DEF ChlStaysInv
<1>8. ChlGoesInv'
  BY <1>2 DEF ChlGoesInv
<1> QED BY <1>5, <1>6, <1>7, <1>8 DEF ChlInv

\* Every step keeps the invariant.
LEMMA ChlStepInv ==
    ASSUME ChlInv, [ChlNext]_chlVars
    PROVE  ChlInv'
<1>1. CASE UNCHANGED chlVars
  <2> USE <1>1 DEF chlVars
  <2>1. ChlJobsInv <=> ChlJobsInv'
    BY DEF ChlJobsInv, ChlOwn
  <2>2. ChlLockInv <=> ChlLockInv'
    BY DEF ChlLockInv
  <2>3. ChlStaysInv <=> ChlStaysInv'
    BY DEF ChlStaysInv, ChlValue
  <2>4. ChlGoesInv <=> ChlGoesInv'
    BY DEF ChlGoesInv, ChlValue, ChlCleanup
  <2> QED BY <2>1, <2>2, <2>3, <2>4 DEF ChlInv
<1>2. ASSUME NEW kind \in ChlKinds, ChlChoose(kind)
      PROVE  ChlInv'
  <2> USE <1>2 DEF ChlChoose
  <2>1. ChlJobsInv <=> ChlJobsInv'
    BY DEF ChlJobsInv, ChlOwn
  <2>2. ChlLockInv <=> ChlLockInv'
    BY DEF ChlLockInv
  <2>3. ChlStaysInv <=> ChlStaysInv'
    BY DEF ChlStaysInv, ChlValue
  <2>4. ChlGoesInv <=> ChlGoesInv'
    BY DEF ChlGoesInv, ChlValue, ChlCleanup
  <2> QED BY <2>1, <2>2, <2>3, <2>4 DEF ChlInv
<1>3. ASSUME NEW j \in ChlJobs, ChlSetLooks(j) \/ ChlSetAdds(j) \/ ChlSetReturns(j) \/ ChlChecked(j)
                                 \/ ChlOrdered(j)
      PROVE  ChlInv'
  BY <1>3, ChlSetLooksInv, ChlSetAddsInv, ChlSetReturnsInv, ChlCheckedInv, ChlOrderedInv
<1>4. ASSUME NEW j \in ChlJobs, ChlRemoveLooks(j) \/ ChlRemoves(j) \/ ChlRemoveFails(j) \/ ChlEnds(j)
                                 \/ ChlCrash(j)
      PROVE  ChlInv'
  BY <1>4, ChlRemoveLooksInv, ChlRemovesInv, ChlRemoveFailsInv, ChlEndsInv, ChlCrashInv
<1>5. ASSUME NEW j \in ChlJobs, NEW done \in BOOLEAN, ChlSetFails(j, done)
      PROVE  ChlInv'
  BY <1>5, ChlSetFailsInv
<1> QED BY <1>1, <1>2, <1>3, <1>4, <1>5 DEF ChlNext

\* What it says of the records.
LEMMA ChlShows ==
    ASSUME ChlInv
    PROVE  ChallengesStand
<1>1. ChlJobsInv /\ ChlLockInv /\ ChlStaysInv /\ ChlGoesInv
  BY DEF ChlInv
<1>2. ASSUME ChlDone, chlLost = {}
      PROVE  chlZone = {ChlForeign}
  <2>1. \A j \in ChlJobs : chlJob[j].at = "done" /\ chlJob[j].cleanups = <<>>
    BY <1>1, <1>2 DEF ChlDone, ChlGoesInv
  <2>2. ToSet(<<>>) = {}
    BY DEF ToSet
  <2> QED BY <1>1, <1>2, <2>1, <2>2 DEF ChlStaysInv, ChlGoesInv
<1>3. ChlDone => chlLock = ChlFree
  BY <1>1 DEF ChlDone, ChlLockInv
<1> QED BY <1>1, <1>2, <1>3 DEF ChallengesStand, ChlStaysInv

-----------------------------------------------------------------------------
(* Dynamic DNS. *)

\* The runner made last, and the address that counts as last written.
DdnsNewest == Len(ddnsRunners)
DdnsLast == IF ddnsRunners = <<>> THEN ddnsSaved.ip ELSE ddnsRunners[DdnsNewest].ip
DdnsWriting(x) == ddnsRound[x].pc \in {"find", "write"}
DdnsTelling(x) == ddnsRound[x].pc \in {"note", "save"}
DdnsHasFailed ==
    \/ ddnsCount.troubles + ddnsCount.moves + ddnsCount.presses > 0
    \/ "overlap" \in ddnsExcuses

DdnsRoundSet ==
    [pc : {"rest", "detect", "find", "write", "note", "save"}, on : Nat, names : SUBSET DdnsNames,
     prev : DdnsIps, ip : DdnsIps, todo : SUBSET DdnsNames, found : DdnsIps,
     wrote : BOOLEAN, failed : BOOLEAN, noted : DdnsIps]
DdnsRunnerSet == [names : SUBSET DdnsNames, ip : DdnsIps, loop : BOOLEAN, stopped : BOOLEAN]

DdnsVarsInv ==
    /\ ddnsRule \in [on : BOOLEAN, names : SUBSET DdnsNames]
    /\ ddnsSaved \in DdnsState
    /\ ddnsDisk \in DdnsState
    /\ ddnsRunners \in Seq(DdnsRunnerSet)
    /\ ddnsCurrent \in Nat
    /\ ddnsRound \in [DdnsSlots -> DdnsRoundSet]
    /\ ddnsHost \subseteq DdnsAddresses
    /\ ddnsZone \in [DdnsNames -> Seq(DdnsAddresses)]
    /\ ddnsCount \in [moves : Nat, presses : Nat, troubles : Nat, edits : Nat]
    /\ ddnsExcuses \subseteq {"overlap", "failed", "partial", "edited", "lost"}

\* One runner at most works for the rule, the newest; a loop's round is its own.
DdnsRunnersInv ==
    /\ ddnsCurrent \in {0, DdnsNewest}
    /\ DdnsNewest <= DdnsMaxRunners
    /\ ddnsCurrent # 0 =>
          /\ ddnsRule.on
          /\ ddnsRunners[ddnsCurrent].loop
          /\ ~ddnsRunners[ddnsCurrent].stopped
          /\ ddnsRunners[ddnsCurrent].names = ddnsRule.names
    /\ \A i \in DOMAIN ddnsRunners :
          /\ ddnsRunners[i].names # {}
          /\ ddnsRunners[i].loop /\ ~ddnsRunners[i].stopped => i = ddnsCurrent
    /\ ddnsRule.names # {}
    /\ ddnsRunners = <<>> => ddnsSaved.ip = ddnsDisk.ip
    /\ \A x \in DdnsSlots : DdnsGoing(x) =>
          /\ ddnsRound[x].on \in DOMAIN ddnsRunners
          /\ x # 0 => ddnsRound[x].on = x /\ ddnsRunners[x].loop

\* A round has an address while it works, and what it wrote is written.
DdnsRoundsInv ==
    \A x \in DdnsSlots :
       /\ DdnsWriting(x) =>
             /\ ddnsRound[x].ip # 0
             /\ ddnsRound[x].names # {}
             /\ ddnsRound[x].wrote \/ ddnsRound[x].failed \/ ddnsRound[x].todo = ddnsRound[x].names
             /\ ddnsRound[x].todo \subseteq ddnsRound[x].names
             /\ ddnsRound[x].wrote => ddnsRound[x].ip \in ddnsWritten
       /\ ~DdnsWriting(x) => ddnsRound[x].ip = 0
       /\ ddnsRound[x].pc = "detect" => ~ddnsRound[x].wrote /\ ~ddnsRound[x].failed /\ ddnsRound[x].names # {}
       /\ ddnsRound[x].pc = "write" => ddnsRound[x].todo # {}
       /\ ddnsRound[x].noted \in ddnsWritten \union {0}

\* A failure that is shown, or will be, is one.
DdnsFailuresInv ==
    /\ ddnsHost = {} => ddnsCount.moves > 0
    /\ ddnsSaved.status = "failed" \/ ddnsDisk.status = "failed" => DdnsHasFailed
    /\ \A x \in DdnsSlots :
          /\ DdnsTelling(x) /\ ddnsRound[x].failed => DdnsHasFailed
          /\ DdnsWriting(x) /\ ddnsRound[x].failed => DdnsHasFailed \/ DdnsCut(x)
    /\ DdnsGoing(0) => ddnsCount.presses > 0
    /\ \A x \in DdnsSlots \ {0} :
          x = ddnsCurrent /\ ddnsRound[x].pc = "write" /\ ddnsRound[x].found = 0 =>
             \/ DdnsHasFailed
             \/ DdnsProvider[Min(ddnsRound[x].todo)] \in {"cloudflare", "godaddy"}
             \/ ddnsZone[Min(ddnsRound[x].todo)] = <<>>

\* While no two rounds overlapped, every record has at most one value; what a
\* round has done stays, and what it found is there or is right already.
DdnsZoneInv ==
    "overlap" \notin ddnsExcuses =>
       /\ \A n \in DdnsNames : ddnsZone[n] = <<>> \/ \E ip \in DdnsAddresses : ddnsZone[n] = <<ip>>
       /\ \A x \in DdnsSlots :
             /\ DdnsWriting(x) /\ ~ddnsRound[x].failed =>
                   \A n \in ddnsRound[x].names \ ddnsRound[x].todo : ddnsZone[n] = <<ddnsRound[x].ip>>
             /\ ddnsRound[x].pc = "write" =>
                   LET n == Min(ddnsRound[x].todo) IN
                   \/ ddnsZone[n] = <<ddnsRound[x].ip>>
                   \/ DdnsProvider[n] \notin {"aliyun", "tencent", "baidu", "cloudflare"}
                   \/ IF ddnsRound[x].found = 0 THEN ddnsZone[n] = <<>>
                                                ELSE ddnsZone[n] = <<ddnsRound[x].found>>

\* A round of a loop that is no longer the newest, on its way to save an address
\* that is not the last.
DdnsLate(x) ==
    /\ x # 0 /\ ddnsRound[x].on # DdnsNewest
    /\ \/ DdnsWriting(x) /\ ddnsRound[x].wrote /\ ddnsRound[x].ip # DdnsLast
       \/ DdnsTelling(x) /\ DdnsRunnerOf(x).ip # DdnsLast

\* While nothing is excused, the record is at the address last written, or a round
\* of the newest runner has just put it at its own, or a late round will tell.
DdnsFollowInv ==
    ddnsExcuses = {} =>
       /\ ddnsRunners # <<>> => ddnsRule.names \subseteq ddnsRunners[DdnsNewest].names
       /\ \/ ddnsSaved.ip = DdnsLast
          \/ \E x \in DdnsSlots : DdnsTelling(x) /\ ddnsRound[x].on = DdnsNewest
       /\ DdnsLast # 0 => \A n \in ddnsRule.names :
             \/ ddnsZone[n] = <<DdnsLast>>
             \/ \E x \in DdnsSlots :
                   /\ DdnsWriting(x) /\ ddnsRound[x].on = DdnsNewest
                   /\ ddnsRound[x].wrote /\ ddnsZone[n] = <<ddnsRound[x].ip>>
             \/ /\ ~(DdnsGoing(0) /\ ddnsRound[0].on # DdnsNewest)
                /\ \E x \in DdnsSlots : DdnsLate(x)

DdnsInv ==
    /\ DdnsVarsInv
    /\ DdnsRunnersInv
    /\ DdnsRoundsInv
    /\ DdnsFailuresInv
    /\ DdnsZoneInv
    /\ DdnsFollowInv
    /\ DdnsAddressIsReal

\* The assumption, without what the steps do not need.
LEMMA DdnsConstants ==
    /\ DdnsNames \subseteq Nat /\ DdnsAddresses \subseteq Nat
    /\ DdnsNames # {} /\ DdnsAddresses # {} /\ 0 \notin DdnsAddresses /\ DdnsAddresses \subseteq DdnsIps
    /\ 0 \in DdnsIps /\ \A ip \in DdnsIps : ip # 0 => ip \in DdnsAddresses
    /\ DdnsMaxRunners \in Nat /\ DdnsMaxRunners >= 1
    /\ DdnsSlots \subseteq Nat /\ 0 \in DdnsSlots
    /\ \A n \in DdnsNames : DdnsProvider[n] \in {"aliyun", "tencent", "baidu", "cloudflare", "godaddy"}
BY DdnsAssumption DEF DdnsSlots, DdnsIps

\* The least of a set of numbers is one of them.
LEMMA LeastIsIn ==
    ASSUME NEW S, S \subseteq Nat, S # {}
    PROVE  Min(S) \in S
<1> DEFINE R == OpToRel(<, Nat)
<1>1. IsWellFoundedOn(R, Nat)
  BY NatLessThanWellFounded
<1>2. \E x \in S : \A y \in S : ~ (<<y, x>> \in R)
  <2> HIDE DEF R
  <2> QED BY <1>1, WFMin
<1>3. \A x, y \in Nat : <<y, x>> \in R <=> y < x
  BY DEF OpToRel
<1> HIDE DEF R
<1>4. PICK x \in S : \A y \in S : ~ (<<y, x>> \in R)
  BY <1>2
<1>5. \A y \in S : x <= y
  <2>1. TAKE y \in S
  <2>2. x \in Nat /\ y \in Nat
    OBVIOUS
  <2>3. ~ (y < x)
    BY <1>3, <1>4, <2>2
  <2> QED BY <2>2, <2>3
<1> QED BY <1>5 DEF Min

\* The fields of a round, and of a runner.
LEMMA DdnsRoundTyped ==
    ASSUME DdnsVarsInv, NEW x \in DdnsSlots
    PROVE  /\ ddnsRound[x] \in DdnsRoundSet
           /\ ddnsRound[x].pc \in {"rest", "detect", "find", "write", "note", "save"}
           /\ ddnsRound[x].on \in Nat /\ ddnsRound[x].names \subseteq DdnsNames
           /\ ddnsRound[x].todo \subseteq DdnsNames
           /\ ddnsRound[x].ip \in DdnsIps /\ ddnsRound[x].prev \in DdnsIps
           /\ ddnsRound[x].found \in DdnsIps /\ ddnsRound[x].noted \in DdnsIps
           /\ ddnsRound[x].wrote \in BOOLEAN /\ ddnsRound[x].failed \in BOOLEAN
<1>1. ddnsRound[x] \in DdnsRoundSet
  BY DEF DdnsVarsInv
<1> QED BY <1>1 DEF DdnsRoundSet

LEMMA DdnsRunnerTyped ==
    ASSUME DdnsVarsInv
    PROVE  /\ ddnsRunners \in Seq(DdnsRunnerSet)
           /\ DdnsNewest \in Nat /\ DOMAIN ddnsRunners = 1..DdnsNewest
           /\ ddnsRunners # <<>> => DdnsNewest \in DOMAIN ddnsRunners
           /\ ddnsRunners = <<>> => DdnsNewest = 0
           /\ \A i \in DOMAIN ddnsRunners :
                 /\ ddnsRunners[i] \in DdnsRunnerSet
                 /\ ddnsRunners[i].names \subseteq DdnsNames /\ ddnsRunners[i].ip \in DdnsIps
                 /\ ddnsRunners[i].loop \in BOOLEAN /\ ddnsRunners[i].stopped \in BOOLEAN
<1>1. ddnsRunners \in Seq(DdnsRunnerSet)
  BY DEF DdnsVarsInv
<1>2. /\ DdnsNewest \in Nat /\ DOMAIN ddnsRunners = 1..DdnsNewest
      /\ \A i \in DOMAIN ddnsRunners : ddnsRunners[i] \in DdnsRunnerSet
  BY <1>1 DEF DdnsNewest
<1>3. /\ ddnsRunners # <<>> => DdnsNewest # 0
      /\ ddnsRunners = <<>> => DdnsNewest = 0
  BY <1>1 DEF DdnsNewest
<1>4. \A i \in DOMAIN ddnsRunners :
         /\ ddnsRunners[i].names \subseteq DdnsNames /\ ddnsRunners[i].ip \in DdnsIps
         /\ ddnsRunners[i].loop \in BOOLEAN /\ ddnsRunners[i].stopped \in BOOLEAN
  BY <1>2 DEF DdnsRunnerSet
<1> QED BY <1>1, <1>2, <1>3, <1>4

LEMMA DdnsOtherTyped ==
    ASSUME DdnsVarsInv
    PROVE  /\ ddnsRule.on \in BOOLEAN /\ ddnsRule.names \subseteq DdnsNames
           /\ ddnsSaved.ip \in DdnsIps /\ ddnsDisk.ip \in DdnsIps
           /\ ddnsCount.moves \in Nat /\ ddnsCount.presses \in Nat
           /\ ddnsCount.troubles \in Nat /\ ddnsCount.edits \in Nat
           /\ \A n \in DdnsNames : ddnsZone[n] \in Seq(DdnsAddresses)
           /\ ddnsCurrent \in Nat
<1>1. ddnsRule.on \in BOOLEAN /\ ddnsRule.names \subseteq DdnsNames
  BY DEF DdnsVarsInv
<1>2. ddnsSaved.ip \in DdnsIps /\ ddnsDisk.ip \in DdnsIps
  BY DEF DdnsVarsInv, DdnsState
<1>3. /\ ddnsCount.moves \in Nat /\ ddnsCount.presses \in Nat
      /\ ddnsCount.troubles \in Nat /\ ddnsCount.edits \in Nat
  BY DEF DdnsVarsInv
<1>4. \A n \in DdnsNames : ddnsZone[n] \in Seq(DdnsAddresses)
  BY DEF DdnsVarsInv
<1> QED BY <1>1, <1>2, <1>3, <1>4 DEF DdnsVarsInv

\* A round with these fields, whatever address it began from.
DdnsRoundIs(r, pc, on, names, ip, todo, found, wrote, failed, noted) ==
    /\ r \in DdnsRoundSet
    /\ r.pc = pc /\ r.on = on /\ r.names = names /\ r.ip = ip /\ r.todo = todo
    /\ r.found = found /\ r.wrote = wrote /\ r.failed = failed /\ r.noted = noted

\* What the rounds that the actions begin and report come to.
LEMMA DdnsNewRounds ==
    /\ DdnsRoundIs(DdnsRest, "rest", 0, {}, 0, {}, 0, FALSE, FALSE, 0)
    /\ \A on \in Nat, names \in SUBSET DdnsNames, prev \in DdnsIps :
          DdnsRoundIs([DdnsRest EXCEPT !.pc = "detect", !.on = on, !.names = names, !.prev = prev],
                      "detect", on, names, 0, {}, 0, FALSE, FALSE, 0)
    /\ \A on \in Nat, failed \in BOOLEAN :
          DdnsRoundIs([DdnsRest EXCEPT !.pc = "note", !.on = on, !.failed = failed],
                      "note", on, {}, 0, {}, 0, FALSE, failed, 0)
<1>1. 0 \in DdnsIps /\ {} \in SUBSET DdnsNames /\ 0 \in Nat
  BY DdnsConstants
<1>2. DdnsRoundIs(DdnsRest, "rest", 0, {}, 0, {}, 0, FALSE, FALSE, 0)
  BY <1>1 DEF DdnsRest, DdnsRoundIs, DdnsRoundSet
<1>3. ASSUME NEW on \in Nat, NEW names \in SUBSET DdnsNames, NEW prev \in DdnsIps
      PROVE  DdnsRoundIs([DdnsRest EXCEPT !.pc = "detect", !.on = on, !.names = names, !.prev = prev],
                         "detect", on, names, 0, {}, 0, FALSE, FALSE, 0)
  BY <1>1 DEF DdnsRest, DdnsRoundIs, DdnsRoundSet
<1>4. ASSUME NEW on \in Nat, NEW failed \in BOOLEAN
      PROVE  DdnsRoundIs([DdnsRest EXCEPT !.pc = "note", !.on = on, !.failed = failed],
                         "note", on, {}, 0, {}, 0, FALSE, failed, 0)
  BY <1>1 DEF DdnsRest, DdnsRoundIs, DdnsRoundSet
<1> QED BY <1>2, <1>3, <1>4

\* And those of a round on its way.
LEMMA DdnsRoundUpdates ==
    ASSUME NEW r \in DdnsRoundSet
    PROVE  /\ \A ip \in DdnsIps, todo \in SUBSET DdnsNames :
                 DdnsRoundIs([[r EXCEPT !.ip = ip] EXCEPT !.pc = "find", !.todo = todo, !.prev = 0],
                             "find", r.on, r.names, ip, todo, r.found, r.wrote, r.failed, r.noted)
           /\ \A found \in DdnsIps :
                 DdnsRoundIs([r EXCEPT !.pc = "write", !.found = found],
                             "write", r.on, r.names, r.ip, r.todo, found, r.wrote, r.failed, r.noted)
           /\ \A todo \in SUBSET DdnsNames, wrote, failed \in BOOLEAN :
                 DdnsRoundIs([r EXCEPT !.pc = "find", !.todo = todo, !.found = 0,
                                       !.wrote = wrote, !.failed = failed],
                             "find", r.on, r.names, r.ip, todo, 0, wrote, failed, r.noted)
           /\ \A noted \in DdnsIps :
                 DdnsRoundIs([r EXCEPT !.pc = "save", !.noted = noted],
                             "save", r.on, r.names, r.ip, r.todo, r.found, r.wrote, r.failed, noted)
<1> DEFINE P == {"rest", "detect", "find", "write", "note", "save"}
           N == SUBSET DdnsNames
           B == BOOLEAN
           Set == [pc : P, on : Nat, names : N, prev : DdnsIps, ip : DdnsIps, todo : N, found : DdnsIps,
                   wrote : B, failed : B, noted : DdnsIps]
<1>1. r \in Set /\ Set = DdnsRoundSet /\ B = BOOLEAN /\ N = SUBSET DdnsNames
  BY DEF DdnsRoundSet
<1>2. {"find", "write", "save"} \subseteq P /\ 0 \in DdnsIps
  BY DdnsConstants
<1> HIDE DEF P, N, B
<1>3. \A ip \in DdnsIps, todo \in N :
         DdnsRoundIs([[r EXCEPT !.ip = ip] EXCEPT !.pc = "find", !.todo = todo, !.prev = 0],
                     "find", r.on, r.names, ip, todo, r.found, r.wrote, r.failed, r.noted)
  BY <1>1, <1>2 DEF DdnsRoundIs
<1>4. \A found \in DdnsIps :
         DdnsRoundIs([r EXCEPT !.pc = "write", !.found = found],
                     "write", r.on, r.names, r.ip, r.todo, found, r.wrote, r.failed, r.noted)
  BY <1>1, <1>2 DEF DdnsRoundIs
<1>5. ASSUME NEW todo \in N, NEW wrote \in B, NEW failed \in B
      PROVE  DdnsRoundIs([r EXCEPT !.pc = "find", !.todo = todo, !.found = 0,
                                   !.wrote = wrote, !.failed = failed],
                         "find", r.on, r.names, r.ip, todo, 0, wrote, failed, r.noted)
  <2> DEFINE g == [r EXCEPT !.pc = "find", !.todo = todo, !.found = 0, !.wrote = wrote, !.failed = failed]
  <2>1. g \in Set
    BY <1>1, <1>2
  <2>2. /\ g.pc = "find" /\ g.on = r.on /\ g.names = r.names /\ g.ip = r.ip /\ g.todo = todo
        /\ g.found = 0 /\ g.noted = r.noted
    BY <1>1
  <2>3. g.wrote = wrote
    BY <1>1
  <2>4. g.failed = failed
    BY <1>1
  <2> HIDE DEF g
  <2>5. DdnsRoundIs(g, "find", r.on, r.names, r.ip, todo, 0, wrote, failed, r.noted)
    BY <1>1, <2>1, <2>2, <2>3, <2>4 DEF DdnsRoundIs
  <2> QED BY <2>5 DEF g
<1>6. \A noted \in DdnsIps :
         DdnsRoundIs([r EXCEPT !.pc = "save", !.noted = noted],
                     "save", r.on, r.names, r.ip, r.todo, r.found, r.wrote, r.failed, noted)
  BY <1>1, <1>2 DEF DdnsRoundIs
<1> QED BY <1>1, <1>3, <1>4, <1>5, <1>6

\* What the updates of a runner come to.
LEMMA DdnsRunnerUpdates ==
    ASSUME DdnsVarsInv, NEW i \in DOMAIN ddnsRunners
    PROVE  /\ \A ip \in DdnsIps :
                 LET g == [ddnsRunners EXCEPT ![i].ip = ip] IN
                 /\ g \in Seq(DdnsRunnerSet) /\ DOMAIN g = DOMAIN ddnsRunners /\ Len(g) = Len(ddnsRunners)
                 /\ \A k \in DOMAIN ddnsRunners :
                       /\ g[k].names = ddnsRunners[k].names /\ g[k].loop = ddnsRunners[k].loop
                       /\ g[k].stopped = ddnsRunners[k].stopped
                       /\ g[k].ip = IF k = i THEN ip ELSE ddnsRunners[k].ip
           /\ LET g == [ddnsRunners EXCEPT ![i].stopped = TRUE] IN
                 /\ g \in Seq(DdnsRunnerSet) /\ DOMAIN g = DOMAIN ddnsRunners /\ Len(g) = Len(ddnsRunners)
                 /\ \A k \in DOMAIN ddnsRunners :
                       /\ g[k].names = ddnsRunners[k].names /\ g[k].loop = ddnsRunners[k].loop
                       /\ g[k].stopped <=> (k = i \/ ddnsRunners[k].stopped)
                       /\ g[k].ip = ddnsRunners[k].ip
           /\ \A names \in SUBSET DdnsNames :
                 LET g == [ddnsRunners EXCEPT ![i].names = names] IN
                 /\ g \in Seq(DdnsRunnerSet) /\ DOMAIN g = DOMAIN ddnsRunners /\ Len(g) = Len(ddnsRunners)
                 /\ \A k \in DOMAIN ddnsRunners :
                       /\ g[k].names = IF k = i THEN names ELSE ddnsRunners[k].names
                       /\ g[k].loop = ddnsRunners[k].loop
                       /\ g[k].stopped = ddnsRunners[k].stopped /\ g[k].ip = ddnsRunners[k].ip
<1> DEFINE N == SUBSET DdnsNames
           B == BOOLEAN
           Set == [names : N, ip : DdnsIps, loop : B, stopped : B]
<1>1. Set = DdnsRunnerSet /\ N = SUBSET DdnsNames
  BY DEF DdnsRunnerSet
<1>2. TRUE \in B
  OBVIOUS
<1>3. /\ ddnsRunners \in Seq(DdnsRunnerSet) /\ Len(ddnsRunners) \in Nat
      /\ DOMAIN ddnsRunners = 1..Len(ddnsRunners)
      /\ \A k \in DOMAIN ddnsRunners : ddnsRunners[k] \in Set
  BY <1>1, DdnsRunnerTyped DEF DdnsNewest
<1> HIDE DEF N, B
<1>4. ASSUME NEW r \in DdnsRunnerSet
      PROVE  LET g == [ddnsRunners EXCEPT ![i] = r] IN
             /\ g \in Seq(DdnsRunnerSet) /\ DOMAIN g = DOMAIN ddnsRunners /\ Len(g) = Len(ddnsRunners)
             /\ g[i] = r /\ \A k \in DOMAIN ddnsRunners : k # i => g[k] = ddnsRunners[k]
  BY <1>3
<1>5. ASSUME NEW ip \in DdnsIps
      PROVE  LET g == [ddnsRunners EXCEPT ![i].ip = ip] IN
             /\ g \in Seq(DdnsRunnerSet) /\ DOMAIN g = DOMAIN ddnsRunners /\ Len(g) = Len(ddnsRunners)
             /\ \A k \in DOMAIN ddnsRunners :
                   /\ g[k].names = ddnsRunners[k].names /\ g[k].loop = ddnsRunners[k].loop
                   /\ g[k].stopped = ddnsRunners[k].stopped
                   /\ g[k].ip = IF k = i THEN ip ELSE ddnsRunners[k].ip
  <2> DEFINE r == [ddnsRunners[i] EXCEPT !.ip = ip]
  <2>1. r \in Set /\ r.names = ddnsRunners[i].names /\ r.ip = ip /\ r.loop = ddnsRunners[i].loop
        /\ r.stopped = ddnsRunners[i].stopped
    BY <1>3
  <2>2. [ddnsRunners EXCEPT ![i].ip = ip] = [ddnsRunners EXCEPT ![i] = r]
    OBVIOUS
  <2> HIDE DEF r
  <2> QED BY <1>1, <1>4, <2>1, <2>2
<1>6. LET g == [ddnsRunners EXCEPT ![i].stopped = TRUE] IN
      /\ g \in Seq(DdnsRunnerSet) /\ DOMAIN g = DOMAIN ddnsRunners /\ Len(g) = Len(ddnsRunners)
      /\ \A k \in DOMAIN ddnsRunners :
            /\ g[k].names = ddnsRunners[k].names /\ g[k].loop = ddnsRunners[k].loop
            /\ g[k].stopped <=> (k = i \/ ddnsRunners[k].stopped)
            /\ g[k].ip = ddnsRunners[k].ip
  <2> DEFINE r == [ddnsRunners[i] EXCEPT !.stopped = TRUE]
  <2>1. r \in Set /\ r.names = ddnsRunners[i].names /\ r.ip = ddnsRunners[i].ip
        /\ r.loop = ddnsRunners[i].loop /\ r.stopped
    BY <1>2, <1>3
  <2>2. [ddnsRunners EXCEPT ![i].stopped = TRUE] = [ddnsRunners EXCEPT ![i] = r]
    OBVIOUS
  <2> HIDE DEF r
  <2> QED BY <1>1, <1>4, <2>1, <2>2
<1>7. ASSUME NEW names \in N
      PROVE  LET g == [ddnsRunners EXCEPT ![i].names = names] IN
             /\ g \in Seq(DdnsRunnerSet) /\ DOMAIN g = DOMAIN ddnsRunners /\ Len(g) = Len(ddnsRunners)
             /\ \A k \in DOMAIN ddnsRunners :
                   /\ g[k].names = IF k = i THEN names ELSE ddnsRunners[k].names
                   /\ g[k].loop = ddnsRunners[k].loop
                   /\ g[k].stopped = ddnsRunners[k].stopped /\ g[k].ip = ddnsRunners[k].ip
  <2> DEFINE r == [ddnsRunners[i] EXCEPT !.names = names]
  <2>1. r \in Set /\ r.names = names /\ r.ip = ddnsRunners[i].ip
        /\ r.loop = ddnsRunners[i].loop /\ r.stopped = ddnsRunners[i].stopped
    BY <1>3
  <2>2. [ddnsRunners EXCEPT ![i].names = names] = [ddnsRunners EXCEPT ![i] = r]
    OBVIOUS
  <2> HIDE DEF r
  <2> QED BY <1>1, <1>4, <2>1, <2>2
<1> QED BY <1>1, <1>5, <1>6, <1>7

\* It holds at the start.
LEMMA DdnsInitInv ==
    ASSUME DdnsInit
    PROVE  DdnsInv
<1> DEFINE first == [names |-> DdnsNames, ip |-> 0, loop |-> TRUE, stopped |-> FALSE]
<1>1. first \in DdnsRunnerSet
  BY DdnsConstants DEF DdnsRunnerSet
<1>2. first.names = DdnsNames /\ first.ip = 0 /\ first.loop /\ ~first.stopped
  OBVIOUS
<1> HIDE DEF first
<1>3. ddnsRunners = <<first>>
  BY DEF DdnsInit, first
<1>4. /\ ddnsRunners \in Seq(DdnsRunnerSet) /\ DdnsNewest = 1 /\ DOMAIN ddnsRunners = {1}
      /\ ddnsRunners[1] = first /\ ddnsRunners # <<>>
  BY <1>1, <1>3 DEF DdnsNewest
<1>5. \A x \in DdnsSlots : ddnsRound[x] = DdnsRest
  BY DEF DdnsInit
<1>6. \A x \in DdnsSlots : DdnsRoundIs(ddnsRound[x], "rest", 0, {}, 0, {}, 0, FALSE, FALSE, 0)
  BY <1>5, DdnsNewRounds
<1>7. /\ ddnsRule.on /\ ddnsRule.names = DdnsNames /\ ddnsRule \in [on : BOOLEAN, names : SUBSET DdnsNames]
      /\ ddnsSaved.ip = 0 /\ ddnsSaved.status = "none" /\ ddnsDisk = ddnsSaved /\ ddnsSaved \in DdnsState
      /\ ddnsCount \in [moves : Nat, presses : Nat, troubles : Nat, edits : Nat]
  BY DdnsConstants DEF DdnsInit, DdnsState
<1>8. ddnsHost \subseteq DdnsAddresses /\ ddnsHost # {}
  BY DdnsConstants, LeastIsIn DEF DdnsInit
<1>9. ddnsZone \in [DdnsNames -> Seq(DdnsAddresses)] /\ \A n \in DdnsNames : ddnsZone[n] = <<>>
  BY DEF DdnsInit
<1>10. DdnsVarsInv
  <2>1. ddnsRound \in [DdnsSlots -> DdnsRoundSet]
    BY <1>6 DEF DdnsInit, DdnsRoundIs
  <2> QED BY <1>4, <1>7, <1>8, <1>9, <2>1 DEF DdnsVarsInv, DdnsInit
<1>11. DdnsRunnersInv
  BY <1>2, <1>4, <1>6, <1>7, DdnsConstants DEF DdnsRunnersInv, DdnsInit, DdnsGoing, DdnsRoundIs
<1>12. DdnsRoundsInv
  BY <1>6 DEF DdnsRoundsInv, DdnsRoundIs, DdnsWriting
<1>13. DdnsFailuresInv
  BY <1>6, <1>7, <1>8, DdnsConstants DEF DdnsFailuresInv, DdnsRoundIs, DdnsWriting, DdnsTelling, DdnsGoing
<1>14. DdnsZoneInv
  BY <1>6, <1>9 DEF DdnsZoneInv, DdnsRoundIs, DdnsWriting
<1>15. DdnsFollowInv
  BY <1>2, <1>4, <1>7 DEF DdnsFollowInv, DdnsLast
<1>16. DdnsAddressIsReal
  BY <1>2, <1>4, <1>7 DEF DdnsAddressIsReal, DdnsNewest
<1> QED BY <1>10, <1>11, <1>12, <1>13, <1>14, <1>15, <1>16 DEF DdnsInv

-----------------------------------------------------------------------------
(* Steps that change a round and nothing but a count beside it. *)

\* What a round may become, so that the invariant holds on.
DdnsFits(x, r) ==
    /\ r \in DdnsRoundSet
    /\ r.pc # "rest" =>
          /\ r.on \in DOMAIN ddnsRunners
          /\ x # 0 => r.on = x /\ ddnsRunners[x].loop
          /\ x = 0 => ddnsCount'.presses > 0
    /\ r.pc \in {"find", "write"} =>
          /\ r.ip # 0
          /\ r.names # {}
          /\ r.wrote \/ r.failed \/ r.todo = r.names
          /\ r.todo \subseteq r.names
          /\ r.wrote => r.ip \in ddnsWritten
          /\ r.failed => DdnsHasFailed' \/ (x # 0 /\ ddnsRunners[r.on].stopped)
          /\ "overlap" \notin ddnsExcuses /\ ~r.failed =>
                \A n \in r.names \ r.todo : ddnsZone[n] = <<r.ip>>
    /\ r.pc \notin {"find", "write"} => r.ip = 0
    /\ r.pc = "detect" => ~r.wrote /\ ~r.failed /\ r.names # {}
    /\ r.pc = "write" =>
          /\ r.todo # {}
          /\ \/ ddnsZone[Min(r.todo)] = <<r.ip>> /\ r.found # 0
             \/ DdnsProvider[Min(r.todo)] = "godaddy"
             \/ r.found = 0 /\ ddnsZone[Min(r.todo)] = <<>>
             \/ r.found # 0 /\ ("overlap" \notin ddnsExcuses => ddnsZone[Min(r.todo)] = <<r.found>>)
    /\ r.noted \in ddnsWritten \union {0}
    /\ r.pc \in {"note", "save"} /\ r.failed => DdnsHasFailed'
    /\ DdnsTelling(x) => r.pc \in {"note", "save"} /\ r.on = ddnsRound[x].on
    /\ DdnsWriting(x) /\ ddnsRound[x].wrote =>
          r.pc \in {"find", "write"} /\ r.wrote /\ r.on = ddnsRound[x].on /\ r.ip = ddnsRound[x].ip
    /\ x = 0 /\ r.pc # "rest" => r.on = DdnsNewest \/ (DdnsGoing(x) /\ r.on = ddnsRound[x].on)

LEMMA DdnsRoundStepInv ==
    ASSUME DdnsInv, NEW x \in DdnsSlots, NEW r, DdnsFits(x, r), DdnsGo(x, r),
           ddnsCount' \in [moves : Nat, presses : Nat, troubles : Nat, edits : Nat],
           ddnsCount'.moves = ddnsCount.moves, ddnsCount'.presses >= ddnsCount.presses,
           ddnsCount'.troubles >= ddnsCount.troubles,
           UNCHANGED <<ddnsRule, ddnsSaved, ddnsDisk, ddnsRunners, ddnsCurrent, ddnsHost, ddnsZone,
                       ddnsWritten, ddnsExcuses>>
    PROVE  DdnsInv'
<1>1. /\ DdnsVarsInv /\ DdnsRunnersInv /\ DdnsRoundsInv /\ DdnsFailuresInv /\ DdnsZoneInv
      /\ DdnsFollowInv /\ DdnsAddressIsReal
  BY DEF DdnsInv
<1>2. /\ ddnsRound' \in [DdnsSlots -> DdnsRoundSet] /\ ddnsRound'[x] = r
      /\ \A y \in DdnsSlots : y # x => ddnsRound'[y] = ddnsRound[y]
  BY <1>1 DEF DdnsVarsInv, DdnsGo, DdnsFits
<1>3. DdnsHasFailed => DdnsHasFailed'
  <2>1. /\ ddnsCount.moves \in Nat /\ ddnsCount.presses \in Nat /\ ddnsCount.troubles \in Nat
        /\ ddnsCount'.moves \in Nat /\ ddnsCount'.presses \in Nat /\ ddnsCount'.troubles \in Nat
    BY <1>1 DEF DdnsVarsInv
  <2> QED BY <2>1 DEF DdnsHasFailed
<1>4. DdnsNewest' = DdnsNewest /\ DdnsLast' = DdnsLast
  BY DEF DdnsNewest, DdnsLast
<1>5. DdnsVarsInv'
  BY <1>1, <1>2 DEF DdnsVarsInv, DdnsState, DdnsIps, DdnsRunnerSet
<1>6. DdnsRunnersInv'
  <2>1. ASSUME NEW y \in DdnsSlots, DdnsGoing(y)'
        PROVE  /\ ddnsRound'[y].on \in DOMAIN ddnsRunners
               /\ y # 0 => ddnsRound'[y].on = y /\ ddnsRunners[y].loop
    BY <1>1, <1>2, <2>1 DEF DdnsRunnersInv, DdnsGoing, DdnsFits
  <2> QED BY <1>1, <1>4, <2>1 DEF DdnsRunnersInv
<1>7. DdnsRoundsInv'
  BY <1>1, <1>2 DEF DdnsRoundsInv, DdnsWriting, DdnsFits
<1>8. DdnsFailuresInv'
  <2>1. ddnsHost' = {} => ddnsCount'.moves > 0
    BY <1>1 DEF DdnsFailuresInv
  <2>2. ddnsSaved'.status = "failed" \/ ddnsDisk'.status = "failed" => DdnsHasFailed'
    BY <1>1, <1>3 DEF DdnsFailuresInv
  <2>3. ASSUME NEW y \in DdnsSlots
        PROVE  /\ DdnsTelling(y)' /\ ddnsRound'[y].failed => DdnsHasFailed'
               /\ DdnsWriting(y)' /\ ddnsRound'[y].failed => DdnsHasFailed' \/ DdnsCut(y)'
    <3>1. CASE y = x
      BY <1>2, <3>1 DEF DdnsFits, DdnsTelling, DdnsWriting, DdnsCut, DdnsRunnerOf
    <3>2. CASE y # x
      BY <1>1, <1>2, <1>3, <3>2 DEF DdnsFailuresInv, DdnsTelling, DdnsWriting, DdnsCut, DdnsRunnerOf
    <3> QED BY <3>1, <3>2
  <2>4. DdnsGoing(0)' => ddnsCount'.presses > 0
    <3>1. ddnsCount.presses \in Nat /\ ddnsCount'.presses \in Nat
      BY <1>1 DEF DdnsVarsInv
    <3>2. CASE x = 0
      BY <1>2, <3>2 DEF DdnsFits, DdnsGoing
    <3>3. CASE x # 0
      BY <1>1, <1>2, <3>1, <3>3, DdnsConstants DEF DdnsFailuresInv, DdnsGoing
    <3> QED BY <3>2, <3>3
  <2>5. ASSUME NEW y \in DdnsSlots \ {0}, y = ddnsCurrent', ddnsRound'[y].pc = "write",
               ddnsRound'[y].found = 0
        PROVE  \/ DdnsHasFailed'
               \/ DdnsProvider[Min(ddnsRound'[y].todo)] \in {"cloudflare", "godaddy"}
               \/ ddnsZone'[Min(ddnsRound'[y].todo)] = <<>>
    <3>1. CASE y = x
      BY <1>2, <2>5, <3>1 DEF DdnsFits
    <3>2. CASE y # x
      BY <1>1, <1>2, <1>3, <2>5, <3>2 DEF DdnsFailuresInv
    <3> QED BY <3>1, <3>2
  <2> QED BY <2>1, <2>2, <2>3, <2>4, <2>5 DEF DdnsFailuresInv
<1>9. DdnsZoneInv'
  <2>1. ASSUME "overlap" \notin ddnsExcuses, NEW y \in DdnsSlots
        PROVE  /\ DdnsWriting(y)' /\ ~ddnsRound'[y].failed =>
                     \A n \in ddnsRound'[y].names \ ddnsRound'[y].todo : ddnsZone[n] = <<ddnsRound'[y].ip>>
               /\ ddnsRound'[y].pc = "write" =>
                     LET n == Min(ddnsRound'[y].todo) IN
                     \/ ddnsZone[n] = <<ddnsRound'[y].ip>>
                     \/ DdnsProvider[n] \notin {"aliyun", "tencent", "baidu", "cloudflare"}
                     \/ IF ddnsRound'[y].found = 0 THEN ddnsZone[n] = <<>>
                                                   ELSE ddnsZone[n] = <<ddnsRound'[y].found>>
    <3>1. CASE y = x
      BY <1>2, <2>1, <3>1 DEF DdnsFits, DdnsWriting
    <3>2. CASE y # x
      BY <1>1, <1>2, <2>1, <3>2 DEF DdnsZoneInv, DdnsWriting
    <3> QED BY <3>1, <3>2
  <2> QED BY <1>1, <2>1 DEF DdnsZoneInv, DdnsIps
<1>10. DdnsFollowInv'
  <2> SUFFICES ASSUME ddnsExcuses = {}
               PROVE  DdnsFollowInv'
    BY DEF DdnsFollowInv
  <2>1. \A y \in DdnsSlots : DdnsTelling(y) => DdnsTelling(y)' /\ ddnsRound'[y].on = ddnsRound[y].on
    BY <1>2 DEF DdnsFits, DdnsTelling
  <2>2. \A y \in DdnsSlots : DdnsWriting(y) /\ ddnsRound[y].wrote =>
           DdnsWriting(y)' /\ ddnsRound'[y].wrote /\ ddnsRound'[y].on = ddnsRound[y].on
           /\ ddnsRound'[y].ip = ddnsRound[y].ip
    BY <1>2 DEF DdnsFits, DdnsWriting
  <2>3. \A y \in DdnsSlots : DdnsLate(y) => DdnsLate(y)'
    BY <1>4, <2>1, <2>2 DEF DdnsLate, DdnsRunnerOf
  <2>4. DdnsGoing(0)' /\ ddnsRound'[0].on # DdnsNewest => DdnsGoing(0) /\ ddnsRound[0].on # DdnsNewest
    BY <1>2, DdnsConstants DEF DdnsFits, DdnsGoing
  <2>5. ASSUME DdnsLast # 0, NEW n \in ddnsRule.names
        PROVE  \/ ddnsZone[n] = <<DdnsLast>>
               \/ \E y \in DdnsSlots :
                     /\ DdnsWriting(y)' /\ ddnsRound'[y].on = DdnsNewest
                     /\ ddnsRound'[y].wrote /\ ddnsZone[n] = <<ddnsRound'[y].ip>>
               \/ /\ ~(DdnsGoing(0)' /\ ddnsRound'[0].on # DdnsNewest)
                  /\ \E y \in DdnsSlots : DdnsLate(y)'
    BY <1>1, <2>2, <2>3, <2>4, <2>5 DEF DdnsFollowInv
  <2>6. ddnsSaved.ip = DdnsLast \/ \E y \in DdnsSlots : DdnsTelling(y)' /\ ddnsRound'[y].on = DdnsNewest
    BY <1>1, <2>1 DEF DdnsFollowInv
  <2>7. ddnsRunners # <<>> => ddnsRule.names \subseteq ddnsRunners[DdnsNewest].names
    BY <1>1 DEF DdnsFollowInv
  <2> QED BY <1>4, <2>5, <2>6, <2>7 DEF DdnsFollowInv
<1>11. DdnsAddressIsReal'
  BY <1>1 DEF DdnsAddressIsReal
<1> QED BY <1>5, <1>6, <1>7, <1>8, <1>9, <1>10, <1>11 DEF DdnsInv

\* The parts of the invariant, and what a round that is under way is.
LEMMA DdnsParts ==
    ASSUME DdnsInv
    PROVE  /\ DdnsVarsInv /\ DdnsRunnersInv /\ DdnsRoundsInv /\ DdnsFailuresInv /\ DdnsZoneInv
           /\ DdnsFollowInv /\ DdnsAddressIsReal
           /\ \A x \in DdnsSlots : DdnsGoing(x) =>
                 /\ ddnsRound[x].on \in DOMAIN ddnsRunners
                 /\ x # 0 => ddnsRound[x].on = x /\ ddnsRunners[x].loop
                 /\ x = 0 => ddnsCount.presses > 0
BY DEF DdnsInv, DdnsRunnersInv, DdnsFailuresInv

\* Counts stay numbers, and never fall.
LEMMA DdnsCounts ==
    ASSUME DdnsVarsInv
    PROVE  /\ ddnsCount \in [moves : Nat, presses : Nat, troubles : Nat, edits : Nat]
           /\ LET c == [ddnsCount EXCEPT !.presses = @ + 1] IN
              /\ c \in [moves : Nat, presses : Nat, troubles : Nat, edits : Nat]
              /\ c.moves = ddnsCount.moves /\ c.presses = ddnsCount.presses + 1
              /\ c.troubles = ddnsCount.troubles
           /\ LET c == [ddnsCount EXCEPT !.troubles = @ + 1] IN
              /\ c \in [moves : Nat, presses : Nat, troubles : Nat, edits : Nat]
              /\ c.moves = ddnsCount.moves /\ c.presses = ddnsCount.presses
              /\ c.troubles = ddnsCount.troubles + 1
           /\ LET c == [ddnsCount EXCEPT !.edits = @ + 1] IN
              /\ c \in [moves : Nat, presses : Nat, troubles : Nat, edits : Nat]
              /\ c.moves = ddnsCount.moves /\ c.presses = ddnsCount.presses
              /\ c.troubles = ddnsCount.troubles
           /\ LET c == [ddnsCount EXCEPT !.moves = @ + 1] IN
              /\ c \in [moves : Nat, presses : Nat, troubles : Nat, edits : Nat]
              /\ c.moves = ddnsCount.moves + 1 /\ c.presses = ddnsCount.presses
              /\ c.troubles = ddnsCount.troubles
BY DEF DdnsVarsInv

\* A runner that is there begins a round.
LEMMA DdnsBeginsInv ==
    ASSUME DdnsInv, NEW x \in DdnsSlots, DdnsBegins(x), ~(x = 0 /\ ddnsCurrent = 0)
    PROVE  DdnsInv'
<1> DEFINE on == IF x = 0 THEN ddnsCurrent ELSE x
           r == [DdnsRest EXCEPT !.pc = "detect", !.on = on, !.names = ddnsRunners[on].names,
                                 !.prev = ddnsRunners[on].ip]
<1>1. /\ DdnsVarsInv /\ DdnsRunnersInv /\ DdnsRoundsInv /\ DdnsFailuresInv
  BY DdnsParts
<1>2. on \in DOMAIN ddnsRunners /\ (x # 0 => ddnsRunners[x].loop) /\ (x = 0 => on = DdnsNewest)
  <2>1. DdnsNewest \in Nat /\ DOMAIN ddnsRunners = 1..DdnsNewest
    BY <1>1, DdnsRunnerTyped
  <2>2. CASE x = 0
    BY <1>1, <2>1, <2>2, DdnsConstants DEF DdnsRunnersInv, DdnsBegins
  <2>3. CASE x # 0
    <3>1. x \in Nat /\ x <= DdnsNewest /\ ddnsRunners[x].loop
      BY <2>3, DdnsConstants DEF DdnsBegins, DdnsNewest
    <3> QED BY <2>1, <2>3, <3>1
  <2> QED BY <2>2, <2>3
<1>3. ddnsRunners[on].names \in SUBSET DdnsNames /\ ddnsRunners[on].ip \in DdnsIps /\ on \in Nat
      /\ ddnsRunners[on].names # {}
  BY <1>1, <1>2, DdnsRunnerTyped DEF DdnsRunnersInv
<1>4. DdnsRoundIs(r, "detect", on, ddnsRunners[on].names, 0, {}, 0, FALSE, FALSE, 0)
  BY <1>3, DdnsNewRounds
<1>5. ~DdnsGoing(x) /\ DdnsGo(x, r) /\ UNCHANGED ddnsRunners
  BY DEF DdnsBegins
<1>6. /\ ddnsCount' \in [moves : Nat, presses : Nat, troubles : Nat, edits : Nat]
      /\ ddnsCount'.moves = ddnsCount.moves /\ ddnsCount'.troubles = ddnsCount.troubles
      /\ ddnsCount'.presses >= ddnsCount.presses /\ (x = 0 => ddnsCount'.presses > 0)
  <2>1. CASE x = 0
    <3>1. ddnsCount' = [ddnsCount EXCEPT !.presses = @ + 1]
      BY <2>1 DEF DdnsBegins
    <3>2. /\ ddnsCount' \in [moves : Nat, presses : Nat, troubles : Nat, edits : Nat]
          /\ ddnsCount'.moves = ddnsCount.moves /\ ddnsCount'.presses = ddnsCount.presses + 1
          /\ ddnsCount'.troubles = ddnsCount.troubles
      BY <1>1, <3>1, DdnsCounts
    <3>3. ddnsCount.presses \in Nat
      BY <1>1, DdnsOtherTyped
    <3> QED BY <3>2, <3>3
  <2>2. CASE x # 0
    <3>1. ddnsCount' = [ddnsCount EXCEPT !.presses = @]
      BY <2>2 DEF DdnsBegins
    <3>2. ddnsCount' = ddnsCount
      BY <1>1, <3>1 DEF DdnsVarsInv
    <3> QED BY <1>1, <2>2, <3>2, DdnsCounts, DdnsOtherTyped
  <2> QED BY <2>1, <2>2
<1> HIDE DEF on, r
<1>7. DdnsFits(x, r)
  BY <1>2, <1>3, <1>4, <1>5, <1>6, DdnsConstants
     DEF DdnsFits, DdnsRoundIs, DdnsGoing, DdnsTelling, DdnsWriting, on
<1>8. ddnsCount'.troubles >= ddnsCount.troubles
  BY <1>1, <1>6, DdnsOtherTyped
<1>9. UNCHANGED <<ddnsRule, ddnsSaved, ddnsDisk, ddnsRunners, ddnsCurrent, ddnsHost, ddnsZone,
                  ddnsWritten, ddnsExcuses>>
  BY <1>5 DEF DdnsBegins
<1> QED BY <1>5, <1>6, <1>7, <1>8, <1>9, DdnsRoundStepInv

\* A round learns the address.
LEMMA DdnsDetectsInv ==
    ASSUME DdnsInv, NEW x \in DdnsSlots, DdnsDetects(x)
    PROVE  DdnsInv'
<1>1. DdnsVarsInv /\ DdnsRoundsInv
  BY DdnsParts
<1>2. ddnsRound[x].pc = "detect" /\ DdnsGoing(x)
  BY DEF DdnsDetects, DdnsGoing
<1>3. DdnsStable(ddnsHost) \in DdnsIps /\ DdnsStable(ddnsHost) # 0
  BY <1>1, LeastIsIn, DdnsConstants DEF DdnsDetects, DdnsStable, DdnsVarsInv
<1>4. /\ ddnsRound[x] \in DdnsRoundSet /\ ddnsRound[x].on \in Nat
      /\ ddnsRound[x].names \in SUBSET DdnsNames /\ ddnsRound[x].names # {}
      /\ ddnsRound[x].noted \in ddnsWritten \union {0}
      /\ ~ddnsRound[x].wrote /\ ~ddnsRound[x].failed
  BY <1>1, <1>2, DdnsRoundTyped DEF DdnsRoundsInv
<1>5. /\ ddnsCount' \in [moves : Nat, presses : Nat, troubles : Nat, edits : Nat]
      /\ ddnsCount' = ddnsCount /\ ddnsCount'.presses >= ddnsCount.presses
      /\ ddnsCount'.troubles >= ddnsCount.troubles /\ (x = 0 => ddnsCount'.presses > 0)
  BY <1>1, <1>2, DdnsOtherTyped, DdnsParts DEF DdnsDetects, DdnsVarsInv
<1>6. /\ ddnsRound[x].on \in DOMAIN ddnsRunners
      /\ x # 0 => ddnsRound[x].on = x /\ ddnsRunners[x].loop
  BY <1>2, DdnsParts
<1>7. UNCHANGED <<ddnsRule, ddnsSaved, ddnsDisk, ddnsRunners, ddnsCurrent, ddnsHost, ddnsZone,
                  ddnsWritten, ddnsExcuses>>
  BY DEF DdnsDetects
<1>8. PICK r : DdnsGo(x, r) /\ DdnsFits(x, r)
  <2>1. CASE ddnsRound[x].prev # 0 /\ DdnsStable(ddnsHost) = ddnsRound[x].prev
    <3> DEFINE r == [DdnsRest EXCEPT !.pc = "note", !.on = ddnsRound[x].on, !.failed = FALSE]
    <3>1. DdnsGo(x, r)
      <4>1. [ddnsRound[x] EXCEPT !.ip = DdnsStable(ddnsHost)].on = ddnsRound[x].on
            /\ [ddnsRound[x] EXCEPT !.ip = DdnsStable(ddnsHost)].prev = ddnsRound[x].prev
        BY <1>4 DEF DdnsRoundSet
      <4> QED BY <2>1, <4>1 DEF DdnsDetects, DdnsReports
    <3>2. DdnsRoundIs(r, "note", ddnsRound[x].on, {}, 0, {}, 0, FALSE, FALSE, 0)
      BY <1>4, DdnsNewRounds
    <3> HIDE DEF r
    <3>3. DdnsFits(x, r)
      BY <1>2, <1>5, <1>6, <3>2 DEF DdnsFits, DdnsRoundIs, DdnsGoing, DdnsTelling, DdnsWriting
    <3> QED BY <3>1, <3>3
  <2>2. CASE ~(ddnsRound[x].prev # 0 /\ DdnsStable(ddnsHost) = ddnsRound[x].prev)
    <3> DEFINE ip == DdnsStable(ddnsHost)
               todo == ddnsRound[x].names
               r == [[ddnsRound[x] EXCEPT !.ip = ip] EXCEPT !.pc = "find", !.todo = todo, !.prev = 0]
    <3>1. DdnsGo(x, r)
      <4>1. [ddnsRound[x] EXCEPT !.ip = DdnsStable(ddnsHost)].names = ddnsRound[x].names
            /\ [ddnsRound[x] EXCEPT !.ip = DdnsStable(ddnsHost)].prev = ddnsRound[x].prev
        BY <1>4 DEF DdnsRoundSet
      <4> QED BY <2>2, <4>1 DEF DdnsDetects
    <3>2. DdnsRoundIs(r, "find", ddnsRound[x].on, ddnsRound[x].names, ip, todo, ddnsRound[x].found,
                      ddnsRound[x].wrote, ddnsRound[x].failed, ddnsRound[x].noted)
      BY <1>3, <1>4, DdnsRoundUpdates
    <3>3. ip # 0 /\ todo = ddnsRound[x].names
      BY <1>3
    <3> HIDE DEF r, ip, todo
    <3>4. DdnsFits(x, r)
      BY <1>2, <1>4, <1>5, <1>6, <3>2, <3>3 DEF DdnsFits, DdnsRoundIs, DdnsGoing, DdnsTelling, DdnsWriting
    <3> QED BY <3>1, <3>4
  <2> QED BY <2>1, <2>2
<1> QED BY <1>5, <1>7, <1>8, DdnsRoundStepInv

\* It cannot learn it.
LEMMA DdnsDetectFailsInv ==
    ASSUME DdnsInv, NEW x \in DdnsSlots, DdnsDetectFails(x)
    PROVE  DdnsInv'
<1>1. DdnsVarsInv /\ DdnsRoundsInv /\ DdnsFailuresInv
  BY DdnsParts
<1>2. ddnsRound[x].pc = "detect" /\ DdnsGoing(x) /\ ddnsRound[x].on \in Nat
  BY <1>1, DdnsRoundTyped DEF DdnsDetectFails, DdnsGoing
<1>3. /\ ddnsCount' \in [moves : Nat, presses : Nat, troubles : Nat, edits : Nat]
      /\ ddnsCount'.moves = ddnsCount.moves /\ ddnsCount'.presses >= ddnsCount.presses
      /\ ddnsCount'.troubles >= ddnsCount.troubles
      /\ DdnsCut(x) \/ ddnsHost = {} \/ ddnsCount'.troubles > 0
      /\ (x = 0 => ddnsCount'.presses > 0)
  <2>1. CASE DdnsCut(x) \/ ddnsHost = {}
    <3>1. ddnsCount' = ddnsCount
      BY <2>1 DEF DdnsDetectFails
    <3>2. ddnsCount.presses \in Nat /\ ddnsCount.troubles \in Nat
          /\ ddnsCount \in [moves : Nat, presses : Nat, troubles : Nat, edits : Nat]
      BY <1>1, DdnsOtherTyped, DdnsCounts
    <3>3. x = 0 => ddnsCount.presses > 0
      BY <1>2, DdnsParts
    <3> QED BY <2>1, <3>1, <3>2, <3>3
  <2>2. CASE ~(DdnsCut(x) \/ ddnsHost = {})
    <3>1. ddnsCount' = [ddnsCount EXCEPT !.troubles = @ + 1]
      BY <2>2 DEF DdnsDetectFails, DdnsTrouble
    <3>2. /\ ddnsCount' \in [moves : Nat, presses : Nat, troubles : Nat, edits : Nat]
          /\ ddnsCount'.moves = ddnsCount.moves /\ ddnsCount'.presses = ddnsCount.presses
          /\ ddnsCount'.troubles = ddnsCount.troubles + 1
      BY <1>1, <3>1, DdnsCounts
    <3>3. ddnsCount.presses \in Nat /\ ddnsCount.troubles \in Nat
      BY <1>1, DdnsOtherTyped
    <3>4. x = 0 => ddnsCount.presses > 0
      BY <1>2, DdnsParts
    <3> QED BY <3>2, <3>3, <3>4
  <2> QED BY <2>1, <2>2
<1>4. /\ ddnsRound[x].on \in DOMAIN ddnsRunners
      /\ x # 0 => ddnsRound[x].on = x /\ ddnsRunners[x].loop
  BY <1>2, DdnsParts
<1>5. UNCHANGED <<ddnsRule, ddnsSaved, ddnsDisk, ddnsRunners, ddnsCurrent, ddnsHost, ddnsZone,
                  ddnsWritten, ddnsExcuses>>
  BY DEF DdnsDetectFails
<1>6. PICK r : DdnsGo(x, r) /\ DdnsFits(x, r)
  <2>1. CASE DdnsCut(x)
    <3>1. DdnsGo(x, DdnsRest)
      BY <2>1 DEF DdnsDetectFails, DdnsFails
    <3>2. DdnsRoundIs(DdnsRest, "rest", 0, {}, 0, {}, 0, FALSE, FALSE, 0)
      BY DdnsNewRounds
    <3>3. DdnsFits(x, DdnsRest)
      BY <1>2, <3>2 DEF DdnsFits, DdnsRoundIs, DdnsGoing, DdnsTelling, DdnsWriting
    <3> QED BY <3>1, <3>3
  <2>2. CASE ~DdnsCut(x)
    <3> DEFINE failed == TRUE
               r == [DdnsRest EXCEPT !.pc = "note", !.on = ddnsRound[x].on, !.failed = failed]
    <3>1. DdnsGo(x, r)
      BY <2>2 DEF DdnsDetectFails, DdnsFails, DdnsReports
    <3>2. DdnsRoundIs(r, "note", ddnsRound[x].on, {}, 0, {}, 0, FALSE, failed, 0)
      BY <1>2, DdnsNewRounds
    <3>3. DdnsHasFailed'
      <4>1. /\ ddnsCount'.moves \in Nat /\ ddnsCount'.presses \in Nat /\ ddnsCount'.troubles \in Nat
        BY <1>3
      <4>2. ddnsCount'.moves > 0 \/ ddnsCount'.troubles > 0
        BY <1>1, <1>3, <2>2 DEF DdnsFailuresInv
      <4> QED BY <4>1, <4>2 DEF DdnsHasFailed
    <3> HIDE DEF r, failed
    <3>4. DdnsFits(x, r)
      BY <1>2, <1>3, <1>4, <3>2, <3>3 DEF DdnsFits, DdnsRoundIs, DdnsGoing, DdnsTelling, DdnsWriting
    <3> QED BY <3>1, <3>4
  <2> QED BY <2>1, <2>2
<1> QED BY <1>3, <1>5, <1>6, DdnsRoundStepInv

\* What a provider shows of a name is its first value, if it has one.
LEMMA DdnsSees ==
    ASSUME DdnsVarsInv, NEW n \in DdnsNames
    PROVE  \/ DdnsProvider[n] = "godaddy" /\ DdnsSeen(n) = 0
           \/ DdnsSeen(n) = 0 /\ ddnsZone[n] = <<>>
           \/ ddnsZone[n] # <<>> /\ DdnsSeen(n) = ddnsZone[n][1] /\ DdnsSeen(n) \in DdnsAddresses
<1>1. ddnsZone[n] \in Seq(DdnsAddresses)
  BY DdnsOtherTyped
<1>2. ddnsZone[n] # <<>> => 1 \in DOMAIN ddnsZone[n] /\ Head(ddnsZone[n]) = ddnsZone[n][1]
                            /\ ddnsZone[n][1] \in DdnsAddresses /\ DOMAIN ddnsZone[n] \subseteq Nat
                            /\ \A i \in DOMAIN ddnsZone[n] : 1 <= i
  BY <1>1
<1>3. DdnsHead(ddnsZone[n]) = IF ddnsZone[n] = <<>> THEN 0 ELSE ddnsZone[n][1]
  BY <1>2 DEF DdnsHead
<1>4. DdnsFirst(n) = DdnsHead(ddnsZone[n]) /\ DdnsFirstCloudflare(n) = DdnsHead(ddnsZone[n])
  BY DEF DdnsFirst, DdnsFirstCloudflare
<1>5. DdnsFirstTencent(n) = DdnsHead(ddnsZone[n])
  BY <1>3 DEF DdnsFirstTencent
<1>6. DdnsFirstBaidu(n) = DdnsHead(ddnsZone[n])
  <2> DEFINE answer == UNION {{m} \X DOMAIN ddnsZone[m] : m \in DdnsNames}
             own == {r[2] : r \in {a \in answer : a[1] = n}}
  <2>1. own = DOMAIN ddnsZone[n]
    <3>1. \A a \in answer : a[1] = n => a[2] \in DOMAIN ddnsZone[n]
      OBVIOUS
    <3>2. \A i \in DOMAIN ddnsZone[n] : <<n, i>> \in answer /\ <<n, i>>[1] = n /\ <<n, i>>[2] = i
      OBVIOUS
    <3> QED BY <3>1, <3>2
  <2>2. DdnsFirstBaidu(n) = IF own = {} THEN 0 ELSE ddnsZone[n][Min(own)]
    BY DEF DdnsFirstBaidu
  <2> HIDE DEF own
  <2>3. CASE ddnsZone[n] = <<>>
    <3>1. own = {}
      BY <2>1, <2>3
    <3> QED BY <1>3, <2>2, <2>3, <3>1
  <2>4. CASE ddnsZone[n] # <<>>
    <3>1. Min(own) = 1
      BY <1>2, <2>1, <2>4 DEF Min
    <3> QED BY <1>2, <1>3, <2>1, <2>2, <2>4, <3>1
  <2> QED BY <2>3, <2>4
<1>7. \/ DdnsProvider[n] = "godaddy" /\ DdnsSeen(n) = 0
      \/ DdnsSeen(n) = DdnsHead(ddnsZone[n])
  BY <1>4, <1>5, <1>6, DdnsConstants DEF DdnsSeen
<1> QED BY <1>2, <1>3, <1>7

\* A round looks for a record.
LEMMA DdnsFindInv ==
    ASSUME DdnsInv, NEW x \in DdnsSlots, DdnsFind(x)
    PROVE  DdnsInv'
<1> DEFINE todo == ddnsRound[x].todo
           n == Min(todo)
           found == DdnsSeen(n)
           r == [ddnsRound[x] EXCEPT !.pc = "write", !.found = found]
<1>1. DdnsVarsInv /\ DdnsRoundsInv /\ DdnsFailuresInv /\ DdnsZoneInv /\ DdnsRunnersInv
  BY DdnsParts
<1>2. ddnsRound[x].pc = "find" /\ DdnsGoing(x) /\ DdnsWriting(x) /\ ddnsRound[x].todo # {}
  BY DEF DdnsFind, DdnsGoing, DdnsWriting
<1>3. n \in DdnsNames
  BY <1>1, <1>2, DdnsRoundTyped, LeastIsIn, DdnsConstants
<1>4. \/ DdnsProvider[n] = "godaddy" /\ found = 0
      \/ found = 0 /\ ddnsZone[n] = <<>>
      \/ ddnsZone[n] # <<>> /\ found = ddnsZone[n][1] /\ found \in DdnsAddresses
  BY <1>1, <1>3, DdnsSees
<1>5. found \in DdnsIps
  BY <1>4, DdnsConstants
<1>6. found # 0 => ("overlap" \notin ddnsExcuses => ddnsZone[n] = <<found>>)
  <2> SUFFICES ASSUME found # 0, "overlap" \notin ddnsExcuses
               PROVE  ddnsZone[n] = <<found>>
    OBVIOUS
  <2>1. PICK ip \in DdnsAddresses : ddnsZone[n] = <<ip>>
    BY <1>1, <1>3, <1>4 DEF DdnsZoneInv
  <2> QED BY <1>4, <2>1
<1>7. ddnsRound[x] \in DdnsRoundSet /\ DdnsRoundIs(ddnsRound[x], "find", ddnsRound[x].on,
         ddnsRound[x].names, ddnsRound[x].ip, todo, ddnsRound[x].found,
         ddnsRound[x].wrote, ddnsRound[x].failed, ddnsRound[x].noted)
  BY <1>1, <1>2, DdnsRoundTyped DEF DdnsRoundIs
<1>8. DdnsRoundIs(r, "write", ddnsRound[x].on, ddnsRound[x].names, ddnsRound[x].ip, todo, found,
                  ddnsRound[x].wrote, ddnsRound[x].failed, ddnsRound[x].noted)
  BY <1>5, <1>7, DdnsRoundUpdates
<1>9. DdnsGo(x, r) /\ ddnsCount' = ddnsCount
      /\ UNCHANGED <<ddnsRule, ddnsSaved, ddnsDisk, ddnsRunners, ddnsCurrent, ddnsHost, ddnsZone,
                     ddnsWritten, ddnsExcuses>>
  BY DEF DdnsFind
<1>10. /\ ddnsCount' \in [moves : Nat, presses : Nat, troubles : Nat, edits : Nat]
       /\ ddnsCount'.presses >= ddnsCount.presses /\ ddnsCount'.troubles >= ddnsCount.troubles
  BY <1>1, <1>9, DdnsOtherTyped DEF DdnsVarsInv
<1>11. DdnsHasFailed' <=> DdnsHasFailed
  BY <1>9 DEF DdnsHasFailed
<1>12. /\ ddnsRound[x].on \in DOMAIN ddnsRunners
       /\ x # 0 => ddnsRound[x].on = x /\ ddnsRunners[x].loop
       /\ x = 0 => ddnsCount'.presses > 0
  BY <1>2, <1>9, DdnsParts
<1>13. /\ ddnsRound[x].ip # 0 /\ ddnsRound[x].names # {} /\ todo \subseteq ddnsRound[x].names
       /\ ddnsRound[x].wrote \/ ddnsRound[x].failed \/ todo = ddnsRound[x].names
       /\ ddnsRound[x].wrote => ddnsRound[x].ip \in ddnsWritten
       /\ ddnsRound[x].noted \in ddnsWritten \union {0}
       /\ ddnsRound[x].failed => DdnsHasFailed \/ (x # 0 /\ ddnsRunners[ddnsRound[x].on].stopped)
       /\ "overlap" \notin ddnsExcuses /\ ~ddnsRound[x].failed =>
             \A m \in ddnsRound[x].names \ todo : ddnsZone[m] = <<ddnsRound[x].ip>>
  BY <1>1, <1>2 DEF DdnsRoundsInv, DdnsFailuresInv, DdnsZoneInv, DdnsCut, DdnsRunnerOf
<1>14. n = Min(todo) /\ todo # {}
  BY <1>2
<1> HIDE DEF r, found, n, todo
<1>15. \/ DdnsProvider[n] = "godaddy"
       \/ found = 0 /\ ddnsZone[n] = <<>>
       \/ found # 0 /\ ("overlap" \notin ddnsExcuses => ddnsZone[n] = <<found>>)
  BY <1>4, <1>6, DdnsConstants
<1>16. /\ r \in DdnsRoundSet /\ r.pc = "write" /\ r.on = ddnsRound[x].on /\ r.names = ddnsRound[x].names
       /\ r.ip = ddnsRound[x].ip /\ r.todo = todo /\ r.found = found /\ r.noted = ddnsRound[x].noted
       /\ r.wrote = ddnsRound[x].wrote /\ r.failed = ddnsRound[x].failed
  BY <1>8 DEF DdnsRoundIs
<1>17. ~DdnsTelling(x)
  BY <1>2 DEF DdnsTelling
<1>18. DdnsFits(x, r)
  <2>1. r.pc = "write" =>
          /\ r.todo # {}
          /\ \/ ddnsZone[Min(r.todo)] = <<r.ip>> /\ r.found # 0
             \/ DdnsProvider[Min(r.todo)] = "godaddy"
             \/ r.found = 0 /\ ddnsZone[Min(r.todo)] = <<>>
             \/ r.found # 0 /\ ("overlap" \notin ddnsExcuses => ddnsZone[Min(r.todo)] = <<r.found>>)
    BY <1>14, <1>15, <1>16
  <2>2. "overlap" \notin ddnsExcuses /\ ~r.failed => \A m \in r.names \ r.todo : ddnsZone[m] = <<r.ip>>
    BY <1>13, <1>16
  <2>3. r.failed => DdnsHasFailed' \/ (x # 0 /\ ddnsRunners[r.on].stopped)
    BY <1>11, <1>13, <1>16
  <2> QED BY <1>2, <1>12, <1>13, <1>16, <1>17, <2>1, <2>2, <2>3 DEF DdnsFits
<1>19. ddnsCount'.moves = ddnsCount.moves
  BY <1>9
<1> QED BY <1>9, <1>10, <1>18, <1>19, DdnsRoundStepInv

\* A round reads the address it will save.
LEMMA DdnsNotesInv ==
    ASSUME DdnsInv, NEW x \in DdnsSlots, DdnsNotes(x)
    PROVE  DdnsInv'
<1> DEFINE noted == DdnsRunnerOf(x).ip
           r == [ddnsRound[x] EXCEPT !.pc = "save", !.noted = noted]
<1>1. DdnsVarsInv /\ DdnsRoundsInv /\ DdnsFailuresInv /\ DdnsAddressIsReal
  BY DdnsParts
<1>2. ddnsRound[x].pc = "note" /\ DdnsGoing(x) /\ DdnsTelling(x) /\ ~DdnsWriting(x)
  BY DEF DdnsNotes, DdnsGoing, DdnsWriting, DdnsTelling
<1>3. /\ ddnsRound[x].on \in DOMAIN ddnsRunners
      /\ x # 0 => ddnsRound[x].on = x /\ ddnsRunners[x].loop
      /\ x = 0 => ddnsCount.presses > 0
  BY <1>2, DdnsParts
<1>4. noted \in DdnsIps /\ noted \in ddnsWritten \union {0}
  BY <1>1, <1>3, DdnsRunnerTyped DEF DdnsAddressIsReal, DdnsRunnerOf, DdnsNewest
<1>5. DdnsRoundIs(r, "save", ddnsRound[x].on, ddnsRound[x].names, ddnsRound[x].ip, ddnsRound[x].todo,
                  ddnsRound[x].found, ddnsRound[x].wrote, ddnsRound[x].failed, noted)
  BY <1>1, <1>4, DdnsRoundTyped, DdnsRoundUpdates
<1>6. DdnsGo(x, r) /\ ddnsCount' = ddnsCount
      /\ UNCHANGED <<ddnsRule, ddnsSaved, ddnsDisk, ddnsRunners, ddnsCurrent, ddnsHost, ddnsZone,
                     ddnsWritten, ddnsExcuses>>
  BY DEF DdnsNotes
<1>7. /\ ddnsCount' \in [moves : Nat, presses : Nat, troubles : Nat, edits : Nat]
      /\ ddnsCount'.presses >= ddnsCount.presses /\ ddnsCount'.troubles >= ddnsCount.troubles
  BY <1>1, <1>6, DdnsOtherTyped DEF DdnsVarsInv
<1>8. ddnsRound[x].ip = 0 /\ (ddnsRound[x].failed => DdnsHasFailed')
  BY <1>1, <1>2, <1>6 DEF DdnsRoundsInv, DdnsFailuresInv, DdnsHasFailed
<1> HIDE DEF r, noted
<1>9. DdnsFits(x, r)
  BY <1>2, <1>3, <1>4, <1>5, <1>6, <1>8 DEF DdnsFits, DdnsRoundIs
<1> QED BY <1>6, <1>7, <1>9, DdnsRoundStepInv

\* What the values of a name become.
LEMMA DdnsEnsuredType ==
    ASSUME DdnsVarsInv, NEW n \in DdnsNames, NEW seen \in DdnsIps, NEW ip \in DdnsAddresses
    PROVE  DdnsEnsured(n, seen, ip) \in Seq(DdnsAddresses)
<1>1. ddnsZone[n] \in Seq(DdnsAddresses)
  BY DdnsOtherTyped
<1>2. DdnsAdded(n, ip) \in Seq(DdnsAddresses)
  BY <1>1 DEF DdnsAdded
<1>3. DdnsPut(n, ip) \in Seq(DdnsAddresses)
  <2> DEFINE q == ddnsZone[n]
             p == [q EXCEPT ![1] = ip]
  <2>1. CASE 1 \in DOMAIN q
    BY <1>1, <2>1 DEF DdnsPut
  <2>2. CASE 1 \notin DOMAIN q
    <3>1. q \in Seq(DdnsAddresses) /\ DOMAIN p = DOMAIN q
      BY <1>1
    <3>2. \A i \in DOMAIN q : p[i] = q[i]
      BY <2>2
    <3>3. p = [i \in DOMAIN q |-> p[i]] /\ q = [i \in DOMAIN q |-> q[i]]
      BY <3>1
    <3>4. p = q
      BY <3>2, <3>3
    <3> QED BY <3>1, <3>4 DEF DdnsPut
  <2> QED BY <2>1, <2>2
<1>4. DdnsByGodaddy(ip) \in Seq(DdnsAddresses)
  BY DEF DdnsByGodaddy
<1> QED BY <1>1, <1>2, <1>3, <1>4 DEF DdnsEnsured, DdnsByAliyun, DdnsByTencent, DdnsByBaidu, DdnsByCloudflare

\* A name with at most one value, looked for and found so, gets the address alone.
LEMMA DdnsEnsures ==
    ASSUME DdnsVarsInv, NEW n \in DdnsNames, NEW seen \in DdnsIps, NEW ip \in DdnsAddresses,
           \/ ddnsZone[n] = <<ip>>
           \/ DdnsProvider[n] \notin {"aliyun", "tencent", "baidu", "cloudflare"}
           \/ IF seen = 0 THEN ddnsZone[n] = <<>> ELSE ddnsZone[n] = <<seen>>
    PROVE  DdnsEnsured(n, seen, ip) = <<ip>>
<1>1. ip # 0
  BY DdnsConstants
<1>2. DdnsByGodaddy(ip) = <<ip>>
  BY DEF DdnsByGodaddy
<1>3. CASE DdnsProvider[n] \notin {"aliyun", "tencent", "baidu", "cloudflare"}
  BY <1>2, <1>3 DEF DdnsEnsured
<1>4. CASE ddnsZone[n] = <<ip>>
  <2>1. DdnsAdded(n, ip) = <<ip>>
    BY <1>4 DEF DdnsAdded, ToSet
  <2>2. DdnsPut(n, ip) = <<ip>>
    BY <1>4 DEF DdnsPut
  <2> QED BY <1>2, <1>4, <2>1, <2>2
          DEF DdnsEnsured, DdnsByAliyun, DdnsByTencent, DdnsByBaidu, DdnsByCloudflare
<1>5. CASE seen = 0 /\ ddnsZone[n] = <<>>
  <2>1. DdnsAdded(n, ip) = <<ip>>
    BY <1>5 DEF DdnsAdded, ToSet
  <2> QED BY <1>1, <1>2, <1>5, <2>1
          DEF DdnsEnsured, DdnsByAliyun, DdnsByTencent, DdnsByBaidu, DdnsByCloudflare
<1>6. CASE seen # 0 /\ ddnsZone[n] = <<seen>>
  <2>1. DdnsPut(n, ip) = <<ip>>
    BY <1>6 DEF DdnsPut
  <2> QED BY <1>1, <1>2, <1>6, <2>1
          DEF DdnsEnsured, DdnsByAliyun, DdnsByTencent, DdnsByBaidu, DdnsByCloudflare
<1> QED BY <1>3, <1>4, <1>5, <1>6

\* The button begins a round for a rule that is off: with a runner of its own.
LEMMA DdnsBeginsAnewInv ==
    ASSUME DdnsInv, DdnsBegins(0), ddnsCurrent = 0
    PROVE  DdnsInv'
<1> DEFINE K == DdnsNewest
           names == ddnsRule.names
           new == DdnsNewRunner(names, FALSE)
           r == [DdnsRest EXCEPT !.pc = "detect", !.on = K + 1, !.names = names, !.prev = ddnsSaved.ip]
<1>1. /\ DdnsVarsInv /\ DdnsRunnersInv /\ DdnsRoundsInv /\ DdnsFailuresInv /\ DdnsZoneInv
      /\ DdnsFollowInv /\ DdnsAddressIsReal
  BY DdnsParts
<1>2. /\ K < DdnsMaxRunners /\ ddnsRunners' = Append(ddnsRunners, new) /\ DdnsGo(0, r)
      /\ ~DdnsGoing(0) /\ ddnsCount' = [ddnsCount EXCEPT !.presses = @ + 1]
      /\ UNCHANGED <<ddnsRule, ddnsSaved, ddnsDisk, ddnsCurrent, ddnsHost, ddnsZone,
                     ddnsWritten, ddnsExcuses>>
  BY DEF DdnsBegins, DdnsNewest
<1>3. names \in SUBSET DdnsNames /\ ddnsSaved.ip \in DdnsIps /\ names # {}
  BY <1>1, DdnsOtherTyped DEF DdnsRunnersInv
<1>4. new \in DdnsRunnerSet /\ new.names = names /\ new.ip = ddnsSaved.ip /\ ~new.loop /\ ~new.stopped
  BY <1>3 DEF DdnsNewRunner, DdnsRunnerSet
<1>5. K \in Nat /\ DOMAIN ddnsRunners = 1..K
  BY <1>1, DdnsRunnerTyped
<1>6. DdnsRoundIs(r, "detect", K + 1, names, 0, {}, 0, FALSE, FALSE, 0)
  <2>1. K + 1 \in Nat
    BY <1>5
  <2> QED BY <1>3, <2>1, DdnsNewRounds
<1> HIDE DEF new, r
<1>7. /\ ddnsRunners' \in Seq(DdnsRunnerSet) /\ DdnsNewest' = K + 1 /\ DOMAIN ddnsRunners' = 1..(K + 1)
      /\ ddnsRunners'[K + 1] = new /\ \A i \in 1..K : ddnsRunners'[i] = ddnsRunners[i]
      /\ ddnsRunners' # <<>>
  <2>1. ddnsRunners \in Seq(DdnsRunnerSet)
    BY <1>1, DdnsRunnerTyped
  <2> QED BY <1>2, <1>4, <1>5, <2>1 DEF DdnsNewest
<1>8. DdnsLast' = ddnsSaved.ip
  BY <1>4, <1>7 DEF DdnsLast
<1>9. /\ ddnsRound' \in [DdnsSlots -> DdnsRoundSet] /\ ddnsRound'[0] = r
      /\ \A y \in DdnsSlots : y # 0 => ddnsRound'[y] = ddnsRound[y]
  BY <1>1, <1>2, <1>6, DdnsConstants DEF DdnsVarsInv, DdnsGo, DdnsRoundIs
<1>10. /\ ddnsCount' \in [moves : Nat, presses : Nat, troubles : Nat, edits : Nat]
       /\ ddnsCount'.moves = ddnsCount.moves /\ ddnsCount'.presses = ddnsCount.presses + 1
       /\ ddnsCount'.troubles = ddnsCount.troubles
  BY <1>1, <1>2, DdnsCounts
<1>11. ddnsCount'.presses > 0 /\ DdnsHasFailed'
  <2>1. ddnsCount.presses \in Nat /\ ddnsCount.moves \in Nat /\ ddnsCount.troubles \in Nat
    BY <1>1, DdnsOtherTyped
  <2> QED BY <1>10, <2>1 DEF DdnsHasFailed
<1>12. DdnsVarsInv'
  BY <1>1, <1>2, <1>7, <1>9, <1>10 DEF DdnsVarsInv, DdnsState, DdnsIps
<1>13. DdnsRunnersInv'
  <2>1. ASSUME NEW i \in DOMAIN ddnsRunners'
        PROVE  /\ ddnsRunners'[i].names # {}
               /\ ddnsRunners'[i].loop /\ ~ddnsRunners'[i].stopped => i = ddnsCurrent'
    <3>1. CASE i = K + 1
      BY <1>3, <1>4, <1>7, <3>1
    <3>2. CASE i \in 1..K
      BY <1>1, <1>2, <1>5, <1>7, <3>2 DEF DdnsRunnersInv
    <3> QED BY <1>5, <1>7, <3>1, <3>2
  <2>2. ASSUME NEW y \in DdnsSlots, DdnsGoing(y)'
        PROVE  /\ ddnsRound'[y].on \in DOMAIN ddnsRunners'
               /\ y # 0 => ddnsRound'[y].on = y /\ ddnsRunners'[y].loop
    <3>1. CASE y = 0
      BY <1>5, <1>6, <1>7, <1>9, <3>1 DEF DdnsRoundIs
    <3>2. CASE y # 0
      <4>1. ddnsRound[y].on \in 1..K /\ ddnsRound[y].on = y /\ ddnsRunners[y].loop
        BY <1>1, <1>5, <1>9, <2>2, <3>2 DEF DdnsRunnersInv, DdnsGoing
      <4> QED BY <1>5, <1>7, <1>9, <3>2, <4>1
    <3> QED BY <3>1, <3>2
  <2>3. DdnsNewest' <= DdnsMaxRunners
    BY <1>2, <1>5, <1>7, DdnsConstants
  <2> QED BY <1>1, <1>2, <1>7, <2>1, <2>2, <2>3 DEF DdnsRunnersInv
<1>14. DdnsRoundsInv'
  BY <1>1, <1>2, <1>3, <1>6, <1>9 DEF DdnsRoundsInv, DdnsWriting, DdnsRoundIs
<1>15. DdnsFailuresInv'
  BY <1>1, <1>2, <1>10, <1>11 DEF DdnsFailuresInv
<1>16. DdnsZoneInv'
  BY <1>1, <1>2, <1>6, <1>9 DEF DdnsZoneInv, DdnsWriting, DdnsRoundIs
<1>17. DdnsFollowInv'
  <2> SUFFICES ASSUME ddnsExcuses = {}
               PROVE  DdnsFollowInv'
    BY <1>2 DEF DdnsFollowInv
  <2>1. ~(DdnsGoing(0)' /\ ddnsRound'[0].on # DdnsNewest')
    BY <1>6, <1>7, <1>9 DEF DdnsRoundIs
  <2>2. ASSUME NEW y \in DdnsSlots, DdnsGoing(y)
        PROVE  /\ y # 0 /\ ddnsRound'[y] = ddnsRound[y] /\ ddnsRound[y].on \in 1..K
               /\ ddnsRound[y].on # DdnsNewest'
               /\ DdnsRunnerOf(y)' = DdnsRunnerOf(y)
    BY <1>1, <1>2, <1>5, <1>7, <1>9, <2>2 DEF DdnsRunnersInv, DdnsRunnerOf
  <2>3. ASSUME DdnsLast' # 0, NEW n \in ddnsRule.names
        PROVE  ddnsZone[n] = <<DdnsLast'>> \/ \E y \in DdnsSlots : DdnsLate(y)'
    <3>1. CASE ddnsSaved.ip = DdnsLast
      <4>1. CASE ddnsZone[n] = <<DdnsLast>>
        BY <1>8, <3>1, <4>1
      <4>2. CASE \E y \in DdnsSlots :
                    /\ DdnsWriting(y) /\ ddnsRound[y].on = DdnsNewest
                    /\ ddnsRound[y].wrote /\ ddnsZone[n] = <<ddnsRound[y].ip>>
        BY <2>2, <4>2 DEF DdnsLate, DdnsWriting, DdnsGoing
      <4>3. CASE \E y \in DdnsSlots : DdnsLate(y)
        BY <1>8, <2>2, <3>1, <4>3 DEF DdnsLate, DdnsWriting, DdnsTelling, DdnsGoing
      <4> QED BY <1>1, <1>8, <2>3, <3>1, <4>1, <4>2, <4>3 DEF DdnsFollowInv
    <3>2. CASE ddnsSaved.ip # DdnsLast
      <4>1. PICK y \in DdnsSlots : DdnsTelling(y) /\ ddnsRound[y].on = DdnsNewest
        BY <1>1, <3>2 DEF DdnsFollowInv
      <4>2. DdnsRunnerOf(y).ip = DdnsLast
        BY <3>2, <4>1 DEF DdnsRunnerOf, DdnsLast
      <4> QED BY <1>8, <2>2, <3>2, <4>1, <4>2 DEF DdnsLate, DdnsTelling, DdnsGoing
    <3> QED BY <3>1, <3>2
  <2> QED BY <1>2, <1>4, <1>7, <1>8, <2>1, <2>3 DEF DdnsFollowInv
<1>18. DdnsAddressIsReal'
  <2>1. \A i \in 1..(K + 1) : ddnsRunners'[i].ip \in ddnsWritten \union {0}
    <3>1. ddnsSaved.ip \in ddnsWritten \union {0}
      BY <1>1 DEF DdnsAddressIsReal
    <3>2. \A i \in 1..K : ddnsRunners[i].ip \in ddnsWritten \union {0}
      BY <1>1 DEF DdnsAddressIsReal, DdnsNewest
    <3> QED BY <1>4, <1>5, <1>7, <3>1, <3>2
  <2> QED BY <1>1, <1>2, <1>7, <2>1 DEF DdnsAddressIsReal, DdnsNewest
<1> QED BY <1>12, <1>13, <1>14, <1>15, <1>16, <1>17, <1>18 DEF DdnsInv

-----------------------------------------------------------------------------
(* Writes. *)

\* What a write, made or failed, leaves of the invariant, but for what the
\* records follow.
LEMMA DdnsWritingInv ==
    ASSUME DdnsInv, NEW x \in DdnsSlots, DdnsWriting(x), ddnsRound[x].todo # {},
           NEW n \in DdnsNames, n = Min(ddnsRound[x].todo),
           NEW wrote \in BOOLEAN, NEW failed \in BOOLEAN,
           ddnsRound[x].failed => failed, wrote \/ failed,
           wrote => ddnsRound[x].wrote \/ ddnsRound[x].ip \in ddnsWritten',
           failed => DdnsHasFailed' \/ DdnsCut(x),
           NEW r, DdnsGo(x, r),
           DdnsRoundIs(r, "find", ddnsRound[x].on, ddnsRound[x].names, ddnsRound[x].ip,
                       ddnsRound[x].todo \ {n}, 0, wrote, failed, ddnsRound[x].noted),
           DdnsRival(x) => "overlap" \in ddnsExcuses',
           ddnsExcuses \subseteq ddnsExcuses',
           ddnsExcuses' \subseteq {"overlap", "failed", "partial", "edited", "lost"},
           ddnsWritten \subseteq ddnsWritten',
           ddnsZone' \in [DdnsNames -> Seq(DdnsAddresses)],
           \A m \in DdnsNames : m # n => ddnsZone'[m] = ddnsZone[m],
           "overlap" \notin ddnsExcuses' => ddnsZone'[n] \in {ddnsZone[n], <<ddnsRound[x].ip>>},
           "overlap" \notin ddnsExcuses' /\ ~failed => ddnsZone'[n] = <<ddnsRound[x].ip>>,
           ddnsCount' \in [moves : Nat, presses : Nat, troubles : Nat, edits : Nat],
           ddnsCount'.moves = ddnsCount.moves, ddnsCount'.presses = ddnsCount.presses,
           ddnsCount'.troubles >= ddnsCount.troubles,
           UNCHANGED <<ddnsRule, ddnsSaved, ddnsDisk, ddnsRunners, ddnsCurrent, ddnsHost>>
    PROVE  /\ DdnsVarsInv' /\ DdnsRunnersInv' /\ DdnsRoundsInv' /\ DdnsFailuresInv'
           /\ DdnsZoneInv' /\ DdnsAddressIsReal'
<1>1. /\ DdnsVarsInv /\ DdnsRunnersInv /\ DdnsRoundsInv /\ DdnsFailuresInv /\ DdnsZoneInv
      /\ DdnsFollowInv /\ DdnsAddressIsReal
  BY DdnsParts
<1>2. /\ ddnsRound' \in [DdnsSlots -> DdnsRoundSet] /\ ddnsRound'[x] = r
      /\ \A y \in DdnsSlots : y # x => ddnsRound'[y] = ddnsRound[y]
  BY <1>1 DEF DdnsVarsInv, DdnsGo, DdnsRoundIs
<1>3. DdnsHasFailed => DdnsHasFailed'
  <2>1. /\ ddnsCount.moves \in Nat /\ ddnsCount.presses \in Nat /\ ddnsCount.troubles \in Nat
        /\ ddnsCount'.moves \in Nat /\ ddnsCount'.presses \in Nat /\ ddnsCount'.troubles \in Nat
    BY <1>1, DdnsOtherTyped
  <2> QED BY <2>1 DEF DdnsHasFailed
<1>4. /\ r.pc = "find" /\ r.on = ddnsRound[x].on /\ r.names = ddnsRound[x].names
      /\ r.ip = ddnsRound[x].ip /\ r.todo = ddnsRound[x].todo \ {n} /\ r.noted = ddnsRound[x].noted
      /\ r.wrote = wrote /\ r.failed = failed
  BY DEF DdnsRoundIs
<1>5. /\ ddnsRound[x].ip # 0 /\ ddnsRound[x].names # {} /\ ddnsRound[x].todo \subseteq ddnsRound[x].names
      /\ ddnsRound[x].ip \in DdnsAddresses
      /\ ddnsRound[x].wrote => ddnsRound[x].ip \in ddnsWritten
      /\ ddnsRound[x].noted \in ddnsWritten \union {0}
      /\ DdnsGoing(x)
  BY <1>1, DdnsRoundTyped, DdnsConstants DEF DdnsRoundsInv, DdnsGoing, DdnsWriting
<1>6. DdnsNewest' = DdnsNewest
  BY DEF DdnsNewest
<1>7. DdnsVarsInv'
  BY <1>1, <1>2 DEF DdnsVarsInv, DdnsState, DdnsIps, DdnsRunnerSet
<1>8. DdnsRunnersInv'
  <2>1. ASSUME NEW y \in DdnsSlots, DdnsGoing(y)'
        PROVE  /\ ddnsRound'[y].on \in DOMAIN ddnsRunners
               /\ y # 0 => ddnsRound'[y].on = y /\ ddnsRunners[y].loop
    BY <1>1, <1>2, <1>4, <1>5, <2>1 DEF DdnsRunnersInv, DdnsGoing
  <2> QED BY <1>1, <1>6, <2>1 DEF DdnsRunnersInv
<1>9. DdnsRoundsInv'
  <2>1. ASSUME NEW y \in DdnsSlots
        PROVE  /\ DdnsWriting(y)' =>
                     /\ ddnsRound'[y].ip # 0
                     /\ ddnsRound'[y].names # {}
                     /\ ddnsRound'[y].wrote \/ ddnsRound'[y].failed
                        \/ ddnsRound'[y].todo = ddnsRound'[y].names
                     /\ ddnsRound'[y].todo \subseteq ddnsRound'[y].names
                     /\ ddnsRound'[y].wrote => ddnsRound'[y].ip \in ddnsWritten'
               /\ ~DdnsWriting(y)' => ddnsRound'[y].ip = 0
               /\ ddnsRound'[y].pc = "detect" =>
                     ~ddnsRound'[y].wrote /\ ~ddnsRound'[y].failed /\ ddnsRound'[y].names # {}
               /\ ddnsRound'[y].pc = "write" => ddnsRound'[y].todo # {}
               /\ ddnsRound'[y].noted \in ddnsWritten' \union {0}
    <3>1. CASE y = x
      BY <1>2, <1>4, <1>5, <3>1 DEF DdnsWriting
    <3>2. CASE y # x
      BY <1>1, <1>2, <3>2 DEF DdnsRoundsInv, DdnsWriting
    <3> QED BY <3>1, <3>2
  <2> QED BY <2>1 DEF DdnsRoundsInv
<1>10. DdnsFailuresInv'
  <2>1. ddnsHost' = {} => ddnsCount'.moves > 0
    BY <1>1 DEF DdnsFailuresInv
  <2>2. ddnsSaved'.status = "failed" \/ ddnsDisk'.status = "failed" => DdnsHasFailed'
    BY <1>1, <1>3 DEF DdnsFailuresInv
  <2>3. ASSUME NEW y \in DdnsSlots
        PROVE  /\ DdnsTelling(y)' /\ ddnsRound'[y].failed => DdnsHasFailed'
               /\ DdnsWriting(y)' /\ ddnsRound'[y].failed => DdnsHasFailed' \/ DdnsCut(y)'
    <3>1. CASE y = x
      BY <1>2, <1>4, <3>1 DEF DdnsTelling, DdnsWriting, DdnsCut, DdnsRunnerOf
    <3>2. CASE y # x
      BY <1>1, <1>2, <1>3, <3>2 DEF DdnsFailuresInv, DdnsTelling, DdnsWriting, DdnsCut, DdnsRunnerOf
    <3> QED BY <3>1, <3>2
  <2>4. DdnsGoing(0)' => ddnsCount'.presses > 0
    BY <1>1, <1>2, <1>5, DdnsConstants DEF DdnsFailuresInv, DdnsGoing
  <2>5. ASSUME NEW y \in DdnsSlots \ {0}, y = ddnsCurrent', ddnsRound'[y].pc = "write",
               ddnsRound'[y].found = 0
        PROVE  \/ DdnsHasFailed'
               \/ DdnsProvider[Min(ddnsRound'[y].todo)] \in {"cloudflare", "godaddy"}
               \/ ddnsZone'[Min(ddnsRound'[y].todo)] = <<>>
    <3>1. y # x /\ ddnsRound'[y] = ddnsRound[y]
      BY <1>2, <1>4, <2>5
    <3>2. CASE x = 0
      <4>1. ddnsCount'.presses > 0 /\ ddnsCount'.presses \in Nat
        BY <1>1, <1>5, <3>2 DEF DdnsFailuresInv
      <4> QED BY <4>1 DEF DdnsHasFailed
    <3>3. CASE x # 0
      <4>1. ddnsRound[x].on = x /\ ddnsCurrent \in {0, DdnsNewest}
        BY <1>1, <1>5, <3>3 DEF DdnsRunnersInv
      <4>2. DdnsRival(x)
        BY <2>5, <3>1, <4>1 DEF DdnsRival, DdnsNewest
      <4> QED BY <4>2 DEF DdnsHasFailed
    <3> QED BY <3>2, <3>3
  <2> QED BY <2>1, <2>2, <2>3, <2>4, <2>5 DEF DdnsFailuresInv
<1>11. DdnsZoneInv'
  <2> SUFFICES ASSUME "overlap" \notin ddnsExcuses'
               PROVE  DdnsZoneInv'
    BY DEF DdnsZoneInv
  <2>1. "overlap" \notin ddnsExcuses /\ ~DdnsRival(x)
    OBVIOUS
  <2>2. ASSUME NEW m \in DdnsNames
        PROVE  ddnsZone'[m] = <<>> \/ \E ip \in DdnsAddresses : ddnsZone'[m] = <<ip>>
    BY <1>1, <1>5, <2>1 DEF DdnsZoneInv
  <2>3. ASSUME NEW y \in DdnsSlots
        PROVE  /\ DdnsWriting(y)' /\ ~ddnsRound'[y].failed =>
                     \A m \in ddnsRound'[y].names \ ddnsRound'[y].todo : ddnsZone'[m] = <<ddnsRound'[y].ip>>
               /\ ddnsRound'[y].pc = "write" =>
                     LET m == Min(ddnsRound'[y].todo) IN
                     \/ ddnsZone'[m] = <<ddnsRound'[y].ip>>
                     \/ DdnsProvider[m] \notin {"aliyun", "tencent", "baidu", "cloudflare"}
                     \/ IF ddnsRound'[y].found = 0 THEN ddnsZone'[m] = <<>>
                                                   ELSE ddnsZone'[m] = <<ddnsRound'[y].found>>
    <3>1. CASE y = x
      <4>1. ddnsRound[x].names \subseteq DdnsNames
        BY <1>1, DdnsRoundTyped
      <4>2. ~failed => \A m \in ddnsRound[x].names \ ddnsRound[x].todo : ddnsZone[m] = <<ddnsRound[x].ip>>
        BY <1>1, <2>1 DEF DdnsZoneInv
      <4>3. ASSUME ~failed, NEW m \in ddnsRound[x].names \ (ddnsRound[x].todo \ {n})
            PROVE  ddnsZone'[m] = <<ddnsRound[x].ip>>
        BY <4>1, <4>2, <4>3
      <4> QED BY <1>2, <1>4, <3>1, <4>3
    <3>2. CASE y # x
      <4>1. /\ ddnsRound'[y] = ddnsRound[y] /\ (DdnsWriting(y)' <=> DdnsWriting(y))
            /\ ddnsRound[y].names \subseteq DdnsNames
            /\ ddnsRound[y].todo \subseteq DdnsNames
        BY <1>1, <1>2, <3>2, DdnsRoundTyped DEF DdnsWriting
      <4>2. DdnsWriting(y) => ddnsRound[y].ip = ddnsRound[x].ip
        BY <1>1, <2>1, <3>2 DEF DdnsRival, DdnsRoundsInv, DdnsWriting, DdnsGoing
      <4>3. \A m \in DdnsNames : DdnsWriting(y) /\ ddnsZone[m] = <<ddnsRound[y].ip>> =>
                                    ddnsZone'[m] = <<ddnsRound[y].ip>>
        BY <4>2
      <4>4. ASSUME DdnsWriting(y), ~ddnsRound[y].failed,
                   NEW m \in ddnsRound[y].names \ ddnsRound[y].todo
            PROVE  ddnsZone'[m] = <<ddnsRound[y].ip>>
        <5>1. ddnsZone[m] = <<ddnsRound[y].ip>> /\ m \in DdnsNames
          BY <1>1, <2>1, <4>1, <4>4 DEF DdnsZoneInv
        <5> QED BY <4>3, <4>4, <5>1
      <4>5. ddnsRound[y].pc = "write" =>
               LET m == Min(ddnsRound[y].todo) IN
               \/ ddnsZone'[m] = <<ddnsRound[y].ip>>
               \/ DdnsProvider[m] \notin {"aliyun", "tencent", "baidu", "cloudflare"}
               \/ IF ddnsRound[y].found = 0 THEN ddnsZone'[m] = <<>>
                                            ELSE ddnsZone'[m] = <<ddnsRound[y].found>>
        <5> SUFFICES ASSUME ddnsRound[y].pc = "write"
                     PROVE  LET m == Min(ddnsRound[y].todo) IN
               \/ ddnsZone'[m] = <<ddnsRound[y].ip>>
               \/ DdnsProvider[m] \notin {"aliyun", "tencent", "baidu", "cloudflare"}
               \/ IF ddnsRound[y].found = 0 THEN ddnsZone'[m] = <<>>
                                            ELSE ddnsZone'[m] = <<ddnsRound[y].found>>
          OBVIOUS
        <5> DEFINE m == Min(ddnsRound[y].todo)
        <5>1. DdnsWriting(y) /\ ddnsRound[y].todo # {}
          BY <1>1 DEF DdnsWriting, DdnsRoundsInv
        <5>2. m \in DdnsNames
          BY <4>1, <5>1, LeastIsIn, DdnsConstants
        <5>3. \/ ddnsZone[m] = <<ddnsRound[y].ip>>
              \/ DdnsProvider[m] \notin {"aliyun", "tencent", "baidu", "cloudflare"}
              \/ IF ddnsRound[y].found = 0 THEN ddnsZone[m] = <<>>
                                           ELSE ddnsZone[m] = <<ddnsRound[y].found>>
          BY <1>1, <2>1 DEF DdnsZoneInv
        <5>4. ddnsZone'[m] = ddnsZone[m] \/ ddnsZone'[m] = <<ddnsRound[y].ip>>
          <6> HIDE DEF m
          <6>1. CASE m = n
            BY <4>2, <5>1, <6>1
          <6>2. CASE m # n
            BY <5>2, <6>2
          <6> QED BY <6>1, <6>2
        <5> HIDE DEF m
        <5>5. \/ ddnsZone'[m] = <<ddnsRound[y].ip>>
              \/ DdnsProvider[m] \notin {"aliyun", "tencent", "baidu", "cloudflare"}
              \/ IF ddnsRound[y].found = 0 THEN ddnsZone'[m] = <<>>
                                           ELSE ddnsZone'[m] = <<ddnsRound[y].found>>
          BY <5>3, <5>4
        <5> QED BY <5>5 DEF m
      <4> QED BY <4>1, <4>4, <4>5
    <3> QED BY <3>1, <3>2
  <2> QED BY <2>2, <2>3 DEF DdnsZoneInv
<1>12. DdnsAddressIsReal'
  BY <1>1 DEF DdnsAddressIsReal
<1> QED BY <1>7, <1>8, <1>9, <1>10, <1>11, <1>12

\* The round once a call is made.
LEMMA DdnsNext1Is ==
    ASSUME DdnsVarsInv, NEW x \in DdnsSlots, NEW ok \in BOOLEAN
    PROVE  DdnsRoundIs(DdnsNext1(x, ok), "find", ddnsRound[x].on, ddnsRound[x].names, ddnsRound[x].ip,
                       ddnsRound[x].todo \ {Min(ddnsRound[x].todo)}, 0,
                       ddnsRound[x].wrote \/ ok, ddnsRound[x].failed \/ ~ok, ddnsRound[x].noted)
<1> DEFINE todo == ddnsRound[x].todo \ {Min(ddnsRound[x].todo)}
           wrote == ddnsRound[x].wrote \/ ok
           failed == ddnsRound[x].failed \/ ~ok
<1>1. DdnsNext1(x, ok) = [ddnsRound[x] EXCEPT !.pc = "find", !.todo = todo, !.found = 0,
                                              !.wrote = wrote, !.failed = failed]
  BY DEF DdnsNext1
<1>2. ddnsRound[x] \in DdnsRoundSet /\ todo \in SUBSET DdnsNames
  BY DdnsRoundTyped
<1>3. wrote \in BOOLEAN /\ failed \in BOOLEAN
  OBVIOUS
<1> HIDE DEF todo, wrote, failed
<1>4. DdnsRoundIs(DdnsNext1(x, ok), "find", ddnsRound[x].on, ddnsRound[x].names, ddnsRound[x].ip,
                  todo, 0, wrote, failed, ddnsRound[x].noted)
  <2> DEFINE q == ddnsRound[x]
  <2>1. q \in DdnsRoundSet
    BY <1>2
  <2> HIDE DEF q
  <2>2. DdnsRoundIs([q EXCEPT !.pc = "find", !.todo = todo, !.found = 0, !.wrote = wrote, !.failed = failed],
                    "find", q.on, q.names, q.ip, todo, 0, wrote, failed, q.noted)
    BY <1>2, <1>3, <2>1, DdnsRoundUpdates
  <2> QED BY <1>1, <2>2 DEF q
<1> QED BY <1>4 DEF todo, wrote, failed

\* A call that a provider refuses finds the record as it is to be.
LEMMA DdnsRefusedIs ==
    ASSUME DdnsInv, NEW n \in DdnsNames, NEW seen \in DdnsIps, NEW ip \in DdnsAddresses,
           DdnsRefused(n, seen, ip)
    PROVE  /\ DdnsProvider[n] \notin {"cloudflare", "godaddy"} /\ seen = 0 /\ ddnsZone[n] # <<>>
           /\ "overlap" \notin ddnsExcuses => ddnsZone[n] = <<ip>>
           /\ DdnsEnsured(n, seen, ip) = ddnsZone[n]
<1>1. /\ DdnsProvider[n] \notin {"cloudflare", "godaddy"} /\ seen = 0 /\ ip \in ToSet(ddnsZone[n])
  BY DEF DdnsRefused
<1>2. ddnsZone[n] # <<>>
  BY <1>1 DEF ToSet
<1>3. "overlap" \notin ddnsExcuses => ddnsZone[n] = <<ip>>
  <2> SUFFICES ASSUME "overlap" \notin ddnsExcuses
               PROVE  ddnsZone[n] = <<ip>>
    OBVIOUS
  <2>1. PICK a \in DdnsAddresses : ddnsZone[n] = <<a>>
    BY <1>2, DdnsParts DEF DdnsZoneInv
  <2> QED BY <1>1, <2>1 DEF ToSet
<1>4. DdnsAdded(n, ip) = ddnsZone[n] /\ ip # 0
  BY <1>1, DdnsConstants DEF DdnsAdded
<1>5. DdnsEnsured(n, seen, ip) = ddnsZone[n]
  BY <1>1, <1>4, DdnsConstants DEF DdnsEnsured, DdnsByAliyun, DdnsByTencent, DdnsByBaidu
<1> QED BY <1>1, <1>2, <1>3, <1>5

\* A round that is to write, and what it writes.
LEMMA DdnsWritesWhat ==
    ASSUME DdnsInv, NEW x \in DdnsSlots, ddnsRound[x].pc = "write"
    PROVE  LET r == ddnsRound[x]
               n == Min(r.todo) IN
           /\ DdnsWriting(x) /\ DdnsGoing(x) /\ ~DdnsTelling(x) /\ r.todo # {} /\ n \in DdnsNames
           /\ r.ip \in DdnsAddresses /\ r.found \in DdnsIps
           /\ r.wrote \in BOOLEAN /\ r.failed \in BOOLEAN
           /\ DdnsEnsured(n, r.found, r.ip) \in Seq(DdnsAddresses)
           /\ "overlap" \notin ddnsExcuses => DdnsEnsured(n, r.found, r.ip) = <<r.ip>>
           /\ r.failed => DdnsHasFailed \/ DdnsCut(x)
<1> DEFINE r == ddnsRound[x]
           n == Min(r.todo)
<1>1. /\ DdnsVarsInv /\ DdnsRoundsInv /\ DdnsFailuresInv /\ DdnsZoneInv
  BY DdnsParts
<1>2. DdnsWriting(x) /\ DdnsGoing(x) /\ ~DdnsTelling(x)
  BY DEF DdnsWriting, DdnsGoing, DdnsTelling
<1>3. r.todo # {} /\ r.ip # 0
  BY <1>1, <1>2 DEF DdnsRoundsInv
<1>4. /\ r.ip \in DdnsAddresses /\ r.found \in DdnsIps /\ r.todo \subseteq DdnsNames
      /\ r.wrote \in BOOLEAN /\ r.failed \in BOOLEAN
  BY <1>1, <1>3, DdnsRoundTyped, DdnsConstants
<1>5. n \in DdnsNames
  BY <1>3, <1>4, LeastIsIn, DdnsConstants
<1>6. "overlap" \notin ddnsExcuses =>
         \/ ddnsZone[n] = <<r.ip>>
         \/ DdnsProvider[n] \notin {"aliyun", "tencent", "baidu", "cloudflare"}
         \/ IF r.found = 0 THEN ddnsZone[n] = <<>> ELSE ddnsZone[n] = <<r.found>>
  BY <1>1 DEF DdnsZoneInv
<1>7. r.failed => DdnsHasFailed \/ DdnsCut(x)
  BY <1>1, <1>2 DEF DdnsFailuresInv
<1> HIDE DEF r, n
<1>8. DdnsEnsured(n, r.found, r.ip) \in Seq(DdnsAddresses)
  BY <1>1, <1>4, <1>5, DdnsEnsuredType
<1>9. "overlap" \notin ddnsExcuses => DdnsEnsured(n, r.found, r.ip) = <<r.ip>>
  BY <1>1, <1>4, <1>5, <1>6, DdnsEnsures
<1>10. /\ DdnsWriting(x) /\ DdnsGoing(x) /\ ~DdnsTelling(x) /\ r.todo # {} /\ n \in DdnsNames
       /\ r.ip \in DdnsAddresses /\ r.found \in DdnsIps
       /\ r.wrote \in BOOLEAN /\ r.failed \in BOOLEAN
       /\ DdnsEnsured(n, r.found, r.ip) \in Seq(DdnsAddresses)
       /\ "overlap" \notin ddnsExcuses => DdnsEnsured(n, r.found, r.ip) = <<r.ip>>
       /\ r.failed => DdnsHasFailed \/ DdnsCut(x)
  BY <1>2, <1>3, <1>4, <1>5, <1>7, <1>8, <1>9
<1> QED BY <1>10 DEF r, n

\* A round writes a record.
LEMMA DdnsWriteInv ==
    ASSUME DdnsInv, NEW x \in DdnsSlots, DdnsWrite(x)
    PROVE  DdnsInv'
<1> DEFINE q == ddnsRound[x]
           n == Min(q.todo)
           refused == DdnsRefused(n, q.found, q.ip)
           ensured == DdnsEnsured(n, q.found, q.ip)
           wrote == q.wrote \/ ~refused
           failed == q.failed \/ refused
           r == DdnsNext1(x, ~refused)
<1>1. /\ DdnsVarsInv /\ DdnsRunnersInv /\ DdnsRoundsInv /\ DdnsFailuresInv /\ DdnsZoneInv
      /\ DdnsFollowInv /\ DdnsAddressIsReal
  BY DdnsParts
<1>2. /\ q.pc = "write" /\ ~DdnsCut(x)
      /\ ddnsZone' = [ddnsZone EXCEPT ![n] = ensured]
      /\ DdnsGo(x, r)
      /\ ddnsWritten' = ddnsWritten \union {q.ip}
      /\ ddnsExcuses' = ddnsExcuses \union (IF DdnsRival(x) THEN {"overlap"} ELSE {})
      /\ UNCHANGED <<ddnsRule, ddnsSaved, ddnsDisk, ddnsRunners, ddnsCurrent, ddnsHost, ddnsCount>>
  BY DEF DdnsWrite
<1>3. /\ DdnsWriting(x) /\ DdnsGoing(x) /\ ~DdnsTelling(x) /\ q.todo # {} /\ n \in DdnsNames
      /\ q.ip \in DdnsAddresses /\ q.found \in DdnsIps
      /\ q.wrote \in BOOLEAN /\ q.failed \in BOOLEAN
      /\ ensured \in Seq(DdnsAddresses)
      /\ "overlap" \notin ddnsExcuses => ensured = <<q.ip>>
      /\ q.failed => DdnsHasFailed \/ DdnsCut(x)
  BY <1>2, DdnsWritesWhat
<1>4. refused \in BOOLEAN
  BY DEF DdnsRefused
<1>5. DdnsRoundIs(r, "find", q.on, q.names, q.ip, q.todo \ {n}, 0, wrote, failed, q.noted)
  <2>1. (~refused) \in BOOLEAN
    OBVIOUS
  <2> HIDE DEF refused
  <2>2. DdnsRoundIs(r, "find", q.on, q.names, q.ip, q.todo \ {n}, 0, q.wrote \/ ~refused,
                    q.failed \/ ~ ~refused, q.noted)
    BY <1>1, <2>1, DdnsNext1Is
  <2>3. (q.failed \/ ~ ~refused) = failed
    BY <1>3, <1>4
  <2> QED BY <2>2, <2>3
<1>6. refused => /\ DdnsProvider[n] \notin {"cloudflare", "godaddy"} /\ q.found = 0 /\ ddnsZone[n] # <<>>
                 /\ ensured = ddnsZone[n]
  BY <1>3, DdnsRefusedIs
<1>7. DdnsHasFailed => DdnsHasFailed'
  BY <1>2 DEF DdnsHasFailed
<1>8. refused => DdnsHasFailed
  <2> SUFFICES ASSUME refused
               PROVE  DdnsHasFailed
    OBVIOUS
  <2>1. CASE x = 0
    <3>1. ddnsCount.presses > 0
      BY <1>1, <1>3, <2>1 DEF DdnsFailuresInv
    <3>2. ddnsCount.presses \in Nat /\ ddnsCount.moves \in Nat /\ ddnsCount.troubles \in Nat
      BY <1>1, DdnsOtherTyped
    <3> QED BY <3>1, <3>2 DEF DdnsHasFailed
  <2>2. CASE x # 0
    <3>1. q.on = x /\ x \in DOMAIN ddnsRunners /\ ddnsRunners[x].loop
      BY <1>3, <2>2, DdnsParts
    <3>2. x = ddnsCurrent
      BY <1>1, <1>2, <2>2, <3>1 DEF DdnsRunnersInv, DdnsCut, DdnsRunnerOf
    <3> QED BY <1>1, <1>2, <1>6, <2>2, <3>2 DEF DdnsFailuresInv
  <2> QED BY <2>1, <2>2
<1> HIDE DEF refused, r, ensured
<1>9. /\ ddnsZone' \in [DdnsNames -> Seq(DdnsAddresses)] /\ ddnsZone'[n] = ensured
      /\ \A m \in DdnsNames : m # n => ddnsZone'[m] = ddnsZone[m]
  <2>1. ddnsZone \in [DdnsNames -> Seq(DdnsAddresses)]
    BY <1>1 DEF DdnsVarsInv
  <2> HIDE DEF n
  <2> QED BY <1>2, <1>3, <2>1
<1>10. /\ ddnsCount' \in [moves : Nat, presses : Nat, troubles : Nat, edits : Nat]
       /\ ddnsCount'.moves = ddnsCount.moves /\ ddnsCount'.presses = ddnsCount.presses
       /\ ddnsCount'.troubles >= ddnsCount.troubles
  BY <1>1, <1>2, DdnsOtherTyped DEF DdnsVarsInv
<1>11. /\ ddnsExcuses \subseteq ddnsExcuses' /\ (DdnsRival(x) => "overlap" \in ddnsExcuses')
       /\ ddnsExcuses' \subseteq {"overlap", "failed", "partial", "edited", "lost"}
  BY <1>1, <1>2 DEF DdnsVarsInv
<1>12. /\ DdnsVarsInv' /\ DdnsRunnersInv' /\ DdnsRoundsInv' /\ DdnsFailuresInv'
       /\ DdnsZoneInv' /\ DdnsAddressIsReal'
  <2>1. wrote \in BOOLEAN /\ failed \in BOOLEAN /\ (q.failed => failed) /\ (wrote \/ failed)
    BY <1>3, <1>4
  <2>2. wrote => q.wrote \/ q.ip \in ddnsWritten'
    BY <1>2
  <2>3. failed => DdnsHasFailed' \/ DdnsCut(x)
    BY <1>3, <1>7, <1>8
  <2>4. ddnsWritten \subseteq ddnsWritten'
    BY <1>2
  <2>5. "overlap" \notin ddnsExcuses' => ddnsZone'[n] = <<q.ip>>
    BY <1>3, <1>9, <1>11
  <2>6. /\ "overlap" \notin ddnsExcuses' => ddnsZone'[n] \in {ddnsZone[n], <<q.ip>>}
        /\ "overlap" \notin ddnsExcuses' /\ ~failed => ddnsZone'[n] = <<q.ip>>
    BY <2>5
  <2>7. n = Min(ddnsRound[x].todo)
    OBVIOUS
  <2>8. UNCHANGED <<ddnsRule, ddnsSaved, ddnsDisk, ddnsRunners, ddnsCurrent, ddnsHost>>
    BY <1>2
  <2>9. DdnsGo(x, r)
    BY <1>2
  <2> HIDE DEF n, wrote, failed
  <2> QED BY <1>3, <1>5, <1>9, <1>10, <1>11, <2>1, <2>2, <2>3, <2>4, <2>6, <2>7, <2>8, <2>9, DdnsWritingInv
<1>13. DdnsFollowInv'
  <2> SUFFICES ASSUME ddnsExcuses' = {}
               PROVE  DdnsFollowInv'
    BY DEF DdnsFollowInv
  <2>1. ddnsExcuses = {} /\ q.on = DdnsNewest
    BY <1>11 DEF DdnsRival, DdnsNewest
  <2>2. /\ ddnsRound'[x] = r /\ \A y \in DdnsSlots : y # x => ddnsRound'[y] = ddnsRound[y]
    BY <1>1, <1>2 DEF DdnsVarsInv, DdnsGo
  <2>3. DdnsNewest' = DdnsNewest /\ DdnsLast' = DdnsLast
    BY <1>2 DEF DdnsNewest, DdnsLast
  <2>4. r.pc = "find" /\ r.on = q.on /\ r.ip = q.ip /\ r.wrote = wrote
    BY <1>5 DEF DdnsRoundIs
  <2>5. ddnsZone'[n] = <<q.ip>>
    BY <1>3, <1>9, <2>1
  <2>6. \A y \in DdnsSlots : DdnsLate(y) => DdnsLate(y)'
    BY <1>2, <2>1, <2>2, <2>3 DEF DdnsLate, DdnsWriting, DdnsTelling, DdnsRunnerOf
  <2>7. DdnsGoing(0)' /\ ddnsRound'[0].on # DdnsNewest => DdnsGoing(0) /\ ddnsRound[0].on # DdnsNewest
    BY <1>3, <2>2, <2>4, DdnsConstants DEF DdnsGoing
  <2>8. ASSUME DdnsLast # 0, NEW m \in ddnsRule.names
        PROVE  \/ ddnsZone'[m] = <<DdnsLast>>
               \/ \E y \in DdnsSlots :
                     /\ DdnsWriting(y)' /\ ddnsRound'[y].on = DdnsNewest
                     /\ ddnsRound'[y].wrote /\ ddnsZone'[m] = <<ddnsRound'[y].ip>>
               \/ /\ ~(DdnsGoing(0)' /\ ddnsRound'[0].on # DdnsNewest)
                  /\ \E y \in DdnsSlots : DdnsLate(y)'
    <3>1. m \in DdnsNames
      BY <1>1, DdnsOtherTyped
    <3>2. CASE m = n /\ ~refused
      BY <2>1, <2>2, <2>4, <2>5, <3>2 DEF DdnsWriting
    <3>3. CASE m # n \/ refused
      <4>1. ddnsZone'[m] = ddnsZone[m]
        <5> HIDE DEF n
        <5> QED BY <1>6, <1>9, <3>1, <3>3
      <4>2. \A y \in DdnsSlots : DdnsWriting(y) /\ ddnsRound[y].wrote =>
               /\ DdnsWriting(y)' /\ ddnsRound'[y].wrote /\ ddnsRound'[y].on = ddnsRound[y].on
               /\ ddnsRound'[y].ip = ddnsRound[y].ip
        BY <2>2, <2>4 DEF DdnsWriting
      <4> QED BY <1>1, <2>1, <2>6, <2>7, <2>8, <4>1, <4>2 DEF DdnsFollowInv
    <3> QED BY <3>2, <3>3
  <2>9. ddnsSaved.ip = DdnsLast \/ \E y \in DdnsSlots : DdnsTelling(y)' /\ ddnsRound'[y].on = DdnsNewest
    <3>1. \A y \in DdnsSlots : DdnsTelling(y) => DdnsTelling(y)' /\ ddnsRound'[y].on = ddnsRound[y].on
      BY <1>3, <2>2 DEF DdnsTelling
    <3> QED BY <1>1, <2>1, <3>1 DEF DdnsFollowInv
  <2>10. ddnsRunners # <<>> => ddnsRule.names \subseteq ddnsRunners[DdnsNewest].names
    BY <1>1, <2>1 DEF DdnsFollowInv
  <2> QED BY <1>2, <2>3, <2>8, <2>9, <2>10 DEF DdnsFollowInv
<1> QED BY <1>12, <1>13 DEF DdnsInv

\* A call fails.
LEMMA DdnsWriteFailsInv ==
    ASSUME DdnsInv, NEW x \in DdnsSlots, DdnsWriteFails(x)
    PROVE  DdnsInv'
<1> DEFINE q == ddnsRound[x]
           n == Min(q.todo)
           ensured == DdnsEnsured(n, q.found, q.ip)
           ok == FALSE
           wrote == q.wrote \/ ok
           failed == q.failed \/ ~ok
           r == DdnsNext1(x, ok)
<1>1. /\ DdnsVarsInv /\ DdnsRunnersInv /\ DdnsRoundsInv /\ DdnsFailuresInv /\ DdnsZoneInv
      /\ DdnsFollowInv /\ DdnsAddressIsReal
  BY DdnsParts
<1>2. /\ q.pc = "write" \/ (q.pc = "find" /\ q.todo # {} /\ DdnsCut(x))
      /\ IF DdnsCut(x) THEN UNCHANGED ddnsCount ELSE DdnsTrouble
      /\ \/ UNCHANGED ddnsZone
         \/ q.pc = "write" /\ ddnsZone' = [ddnsZone EXCEPT ![n] = ensured]
      /\ DdnsGo(x, r)
      /\ ddnsExcuses' = ddnsExcuses \union {"failed"} \union (IF DdnsRival(x) THEN {"overlap"} ELSE {})
      /\ UNCHANGED <<ddnsRule, ddnsSaved, ddnsDisk, ddnsRunners, ddnsCurrent, ddnsHost, ddnsWritten>>
  BY DEF DdnsWriteFails
<1>3. DdnsWriting(x) /\ DdnsGoing(x) /\ q.todo # {}
  BY <1>1, <1>2 DEF DdnsWriting, DdnsGoing, DdnsRoundsInv
<1>4. n \in DdnsNames /\ q.wrote \in BOOLEAN /\ q.failed \in BOOLEAN
  BY <1>1, <1>3, DdnsRoundTyped, LeastIsIn, DdnsConstants
<1>5. q.pc = "write" => /\ ensured \in Seq(DdnsAddresses)
                        /\ "overlap" \notin ddnsExcuses => ensured = <<q.ip>>
  BY DdnsWritesWhat
<1>6. DdnsRoundIs(r, "find", q.on, q.names, q.ip, q.todo \ {n}, 0, wrote, failed, q.noted)
  <2>1. ok \in BOOLEAN
    OBVIOUS
  <2> HIDE DEF ok
  <2> QED BY <1>1, <2>1, DdnsNext1Is
<1>7. wrote \in BOOLEAN /\ failed \in BOOLEAN /\ failed /\ (wrote => q.wrote)
  BY <1>4
<1>8. /\ ddnsCount' \in [moves : Nat, presses : Nat, troubles : Nat, edits : Nat]
      /\ ddnsCount'.moves = ddnsCount.moves /\ ddnsCount'.presses = ddnsCount.presses
      /\ ddnsCount'.troubles >= ddnsCount.troubles
      /\ DdnsCut(x) \/ ddnsCount'.troubles > 0
  <2>1. ddnsCount.troubles \in Nat
    BY <1>1, DdnsOtherTyped
  <2>2. CASE DdnsCut(x)
    BY <1>1, <1>2, <2>1, <2>2 DEF DdnsVarsInv
  <2>3. CASE ~DdnsCut(x)
    <3>1. ddnsCount' = [ddnsCount EXCEPT !.troubles = @ + 1]
      BY <1>2, <2>3 DEF DdnsTrouble
    <3>2. /\ ddnsCount' \in [moves : Nat, presses : Nat, troubles : Nat, edits : Nat]
          /\ ddnsCount'.moves = ddnsCount.moves /\ ddnsCount'.presses = ddnsCount.presses
          /\ ddnsCount'.troubles = ddnsCount.troubles + 1
      BY <1>1, <3>1, DdnsCounts
    <3> QED BY <2>1, <3>2
  <2> QED BY <2>2, <2>3
<1>9. DdnsHasFailed' \/ DdnsCut(x)
  <2>1. ddnsCount'.moves \in Nat /\ ddnsCount'.presses \in Nat /\ ddnsCount'.troubles \in Nat
    BY <1>8
  <2> QED BY <1>8, <2>1 DEF DdnsHasFailed
<1>10. /\ ddnsExcuses \subseteq ddnsExcuses' /\ (DdnsRival(x) => "overlap" \in ddnsExcuses')
       /\ ddnsExcuses' \subseteq {"overlap", "failed", "partial", "edited", "lost"}
       /\ "failed" \in ddnsExcuses'
  BY <1>1, <1>2 DEF DdnsVarsInv
<1> HIDE DEF ensured, r
<1>11. /\ ddnsZone' \in [DdnsNames -> Seq(DdnsAddresses)]
       /\ \A m \in DdnsNames : m # n => ddnsZone'[m] = ddnsZone[m]
       /\ "overlap" \notin ddnsExcuses' => ddnsZone'[n] \in {ddnsZone[n], <<q.ip>>}
  <2>1. ddnsZone \in [DdnsNames -> Seq(DdnsAddresses)]
    BY <1>1 DEF DdnsVarsInv
  <2>2. CASE UNCHANGED ddnsZone
    BY <2>1, <2>2
  <2>3. CASE q.pc = "write" /\ ddnsZone' = [ddnsZone EXCEPT ![n] = ensured]
    <3> HIDE DEF n
    <3> QED BY <1>4, <1>5, <1>10, <2>1, <2>3
  <2> QED BY <1>2, <2>2, <2>3
<1>12. /\ DdnsVarsInv' /\ DdnsRunnersInv' /\ DdnsRoundsInv' /\ DdnsFailuresInv'
       /\ DdnsZoneInv' /\ DdnsAddressIsReal'
  <2>1. ddnsWritten \subseteq ddnsWritten'
    BY <1>2
  <2>2. n = Min(ddnsRound[x].todo)
    OBVIOUS
  <2>3. UNCHANGED <<ddnsRule, ddnsSaved, ddnsDisk, ddnsRunners, ddnsCurrent, ddnsHost>>
    BY <1>2
  <2>4. DdnsGo(x, r)
    BY <1>2
  <2>5. "overlap" \notin ddnsExcuses' /\ ~failed => ddnsZone'[n] = <<q.ip>>
    BY <1>7
  <2>6. (q.failed => failed) /\ (wrote \/ failed) /\ (wrote => q.wrote \/ q.ip \in ddnsWritten')
        /\ (failed => DdnsHasFailed' \/ DdnsCut(x))
    BY <1>7, <1>9
  <2> HIDE DEF n, wrote, failed
  <2> QED BY <1>3, <1>4, <1>6, <1>7, <1>8, <1>10, <1>11, <2>1, <2>2, <2>3, <2>4, <2>5, <2>6, DdnsWritingInv
<1>13. DdnsFollowInv'
  BY <1>10 DEF DdnsFollowInv
<1> QED BY <1>12, <1>13 DEF DdnsInv

-----------------------------------------------------------------------------
(* The end of a round, and saves. *)

\* A round has gone through the records.
LEMMA DdnsConcludesInv ==
    ASSUME DdnsInv, NEW x \in DdnsSlots, DdnsConcludes(x)
    PROVE  DdnsInv'
<1> DEFINE q == ddnsRound[x]
           K == DdnsNewest
           ip == DdnsAdvanced(q, ddnsRunners[q.on].ip)
<1>1. /\ DdnsVarsInv /\ DdnsRunnersInv /\ DdnsRoundsInv /\ DdnsFailuresInv /\ DdnsZoneInv
      /\ DdnsFollowInv /\ DdnsAddressIsReal
  BY DdnsParts
<1>2. /\ q.pc = "find" /\ q.todo = {}
      /\ ddnsRunners' = [ddnsRunners EXCEPT ![q.on].ip = ip]
      /\ IF q.failed THEN DdnsFails(x, q) ELSE DdnsReports(x, q, TRUE)
      /\ UNCHANGED <<ddnsRule, ddnsSaved, ddnsDisk, ddnsCurrent, ddnsHost, ddnsZone,
                     ddnsCount, ddnsWritten>>
  BY DEF DdnsConcludes
<1>3. DdnsWriting(x) /\ DdnsGoing(x) /\ ~DdnsTelling(x)
  BY <1>2 DEF DdnsWriting, DdnsGoing, DdnsTelling
<1>4. /\ q.ip # 0 /\ q.names # {} /\ (q.wrote => q.ip \in ddnsWritten) /\ (q.wrote \/ q.failed)
      /\ q.ip \in DdnsIps /\ q.on \in Nat /\ q.wrote \in BOOLEAN /\ q.failed \in BOOLEAN
      /\ q.names \subseteq DdnsNames
  BY <1>1, <1>2, <1>3, DdnsRoundTyped DEF DdnsRoundsInv
<1>5. /\ q.on \in DOMAIN ddnsRunners /\ (x # 0 => q.on = x)
      /\ K \in Nat /\ DOMAIN ddnsRunners = 1..K /\ ddnsRunners # <<>> /\ K \in DOMAIN ddnsRunners
      /\ ddnsRunners[q.on].ip \in DdnsIps
  <2>1. q.on \in DOMAIN ddnsRunners /\ (x # 0 => q.on = x)
    BY <1>3, DdnsParts
  <2>2. ddnsRunners # <<>>
    BY <2>1
  <2> QED BY <1>1, <2>1, <2>2, DdnsRunnerTyped
<1>6. /\ ip \in DdnsIps /\ ip \in ddnsWritten \union {0}
      /\ q.wrote => ip = q.ip
      /\ ~q.wrote => ip = ddnsRunners[q.on].ip
  BY <1>1, <1>4, <1>5 DEF DdnsAdvanced, DdnsAddressIsReal, DdnsNewest
<1> HIDE DEF ip
<1>7. /\ ddnsRunners' \in Seq(DdnsRunnerSet) /\ DOMAIN ddnsRunners' = 1..K /\ DdnsNewest' = K
      /\ ddnsRunners' # <<>>
      /\ \A k \in 1..K : /\ ddnsRunners'[k].names = ddnsRunners[k].names
                         /\ ddnsRunners'[k].loop = ddnsRunners[k].loop
                         /\ ddnsRunners'[k].stopped = ddnsRunners[k].stopped
                         /\ ddnsRunners'[k].ip = IF k = q.on THEN ip ELSE ddnsRunners[k].ip
  <2>1. LET g == [ddnsRunners EXCEPT ![q.on].ip = ip] IN
        /\ g \in Seq(DdnsRunnerSet) /\ DOMAIN g = DOMAIN ddnsRunners /\ Len(g) = Len(ddnsRunners)
        /\ \A k \in DOMAIN ddnsRunners :
              /\ g[k].names = ddnsRunners[k].names /\ g[k].loop = ddnsRunners[k].loop
              /\ g[k].stopped = ddnsRunners[k].stopped
              /\ g[k].ip = IF k = q.on THEN ip ELSE ddnsRunners[k].ip
    <3> DEFINE o == q.on
    <3>1. o \in DOMAIN ddnsRunners
      BY <1>5
    <3> HIDE DEF o
    <3>2. LET g == [ddnsRunners EXCEPT ![o].ip = ip] IN
          /\ g \in Seq(DdnsRunnerSet) /\ DOMAIN g = DOMAIN ddnsRunners /\ Len(g) = Len(ddnsRunners)
          /\ \A k \in DOMAIN ddnsRunners :
                /\ g[k].names = ddnsRunners[k].names /\ g[k].loop = ddnsRunners[k].loop
                /\ g[k].stopped = ddnsRunners[k].stopped
                /\ g[k].ip = IF k = o THEN ip ELSE ddnsRunners[k].ip
      <4>1. \A a \in DdnsIps :
               LET g == [ddnsRunners EXCEPT ![o].ip = a] IN
               /\ g \in Seq(DdnsRunnerSet) /\ DOMAIN g = DOMAIN ddnsRunners /\ Len(g) = Len(ddnsRunners)
               /\ \A k \in DOMAIN ddnsRunners :
                     /\ g[k].names = ddnsRunners[k].names /\ g[k].loop = ddnsRunners[k].loop
                     /\ g[k].stopped = ddnsRunners[k].stopped
                     /\ g[k].ip = IF k = o THEN a ELSE ddnsRunners[k].ip
        BY <1>1, <3>1, DdnsRunnerUpdates
      <4> QED BY <1>6, <4>1
    <3> QED BY <3>2 DEF o
  <2>2. ddnsRunners' # <<>>
    BY <1>2, <1>5, <2>1
  <2> QED BY <1>2, <1>5, <2>1, <2>2 DEF DdnsNewest
<1>8. PICK r : /\ DdnsGo(x, r) /\ r \in DdnsRoundSet /\ r.ip = 0 /\ r.noted = 0
               /\ r.pc \in {"rest", "note"}
               /\ r.pc = "note" => r.on = q.on /\ (r.failed <=> q.failed)
               /\ ~q.failed => r.pc = "note"
               /\ r.pc = "note" /\ q.failed => ~DdnsCut(x)
  <2>1. CASE ~q.failed
    <3> DEFINE no == FALSE
               r == [DdnsRest EXCEPT !.pc = "note", !.on = q.on, !.failed = no]
    <3>1. DdnsGo(x, r)
      BY <1>2, <2>1 DEF DdnsReports
    <3>2. DdnsRoundIs(r, "note", q.on, {}, 0, {}, 0, FALSE, no, 0)
      BY <1>4, DdnsNewRounds
    <3> HIDE DEF r
    <3> QED BY <2>1, <3>1, <3>2 DEF DdnsRoundIs
  <2>2. CASE q.failed /\ DdnsCut(x)
    <3>1. DdnsGo(x, DdnsRest)
      BY <1>2, <2>2 DEF DdnsFails
    <3>2. DdnsRoundIs(DdnsRest, "rest", 0, {}, 0, {}, 0, FALSE, FALSE, 0)
      BY DdnsNewRounds
    <3> QED BY <2>2, <3>1, <3>2 DEF DdnsRoundIs
  <2>3. CASE q.failed /\ ~DdnsCut(x)
    <3> DEFINE yes == TRUE
               r == [DdnsRest EXCEPT !.pc = "note", !.on = q.on, !.failed = yes]
    <3>1. DdnsGo(x, r)
      BY <1>2, <2>3 DEF DdnsReports, DdnsFails
    <3>2. DdnsRoundIs(r, "note", q.on, {}, 0, {}, 0, FALSE, yes, 0)
      BY <1>4, DdnsNewRounds
    <3> HIDE DEF r
    <3> QED BY <2>3, <3>1, <3>2 DEF DdnsRoundIs
  <2> QED BY <1>4, <2>1, <2>2, <2>3
<1>9. /\ ddnsRound' \in [DdnsSlots -> DdnsRoundSet] /\ ddnsRound'[x] = r
      /\ \A y \in DdnsSlots : y # x => ddnsRound'[y] = ddnsRound[y]
  BY <1>1, <1>8 DEF DdnsVarsInv, DdnsGo
<1>10. \/ q.wrote /\ q.failed /\ ddnsExcuses' = ddnsExcuses \union {"partial"}
       \/ /\ q.wrote /\ ~q.failed /\ q.names # ddnsRunners[q.on].names
          /\ ddnsExcuses' = ddnsExcuses \union {"edited"}
       \/ /\ ~q.failed /\ q.on = ddnsCurrent /\ q.names = ddnsRunners[q.on].names
          /\ ddnsExcuses' = ddnsExcuses \intersect {"overlap"}
       \/ /\ q.wrote => ~q.failed /\ q.names = ddnsRunners[q.on].names /\ q.on # ddnsCurrent
          /\ ddnsExcuses' = ddnsExcuses
  BY <1>4 DEF DdnsConcludes, DdnsRunnerOf
<1>11. /\ "overlap" \in ddnsExcuses' <=> "overlap" \in ddnsExcuses
       /\ ddnsExcuses' \subseteq {"overlap", "failed", "partial", "edited", "lost"}
       /\ DdnsHasFailed => DdnsHasFailed'
  BY <1>1, <1>2, <1>10 DEF DdnsVarsInv, DdnsHasFailed
<1>12. DdnsVarsInv'
  BY <1>1, <1>2, <1>7, <1>9, <1>11 DEF DdnsVarsInv, DdnsState, DdnsIps
<1>13. DdnsRunnersInv'
  <2>1. ASSUME NEW y \in DdnsSlots, DdnsGoing(y)'
        PROVE  /\ ddnsRound'[y].on \in 1..K
               /\ y # 0 => ddnsRound'[y].on = y /\ ddnsRunners'[y].loop
    BY <1>1, <1>3, <1>5, <1>7, <1>8, <1>9, <2>1 DEF DdnsRunnersInv, DdnsGoing
  <2>2. \A i \in 1..K : /\ ddnsRunners'[i].names # {}
                        /\ ddnsRunners'[i].loop /\ ~ddnsRunners'[i].stopped => i = ddnsCurrent
    BY <1>1, <1>5, <1>7 DEF DdnsRunnersInv
  <2>3. ddnsCurrent # 0 => ddnsCurrent \in 1..K
    BY <1>1, <1>5 DEF DdnsRunnersInv
  <2> QED BY <1>1, <1>2, <1>5, <1>7, <2>1, <2>2, <2>3 DEF DdnsRunnersInv
<1>14. DdnsRoundsInv'
  BY <1>1, <1>2, <1>8, <1>9 DEF DdnsRoundsInv, DdnsWriting
<1>15. \A y \in DdnsSlots : DdnsGoing(y) => (DdnsCut(y) <=> y # 0 /\ ddnsRunners'[ddnsRound[y].on].stopped)
  BY <1>1, <1>5, <1>7 DEF DdnsRunnersInv, DdnsCut, DdnsRunnerOf
<1>16. DdnsFailuresInv'
  <2>1. ASSUME NEW y \in DdnsSlots
        PROVE  /\ DdnsTelling(y)' /\ ddnsRound'[y].failed => DdnsHasFailed'
               /\ DdnsWriting(y)' /\ ddnsRound'[y].failed => DdnsHasFailed' \/ DdnsCut(y)'
    <3>1. CASE y = x
      <4>1. q.failed => DdnsHasFailed \/ DdnsCut(x)
        BY <1>1, <1>3 DEF DdnsFailuresInv
      <4> QED BY <1>8, <1>9, <1>11, <3>1, <4>1 DEF DdnsTelling, DdnsWriting
    <3>2. CASE y # x
      BY <1>1, <1>9, <1>11, <1>15, <3>2
         DEF DdnsFailuresInv, DdnsTelling, DdnsWriting, DdnsCut, DdnsRunnerOf, DdnsGoing
    <3> QED BY <3>1, <3>2
  <2>2. DdnsGoing(0)' => ddnsCount'.presses > 0
    BY <1>1, <1>2, <1>3, <1>9, DdnsConstants DEF DdnsFailuresInv, DdnsGoing
  <2>3. ASSUME NEW y \in DdnsSlots \ {0}, y = ddnsCurrent', ddnsRound'[y].pc = "write",
               ddnsRound'[y].found = 0
        PROVE  \/ DdnsHasFailed'
               \/ DdnsProvider[Min(ddnsRound'[y].todo)] \in {"cloudflare", "godaddy"}
               \/ ddnsZone'[Min(ddnsRound'[y].todo)] = <<>>
    BY <1>1, <1>2, <1>8, <1>9, <1>11, <2>3 DEF DdnsFailuresInv
  <2> QED BY <1>1, <1>2, <1>11, <2>1, <2>2, <2>3 DEF DdnsFailuresInv
<1>17. DdnsZoneInv'
  <2>1. ASSUME "overlap" \notin ddnsExcuses, NEW y \in DdnsSlots
        PROVE  /\ DdnsWriting(y)' /\ ~ddnsRound'[y].failed =>
                     \A n \in ddnsRound'[y].names \ ddnsRound'[y].todo : ddnsZone[n] = <<ddnsRound'[y].ip>>
               /\ ddnsRound'[y].pc = "write" =>
                     LET n == Min(ddnsRound'[y].todo) IN
                     \/ ddnsZone[n] = <<ddnsRound'[y].ip>>
                     \/ DdnsProvider[n] \notin {"aliyun", "tencent", "baidu", "cloudflare"}
                     \/ IF ddnsRound'[y].found = 0 THEN ddnsZone[n] = <<>>
                                                   ELSE ddnsZone[n] = <<ddnsRound'[y].found>>
    <3>1. CASE y = x
      BY <1>8, <1>9, <3>1 DEF DdnsWriting
    <3>2. CASE y # x
      BY <1>1, <1>9, <2>1, <3>2 DEF DdnsZoneInv, DdnsWriting
    <3> QED BY <3>1, <3>2
  <2>2. "overlap" \notin ddnsExcuses =>
           \A n \in DdnsNames : ddnsZone[n] = <<>> \/ \E a \in DdnsAddresses : ddnsZone[n] = <<a>>
    BY <1>1 DEF DdnsZoneInv
  <2> QED BY <1>2, <1>11, <2>1, <2>2 DEF DdnsZoneInv
<1>18. DdnsAddressIsReal'
  BY <1>1, <1>2, <1>5, <1>6, <1>7 DEF DdnsAddressIsReal, DdnsNewest
<1>19. DdnsLast = ddnsRunners[K].ip /\ DdnsLast' = IF q.on = K THEN ip ELSE DdnsLast
  BY <1>5, <1>7 DEF DdnsLast
<1>20. DdnsFollowInv'
  <2> SUFFICES ASSUME ddnsExcuses' = {}
               PROVE  DdnsFollowInv'
    BY DEF DdnsFollowInv
  <2>1. "overlap" \notin ddnsExcuses
    BY <1>11
  <2>2. ~q.failed => \A n \in q.names : ddnsZone[n] = <<q.ip>>
    BY <1>1, <1>2, <1>3, <2>1 DEF DdnsZoneInv
  <2>3. ~q.failed => DdnsTelling(x)' /\ ddnsRound'[x].on = q.on
    BY <1>8, <1>9 DEF DdnsTelling
  <2>4. \/ /\ q.wrote /\ ~q.failed /\ q.on = K /\ ddnsRule.names \subseteq q.names
           /\ q.names = ddnsRunners[K].names
        \/ ddnsExcuses = {} /\ q.wrote /\ ~q.failed /\ q.on # K
        \/ ddnsExcuses = {} /\ ~q.wrote
    <3>1. CASE /\ ~q.failed /\ q.on = ddnsCurrent /\ q.names = ddnsRunners[q.on].names
               /\ ddnsExcuses' = ddnsExcuses \intersect {"overlap"}
      <4>1. ddnsCurrent # 0
        BY <1>5, <3>1
      <4> QED BY <1>1, <1>4, <3>1, <4>1 DEF DdnsRunnersInv
    <3>2. CASE /\ q.wrote => ~q.failed /\ q.names = ddnsRunners[q.on].names /\ q.on # ddnsCurrent
               /\ ddnsExcuses' = ddnsExcuses
      <4>1. ddnsRule.names \subseteq ddnsRunners[K].names
        BY <1>1, <1>5, <3>2 DEF DdnsFollowInv
      <4> QED BY <3>2, <4>1
    <3> QED BY <1>10, <3>1, <3>2
  <2>5. CASE /\ q.wrote /\ ~q.failed /\ q.on = K /\ ddnsRule.names \subseteq q.names
             /\ q.names = ddnsRunners[K].names
    <3>1. DdnsLast' = q.ip
      BY <1>6, <1>19, <2>5
    <3>2. \A n \in ddnsRule.names : ddnsZone[n] = <<DdnsLast'>>
      BY <2>2, <2>5, <3>1
    <3>3. DdnsTelling(x)' /\ ddnsRound'[x].on = K
      BY <2>3, <2>5
    <3>4. ddnsRule.names \subseteq ddnsRunners'[K].names
      BY <1>5, <1>7, <2>5
    <3> QED BY <1>2, <1>7, <3>2, <3>3, <3>4 DEF DdnsFollowInv
  <2>6. CASE ddnsExcuses = {} /\ (q.wrote => ~q.failed /\ q.on # K)
    <3>1. DdnsLast' = DdnsLast
      BY <1>6, <1>19, <2>6
    <3>2. ddnsRule.names \subseteq ddnsRunners'[K].names
      BY <1>1, <1>5, <1>7, <2>6 DEF DdnsFollowInv
    <3>3. ddnsSaved.ip = DdnsLast \/ \E y \in DdnsSlots : DdnsTelling(y)' /\ ddnsRound'[y].on = K
      BY <1>1, <1>3, <1>9, <2>6 DEF DdnsFollowInv, DdnsTelling
    <3>4. ASSUME NEW y \in DdnsSlots, y # x, DdnsLate(y), x # 0 \/ ~q.wrote
          PROVE  DdnsLate(y)'
      <4>1. DdnsGoing(y) /\ y # 0
        BY <3>4 DEF DdnsLate, DdnsGoing, DdnsWriting, DdnsTelling
      <4>2. ddnsRound[y].on \in 1..K /\ ddnsRound[y].on = y
        BY <1>1, <1>5, <4>1 DEF DdnsRunnersInv
      <4>3. ddnsRunners'[y].ip = ddnsRunners[y].ip
        BY <1>5, <1>6, <1>7, <3>4, <4>2
      <4> QED BY <1>7, <1>9, <3>1, <3>4, <4>2, <4>3 DEF DdnsLate, DdnsWriting, DdnsTelling, DdnsRunnerOf
    <3>5. ASSUME DdnsLate(x)
          PROVE  DdnsLate(x)'
      <4>1. x # 0 /\ q.wrote /\ q.ip # DdnsLast
        BY <1>3, <3>5 DEF DdnsLate
      <4>2. DdnsTelling(x)' /\ ddnsRound'[x].on = q.on /\ q.on # K
        BY <2>3, <2>6, <4>1
      <4>3. ddnsRunners'[q.on].ip = q.ip
        BY <1>5, <1>6, <1>7, <4>1
      <4> QED BY <1>7, <3>1, <4>1, <4>2, <4>3 DEF DdnsLate, DdnsRunnerOf
    <3>6. DdnsGoing(0)' /\ ddnsRound'[0].on # K => DdnsGoing(0) /\ ddnsRound[0].on # K
      BY <1>3, <1>8, <1>9, DdnsConstants DEF DdnsGoing
    <3>7. ASSUME DdnsLast # 0, NEW n \in ddnsRule.names
          PROVE  \/ ddnsZone[n] = <<DdnsLast>>
                 \/ \E y \in DdnsSlots :
                       /\ DdnsWriting(y)' /\ ddnsRound'[y].on = K
                       /\ ddnsRound'[y].wrote /\ ddnsZone[n] = <<ddnsRound'[y].ip>>
                 \/ /\ ~(DdnsGoing(0)' /\ ddnsRound'[0].on # K)
                    /\ \E y \in DdnsSlots : DdnsLate(y)'
      <4>1. CASE \E y \in DdnsSlots :
                    /\ DdnsWriting(y) /\ ddnsRound[y].on = DdnsNewest
                    /\ ddnsRound[y].wrote /\ ddnsZone[n] = <<ddnsRound[y].ip>>
        BY <1>9, <2>6, <4>1 DEF DdnsWriting
      <4>2. CASE /\ ~(DdnsGoing(0) /\ ddnsRound[0].on # DdnsNewest)
                 /\ \E y \in DdnsSlots : DdnsLate(y)
        <5>1. x # 0 \/ ~q.wrote
          BY <1>3, <2>6, <4>2
        <5> QED BY <3>4, <3>5, <3>6, <4>2, <5>1
      <4> QED BY <1>1, <2>6, <3>7, <4>1, <4>2 DEF DdnsFollowInv
    <3> QED BY <1>2, <1>7, <3>1, <3>2, <3>3, <3>7 DEF DdnsFollowInv
  <2> QED BY <1>4, <2>4, <2>5, <2>6
<1> QED BY <1>12, <1>13, <1>14, <1>15, <1>16, <1>17, <1>18, <1>20 DEF DdnsInv

\* A round saves the status, and the address it read.
LEMMA DdnsSavesInv ==
    ASSUME DdnsInv, NEW x \in DdnsSlots, DdnsSaves(x)
    PROVE  DdnsInv'
<1> DEFINE q == ddnsRound[x]
           K == DdnsNewest
<1>1. /\ DdnsVarsInv /\ DdnsRunnersInv /\ DdnsRoundsInv /\ DdnsFailuresInv /\ DdnsZoneInv
      /\ DdnsFollowInv /\ DdnsAddressIsReal
  BY DdnsParts
<1>2. /\ q.pc = "save"
      /\ ddnsSaved' = [ip |-> q.noted, status |-> IF q.failed THEN "failed" ELSE "ok"]
      /\ DdnsGo(x, DdnsRest)
      /\ ddnsExcuses' = ddnsExcuses \union
           (IF \E i \in {q.on, K} : q.noted # ddnsRunners[i].ip THEN {"lost"} ELSE {})
      /\ UNCHANGED <<ddnsRule, ddnsDisk, ddnsRunners, ddnsCurrent, ddnsHost, ddnsZone,
                     ddnsCount, ddnsWritten>>
  BY DEF DdnsSaves, DdnsNewest
<1>3. DdnsTelling(x) /\ DdnsGoing(x) /\ ~DdnsWriting(x)
  BY <1>2 DEF DdnsTelling, DdnsGoing, DdnsWriting
<1>4. q.on \in DOMAIN ddnsRunners /\ ddnsRunners # <<>> /\ q.noted \in DdnsIps
      /\ q.noted \in ddnsWritten \union {0}
  BY <1>1, <1>3, DdnsParts, DdnsRoundTyped DEF DdnsRoundsInv
<1>5. DdnsRoundIs(DdnsRest, "rest", 0, {}, 0, {}, 0, FALSE, FALSE, 0)
  BY DdnsNewRounds
<1>6. /\ ddnsRound' \in [DdnsSlots -> DdnsRoundSet]
      /\ ddnsRound'[x].pc = "rest" /\ ddnsRound'[x].ip = 0 /\ ddnsRound'[x].noted = 0
      /\ \A y \in DdnsSlots : y # x => ddnsRound'[y] = ddnsRound[y]
  BY <1>1, <1>2, <1>5 DEF DdnsVarsInv, DdnsGo, DdnsRoundIs
<1>7. /\ ddnsSaved'.ip = q.noted /\ (ddnsSaved'.status = "failed" => q.failed)
      /\ ddnsSaved' \in DdnsState
  BY <1>2, <1>4 DEF DdnsState
<1>8. /\ "overlap" \in ddnsExcuses' <=> "overlap" \in ddnsExcuses
      /\ ddnsExcuses' \subseteq {"overlap", "failed", "partial", "edited", "lost"}
      /\ DdnsHasFailed <=> DdnsHasFailed'
  BY <1>1, <1>2 DEF DdnsVarsInv, DdnsHasFailed
<1>9. DdnsNewest' = DdnsNewest /\ DdnsLast' = DdnsLast /\ DdnsLast = ddnsRunners[K].ip
  BY <1>2, <1>4 DEF DdnsNewest, DdnsLast
<1>10. DdnsVarsInv'
  BY <1>1, <1>2, <1>6, <1>7, <1>8 DEF DdnsVarsInv, DdnsState, DdnsIps, DdnsRunnerSet
<1>11. DdnsRunnersInv'
  <2>1. ASSUME NEW y \in DdnsSlots, DdnsGoing(y)'
        PROVE  /\ ddnsRound'[y].on \in DOMAIN ddnsRunners
               /\ y # 0 => ddnsRound'[y].on = y /\ ddnsRunners[y].loop
    BY <1>1, <1>6, <2>1 DEF DdnsRunnersInv, DdnsGoing
  <2> QED BY <1>1, <1>2, <1>4, <1>9, <2>1 DEF DdnsRunnersInv
<1>12. DdnsRoundsInv'
  BY <1>1, <1>2, <1>6 DEF DdnsRoundsInv, DdnsWriting
<1>13. DdnsFailuresInv'
  <2>1. ddnsSaved'.status = "failed" \/ ddnsDisk'.status = "failed" => DdnsHasFailed'
    BY <1>1, <1>2, <1>3, <1>7, <1>8 DEF DdnsFailuresInv
  <2>2. ASSUME NEW y \in DdnsSlots
        PROVE  /\ DdnsTelling(y)' /\ ddnsRound'[y].failed => DdnsHasFailed'
               /\ DdnsWriting(y)' /\ ddnsRound'[y].failed => DdnsHasFailed' \/ DdnsCut(y)'
    BY <1>1, <1>2, <1>6, <1>8 DEF DdnsFailuresInv, DdnsTelling, DdnsWriting, DdnsCut, DdnsRunnerOf
  <2>3. DdnsGoing(0)' => ddnsCount'.presses > 0
    BY <1>1, <1>2, <1>6, DdnsConstants DEF DdnsFailuresInv, DdnsGoing
  <2>4. ASSUME NEW y \in DdnsSlots \ {0}, y = ddnsCurrent', ddnsRound'[y].pc = "write",
               ddnsRound'[y].found = 0
        PROVE  \/ DdnsHasFailed'
               \/ DdnsProvider[Min(ddnsRound'[y].todo)] \in {"cloudflare", "godaddy"}
               \/ ddnsZone'[Min(ddnsRound'[y].todo)] = <<>>
    BY <1>1, <1>2, <1>6, <1>8, <2>4 DEF DdnsFailuresInv
  <2> QED BY <1>1, <1>2, <2>1, <2>2, <2>3, <2>4 DEF DdnsFailuresInv
<1>14. DdnsZoneInv'
  <2>1. ASSUME "overlap" \notin ddnsExcuses, NEW y \in DdnsSlots
        PROVE  /\ DdnsWriting(y)' /\ ~ddnsRound'[y].failed =>
                     \A n \in ddnsRound'[y].names \ ddnsRound'[y].todo : ddnsZone[n] = <<ddnsRound'[y].ip>>
               /\ ddnsRound'[y].pc = "write" =>
                     LET n == Min(ddnsRound'[y].todo) IN
                     \/ ddnsZone[n] = <<ddnsRound'[y].ip>>
                     \/ DdnsProvider[n] \notin {"aliyun", "tencent", "baidu", "cloudflare"}
                     \/ IF ddnsRound'[y].found = 0 THEN ddnsZone[n] = <<>>
                                                   ELSE ddnsZone[n] = <<ddnsRound'[y].found>>
    <3>1. CASE y = x
      BY <1>6, <3>1 DEF DdnsWriting
    <3>2. CASE y # x
      BY <1>1, <1>6, <2>1, <3>2 DEF DdnsZoneInv, DdnsWriting
    <3> QED BY <3>1, <3>2
  <2>2. "overlap" \notin ddnsExcuses =>
           \A n \in DdnsNames : ddnsZone[n] = <<>> \/ \E a \in DdnsAddresses : ddnsZone[n] = <<a>>
    BY <1>1 DEF DdnsZoneInv
  <2> QED BY <1>2, <1>8, <2>1, <2>2 DEF DdnsZoneInv
<1>15. DdnsFollowInv'
  <2> SUFFICES ASSUME ddnsExcuses' = {}
               PROVE  DdnsFollowInv'
    BY DEF DdnsFollowInv
  <2>1. ddnsExcuses = {} /\ q.noted = ddnsRunners[q.on].ip /\ q.noted = ddnsRunners[K].ip
    BY <1>2
  <2>2. ~DdnsLate(x)
    BY <1>3, <1>9, <2>1 DEF DdnsLate, DdnsRunnerOf
  <2>3. \A y \in DdnsSlots : DdnsLate(y) => DdnsLate(y)'
    BY <1>2, <1>6, <1>9, <2>2 DEF DdnsLate, DdnsWriting, DdnsTelling, DdnsRunnerOf
  <2>4. DdnsGoing(0)' /\ ddnsRound'[0].on # K => DdnsGoing(0) /\ ddnsRound[0].on # K
    BY <1>6, DdnsConstants DEF DdnsGoing
  <2>5. \A y \in DdnsSlots : DdnsWriting(y) => DdnsWriting(y)' /\ ddnsRound'[y] = ddnsRound[y]
    BY <1>3, <1>6 DEF DdnsWriting
  <2>6. ASSUME DdnsLast # 0, NEW n \in ddnsRule.names
        PROVE  \/ ddnsZone[n] = <<DdnsLast>>
               \/ \E y \in DdnsSlots :
                     /\ DdnsWriting(y)' /\ ddnsRound'[y].on = K
                     /\ ddnsRound'[y].wrote /\ ddnsZone[n] = <<ddnsRound'[y].ip>>
               \/ /\ ~(DdnsGoing(0)' /\ ddnsRound'[0].on # K)
                  /\ \E y \in DdnsSlots : DdnsLate(y)'
    BY <1>1, <2>1, <2>3, <2>4, <2>5, <2>6 DEF DdnsFollowInv
  <2>7. ddnsRule.names \subseteq ddnsRunners[K].names
    BY <1>1, <1>4, <2>1 DEF DdnsFollowInv
  <2> QED BY <1>2, <1>7, <1>9, <2>1, <2>6, <2>7 DEF DdnsFollowInv
<1>16. DdnsAddressIsReal'
  BY <1>1, <1>2, <1>4, <1>7 DEF DdnsAddressIsReal
<1> QED BY <1>10, <1>11, <1>12, <1>13, <1>14, <1>15, <1>16 DEF DdnsInv

-----------------------------------------------------------------------------
(* Steps that touch no round. *)

\* What only the rounds, the records and what was written make true.
LEMMA DdnsStill ==
    ASSUME DdnsInv, UNCHANGED <<ddnsRound, ddnsZone, ddnsWritten>>,
           "overlap" \in ddnsExcuses' <=> "overlap" \in ddnsExcuses
    PROVE  DdnsRoundsInv' /\ DdnsZoneInv'
<1>1. DdnsRoundsInv'
  BY DdnsParts DEF DdnsRoundsInv, DdnsWriting
<1>2. DdnsZoneInv'
  BY DdnsParts DEF DdnsZoneInv, DdnsWriting
<1> QED BY <1>1, <1>2

\* state.json catches up.
LEMMA DdnsFlushInv ==
    ASSUME DdnsInv, DdnsFlush
    PROVE  DdnsInv'
<1>1. /\ DdnsVarsInv /\ DdnsRunnersInv /\ DdnsRoundsInv /\ DdnsFailuresInv /\ DdnsZoneInv
      /\ DdnsFollowInv /\ DdnsAddressIsReal
  BY DdnsParts
<1>2. /\ ddnsDisk' = ddnsSaved
      /\ UNCHANGED <<ddnsRule, ddnsSaved, ddnsRunners, ddnsCurrent, ddnsRound, ddnsHost,
                     ddnsZone, ddnsCount, ddnsWritten, ddnsExcuses>>
  BY DEF DdnsFlush
<1>3. DdnsVarsInv'
  BY <1>1, <1>2 DEF DdnsVarsInv, DdnsState, DdnsIps, DdnsRunnerSet, DdnsRoundSet
<1>4. DdnsRunnersInv'
  BY <1>1, <1>2 DEF DdnsRunnersInv, DdnsGoing, DdnsNewest
<1>5. DdnsRoundsInv' /\ DdnsZoneInv'
  BY <1>2, DdnsStill
<1>6. DdnsFailuresInv'
  BY <1>1, <1>2 DEF DdnsFailuresInv, DdnsHasFailed, DdnsTelling, DdnsWriting, DdnsCut, DdnsRunnerOf, DdnsGoing
<1>7. DdnsFollowInv'
  BY <1>1, <1>2 DEF DdnsFollowInv, DdnsLast, DdnsNewest, DdnsTelling, DdnsWriting, DdnsGoing, DdnsLate,
                    DdnsRunnerOf
<1>8. DdnsAddressIsReal'
  BY <1>1, <1>2 DEF DdnsAddressIsReal
<1> QED BY <1>3, <1>4, <1>5, <1>6, <1>7, <1>8 DEF DdnsInv

\* The host's addresses change.
LEMMA DdnsMoveInv ==
    ASSUME DdnsInv, NEW ips \in SUBSET DdnsAddresses, DdnsMove(ips)
    PROVE  DdnsInv'
<1>1. /\ DdnsVarsInv /\ DdnsRunnersInv /\ DdnsRoundsInv /\ DdnsFailuresInv /\ DdnsZoneInv
      /\ DdnsFollowInv /\ DdnsAddressIsReal
  BY DdnsParts
<1>2. /\ ddnsCount' = [ddnsCount EXCEPT !.moves = @ + 1] /\ ddnsHost' = ips
      /\ UNCHANGED <<ddnsRule, ddnsSaved, ddnsDisk, ddnsRunners, ddnsCurrent, ddnsRound,
                     ddnsZone, ddnsWritten, ddnsExcuses>>
  BY DEF DdnsMove
<1>3. /\ ddnsCount' \in [moves : Nat, presses : Nat, troubles : Nat, edits : Nat]
      /\ ddnsCount'.moves = ddnsCount.moves + 1 /\ ddnsCount'.presses = ddnsCount.presses
      /\ ddnsCount'.troubles = ddnsCount.troubles
  BY <1>1, <1>2, DdnsCounts
<1>4. DdnsHasFailed' /\ ddnsCount'.moves > 0
  <2>1. ddnsCount.presses \in Nat /\ ddnsCount.moves \in Nat /\ ddnsCount.troubles \in Nat
    BY <1>1, DdnsOtherTyped
  <2> QED BY <1>3, <2>1 DEF DdnsHasFailed
<1>5. DdnsVarsInv'
  BY <1>1, <1>2, <1>3 DEF DdnsVarsInv, DdnsState, DdnsIps, DdnsRunnerSet, DdnsRoundSet
<1>6. DdnsRunnersInv'
  BY <1>1, <1>2 DEF DdnsRunnersInv, DdnsGoing, DdnsNewest
<1>7. DdnsRoundsInv' /\ DdnsZoneInv'
  BY <1>2, DdnsStill
<1>8. DdnsFailuresInv'
  BY <1>1, <1>2, <1>3, <1>4 DEF DdnsFailuresInv, DdnsGoing
<1>9. DdnsFollowInv'
  BY <1>1, <1>2 DEF DdnsFollowInv, DdnsLast, DdnsNewest, DdnsTelling, DdnsWriting, DdnsGoing, DdnsLate,
                    DdnsRunnerOf
<1>10. DdnsAddressIsReal'
  BY <1>1, <1>2 DEF DdnsAddressIsReal
<1> QED BY <1>5, <1>6, <1>7, <1>8, <1>9, <1>10 DEF DdnsInv

\* What a save of the rule makes of its runners.
DdnsReloaded(on, names) ==
    LET K == DdnsNewest
        L == DdnsNewest' IN
    /\ ddnsRunners' \in Seq(DdnsRunnerSet) /\ L \in Nat /\ L <= DdnsMaxRunners
    /\ DOMAIN ddnsRunners' = 1..L
    /\ ddnsRunners' = <<>> => ddnsRunners = <<>>
    /\ \A i \in 1..K : /\ i \in 1..L /\ ddnsRunners'[i].ip = ddnsRunners[i].ip
                       /\ ddnsRunners'[i].loop = ddnsRunners[i].loop
                       /\ ddnsRunners[i].stopped => ddnsRunners'[i].stopped
    /\ \A i \in 1..L : /\ ddnsRunners'[i].names # {}
                       /\ ddnsRunners'[i].loop /\ ~ddnsRunners'[i].stopped => i = ddnsCurrent'
    /\ ddnsCurrent' \in {0, L} /\ ddnsCurrent' \in {0, ddnsCurrent, K + 1}
    /\ ddnsCurrent' # 0 => /\ on /\ ddnsRunners'[ddnsCurrent'].loop
                           /\ ~ddnsRunners'[ddnsCurrent'].stopped
                           /\ ddnsRunners'[ddnsCurrent'].names = names
    /\ \/ /\ L = K
          /\ L # 0 => ddnsRunners'[L].names \in {ddnsRunners[K].names, names}
       \/ /\ L = K + 1 /\ on /\ ddnsCurrent = 0
          /\ ddnsRunners'[L].ip = ddnsSaved.ip /\ ddnsRunners'[L].names = names

LEMMA DdnsReloads ==
    ASSUME DdnsInv, NEW on \in BOOLEAN, NEW names \in (SUBSET DdnsNames) \ {{}}, DdnsReload(on, names)
    PROVE  DdnsReloaded(on, names)
<1> DEFINE K == DdnsNewest
           c == ddnsCurrent
<1>1. DdnsVarsInv /\ DdnsRunnersInv
  BY DdnsParts
<1>2. /\ K \in Nat /\ DOMAIN ddnsRunners = 1..K /\ ddnsRunners \in Seq(DdnsRunnerSet)
      /\ K <= DdnsMaxRunners /\ c \in {0, K} /\ names # {} /\ names \in SUBSET DdnsNames
      /\ ddnsSaved.ip \in DdnsIps /\ DdnsMaxRunners \in Nat
  <2>1. K \in Nat /\ DOMAIN ddnsRunners = 1..K /\ ddnsRunners \in Seq(DdnsRunnerSet)
    BY <1>1, DdnsRunnerTyped
  <2>2. K <= DdnsMaxRunners /\ c \in {0, K}
    BY <1>1 DEF DdnsRunnersInv
  <2>3. ddnsSaved.ip \in DdnsIps /\ DdnsMaxRunners \in Nat
    BY <1>1, DdnsOtherTyped, DdnsConstants
  <2> QED BY <2>1, <2>2, <2>3
<1>3. \A i \in 1..K : /\ ddnsRunners[i].names # {} /\ ddnsRunners[i].loop \in BOOLEAN
                      /\ ddnsRunners[i].stopped \in BOOLEAN
                      /\ ddnsRunners[i].loop /\ ~ddnsRunners[i].stopped => i = c
  BY <1>1, <1>2, DdnsRunnerTyped DEF DdnsRunnersInv
<1>4. c # 0 => c \in DOMAIN ddnsRunners /\ c = K /\ ddnsRunners # <<>>
               /\ ddnsRunners[c].loop /\ ~ddnsRunners[c].stopped
  BY <1>1, <1>2 DEF DdnsRunnersInv
<1>5. CASE ~on /\ c # 0
  <2>1. ddnsRunners' = [ddnsRunners EXCEPT ![c].stopped = TRUE] /\ ddnsCurrent' = 0
    BY <1>5 DEF DdnsReload
  <2>2. LET g == [ddnsRunners EXCEPT ![c].stopped = TRUE] IN
        /\ g \in Seq(DdnsRunnerSet) /\ DOMAIN g = DOMAIN ddnsRunners /\ Len(g) = Len(ddnsRunners)
        /\ \A k \in DOMAIN ddnsRunners :
              /\ g[k].names = ddnsRunners[k].names /\ g[k].loop = ddnsRunners[k].loop
              /\ g[k].stopped <=> (k = c \/ ddnsRunners[k].stopped)
              /\ g[k].ip = ddnsRunners[k].ip
    BY <1>1, <1>4, <1>5, DdnsRunnerUpdates
  <2>3. /\ ddnsRunners' \in Seq(DdnsRunnerSet) /\ DOMAIN ddnsRunners' = 1..K /\ DdnsNewest' = K
        /\ \A k \in 1..K :
              /\ ddnsRunners'[k].names = ddnsRunners[k].names /\ ddnsRunners'[k].loop = ddnsRunners[k].loop
              /\ ddnsRunners'[k].stopped <=> (k = c \/ ddnsRunners[k].stopped)
              /\ ddnsRunners'[k].ip = ddnsRunners[k].ip
    BY <1>2, <2>1, <2>2 DEF DdnsNewest
  <2>4. ddnsRunners' # <<>>
    BY <1>2, <1>4, <1>5, <2>3
  <2> QED BY <1>2, <1>3, <2>1, <2>3, <2>4 DEF DdnsReloaded
<1>6. CASE on /\ c # 0
  <2>1. ddnsRunners' = [ddnsRunners EXCEPT ![c].names = names] /\ ddnsCurrent' = c
    BY <1>6 DEF DdnsReload
  <2>2. LET g == [ddnsRunners EXCEPT ![c].names = names] IN
        /\ g \in Seq(DdnsRunnerSet) /\ DOMAIN g = DOMAIN ddnsRunners /\ Len(g) = Len(ddnsRunners)
        /\ \A k \in DOMAIN ddnsRunners :
              /\ g[k].names = IF k = c THEN names ELSE ddnsRunners[k].names
              /\ g[k].loop = ddnsRunners[k].loop
              /\ g[k].stopped = ddnsRunners[k].stopped /\ g[k].ip = ddnsRunners[k].ip
    <3>1. \A a \in SUBSET DdnsNames :
            LET g == [ddnsRunners EXCEPT ![c].names = a] IN
            /\ g \in Seq(DdnsRunnerSet) /\ DOMAIN g = DOMAIN ddnsRunners /\ Len(g) = Len(ddnsRunners)
            /\ \A k \in DOMAIN ddnsRunners :
                  /\ g[k].names = IF k = c THEN a ELSE ddnsRunners[k].names
                  /\ g[k].loop = ddnsRunners[k].loop
                  /\ g[k].stopped = ddnsRunners[k].stopped /\ g[k].ip = ddnsRunners[k].ip
      BY <1>1, <1>4, <1>6, DdnsRunnerUpdates
    <3> QED BY <1>2, <3>1
  <2>3. /\ ddnsRunners' \in Seq(DdnsRunnerSet) /\ DOMAIN ddnsRunners' = 1..K /\ DdnsNewest' = K
        /\ \A k \in 1..K :
              /\ ddnsRunners'[k].names = IF k = c THEN names ELSE ddnsRunners[k].names
              /\ ddnsRunners'[k].loop = ddnsRunners[k].loop
              /\ ddnsRunners'[k].stopped = ddnsRunners[k].stopped
              /\ ddnsRunners'[k].ip = ddnsRunners[k].ip
    BY <1>2, <2>1, <2>2 DEF DdnsNewest
  <2>4. ddnsRunners' # <<>>
    BY <1>2, <1>4, <1>6, <2>3
  <2> QED BY <1>2, <1>3, <1>4, <1>6, <2>1, <2>3, <2>4 DEF DdnsReloaded
<1>7. CASE on /\ c = 0
  <2> DEFINE yes == TRUE
             new == DdnsNewRunner(names, yes)
  <2>1. /\ K < DdnsMaxRunners /\ ddnsRunners' = Append(ddnsRunners, new) /\ ddnsCurrent' = K + 1
    BY <1>7 DEF DdnsReload, DdnsNewest
  <2>2. new \in DdnsRunnerSet /\ new.names = names /\ new.ip = ddnsSaved.ip /\ new.loop /\ ~new.stopped
    BY <1>2 DEF DdnsNewRunner, DdnsRunnerSet
  <2> HIDE DEF new
  <2>3. /\ ddnsRunners' \in Seq(DdnsRunnerSet) /\ DdnsNewest' = K + 1 /\ DOMAIN ddnsRunners' = 1..(K + 1)
        /\ ddnsRunners'[K + 1] = new /\ \A i \in 1..K : ddnsRunners'[i] = ddnsRunners[i]
        /\ ddnsRunners' # <<>>
    <3>1. ddnsRunners \in Seq(DdnsRunnerSet) /\ K = Len(ddnsRunners)
      BY <1>2 DEF DdnsNewest
    <3>2. DdnsNewest' = Len(ddnsRunners')
      BY DEF DdnsNewest
    <3> HIDE DEF K
    <3> QED BY <2>1, <2>2, <3>1, <3>2
  <2>4. \A i \in 1..(K + 1) : i = K + 1 \/ i \in 1..K
    BY <1>2
  <2>5. \A i \in 1..K : i \in 1..(K + 1) /\ i # 0
    BY <1>2
  <2>6. \A i \in 1..(K + 1) : /\ ddnsRunners'[i].names # {}
                              /\ ddnsRunners'[i].loop /\ ~ddnsRunners'[i].stopped => i = K + 1
    BY <1>2, <1>3, <1>7, <2>2, <2>3, <2>4, <2>5
  <2>7. K + 1 \in Nat /\ K + 1 <= DdnsMaxRunners
    BY <1>2, <2>1
  <2> QED BY <1>2, <1>7, <2>1, <2>2, <2>3, <2>5, <2>6, <2>7 DEF DdnsReloaded
<1>8. CASE ~on /\ c = 0
  <2>1. ddnsRunners' = ddnsRunners /\ ddnsCurrent' = 0
    BY <1>8 DEF DdnsReload
  <2>2. DdnsNewest' = K
    BY <2>1 DEF DdnsNewest
  <2> QED BY <1>2, <1>3, <1>8, <2>1, <2>2 DEF DdnsReloaded
<1> QED BY <1>5, <1>6, <1>7, <1>8

\* The rule is saved.
LEMMA DdnsReloadInv ==
    ASSUME DdnsInv, NEW on \in BOOLEAN, NEW names \in (SUBSET DdnsNames) \ {{}}, DdnsReload(on, names)
    PROVE  DdnsInv'
<1> DEFINE K == DdnsNewest
           L == DdnsNewest'
<1>1. /\ DdnsVarsInv /\ DdnsRunnersInv /\ DdnsRoundsInv /\ DdnsFailuresInv /\ DdnsZoneInv
      /\ DdnsFollowInv /\ DdnsAddressIsReal
  BY DdnsParts
<1>2. /\ ddnsCount' = [ddnsCount EXCEPT !.edits = @ + 1]
      /\ ddnsRule' = [on |-> on, names |-> names]
      /\ ddnsExcuses' = ddnsExcuses \union
           (IF \/ ~(names \subseteq ddnsRule.names)
               \/ on /\ ddnsCurrent = 0 /\ \E x \in DdnsSlots : DdnsGoing(x)
            THEN {"edited"} ELSE {})
      /\ UNCHANGED <<ddnsSaved, ddnsDisk, ddnsRound, ddnsHost, ddnsZone, ddnsWritten>>
  BY DEF DdnsReload, DdnsEdits
<1>3. DdnsReloaded(on, names)
  BY DdnsReloads
<1>4. /\ K \in Nat /\ DOMAIN ddnsRunners = 1..K
      /\ ddnsRunners = <<>> => K = 0
      /\ ddnsRunners # <<>> => K \in 1..K
      /\ names # {} /\ names \in SUBSET DdnsNames
  <2>1. /\ K \in Nat /\ DOMAIN ddnsRunners = 1..K
        /\ ddnsRunners = <<>> => K = 0
        /\ ddnsRunners # <<>> => K \in DOMAIN ddnsRunners
    BY <1>1, DdnsRunnerTyped
  <2> HIDE DEF K
  <2> QED BY <2>1
<1>5. /\ ddnsRunners' \in Seq(DdnsRunnerSet) /\ L \in Nat /\ L <= DdnsMaxRunners
      /\ DOMAIN ddnsRunners' = 1..L
      /\ ddnsRunners' = <<>> => ddnsRunners = <<>>
      /\ \A i \in 1..K : /\ i \in 1..L /\ ddnsRunners'[i].ip = ddnsRunners[i].ip
                         /\ ddnsRunners'[i].loop = ddnsRunners[i].loop
                         /\ ddnsRunners[i].stopped => ddnsRunners'[i].stopped
      /\ \A i \in 1..L : /\ ddnsRunners'[i].names # {}
                         /\ ddnsRunners'[i].loop /\ ~ddnsRunners'[i].stopped => i = ddnsCurrent'
      /\ ddnsCurrent' \in {0, L} /\ ddnsCurrent' \in {0, ddnsCurrent, K + 1}
      /\ ddnsCurrent' # 0 => /\ on /\ ddnsRunners'[ddnsCurrent'].loop
                             /\ ~ddnsRunners'[ddnsCurrent'].stopped
                             /\ ddnsRunners'[ddnsCurrent'].names = names
  BY <1>3 DEF DdnsReloaded
<1>6. \/ /\ L = K
         /\ L # 0 => ddnsRunners'[L].names \in {ddnsRunners[K].names, names}
      \/ /\ L = K + 1 /\ on /\ ddnsCurrent = 0
         /\ ddnsRunners'[L].ip = ddnsSaved.ip /\ ddnsRunners'[L].names = names
  BY <1>3 DEF DdnsReloaded
<1>7. /\ ddnsRule'.on = on /\ ddnsRule'.names = names
      /\ ddnsRule' \in [on : BOOLEAN, names : SUBSET DdnsNames]
  BY <1>2, <1>4
<1>8. /\ ddnsCount' \in [moves : Nat, presses : Nat, troubles : Nat, edits : Nat]
      /\ ddnsCount'.moves = ddnsCount.moves /\ ddnsCount'.presses = ddnsCount.presses
      /\ ddnsCount'.troubles = ddnsCount.troubles
  BY <1>1, <1>2, DdnsCounts
<1>9. /\ "overlap" \in ddnsExcuses' <=> "overlap" \in ddnsExcuses
      /\ ddnsExcuses' \subseteq {"overlap", "failed", "partial", "edited", "lost"}
      /\ DdnsHasFailed <=> DdnsHasFailed'
  BY <1>1, <1>2, <1>8 DEF DdnsVarsInv, DdnsHasFailed
<1>10. \A y \in DdnsSlots : /\ DdnsGoing(y)' <=> DdnsGoing(y)
                            /\ DdnsWriting(y)' <=> DdnsWriting(y)
                            /\ DdnsTelling(y)' <=> DdnsTelling(y)
                            /\ DdnsWriting(y) \/ DdnsTelling(y) => DdnsGoing(y)
  BY <1>2 DEF DdnsGoing, DdnsWriting, DdnsTelling
<1>11. \A y \in DdnsSlots : DdnsGoing(y) =>
          /\ ddnsRound[y].on \in 1..K /\ (y # 0 => ddnsRound[y].on = y /\ ddnsRunners[y].loop)
          /\ DdnsCut(y) => DdnsCut(y)'
          /\ DdnsRunnerOf(y)'.ip = DdnsRunnerOf(y).ip
  BY <1>1, <1>2, <1>4, <1>5 DEF DdnsRunnersInv, DdnsCut, DdnsRunnerOf
<1> HIDE DEF L, K
<1>12. DdnsVarsInv'
  <2>1. ddnsCurrent' \in Nat
    BY <1>5
  <2> QED BY <1>1, <1>2, <1>5, <1>7, <1>8, <1>9, <2>1 DEF DdnsVarsInv, DdnsState, DdnsIps, DdnsRoundSet
<1>13. DdnsRunnersInv'
  <2>1. ASSUME NEW y \in DdnsSlots, DdnsGoing(y)'
        PROVE  /\ ddnsRound'[y].on \in DOMAIN ddnsRunners'
               /\ y # 0 => ddnsRound'[y].on = y /\ ddnsRunners'[y].loop
    BY <1>2, <1>5, <1>10, <1>11, <2>1
  <2>2. ddnsRunners' = <<>> => ddnsSaved'.ip = ddnsDisk'.ip
    BY <1>1, <1>2, <1>5 DEF DdnsRunnersInv
  <2> QED BY <1>4, <1>5, <1>7, <2>1, <2>2 DEF DdnsRunnersInv, L
<1>14. DdnsRoundsInv' /\ DdnsZoneInv'
  BY <1>2, <1>9, DdnsStill
<1>15. DdnsFailuresInv'
  <2>1. ASSUME NEW y \in DdnsSlots \ {0}, y = ddnsCurrent', ddnsRound'[y].pc = "write",
               ddnsRound'[y].found = 0
        PROVE  \/ DdnsHasFailed'
               \/ DdnsProvider[Min(ddnsRound'[y].todo)] \in {"cloudflare", "godaddy"}
               \/ ddnsZone'[Min(ddnsRound'[y].todo)] = <<>>
    <3>1. DdnsGoing(y) /\ y \in 1..K
      BY <1>2, <1>11, <2>1 DEF DdnsGoing
    <3>2. y = ddnsCurrent
      BY <1>4, <1>5, <2>1, <3>1
    <3> QED BY <1>1, <1>2, <1>9, <2>1, <3>2 DEF DdnsFailuresInv
  <2>2. ASSUME NEW y \in DdnsSlots
        PROVE  /\ DdnsTelling(y)' /\ ddnsRound'[y].failed => DdnsHasFailed'
               /\ DdnsWriting(y)' /\ ddnsRound'[y].failed => DdnsHasFailed' \/ DdnsCut(y)'
    BY <1>1, <1>2, <1>9, <1>10, <1>11 DEF DdnsFailuresInv
  <2>3. DdnsGoing(0)' => ddnsCount'.presses > 0
    BY <1>1, <1>8, <1>10, DdnsConstants DEF DdnsFailuresInv
  <2> QED BY <1>1, <1>2, <1>8, <1>9, <2>1, <2>2, <2>3 DEF DdnsFailuresInv
<1>16. DdnsFollowInv'
  <2> SUFFICES ASSUME ddnsExcuses' = {}
               PROVE  DdnsFollowInv'
    BY DEF DdnsFollowInv
  <2>1. /\ ddnsExcuses = {} /\ names \subseteq ddnsRule.names
        /\ ~(on /\ ddnsCurrent = 0 /\ \E x \in DdnsSlots : DdnsGoing(x))
    BY <1>2
  <2>2. DdnsLast' = DdnsLast
    <3>1. CASE L = K
      <4>1. ddnsRunners' = <<>> <=> ddnsRunners = <<>>
        BY <1>4, <1>5, <3>1
      <4> QED BY <1>2, <1>4, <1>5, <3>1, <4>1 DEF DdnsLast, L, K
    <3>2. CASE L = K + 1 /\ on /\ ddnsCurrent = 0 /\ ddnsRunners'[L].ip = ddnsSaved.ip
      <4>1. ~ \E x \in DdnsSlots : DdnsGoing(x)
        BY <2>1, <3>2
      <4>2. ddnsSaved.ip = DdnsLast
        BY <1>1, <1>10, <2>1, <4>1 DEF DdnsFollowInv
      <4>3. ddnsRunners' # <<>>
        BY <1>4, <1>5, <3>2
      <4> QED BY <3>2, <4>2, <4>3 DEF DdnsLast, L
    <3> QED BY <1>6, <3>1, <3>2
  <2>3. ddnsRunners' # <<>> => names \subseteq ddnsRunners'[L].names
    <3>1. CASE L = K /\ (L # 0 => ddnsRunners'[L].names \in {ddnsRunners[K].names, names})
      <4>1. ddnsRunners' # <<>> => L # 0
        BY <1>5
      <4>2. L # 0 => ddnsRunners # <<>>
        BY <1>4, <3>1
      <4> QED BY <1>1, <2>1, <3>1, <4>1, <4>2 DEF DdnsFollowInv, K
    <3>2. CASE ddnsRunners'[L].names = names
      BY <3>2
    <3> QED BY <1>6, <3>1, <3>2
  <2>4. CASE L = K
    <3>1. ddnsSaved.ip = DdnsLast \/ \E y \in DdnsSlots : DdnsTelling(y)' /\ ddnsRound[y].on = K
      BY <1>1, <1>10, <2>1 DEF DdnsFollowInv, K
    <3>2. \A y \in DdnsSlots : DdnsLate(y) => DdnsLate(y)'
      BY <1>2, <1>10, <1>11, <2>2, <2>4 DEF DdnsLate, L, K
    <3>3. ASSUME DdnsLast # 0, NEW n \in names
          PROVE  \/ ddnsZone[n] = <<DdnsLast>>
                 \/ \E y \in DdnsSlots :
                       /\ DdnsWriting(y)' /\ ddnsRound[y].on = K
                       /\ ddnsRound[y].wrote /\ ddnsZone[n] = <<ddnsRound[y].ip>>
                 \/ /\ ~(DdnsGoing(0)' /\ ddnsRound[0].on # K)
                    /\ \E y \in DdnsSlots : DdnsLate(y)'
      BY <1>1, <1>10, <2>1, <3>2, <3>3, DdnsConstants DEF DdnsFollowInv, K
    <3> QED BY <1>2, <1>7, <2>2, <2>3, <2>4, <3>1, <3>3 DEF DdnsFollowInv, L
  <2>5. CASE L = K + 1 /\ on /\ ddnsCurrent = 0 /\ ddnsRunners'[L].ip = ddnsSaved.ip
    <3>1. ~ \E x \in DdnsSlots : DdnsGoing(x)
      BY <2>1, <2>5
    <3>2. ddnsSaved.ip = DdnsLast
      BY <1>1, <1>10, <2>1, <3>1 DEF DdnsFollowInv
    <3>3. ASSUME DdnsLast # 0, NEW n \in names
          PROVE  ddnsZone[n] = <<DdnsLast>>
      <4>1. ~ \E y \in DdnsSlots : DdnsLate(y) \/ DdnsWriting(y)
        BY <1>10, <3>1 DEF DdnsLate
      <4> QED BY <1>1, <2>1, <3>3, <4>1 DEF DdnsFollowInv
    <3> QED BY <1>2, <1>7, <2>2, <2>3, <3>2, <3>3 DEF DdnsFollowInv, L
  <2> QED BY <1>6, <2>4, <2>5
<1>17. DdnsAddressIsReal'
  <2>1. ASSUME NEW i \in 1..L
        PROVE  ddnsRunners'[i].ip \in ddnsWritten \union {0}
    <3>1. CASE i \in 1..K
      BY <1>1, <1>5, <3>1 DEF DdnsAddressIsReal, K, DdnsNewest
    <3>2. CASE i \notin 1..K
      <4>1. L = K + 1 /\ i = L /\ ddnsRunners'[L].ip = ddnsSaved.ip
        BY <1>4, <1>5, <1>6, <3>2
      <4> QED BY <1>1, <4>1 DEF DdnsAddressIsReal
    <3> QED BY <3>1, <3>2
  <2> QED BY <1>1, <1>2, <2>1 DEF DdnsAddressIsReal, L, DdnsNewest
<1> QED BY <1>12, <1>13, <1>14, <1>15, <1>16, <1>17 DEF DdnsInv

\* The process dies, and starts again.
LEMMA DdnsCrashInv ==
    ASSUME DdnsInv, DdnsCrash
    PROVE  DdnsInv'
<1> DEFINE yes == TRUE
           no == FALSE
           first == [names |-> ddnsRule.names, ip |-> ddnsDisk.ip, loop |-> yes, stopped |-> no]
<1>1. /\ DdnsVarsInv /\ DdnsRunnersInv /\ DdnsRoundsInv /\ DdnsFailuresInv /\ DdnsZoneInv
      /\ DdnsFollowInv /\ DdnsAddressIsReal
  BY DdnsParts
<1>2. /\ ddnsCount' = [ddnsCount EXCEPT !.edits = @ + 1]
      /\ ddnsSaved' = ddnsDisk /\ ddnsRound' = [x \in DdnsSlots |-> DdnsRest]
      /\ ddnsRunners' = IF ddnsRule.on THEN <<first>> ELSE <<>>
      /\ ddnsCurrent' = IF ddnsRule.on THEN 1 ELSE 0
      /\ ddnsExcuses' = ddnsExcuses \union
           (IF \/ \E x \in DdnsSlots : DdnsGoing(x) /\ ddnsRound[x].ip # ddnsDisk.ip
               \/ \E i \in 1..Len(ddnsRunners) : ddnsRunners[i].ip # ddnsDisk.ip
            THEN {"lost"} ELSE {})
      /\ UNCHANGED <<ddnsRule, ddnsDisk, ddnsHost, ddnsZone, ddnsWritten>>
  BY DEF DdnsCrash, DdnsEdits
<1>3. /\ ddnsRule.names \in SUBSET DdnsNames /\ ddnsRule.names # {} /\ ddnsDisk.ip \in DdnsIps
      /\ ddnsDisk.ip \in ddnsWritten \union {0} /\ ddnsRule.on \in BOOLEAN
  BY <1>1, DdnsOtherTyped DEF DdnsRunnersInv, DdnsAddressIsReal
<1>4. first \in DdnsRunnerSet /\ first.names = ddnsRule.names /\ first.ip = ddnsDisk.ip
      /\ first.loop /\ ~first.stopped
  BY <1>3 DEF DdnsRunnerSet
<1> HIDE DEF first, yes, no
<1>5. ddnsRule.on => /\ ddnsRunners' \in Seq(DdnsRunnerSet) /\ DdnsNewest' = 1 /\ DOMAIN ddnsRunners' = {1}
                     /\ ddnsRunners'[1] = first /\ ddnsRunners' # <<>> /\ ddnsCurrent' = 1
  BY <1>2, <1>4 DEF DdnsNewest
<1>6. ~ddnsRule.on => /\ ddnsRunners' \in Seq(DdnsRunnerSet) /\ DdnsNewest' = 0 /\ DOMAIN ddnsRunners' = {}
                      /\ ddnsRunners' = <<>> /\ ddnsCurrent' = 0
  BY <1>2 DEF DdnsNewest
<1>7. DdnsRoundIs(DdnsRest, "rest", 0, {}, 0, {}, 0, FALSE, FALSE, 0)
  BY DdnsNewRounds
<1>8. /\ ddnsRound' \in [DdnsSlots -> DdnsRoundSet]
      /\ \A y \in DdnsSlots : /\ ddnsRound'[y].pc = "rest" /\ ddnsRound'[y].ip = 0
                              /\ ddnsRound'[y].noted = 0
  BY <1>2, <1>7 DEF DdnsRoundIs
<1>9. \A y \in DdnsSlots : ~DdnsGoing(y)' /\ ~DdnsWriting(y)' /\ ~DdnsTelling(y)'
  BY <1>8 DEF DdnsGoing, DdnsWriting, DdnsTelling
<1>10. /\ ddnsCount' \in [moves : Nat, presses : Nat, troubles : Nat, edits : Nat]
       /\ ddnsCount'.moves = ddnsCount.moves /\ ddnsCount'.presses = ddnsCount.presses
       /\ ddnsCount'.troubles = ddnsCount.troubles
  BY <1>1, <1>2, DdnsCounts
<1>11. /\ "overlap" \in ddnsExcuses' <=> "overlap" \in ddnsExcuses
       /\ ddnsExcuses' \subseteq {"overlap", "failed", "partial", "edited", "lost"}
       /\ DdnsHasFailed <=> DdnsHasFailed'
  BY <1>1, <1>2, <1>10 DEF DdnsVarsInv, DdnsHasFailed
<1>12. DdnsVarsInv'
  <2>1. ddnsRunners' \in Seq(DdnsRunnerSet) /\ ddnsCurrent' \in Nat
    BY <1>3, <1>5, <1>6
  <2> QED BY <1>1, <1>2, <1>8, <1>10, <1>11, <2>1 DEF DdnsVarsInv, DdnsState, DdnsIps
<1>13. DdnsRunnersInv'
  BY <1>2, <1>3, <1>4, <1>5, <1>6, <1>9, DdnsConstants DEF DdnsRunnersInv
<1>14. DdnsRoundsInv'
  BY <1>8, <1>9 DEF DdnsRoundsInv
<1>15. DdnsFailuresInv'
  BY <1>1, <1>2, <1>8, <1>9, <1>10, <1>11, DdnsConstants DEF DdnsFailuresInv
<1>16. DdnsZoneInv'
  BY <1>1, <1>2, <1>8, <1>9, <1>11 DEF DdnsZoneInv
<1>17. DdnsFollowInv'
  <2> SUFFICES ASSUME ddnsExcuses' = {}
               PROVE  DdnsFollowInv'
    BY DEF DdnsFollowInv
  <2>1. /\ ddnsExcuses = {}
        /\ \A x \in DdnsSlots : DdnsGoing(x) => ddnsRound[x].ip = ddnsDisk.ip
        /\ \A i \in DOMAIN ddnsRunners : ddnsRunners[i].ip = ddnsDisk.ip
    <3>1. DOMAIN ddnsRunners = 1..Len(ddnsRunners)
      BY <1>1, DdnsRunnerTyped DEF DdnsNewest
    <3> QED BY <1>2, <3>1
  <2>2. DdnsLast = ddnsDisk.ip
    BY <1>1, <2>1, DdnsRunnerTyped DEF DdnsLast, DdnsRunnersInv
  <2>3. DdnsLast' = ddnsDisk.ip
    BY <1>2, <1>3, <1>4, <1>5, <1>6 DEF DdnsLast
  <2>4. \A y \in DdnsSlots : DdnsWriting(y) \/ DdnsTelling(y) =>
           DdnsGoing(y) /\ DdnsRunnerOf(y).ip = ddnsDisk.ip /\ ddnsRound[y].ip = ddnsDisk.ip
    BY <1>1, <2>1 DEF DdnsWriting, DdnsTelling, DdnsGoing, DdnsRunnersInv, DdnsRunnerOf
  <2>5. \A y \in DdnsSlots : ~DdnsLate(y)
    BY <2>2, <2>4 DEF DdnsLate
  <2>6. ddnsDisk.ip # 0 => \A n \in ddnsRule.names : ddnsZone[n] = <<ddnsDisk.ip>>
    BY <1>1, <2>1, <2>2, <2>4, <2>5 DEF DdnsFollowInv
  <2>7. ddnsRunners' # <<>> => ddnsRule.names \subseteq ddnsRunners'[DdnsNewest'].names
    BY <1>3, <1>4, <1>5, <1>6
  <2> QED BY <1>2, <2>3, <2>6, <2>7 DEF DdnsFollowInv
<1>18. DdnsAddressIsReal'
  <2>1. \A i \in DOMAIN ddnsRunners' : ddnsRunners'[i].ip \in ddnsWritten \union {0}
    BY <1>3, <1>4, <1>5, <1>6
  <2>2. DOMAIN ddnsRunners' = 1..Len(ddnsRunners')
    BY <1>12, DdnsRunnerTyped DEF DdnsVarsInv
  <2> QED BY <1>2, <1>3, <2>1, <2>2 DEF DdnsAddressIsReal
<1> QED BY <1>12, <1>13, <1>14, <1>15, <1>16, <1>17, <1>18 DEF DdnsInv

-----------------------------------------------------------------------------
\* Every step keeps the invariant.
LEMMA DdnsStepInv ==
    ASSUME DdnsInv, [DdnsNext]_ddnsVars
    PROVE  DdnsInv'
<1>1. CASE UNCHANGED ddnsVars
  <2>1. UNCHANGED <<ddnsRule, ddnsSaved, ddnsDisk, ddnsRunners, ddnsCurrent, ddnsRound,
                    ddnsHost, ddnsZone, ddnsCount, ddnsWritten, ddnsExcuses>>
    BY <1>1 DEF ddnsVars
  <2>2. DdnsVarsInv'
    BY <2>1, DdnsParts DEF DdnsVarsInv, DdnsState, DdnsIps, DdnsRunnerSet, DdnsRoundSet
  <2>3. DdnsRunnersInv'
    BY <2>1, DdnsParts DEF DdnsRunnersInv, DdnsGoing, DdnsNewest
  <2>4. DdnsRoundsInv' /\ DdnsZoneInv'
    BY <2>1, DdnsStill
  <2>5. DdnsFailuresInv'
    BY <2>1, DdnsParts
       DEF DdnsFailuresInv, DdnsHasFailed, DdnsTelling, DdnsWriting, DdnsCut, DdnsRunnerOf, DdnsGoing
  <2>6. DdnsFollowInv'
    BY <2>1, DdnsParts
       DEF DdnsFollowInv, DdnsLast, DdnsNewest, DdnsTelling, DdnsWriting, DdnsGoing, DdnsLate, DdnsRunnerOf
  <2>7. DdnsAddressIsReal'
    BY <2>1, DdnsParts DEF DdnsAddressIsReal
  <2> QED BY <2>2, <2>3, <2>4, <2>5, <2>6, <2>7 DEF DdnsInv
<1>2. ASSUME NEW x \in DdnsSlots, DdnsRoundStep(x)
      PROVE  DdnsInv'
  <2>1. CASE DdnsBegins(x)
    <3>1. CASE x = 0 /\ ddnsCurrent = 0
      BY <2>1, <3>1, DdnsBeginsAnewInv
    <3>2. CASE ~(x = 0 /\ ddnsCurrent = 0)
      BY <2>1, <3>2, DdnsBeginsInv
    <3> QED BY <3>1, <3>2
  <2>2. CASE DdnsDetects(x)
    BY <2>2, DdnsDetectsInv
  <2>3. CASE DdnsDetectFails(x)
    BY <2>3, DdnsDetectFailsInv
  <2>4. CASE DdnsFind(x)
    BY <2>4, DdnsFindInv
  <2>5. CASE DdnsWrite(x)
    BY <2>5, DdnsWriteInv
  <2>6. CASE DdnsWriteFails(x)
    BY <2>6, DdnsWriteFailsInv
  <2>7. CASE DdnsConcludes(x)
    BY <2>7, DdnsConcludesInv
  <2>8. CASE DdnsNotes(x)
    BY <2>8, DdnsNotesInv
  <2>9. CASE DdnsSaves(x)
    BY <2>9, DdnsSavesInv
  <2> QED BY <1>2, <2>1, <2>2, <2>3, <2>4, <2>5, <2>6, <2>7, <2>8, <2>9 DEF DdnsRoundStep
<1>3. ASSUME NEW on \in BOOLEAN, NEW names \in (SUBSET DdnsNames) \ {{}}, DdnsReload(on, names)
      PROVE  DdnsInv'
  BY <1>3, DdnsReloadInv
<1>4. ASSUME NEW ips \in SUBSET DdnsAddresses, DdnsMove(ips)
      PROVE  DdnsInv'
  BY <1>4, DdnsMoveInv
<1>5. CASE DdnsFlush
  BY <1>5, DdnsFlushInv
<1>6. CASE DdnsCrash
  BY <1>6, DdnsCrashInv
<1> QED BY <1>1, <1>2, <1>3, <1>4, <1>5, <1>6 DEF DdnsNext

\* What the invariant says of the rule.
LEMMA DdnsShows ==
    ASSUME DdnsInv
    PROVE  DdnsIsHonest
<1>1. /\ DdnsVarsInv /\ DdnsRunnersInv /\ DdnsFailuresInv /\ DdnsFollowInv /\ DdnsAddressIsReal
  BY DdnsParts
<1>2. DdnsFailureIsReal
  BY <1>1 DEF DdnsFailuresInv, DdnsHasFailed, DdnsFailureIsReal
<1>3. DdnsRecordsFollow
  <2> SUFFICES ASSUME ddnsExcuses = {}, ddnsCurrent # 0, \A x \in DdnsSlots : ~DdnsGoing(x),
                      ddnsRunners[ddnsCurrent].ip # 0, NEW n \in ddnsRunners[ddnsCurrent].names
               PROVE  ToSet(ddnsZone[n]) = {ddnsRunners[ddnsCurrent].ip}
    BY DEF DdnsRecordsFollow
  <2>1. ddnsCurrent = DdnsNewest /\ ddnsRunners[ddnsCurrent].names = ddnsRule.names
    BY <1>1 DEF DdnsRunnersInv
  <2>2. ddnsRunners # <<>>
    BY <1>1, <2>1, DdnsRunnerTyped
  <2>3. DdnsLast = ddnsRunners[ddnsCurrent].ip
    BY <2>1, <2>2 DEF DdnsLast
  <2>4. \A x \in DdnsSlots : ~DdnsWriting(x) /\ ~DdnsLate(x)
    BY DEF DdnsGoing, DdnsWriting, DdnsTelling, DdnsLate
  <2>5. ddnsZone[n] = <<ddnsRunners[ddnsCurrent].ip>>
    BY <1>1, <2>1, <2>3, <2>4 DEF DdnsFollowInv
  <2> QED BY <2>5 DEF ToSet
<1> QED BY <1>1, <1>2, <1>3 DEF DdnsIsHonest
=============================================================================
