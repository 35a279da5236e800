-------------------------------- MODULE Bans --------------------------------
(***************************************************************************)
(* Sources that misbehave: the service firewall (internal/inboundfw), the  *)
(* panel's own (internal/server/firewall.go) and the scan ban of the web   *)
(* services (internal/modules/webservice/scanban.go), with the handlers    *)
(* that move bans to the deny list (internal/server/                       *)
(* api_global_firewall.go).                                                *)
(*                                                                         *)
(* The three count in tables of their own, under locks of their own: a     *)
(* behaviour follows one of them, banKind.                                 *)
(***************************************************************************)
EXTENDS Integers, FiniteSets, FiniteSetsExt, Functions

CONSTANTS
    BanSources, BanNear,         \* all sources; those of the local network,
    BanLocal,                    \* and this machine's own, which are among them
    BanCap, BanDenyMax,          \* room of a table, and of the deny list
    BanWindow, BanLimit,         \* a ban: BanLimit strikes in BanWindow
    BanBurst, BanBurstLimit,     \* or, for services, a burst
    BanFor, BanSweepEvery, BanEvictBatch,
    BanHorizon, BanMaxHits, BanMaxAsks   \* bounds: time, strikes, requests

ASSUME BanAssumption ==
    /\ BanLocal \subseteq BanNear /\ BanNear \subseteq BanSources /\ IsFiniteSet(BanSources)
    /\ {BanCap, BanDenyMax, BanBurstLimit, BanSweepEvery, BanEvictBatch, BanFor}
          \subseteq Nat \ {0}
    /\ BanLimit \in Nat /\ BanLimit >= 2
    /\ {BanWindow, BanBurst, BanHorizon, BanMaxHits, BanMaxAsks} \subseteq Nat

VARIABLES
    banKind,    \* the table this behaviour follows
    banNow,
    banTable,   \* what is remembered of every source
    banSwept,   \* when the table was last swept
    banHot,     \* the latest end of a ban (scan ban)
    banConf,    \* the lists of the firewall; the panel's mode
    banMove,    \* the request that moves bans to the deny list
    banSave,    \* the request that saves the firewall's settings
    banCount,   \* strikes and requests so far
    banHits,    \* strikes of a source at each moment, since its count last began
    banDue,     \* until when a source must be kept out
    banUnearned,\* sources banned without the strikes
    banLost     \* denied sources taken off the list by a save nobody asked it
                \* of, or by hand while a move to the list is under way

banVars == <<banKind, banNow, banTable, banSwept, banHot, banConf, banMove, banSave,
             banCount, banHits, banDue, banUnearned, banLost>>

BanKinds == {"services", "panel", "site"}
BanIdle == [step |-> "idle"]
BanFree == [first |-> -1, strikes |-> 0, burstAt |-> -1, bursts |-> 0, until |-> -1, seen |-> -1]
BanFresh == [first |-> banNow, strikes |-> 0, burstAt |-> banNow, bursts |-> 0, until |-> -1,
             seen |-> banNow]

BanTaken(t) == {s \in BanSources : t[s] # BanFree}
BanFull(t) == Cardinality(BanTaken(t)) >= BanCap
BanLive(e) == banNow < e.until
BanWithout(t, gone) == [s \in BanSources |-> IF s \in gone THEN BanFree ELSE t[s]]

-----------------------------------------------------------------------------
(* Services: strikes are failed handshakes.                                 *)

BanStale(e) == banNow > e.until /\ banNow - e.first >= BanWindow

BanSwept(t) == BanWithout(t, {s \in BanTaken(t) : BanStale(t[s])})

BanBegun(e) == [e EXCEPT !.strikes = 0, !.bursts = 0, !.first = banNow, !.burstAt = banNow,
                         !.until = banNow + BanFor]

BanNoted(e) ==
    LET bursts == IF banNow - e.burstAt > BanBurst THEN 1 ELSE e.bursts + 1
        strikes == IF banNow - e.first > BanWindow THEN 1 ELSE e.strikes + 1
        burstAt == IF banNow - e.burstAt > BanBurst THEN banNow ELSE e.burstAt
    IN  IF BanLive(e) THEN [e EXCEPT !.first = banNow, !.burstAt = banNow,
                                     !.strikes = 0, !.bursts = 0]
        ELSE IF bursts >= BanBurstLimit \/ strikes >= BanLimit THEN BanBegun(e)
        ELSE [e EXCEPT !.bursts = bursts, !.burstAt = burstAt, !.strikes = strikes,
                       !.first = IF banNow - @ > BanWindow THEN banNow ELSE @]

BanServicesVerdict(s) ==
    IF s \in banConf.deny THEN "list"
    ELSE IF s \in BanNear \/ s \in banConf.allow THEN "pass"
    ELSE IF BanLive(banTable[s]) THEN "ban" ELSE "pass"

-----------------------------------------------------------------------------
(* The panel: strikes are requests beyond the rate.                         *)

BanPanelStale(e) == banNow > e.until /\ banNow - e.first >= BanWindow
BanPanelSwept(t) == BanWithout(t, {s \in BanTaken(t) : BanPanelStale(t[s])})

BanPanelStruck(e) ==
    LET strikes == IF banNow - e.first > BanWindow THEN 1 ELSE e.strikes + 1
    IN  IF BanLive(e) THEN [e EXCEPT !.first = banNow, !.strikes = 0]
        ELSE IF strikes >= BanLimit
        THEN [e EXCEPT !.strikes = 0, !.first = banNow, !.until = banNow + BanFor]
        ELSE [e EXCEPT !.strikes = strikes,
                       !.first = IF banNow - @ > BanWindow THEN banNow ELSE @]

BanInScope(s) == banConf.mode = "all" \/ s \in BanNear

BanPanelVerdict(s) ==
    IF s \in banConf.deny THEN "list"
    ELSE IF s \in BanLocal \/ s \in banConf.allow THEN "pass"
    ELSE IF BanLive(banTable[s]) THEN "ban"
    ELSE IF BanInScope(s) THEN "pass" ELSE "scope"

-----------------------------------------------------------------------------
(* Web services: strikes are answers 401, 403 and 404.                      *)

BanSiteStale(e) == ~BanLive(e) /\ banNow - e.seen >= BanWindow
BanSiteSwept(t) == BanWithout(t, {s \in BanTaken(t) : BanSiteStale(t[s])})

\* Those idle for at least as long as the average, unless banned.
BanSiteEvictable(t) ==
    LET out == {s \in BanTaken(t) : ~BanLive(t[s])}
        idle == SumFunctionOnSet([s \in BanSources |-> banNow - t[s].seen], out)
    IN  {s \in out : banNow - t[s].seen >= idle \div Cardinality(out)}

\* The tables an eviction may leave: one batch is dropped, in any order.
BanSiteEvicted(t) ==
    LET all == BanSiteEvictable(t)
    IN  {BanWithout(t, gone) : gone \in
            {g \in SUBSET all : Cardinality(g) = Min({BanEvictBatch, Cardinality(all)})}}

BanSiteStruck(e) ==
    LET strikes == IF banNow - e.first >= BanWindow THEN 1 ELSE e.strikes + 1
        first == IF banNow - e.first >= BanWindow THEN banNow ELSE e.first
    IN  IF strikes < BanLimit \/ BanLive(e)
        THEN [e EXCEPT !.strikes = strikes, !.first = first, !.seen = banNow]
        ELSE [e EXCEPT !.strikes = 0, !.first = banNow, !.seen = banNow,
                       !.until = banNow + BanFor]

\* No lock is taken while no ban can be live.
BanSiteVerdict(s) ==
    IF banHot > banNow /\ s \notin BanNear /\ BanLive(banTable[s]) THEN "ban" ELSE "pass"

-----------------------------------------------------------------------------
(* One source is judged, one strike is counted.                             *)

BanVerdict(s) == CASE banKind = "services" -> BanServicesVerdict(s)
                   [] banKind = "panel" -> BanPanelVerdict(s)
                   [] OTHER -> BanSiteVerdict(s)

\* Sources no ban is looked up for: the panel spares this machine alone, the
\* others the local network.
BanExempt == IF banKind = "panel" THEN BanLocal ELSE BanNear

BanDropStale(t) == CASE banKind = "services" -> BanSwept(t)
                     [] banKind = "panel" -> BanPanelSwept(t)
                     [] OTHER -> BanSiteSwept(t)
BanStruck(e) == CASE banKind = "services" -> BanNoted(e)
                  [] banKind = "panel" -> BanPanelStruck(e)
                  [] OTHER -> BanSiteStruck(e)

BanDueSweep == banNow - banSwept >= BanSweepEvery
BanAfterSweep == IF BanDueSweep THEN BanDropStale(banTable) ELSE banTable
BanSweeps == banSwept' = IF BanDueSweep THEN banNow ELSE banSwept

\* Room is made when the table is full: what is stale goes; the scan ban
\* drops a batch of what it may.
BanRoom(t, s) == IF s \in BanTaken(t) \/ ~BanFull(t) THEN {t}
                 ELSE IF banKind # "site" THEN {BanDropStale(t)}
                 ELSE IF \A o \in BanTaken(t) : BanLive(t[o]) THEN {t}
                 ELSE BanSiteEvicted(t)

BanStart(k, mode) ==
    /\ banKind = "none" /\ banKind' = k /\ banConf' = [banConf EXCEPT !.mode = mode]
    /\ UNCHANGED <<banNow, banTable, banSwept, banHot, banMove, banSave, banCount, banHits,
                   banDue, banUnearned, banLost>>

\* A connection arrives: looking for a ban sweeps.
BanArrives(s) ==
    /\ banKind \in {"services", "panel"} /\ BanTaken(banTable) # {} /\ BanDueSweep
    /\ s \notin BanExempt \union banConf.deny \union banConf.allow
    /\ banTable' = BanAfterSweep /\ BanSweeps
    /\ UNCHANGED <<banKind, banNow, banHot, banConf, banMove, banSave, banCount, banHits,
                   banDue, banUnearned, banLost>>

\* The strikes since a moment, and those that earn a ban.
BanNoHits == [m \in 0..BanHorizon |-> 0]
BanSince(hits, from) == SumFunctionOnSet(hits, {m \in 0..BanHorizon : m >= from})
BanEarned(hits) ==
    \/ BanSince(hits, banNow - BanWindow) >= BanLimit
    \/ banKind = "services" /\ BanSince(hits, banNow - BanBurst) >= BanBurstLimit

\* Whose strikes are counted.  Between the judgement and the count of a request of
\* the panel others may be counted, and the lists be saved: it is counted by the
\* lists it was judged by, so a source banned, listed or allowed since still is.
\* The mode stays, and whom it refuses gets no further.  Services and sites count
\* what a connection that was let in earlier still does.
BanCounts(s) ==
    /\ s \notin BanExempt
    /\ IF banKind = "panel" THEN BanInScope(s) ELSE s \notin banConf.allow

BanStrike(s) ==
    /\ banKind # "none" /\ BanCounts(s)
    /\ banCount.hits < BanMaxHits
    /\ banCount' = [banCount EXCEPT !.hits = @ + 1]
    /\ BanSweeps
    /\ \E t \in BanRoom(BanAfterSweep, s) :
          LET in == s \in BanTaken(t) \/ ~BanFull(t)
              before == IF s \in BanTaken(t) THEN t[s] ELSE BanFresh
              after == BanStruck(before)
              begun == in /\ after.until > before.until
              hits == [banHits[s] EXCEPT ![banNow] = @ + 1]
          IN  /\ banTable' = IF in THEN [t EXCEPT ![s] = after] ELSE t
              /\ banHot' = IF begun THEN Max({banHot, after.until}) ELSE banHot
              /\ banHits' = [o \in BanSources |->
                    IF o = s /\ in THEN IF after.strikes = 0 THEN BanNoHits ELSE hits
                    ELSE IF t[o] = BanFree /\ BanAfterSweep[o] # BanFree /\ banKind = "site"
                    THEN BanNoHits ELSE banHits[o]]
              /\ banDue' = IF begun THEN [banDue EXCEPT ![s] = Max({@, after.until})] ELSE banDue
              /\ banUnearned' = IF begun /\ ~BanEarned(hits)
                                THEN banUnearned \union {s} ELSE banUnearned
    /\ UNCHANGED <<banKind, banNow, banConf, banMove, banSave, banLost>>

BanTimePasses ==
    /\ banNow < BanHorizon /\ banNow' = banNow + 1
    /\ UNCHANGED <<banKind, banTable, banSwept, banHot, banConf, banMove, banSave, banCount,
                   banHits, banDue, banUnearned, banLost>>

-----------------------------------------------------------------------------
(* The administrator.                                                       *)

BanAsksMore == banKind \in {"services", "panel"} /\ banCount.asks < BanMaxAsks
BanAsked == banCount' = [banCount EXCEPT !.asks = @ + 1]

\* A source taken out of the table by hand owes nothing, unless it is denied.
BanReleased(out) ==
    /\ banTable' = BanWithout(banTable, out)
    /\ banHits' = [s \in BanSources |-> IF s \in out THEN BanNoHits ELSE banHits[s]]

BanClear(out) ==
    /\ BanAsksMore /\ BanAsked
    /\ out = BanSources \/ \E s \in BanSources : out = {s}
    /\ BanReleased(out)
    /\ banDue' = [s \in BanSources |->
                     IF s \in out \ banConf.deny THEN -1 ELSE banDue[s]]
    /\ UNCHANGED <<banKind, banNow, banSwept, banHot, banConf, banMove, banSave, banUnearned,
                   banLost>>

\* Move to the deny list: the bans of now, then one Update, then every one
\* that is on the list is taken out of the table.
BanMoveBegins ==
    /\ banKind = "services" /\ BanAsksMore /\ BanAsked /\ banMove.step = "idle"
    /\ banMove' = [step |-> "update", who |-> {s \in BanSources : BanLive(banTable[s])}]
    /\ banMove'.who # {}
    /\ UNCHANGED <<banKind, banNow, banTable, banSwept, banHot, banConf, banSave, banHits,
                   banDue, banUnearned, banLost>>

BanForever == BanHorizon + 1

\* Mutant of BanApplied: also those the list had no room for.
BanAppliedAll(next, who) == who

BanApplied(next, who) == who \intersect next

BanMoveUpdates ==
    /\ banMove.step = "update"
    /\ \E new \in SUBSET (banMove.who \ banConf.deny) :
          /\ Cardinality(new) = Min({Cardinality(banMove.who \ banConf.deny),
                                     Max({0, BanDenyMax - Cardinality(banConf.deny)})})
          /\ LET next == banConf.deny \union new
             IN  /\ banConf' = [banConf EXCEPT !.deny = next]
                 /\ banMove' = [step |-> "unban", who |-> BanApplied(next, banMove.who)]
          /\ banDue' = [s \in BanSources |-> IF s \in new THEN BanForever ELSE banDue[s]]
          /\ banLost' = banLost \ new
    /\ UNCHANGED <<banKind, banNow, banTable, banSwept, banHot, banSave, banCount, banHits,
                   banUnearned>>

\* The Update could not be saved.
BanMoveFails ==
    /\ banMove.step = "update" /\ banMove' = BanIdle
    /\ UNCHANGED <<banKind, banNow, banTable, banSwept, banHot, banConf, banSave, banCount,
                   banHits, banDue, banUnearned, banLost>>

BanMoveUnbans ==
    /\ banMove.step = "unban"
    /\ IF banMove.who = {} THEN banMove' = BanIdle /\ UNCHANGED <<banTable, banHits>>
       ELSE \E s \in banMove.who :
               BanReleased({s}) /\ banMove' = [banMove EXCEPT !.who = @ \ {s}]
    /\ UNCHANGED <<banKind, banNow, banSwept, banHot, banConf, banSave, banCount, banDue,
                   banUnearned, banLost>>

\* Entries are added to a list and removed from it inside one Update.
BanListed(list, s) ==
    /\ BanAsksMore /\ BanAsked
    /\ s \notin banConf[list] /\ Cardinality(banConf[list]) < BanDenyMax
    /\ banConf' = [banConf EXCEPT ![list] = @ \union {s}]
    /\ banDue' = IF list = "deny" THEN [banDue EXCEPT ![s] = BanForever] ELSE banDue
    /\ banLost' = IF list = "deny" THEN banLost \ {s} ELSE banLost
    /\ UNCHANGED <<banKind, banNow, banTable, banSwept, banHot, banMove, banSave, banHits,
                   banUnearned>>

BanUnlisted(list, s) ==
    /\ BanAsksMore /\ BanAsked
    /\ s \in banConf[list]
    /\ banConf' = [banConf EXCEPT ![list] = @ \ {s}]
    /\ banDue' = IF list = "deny" THEN [banDue EXCEPT ![s] = banTable[s].until] ELSE banDue
    /\ banLost' = IF banMove.step = "unban" /\ s \in banMove.who
                  THEN banLost \union {s} ELSE banLost
    /\ UNCHANGED <<banKind, banNow, banTable, banSwept, banHot, banMove, banSave, banHits,
                   banUnearned>>

\* The settings are read, changed and, in a later Update, put back whole.
BanSaveBegins ==
    /\ banKind = "services" /\ BanAsksMore /\ BanAsked /\ banSave.step = "idle"
    /\ banSave' = [step |-> "update", conf |-> banConf]
    /\ UNCHANGED <<banKind, banNow, banTable, banSwept, banHot, banConf, banMove, banHits,
                   banDue, banUnearned, banLost>>

BanSaveUpdates ==
    /\ banSave.step = "update" /\ banSave' = BanIdle
    /\ banConf' = banSave.conf
    /\ banLost' = (banLost \union (banConf.deny \ banSave.conf.deny)) \ banSave.conf.deny
    /\ banDue' = [s \in BanSources |-> IF s \in banSave.conf.deny THEN BanForever ELSE banDue[s]]
    /\ UNCHANGED <<banKind, banNow, banTable, banSwept, banHot, banMove, banCount, banHits,
                   banUnearned>>

-----------------------------------------------------------------------------
BanInit ==
    /\ banKind = "none" /\ banNow = 0 /\ banSwept = 0 /\ banHot = -1
    /\ banTable = [s \in BanSources |-> BanFree]
    /\ banConf = [deny |-> {}, allow |-> {}, mode |-> "all"]
    /\ banMove = BanIdle /\ banSave = BanIdle
    /\ banCount = [hits |-> 0, asks |-> 0]
    /\ banHits = [s \in BanSources |-> BanNoHits]
    /\ banDue = [s \in BanSources |-> -1]
    /\ banUnearned = {} /\ banLost = {}

BanNext ==
    \/ \E k \in BanKinds : BanStart(k, "all")
    \/ BanStart("panel", "lan")
    \/ \E s \in BanSources : BanArrives(s) \/ BanStrike(s)
    \/ BanTimePasses
    \/ \E out \in SUBSET BanSources : BanClear(out)
    \/ BanMoveBegins \/ BanMoveUpdates \/ BanMoveFails \/ BanMoveUnbans
    \/ \E s \in BanSources : \E list \in {"deny", "allow"} :
          BanListed(list, s) \/ BanUnlisted(list, s)
    \/ BanSaveBegins \/ BanSaveUpdates

BanSpec == BanInit /\ [][BanNext]_banVars

-----------------------------------------------------------------------------
\* Every variable of the tables has its type.
BanTypeOK ==
    /\ banKind \in BanKinds \union {"none"} /\ banNow \in 0..BanHorizon
    /\ \A s \in BanSources : banTable[s].until \in -1..(BanHorizon + BanFor)
    /\ Cardinality(BanTaken(banTable)) <= BanCap
    /\ banSwept \in 0..BanHorizon /\ banHot \in -1..(BanHorizon + BanFor)
    /\ banConf.deny \subseteq BanSources /\ banConf.allow \subseteq BanSources
    /\ banUnearned \subseteq BanSources /\ banLost \subseteq BanSources

\* Whom a ban or the deny list keeps out is kept out until the ban ends or
\* somebody releases it: however full the table, whenever it is swept, and
\* at every step of a move from the bans to the deny list.  (Excepted is what a
\* request that overlaps takes off the list again: banLost.)
BanKeepsOut ==
    \A s \in BanSources :
        /\ banNow < banDue[s] /\ s \notin banLost
        /\ s \in banConf.deny \/ s \notin BanExempt \union banConf.allow
        => BanVerdict(s) # "pass"

\* Nobody is banned without the strikes in the time that earns a ban.
BanIsEarned == banUnearned = {}

\* Nobody who is not banned gets away with more strikes, in any stretch of
\* time as long as a window, than two windows take that end without a ban:
\* although windows start over, bans end and entries are dropped.
BanIsGiven ==
    \A s \in BanSources :
        BanSince(banHits[s], Max({banNow - BanWindow + 1, banTable[s].until})) <= 2 * (BanLimit - 1)

BansHold == BanKeepsOut /\ BanIsEarned /\ BanIsGiven
=============================================================================
