----------------------------- MODULE SiteRequests -----------------------------
(***************************************************************************)
(* The requests of one web service (internal/modules/webservice): the way of *)
(* a request through the routes of its port, the source filter, the rate     *)
(* limit and the password of the site to one of its backends, and how it     *)
(* ends.                                                                     *)
(*                                                                         *)
(* A password is verified once for all the requests that carry it: the first *)
(* computes, the others wait and look again.  Verdicts are kept for a time   *)
(* in a table that is swept when it grows over its size; computing takes     *)
(* from a budget, and may panic.                                             *)
(***************************************************************************)
EXTENDS Integers, FiniteSets, Sequences, FiniteSetsExt, Functions

CONSTANTS
    SteRequests,  \* the requests
    SteGood,      \* the credential the site has
    SteBad,       \* other credentials
    SteCap,       \* verdicts the table keeps (basicAuthMaxEntries)
    SteBudget,    \* passwords computed per unit of time (basicAuthComputeRPS)
    SteGoodFor,   \* how long a verdict is kept: accepted (basicAuthOKTTL)
    SteBadFor,    \* and refused (basicAuthFailTTL)
    SteWeights,   \* the weights of the backends
    SteWrap,      \* the counter of the backends wraps here (2^32)
    SteHorizon,   \* bound: the clock
    SteMaxPanics  \* bound: computations that panic

ASSUME SteAssumption ==
    /\ SteGood \notin SteBad
    /\ {SteCap, SteBudget, SteGoodFor, SteBadFor, SteWrap} \subseteq Nat \ {0}
    /\ SteWeights \in Seq(Nat \ {0}) /\ SteWeights # <<>>
    /\ IsFiniteSet(SteRequests)
    /\ {SteHorizon, SteMaxPanics} \subseteq Nat

VARIABLES
    steAt,      \* where a request is, and what it carries
    steTable,   \* verdict of a credential: none, pending (who computes), kept
    steTokens,  \* what is left of the budget
    steClock,
    stePanics,  \* bound: panics so far
    steIndex,   \* the counter of the backends
    steActive,  \* requests the site counts as being served
    steSince,   \* requests each backend got since the counter last wrapped
    steKnown    \* until when the site's credential counts as verified

steVars == <<steAt, steTable, steTokens, steClock, stePanics, steIndex, steActive,
             steSince, steKnown>>

SteKeys == SteBad \union {SteGood}
SteNone == [is |-> "none"]
SteNobody == 0
SteFresh == [at |-> "new", key |-> SteGood, awaits |-> SteNobody, out |-> "open"]
SteGo(r, at) == steAt' = [steAt EXCEPT ![r].at = at]
SteEnds(r, out) == steAt' = [steAt EXCEPT ![r].at = "ends", ![r].out = out]

-----------------------------------------------------------------------------
(* On the way to the site.                                                  *)

\* A host the port does not know is answered (404) at once, by no site.
SteUnknownHost(r) ==
    /\ steAt[r].at = "new"
    /\ steAt' = [steAt EXCEPT ![r].at = "done"]
    /\ UNCHANGED <<steTable, steTokens, steClock, stePanics, steIndex, steActive,
                   steSince, steKnown>>

\* instrument, then the filter (403), the rate limit (429) and the credential: none
\* at all is refused (401) without a look at the table.
SteArrives(r) ==
    /\ steAt[r].at = "new" /\ steActive' = steActive + 1
    /\ \/ SteEnds(r, "refused")
       \/ \E key \in SteKeys :
              steAt' = [steAt EXCEPT ![r].at = "looks", ![r].key = key]
    /\ UNCHANGED <<steTable, steTokens, steClock, stePanics, steIndex, steSince, steKnown>>

-----------------------------------------------------------------------------
(* basicAuthCache.verify.                                                   *)

SteVerdict(r, ok) ==
    IF ok THEN SteGo(r, "proxies") ELSE SteEnds(r, "wrong")

SteKept(key) == steTable[key].is = "kept" /\ steClock < steTable[key].until

SteHits(r) ==
    /\ steAt[r].at = "looks" /\ SteKept(steAt[r].key)
    /\ SteVerdict(r, steTable[steAt[r].key].ok)
    /\ UNCHANGED <<steTable, steTokens, steClock, stePanics, steIndex, steActive,
                   steSince, steKnown>>

SteWaits(r) ==
    /\ steAt[r].at = "looks" /\ steTable[steAt[r].key].is = "pending"
    /\ steAt' = [steAt EXCEPT ![r].at = "waits", ![r].awaits = steTable[steAt[r].key].by]
    /\ UNCHANGED <<steTable, steTokens, steClock, stePanics, steIndex, steActive,
                   steSince, steKnown>>

\* Asked for while the table is held; no budget, no computation.
SteStarts(r) ==
    LET key == steAt[r].key IN
    /\ steAt[r].at = "looks" /\ steTable[key].is # "pending" /\ ~SteKept(key)
    /\ IF steTokens = 0
       THEN SteEnds(r, "refused") /\ UNCHANGED <<steTable, steTokens>>
       ELSE /\ steTokens' = steTokens - 1 /\ SteGo(r, "computes")
            /\ steTable' = [steTable EXCEPT ![key] = [is |-> "pending", by |-> r]]
    /\ UNCHANGED <<steClock, stePanics, steIndex, steActive, steSince, steKnown>>

\* The one waited for is through: its channel is closed.
SteClosed(r) == steAt[r].at # "computes"

SteWakes(r) ==
    /\ steAt[r].at = "waits" /\ SteClosed(steAt[r].awaits)
    /\ SteGo(r, "looks")
    /\ UNCHANGED <<steTable, steTokens, steClock, stePanics, steIndex, steActive,
                   steSince, steKnown>>

SteEntries(t) == {k \in SteKeys : t[k].is # "none"}
SteWithout(t, gone) == [k \in SteKeys |-> IF k \in gone THEN SteNone ELSE t[k]]

\* Mutant of SteDropped: computations that go on are dropped as well.
SteDroppedAny(t) == {k \in SteEntries(t) : t[k].is = "kept" => ~t[k].ok}

\* Of the verdicts still valid only the refusals go.
SteDropped(t) == {k \in SteEntries(t) : t[k].is = "kept" /\ ~t[k].ok}

\* sweepLocked.
SteSwept(t) ==
    LET valid == SteWithout(t, {k \in SteEntries(t) : t[k].is = "kept" /\ steClock > t[k].until}) IN
    CASE Cardinality(SteEntries(t)) <= SteCap -> t
      [] Cardinality(SteEntries(valid)) <= SteCap -> valid
      [] OTHER -> SteWithout(valid, SteDropped(valid))

SteComputes(r) ==
    LET key == steAt[r].key
        ok == key = SteGood
        until == steClock + (IF ok THEN SteGoodFor ELSE SteBadFor) IN
    /\ steAt[r].at = "computes"
    /\ steTable' = SteSwept([steTable EXCEPT ![key] = [is |-> "kept", ok |-> ok, until |-> until]])
    /\ SteVerdict(r, ok)
    /\ steKnown' = IF ok THEN until ELSE steKnown
    /\ UNCHANGED <<steTokens, steClock, stePanics, steIndex, steActive, steSince>>

\* Mutant of StePanicClears: only the channel is closed.
StePanicClearsNot(key, r) == steTable

\* The entry goes with its channel, if it is still the one of this request.
StePanicClears(key, r) ==
    IF steTable[key].is = "pending" /\ steTable[key].by = r
    THEN [steTable EXCEPT ![key] = SteNone] ELSE steTable

StePanics(r) ==
    /\ steAt[r].at = "computes" /\ stePanics < SteMaxPanics
    /\ stePanics' = stePanics + 1
    /\ steTable' = StePanicClears(steAt[r].key, r)
    /\ SteEnds(r, "failed")
    /\ UNCHANGED <<steTokens, steClock, steIndex, steActive, steSince, steKnown>>

-----------------------------------------------------------------------------
(* proxyHandler.                                                            *)

\* Where the places of a backend end in the ring.
SteEnd(b) == SumFunctionOnSet(SteWeights, 1..b)
SteLength == SteEnd(Len(SteWeights))

\* Every backend as often as its weight says, one after the other.
SteRing == [i \in 1..SteLength |->
              CHOOSE b \in DOMAIN SteWeights : SteEnd(b - 1) < i /\ i <= SteEnd(b)]

\* Mutant of StePick: the place in the ring is counted from one.
StePickLate(index) == SteRing[Min({(index % SteLength) + 2, SteLength})]

StePick(index) == SteRing[(index % SteLength) + 1]

SteProxies(r) ==
    /\ steAt[r].at = "proxies" /\ SteGo(r, "backend")
    /\ steIndex' = (steIndex + 1) % SteWrap
    /\ LET b == StePick(steIndex)
           got == IF steIndex = 0 THEN [i \in DOMAIN SteWeights |-> 0] ELSE steSince IN
       steSince' = [got EXCEPT ![b] = @ + 1]
    /\ UNCHANGED <<steTable, steTokens, steClock, stePanics, steActive, steKnown>>

\* The backend answers, does not (502), or the visitor has gone.
SteAnswered(r) ==
    /\ steAt[r].at = "backend"
    /\ \E out \in {"served", "failed", "gone"} : SteEnds(r, out)
    /\ UNCHANGED <<steTable, steTokens, steClock, stePanics, steIndex, steActive,
                   steSince, steKnown>>

\* The end of instrument; also after a panic.
SteLeaves(r) ==
    /\ steAt[r].at = "ends" /\ steAt' = [steAt EXCEPT ![r] = [SteFresh EXCEPT !.at = "done"]]
    /\ steActive' = steActive - 1
    /\ UNCHANGED <<steTable, steTokens, steClock, stePanics, steIndex, steSince, steKnown>>

\* The budget is a bucket that is full again after one unit of time.
SteTimePasses ==
    /\ steClock < SteHorizon /\ steClock' = steClock + 1 /\ steTokens' = SteBudget
    /\ UNCHANGED <<steAt, steTable, stePanics, steIndex, steActive, steSince, steKnown>>

SteInit ==
    /\ steAt = [r \in SteRequests |-> SteFresh]
    /\ steTable = [k \in SteKeys |-> SteNone] /\ steTokens = SteBudget
    /\ steClock = 0 /\ stePanics = 0 /\ steIndex = 0 /\ steActive = 0
    /\ steSince = [b \in DOMAIN SteWeights |-> 0] /\ steKnown = 0

SteNext ==
    \/ \E r \in SteRequests :
          \/ SteUnknownHost(r) \/ SteArrives(r) \/ SteHits(r) \/ SteWaits(r) \/ SteStarts(r)
          \/ SteWakes(r) \/ SteComputes(r) \/ StePanics(r) \/ SteProxies(r) \/ SteAnswered(r)
          \/ SteLeaves(r)
    \/ SteTimePasses
SteSpec == SteInit /\ [][SteNext]_steVars

-----------------------------------------------------------------------------
SteTypeOK ==
    /\ \A r \in SteRequests :
          /\ steAt[r].at \in {"new", "looks", "waits", "computes", "proxies", "backend",
                              "ends", "done"}
          /\ steAt[r].key \in SteKeys /\ steAt[r].awaits \in SteRequests \union {SteNobody}
          /\ steAt[r].out \in {"open", "refused", "wrong", "served", "failed", "gone"}
    /\ \A k \in SteKeys : steTable[k].is \in {"none", "pending", "kept"}
    /\ steTokens \in 0..SteBudget /\ steIndex \in 0..(SteWrap - 1)
    /\ steActive = Cardinality({r \in SteRequests : steAt[r].at \notin {"new", "done"}})

\* A credential is being computed once, and as long as it is, the table says so:
\* whoever comes meanwhile waits for it.
SteOneComputes ==
    \A r \in SteRequests : steAt[r].at = "computes" =>
        steTable[steAt[r].key] = [is |-> "pending", by |-> r]

\* Nobody waits for ever, or turns round and round at an entry whose channel is
\* closed: who is entered as computing does compute.
SteNobodyIsStuck ==
    \A k \in SteKeys : steTable[k].is = "pending" =>
        steAt[steTable[k].by].at = "computes" /\ steAt[steTable[k].by].key = k

\* The verdict on the site's own credential is kept for its time, however many
\* others are tried: its requests cost no computation until then.
SteGoodIsKept ==
    steClock < steKnown => SteKept(SteGood) /\ steTable[SteGood].ok

\* Who is let in has the site's credential, who is refused for it has not.
SteVerdictsAreTrue ==
    \A r \in SteRequests : /\ steAt[r].at \in {"proxies", "backend"} => steAt[r].key = SteGood
                           /\ steAt[r].out = "wrong" => steAt[r].key # SteGood

\* A backend gets its weight in every round of the ring.
SteSharesAreKept ==
    LET rounds == SumFunction(steSince) \div SteLength IN
    \A b \in DOMAIN SteWeights :
        steSince[b] \in (rounds * SteWeights[b])..((rounds + 1) * SteWeights[b])

(* What a visitor of a site relies on.                                      *)
VisitorsAreServed ==
    /\ SteOneComputes /\ SteNobodyIsStuck /\ SteGoodIsKept /\ SteVerdictsAreTrue
    /\ SteSharesAreKept
=============================================================================
