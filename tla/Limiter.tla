------------------------------- MODULE Limiter -------------------------------
(***************************************************************************)
(* The rate limiter that the panel, the sites and the webhooks use           *)
(* (internal/ipx: IPLimiter, Bucket): one table of token buckets for all      *)
(* sources, bounded, with a collection of the idle ones and an eviction when   *)
(* it is full; the limit of a source may change from call to call.            *)
(***************************************************************************)
EXTENDS Integers, FiniteSets, FiniteSetsExt, Functions

CONSTANTS
    LimSources,    \* scope and address of those who ask
    LimLimits,     \* limits per unit of time a caller may give
    LimMaxEntries, \* buckets the table holds (limiterMaxEntries)
    LimBatch,      \* buckets one eviction removes at most (limiterEvictBatch)
    LimIdle,       \* a bucket idle this long is collected (limiterIdle)
    LimHorizon,    \* bound: the clock
    LimMaxGiven    \* bound: grants that are counted

ASSUME LimAssumption ==
    /\ {LimMaxEntries, LimBatch, LimIdle} \subseteq Nat \ {0}
    /\ LimLimits \subseteq Nat \ {0} /\ LimLimits # {} /\ IsFiniteSet(LimLimits)
    /\ {LimHorizon, LimMaxGiven} \subseteq Nat

VARIABLES
    limTable,    \* the bucket of a source, or none
    limCollected,\* when the idle ones were last collected (lastGC)
    limClock,
    limGiven,    \* grants a source got: how many, since when, how many this moment
    limUnfair    \* sources evicted although they had asked last

limVars == <<limTable, limCollected, limClock, limGiven, limUnfair>>

LimNone == [tokens |-> -1, last |-> 0]
LimHas(t) == {s \in LimSources : t[s] # LimNone}
LimWithout(t, gone) == [s \in LimSources |-> IF s \in gone THEN LimNone ELSE t[s]]
LimIdleFor(b) == limClock - b.last

\* How long the sources a table has were idle, together.
LimIdleTotal(t) == SumFunctionOnSet([s \in LimSources |-> LimIdleFor(t[s])], LimHas(t))

LimCollectable(t) == {s \in LimHas(t) : LimIdleFor(t[s]) >= LimIdle}

\* gcLocked.
LimDue == limClock - limCollected >= LimIdle
LimSwept == IF LimDue THEN LimWithout(limTable, LimCollectable(limTable)) ELSE limTable

\* Mutant of LimEvictable: the busy ones go.
LimEvictableBusy(t) ==
    {s \in LimHas(t) : LimIdleFor(t[s]) * Cardinality(LimHas(t)) <= LimIdleTotal(t)}

\* At least as idle as the average of all (what the code rounds off is a nanosecond).
LimEvictable(t) ==
    {s \in LimHas(t) : LimIdleFor(t[s]) * Cardinality(LimHas(t)) >= LimIdleTotal(t)}

\* evictLocked: a batch of those, in no order.
LimEvictions(t) ==
    LET all == LimEvictable(t) IN
    kSubset(Min({LimBatch, Cardinality(all)}), all)

\* Mutant of LimFilled: what was not used is saved up.
LimFilledUp(b, limit) == b.tokens + LimIdleFor(b) * limit

\* Bucket.Allow: what elapsed at this limit, at most the limit, less one if there is one.
LimFilled(b, limit) == Min({b.tokens + LimIdleFor(b) * limit, limit})

\* The one asked for last, if there is only one.
LimNewest(t) == {s \in LimHas(t) : \A o \in LimHas(t) \ {s} : t[o].last < t[s].last}

LimAllow(s, limit) ==
    \E gone \in (IF s \in LimHas(LimSwept) \/ Cardinality(LimHas(LimSwept)) < LimMaxEntries
                 THEN {{}} ELSE LimEvictions(LimSwept)) :
      LET room == LimWithout(LimSwept, gone)
          b == IF s \in LimHas(room) THEN room[s] ELSE [tokens |-> limit, last |-> limClock]
          tokens == LimFilled(b, limit)
          granted == tokens >= 1
          given == [o \in LimSources |-> IF o \in gone THEN [n |-> 0, from |-> limClock, now |-> 0]
                                                     ELSE limGiven[o]] IN
      /\ limGiven[s].n < LimMaxGiven
      /\ limTable' = [room EXCEPT ![s] =
            [tokens |-> IF granted THEN tokens - 1 ELSE tokens, last |-> limClock]]
      /\ limGiven' = IF granted THEN [given EXCEPT ![s].n = @ + 1, ![s].now = @ + 1] ELSE given
      /\ limCollected' = IF LimDue THEN limClock ELSE limCollected
      /\ limUnfair' = limUnfair \union
           (IF Cardinality(LimHas(LimSwept)) > 1 THEN gone \intersect LimNewest(LimSwept) ELSE {})
      /\ UNCHANGED limClock

LimTimePasses ==
    /\ limClock < LimHorizon /\ limClock' = limClock + 1
    /\ limGiven' = [s \in LimSources |-> [limGiven[s] EXCEPT !.now = 0]]
    /\ UNCHANGED <<limTable, limCollected, limUnfair>>

LimInit ==
    /\ limTable = [s \in LimSources |-> LimNone] /\ limCollected = 0 /\ limClock = 0
    /\ limGiven = [s \in LimSources |-> [n |-> 0, from |-> 0, now |-> 0]] /\ limUnfair = {}

LimNext == (\E s \in LimSources, limit \in LimLimits : LimAllow(s, limit)) \/ LimTimePasses
LimSpec == LimInit /\ [][LimNext]_limVars

-----------------------------------------------------------------------------
LimTypeOK ==
    /\ \A s \in LimHas(limTable) : /\ limTable[s].tokens \in 0..Max(LimLimits)
                                   /\ limTable[s].last \in 0..limClock
    /\ limCollected \in 0..limClock /\ limClock \in 0..LimHorizon
    /\ \A s \in LimSources : limGiven[s].n \in 0..(LimMaxGiven + 1)
    /\ limUnfair \subseteq LimSources

\* The table holds no more than its bound, whoever comes.
LimIsBounded == Cardinality(LimHas(limTable)) <= LimMaxEntries

\* A source gets no more than its limit per unit of time, however its limit moves
\* and however often its bucket is collected, and saves nothing up; an eviction
\* gives it a new bucket.
LimAllowanceIsKept ==
    \A s \in LimSources :
        /\ limGiven[s].n <= Max(LimLimits) * (1 + limClock - limGiven[s].from)
        /\ limGiven[s].now <= Max(LimLimits)

\* The one that asked last, and so the one being held back, is never the one that
\* is evicted.
LimBusyStay == limUnfair = {}

(* What the callers of the limiter rely on.                                 *)
LimitsHold == LimIsBounded /\ LimAllowanceIsKept /\ LimBusyStay
=============================================================================
