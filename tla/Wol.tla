--------------------------------- MODULE Wol ---------------------------------
(***************************************************************************)
(* Wake on LAN (internal/modules/wol/wol.go): the schedule of a device     *)
(* across days, suspensions and reloads; and a wake by hand with the       *)
(* panel's limit (internal/server/wakelimit.go) and the cached list of     *)
(* network interfaces.                                                     *)
(*                                                                         *)
(* An instant is a number; days begin at WolStart.  A timer counts the     *)
(* time the machine runs: a suspension moves the clock and not the timers. *)
(***************************************************************************)
EXTENDS Integers, FiniteSets, FiniteSetsExt, Functions

CONSTANTS
    WolDayLength, WolDays,  \* clock readings of a day; bound: days looked at
    WolMissing,             \* <<day, reading>> that daylight saving leaves out
    WolSchedules,           \* schedules a device may have
    WolMaxGens,             \* bound: schedules started
    WolMaxTroubles,         \* bound: suspensions and slow wakes
    WolNics, WolPrivate,    \* interfaces, and those "auto" may use
    WolDevices,             \* devices woken by hand: the interface they name
    WolTtl,                 \* targetCacheTTL
    WolBurst, WolIdleTtl,   \* wakeBurst; wakeIdleTTL, in refill intervals
    WolHorizon              \* bound: end of the second clock

ASSUME WolAssumption ==
    /\ {WolDayLength, WolDays, WolBurst} \subseteq Nat \ {0}
    /\ {WolMaxGens, WolMaxTroubles, WolTtl, WolIdleTtl, WolHorizon} \subseteq Nat
    /\ WolMissing \subseteq (0..WolDays) \X (1..WolDayLength - 2)
    /\ WolSchedules \subseteq [on : BOOLEAN, from : 0..WolDayLength - 1, to : 0..WolDayLength - 1,
                              every : Nat \ {0}]
    /\ WolPrivate \subseteq WolNics /\ WolDevices \subseteq WolNics \union {"auto"}

VARIABLES
    wolNow, wolTroubles,   \* the clock; spans the machine did not work through
    wolConf,               \* the schedule of the configuration
    wolLive,               \* the generation runs this schedule ("off": none runs)
    wolCancelled,          \* its context is cancelled, or there is none
    wolClosed, wolLife,    \* Module.closed; who holds lifeMu
    wolGen, wolSince,      \* number and start of the generation
    wolLoop,               \* runSchedule
    wolSent,               \* ticks fired: generation, tick, and when
    wolClock, wolUp,       \* second clock; interfaces that are up
    wolCache,              \* targetCache
    wolBucket, wolLastGC,  \* the limiter: tokens and last use
    wolGrants,             \* wakes allowed, per device and instant
    wolAnswer              \* the last wake by hand

wolVars == <<wolNow, wolTroubles, wolConf, wolLive, wolCancelled, wolClosed,
             wolLife, wolGen, wolSince, wolLoop, wolSent>>
wolHandVars == <<wolClock, wolUp, wolCache, wolBucket, wolLastGC, wolGrants, wolAnswer>>

WolOff == [on |-> FALSE, from |-> 0, to |-> 0, every |-> 1]

-----------------------------------------------------------------------------
(* The plan of a day.                                                       *)

WolClocks(d) == {h \in 0..WolDayLength - 1 : <<d, h>> \notin WolMissing}
WolReadings == [d \in 0..WolDays |-> Cardinality(WolClocks(d))]
WolStart == [d \in 0..WolDays + 1 |-> SumFunctionOnSet(WolReadings, 0..d - 1)]
WolDayOf(t) == CHOOSE d \in 0..WolDays : WolStart[d] <= t /\ t < WolStart[d + 1]
\* atClock: a reading the day leaves out is the first one it has after it.
WolAt(d, h) == WolStart[d] + Cardinality({x \in WolClocks(d) : x < h})

\* planForDay: an end that is not after the start leaves one tick.
WolPlan(s, d) ==
    LET from == WolAt(d, s.from) to == WolAt(d, s.to) IN
    [from |-> from, to |-> IF to > from THEN to ELSE from, every |-> s.every]

WolTicks(p) == {t \in p.from..p.to : (t - p.from) % p.every = 0}
WolCeil(a, b) == (a + b - 1) \div b
\* firstTickAfter.
WolFirstTick(p, t) ==
    IF p.from >= t THEN p.from ELSE p.from + p.every * WolCeil(t - p.from, p.every)

-----------------------------------------------------------------------------
(* runSchedule and runPlanDay.                                              *)

WolNone == [pc |-> "none", left |-> 0, at |-> 0, plan |-> WolPlan(WolOff, 0)]
WolRest == UNCHANGED <<wolTroubles, wolConf, wolLive, wolClosed, wolLife, wolGen,
                       wolSince, wolCancelled>>
WolLoopAt(pc) == wolLoop.pc = pc

\* The plan of today; the tolerance of one interval is the loop's own.
WolDay ==
    /\ WolLoopAt("day")
    /\ LET p == WolPlan(wolLive, WolDayOf(wolNow)) IN
       wolLoop' = [wolLoop EXCEPT !.pc = "plan", !.plan = p,
                                  !.at = WolFirstTick(p, wolNow - p.every)]
    /\ WolRest /\ UNCHANGED <<wolNow, wolSent>>

\* Too late by more than an interval: go on with the first tick ahead.
WolRealigned == WolFirstTick([wolLoop.plan EXCEPT !.from = wolLoop.at], wolNow)

\* Mutant of WolTomorrow: the midnight after the day the plan was for.
WolTomorrowOfPlan == WolStart[WolDayOf(wolLoop.plan.from) + 1]

WolTomorrow == WolStart[WolDayOf(wolNow) + 1]

\* Mutant of WolLate: ticks that were slept through are caught up.
WolLateNever == FALSE

WolLate == wolLoop.at - wolNow < -wolLoop.plan.every

WolTick ==
    /\ WolLoopAt("plan")
    /\ LET wait == wolLoop.at - wolNow IN
       wolLoop' = IF wolLoop.at > wolLoop.plan.to
                  THEN [wolLoop EXCEPT !.pc = "sleep", !.left = WolTomorrow - wolNow]
                  ELSE IF wolCancelled THEN WolNone
                  ELSE IF WolLate THEN [wolLoop EXCEPT !.at = WolRealigned]
                  ELSE IF wait > 0 THEN [wolLoop EXCEPT !.pc = "wait", !.left = wait]
                  ELSE [wolLoop EXCEPT !.pc = "fire"]
    /\ WolRest /\ UNCHANGED <<wolNow, wolSent>>
\* A select sees the cancellation or the timer.
WolWoken ==
    /\ wolLoop.pc \in {"wait", "sleep"}
    /\ \/ wolCancelled /\ wolLoop' = WolNone
       \/ /\ wolLoop.left <= 0
          /\ wolLoop' = [wolLoop EXCEPT !.pc = IF @ = "wait" THEN "fire" ELSE "day"]
    /\ WolRest /\ UNCHANGED <<wolNow, wolSent>>
\* fireScheduled: the packets of one tick.
WolFire ==
    /\ WolLoopAt("fire")
    /\ wolSent' = wolSent \union {[tick |-> wolLoop.at, when |-> wolNow]}
    /\ wolLoop' = [wolLoop EXCEPT !.pc = "plan", !.at = @ + wolLoop.plan.every]
    /\ WolRest /\ UNCHANGED wolNow

\* Time passes while the goroutine waits; a suspension, or a slow wake, moves
\* the clock alone.
WolPass ==
    /\ wolNow + 1 < WolStart[WolDays]
    /\ WolLoopAt("none") \/ (wolLoop.pc \in {"wait", "sleep"} /\ wolLoop.left > 0)
    /\ wolNow' = wolNow + 1
    /\ wolLoop' = [wolLoop EXCEPT !.left = IF @ > 0 THEN @ - 1 ELSE 0]
    /\ WolRest /\ UNCHANGED wolSent
WolSuspend(k) ==
    /\ Cardinality(wolTroubles) < WolMaxTroubles
    /\ wolNow + k < WolStart[WolDays]
    /\ wolNow' = wolNow + k
    /\ wolTroubles' = wolTroubles \union {[from |-> wolNow, to |-> wolNow + k]}
    /\ UNCHANGED <<wolConf, wolLive, wolCancelled, wolClosed, wolLife, wolGen, wolSince,
                   wolLoop, wolSent>>

-----------------------------------------------------------------------------
(* Reload and Close, one at a time under lifeMu.                            *)

WolGoOn == UNCHANGED <<wolNow, wolTroubles, wolLoop, wolSent>>
\* The same schedule leaves the running generation alone.
WolReloadBegins(s) ==
    /\ wolLife = "free" /\ wolGen < WolMaxGens
    /\ wolConf' = s
    /\ IF ~wolClosed /\ ~wolCancelled /\ s = wolLive
       THEN UNCHANGED <<wolLive, wolCancelled, wolLife>>
       ELSE wolLive' = WolOff /\ wolCancelled' = TRUE /\ wolLife' = "reload"
    /\ WolGoOn /\ UNCHANGED <<wolClosed, wolGen, wolSince>>

\* Mutant of WolGone: the old goroutine is not waited for.
WolGoneUnwaited == TRUE

\* wg.Wait: the goroutine has ended.
WolGone == WolLoopAt("none")

WolReloadEnds ==
    /\ wolLife = "reload" /\ WolGone
    /\ wolLife' = "free"
    /\ IF wolClosed
       THEN UNCHANGED <<wolLive, wolCancelled, wolGen, wolSince, wolLoop, wolSent>>
       ELSE /\ wolLive' = wolConf /\ wolCancelled' = FALSE
            /\ wolGen' = wolGen + 1 /\ wolSince' = wolNow /\ wolSent' = {}
            /\ wolLoop' = IF wolConf.on THEN [WolNone EXCEPT !.pc = "day"] ELSE wolLoop
    /\ UNCHANGED <<wolNow, wolTroubles, wolConf, wolClosed>>
WolCloseBegins ==
    /\ wolLife = "free" /\ ~wolClosed
    /\ wolClosed' = TRUE /\ wolLive' = WolOff /\ wolCancelled' = TRUE
    /\ wolLife' = "close"
    /\ WolGoOn /\ UNCHANGED <<wolConf, wolGen, wolSince>>
WolCloseReturns ==
    /\ wolLife = "close" /\ WolGone
    /\ wolLife' = "free"
    /\ WolGoOn /\ UNCHANGED <<wolConf, wolLive, wolCancelled, wolClosed, wolGen, wolSince>>

WolInit ==
    /\ wolNow = 0 /\ wolTroubles = {} /\ wolConf = WolOff /\ wolLive = WolOff
    /\ wolCancelled = TRUE /\ wolClosed = FALSE /\ wolLife = "free"
    /\ wolGen = 0 /\ wolSince = 0 /\ wolLoop = WolNone /\ wolSent = {}
WolNext ==
    \/ WolDay \/ WolTick \/ WolWoken \/ WolFire \/ WolPass
    \/ \E k \in 1..WolDayLength : WolSuspend(k)
    \/ \E s \in WolSchedules : WolReloadBegins(s)
    \/ WolReloadEnds \/ WolCloseBegins \/ WolCloseReturns

-----------------------------------------------------------------------------
(* A wake by hand.                                                          *)

\* selectTargets, for a device that names an interface or leaves it open.
WolSelect(all, d) == IF d = "auto" THEN all \cap WolPrivate ELSE all \cap {d}
\* cachedBroadcastTargets; a list that is empty is not kept.
WolFresh(c) == c.list # {} /\ wolClock - c.at < WolTtl
WolListed(c) == IF WolFresh(c) THEN c ELSE [list |-> wolUp, at |-> wolClock]
WolNoCache == [list |-> {}, at |-> 0]

\* Mutant of WolAsked: what the cache says is taken for the whole truth.
WolAskedOnce(d) == WolListed(wolCache)

\* autoTargets and srcForIface: nothing found is looked up once more afresh.
WolAsked(d) ==
    LET first == WolListed(wolCache) IN
    IF WolSelect(first.list, d) # {} THEN first ELSE WolListed(WolNoCache)
\* Wake: packets leave by the interfaces that still exist; none left empties
\* the cache.
WolWake(d) ==
    LET asked == WolAsked(d)
        ok == WolSelect(asked.list, d) \cap wolUp # {} IN
    /\ wolCache' = IF ok \/ WolSelect(asked.list, d) = {} THEN asked ELSE WolNoCache
    /\ wolAnswer' = [of |-> d, ok |-> ok, up |-> wolUp]

WolMin(a, b) == IF a < b THEN a ELSE b
WolFilled(b) == WolMin(WolBurst, b.tokens + (wolClock - b.last))
\* allow: the tokens of the device now; a device not in the table has all.
WolTokens(d) == IF wolBucket[d].last < 0 THEN WolBurst ELSE WolFilled(wolBucket[d])

\* Mutant of WolForgets: whatever is idle is forgotten.
WolForgetsIdle(b) == wolClock - b.last > WolIdleTtl

\* gcLocked forgets an idle device whose tokens are all back.
WolForgets(b) ==
    /\ wolClock - b.last > WolIdleTtl
    /\ b.tokens + (wolClock - b.last) >= WolBurst

WolSwept(bs) ==
    IF wolClock - wolLastGC < 1 THEN bs
    ELSE [d \in WolDevices |-> IF bs[d].last >= 0 /\ WolForgets(bs[d])
                               THEN [tokens |-> 0, last |-> -1] ELSE bs[d]]
\* handleWakeDevice.
WolByHand(d) ==
    LET granted == WolTokens(d) >= 1
        rest == IF granted THEN WolTokens(d) - 1 ELSE WolTokens(d) IN
    /\ wolBucket' = WolSwept([wolBucket EXCEPT ![d] = [tokens |-> rest, last |-> wolClock]])
    /\ wolLastGC' = IF wolClock - wolLastGC < 1 THEN wolLastGC ELSE wolClock
    /\ IF granted THEN /\ WolWake(d)
                       /\ wolGrants' = [wolGrants EXCEPT ![d][wolClock] = @ + 1]
       ELSE UNCHANGED <<wolCache, wolAnswer, wolGrants>>
    /\ UNCHANGED <<wolClock, wolUp>>
WolHandPass ==
    /\ wolClock < WolHorizon /\ wolClock' = wolClock + 1
    /\ UNCHANGED <<wolUp, wolCache, wolBucket, wolLastGC, wolGrants, wolAnswer>>
WolNicChange(n) ==
    /\ wolUp' = IF n \in wolUp THEN wolUp \ {n} ELSE wolUp \union {n}
    /\ UNCHANGED <<wolClock, wolCache, wolBucket, wolLastGC, wolGrants, wolAnswer>>

WolHandInit ==
    /\ wolClock = 0 /\ wolUp = WolNics /\ wolCache = WolNoCache
    /\ wolBucket = [d \in WolDevices |-> [tokens |-> 0, last |-> -1]]
    /\ wolLastGC = 0
    /\ wolGrants = [d \in WolDevices |-> [t \in 0..WolHorizon |-> 0]]
    /\ wolAnswer = [of |-> "auto", ok |-> TRUE, up |-> WolNics]
WolHandNext ==
    \/ \E d \in WolDevices : WolByHand(d)
    \/ WolHandPass \/ \E n \in WolNics : WolNicChange(n)

WolSpec == WolInit /\ WolHandInit
           /\ [][\/ WolNext /\ UNCHANGED wolHandVars
                 \/ WolHandNext /\ UNCHANGED wolVars]_<<wolVars, wolHandVars>>

-----------------------------------------------------------------------------
WolSpan == 0..WolStart[WolDays + 1]
WolTypeOK ==
    /\ wolNow \in WolSpan /\ wolTroubles \subseteq [from : WolSpan, to : WolSpan]
    /\ {wolConf, wolLive} \subseteq WolSchedules \union {WolOff}
    /\ {wolCancelled, wolClosed} \subseteq BOOLEAN
    /\ wolLife \in {"free", "reload", "close"}
    /\ wolGen \in 0..WolMaxGens /\ wolSince \in WolSpan
    /\ wolLoop \in [pc : {"none", "day", "plan", "wait", "fire", "sleep"},
                    left : 0..2 * WolDayLength, at : Nat,
                    plan : [from : WolSpan, to : WolSpan, every : Nat \ {0}]]
    /\ wolSent \subseteq [tick : WolSpan, when : WolSpan]
    /\ wolClock \in 0..WolHorizon /\ wolUp \subseteq WolNics
    /\ wolCache \in [list : SUBSET WolNics, at : 0..WolHorizon]
    /\ wolBucket \in [WolDevices -> [tokens : 0..WolBurst, last : -1..WolHorizon]]
    /\ wolLastGC \in 0..WolHorizon
    /\ wolGrants \in [WolDevices -> [0..WolHorizon -> Nat]]
    /\ wolAnswer \in [of : WolDevices \union {"auto"}, ok : BOOLEAN, up : SUBSET WolNics]

\* A suspension costs at most ticks of the days that begin before it is over for
\* as long as a day is: what is left of a sleep until midnight. (After a day that
\* daylight saving makes shorter that may be one day more.)
WolExcused(t) == \E s \in wolTroubles :
    s.from <= t /\ WolStart[WolDayOf(t)] <= s.to + WolDayLength

\* A tick that came while the schedule ran was fired, or is excused.
WolTicksServed ==
    wolLoop.pc \in {"wait", "sleep"} /\ ~wolCancelled =>
        \A d \in 0..WolDays - 1 : \A t \in WolTicks(WolPlan(wolLive, d)) :
            wolSince <= t /\ t < wolNow =>
                \/ \E s \in wolSent : s.tick = t
                \/ WolExcused(t)

\* How long suspensions lasted, together.
WolSuspended(troubles) == SumFunction([s \in troubles |-> s.to - s.from])

\* No schedule fires a tick twice, or before its time, or late for no reason:
\* a new one takes ticks of at most one interval before it began.
WolTicksTimely ==
    \A s \in wolSent :
        /\ s.when >= s.tick
        /\ \A o \in wolSent : o.tick = s.tick => o = s
        /\ s.when > s.tick /\ wolLive.on =>
               \/ s.when - s.tick <= WolSuspended(wolTroubles)
               \/ s.tick < wolSince /\ wolSince <= s.tick + wolLive.every

\* Ticks slept through are not caught up: a suspension lets one tick be late by
\* more than an interval, the one whose timer it held up.
WolNoCatchUp == wolLive.on =>
    Cardinality({s \in wolSent : s.when > s.tick + wolLive.every})
        <= Cardinality(wolTroubles)

\* Once Close has returned nothing is fired any more, and Status says so.
WolClosedIsQuiet == wolClosed /\ wolLife = "free" => WolLoopAt("none") /\ wolLive = WolOff

\* What runs is what the configuration says.
WolRunsConf == wolLife = "free" /\ ~wolClosed /\ wolGen > 0 =>
    wolLive = wolConf /\ (WolLoopAt("none") <=> ~wolConf.on)

\* In any span a device is woken by hand at most a burst and one per refill.
WolLimited == \A d \in WolDevices : \A a, b \in 0..WolHorizon : a <= b =>
    SumFunctionOnSet(wolGrants[d], a..b) <= WolBurst + (b - a)

\* A wake that fails though its interface was up leaves no stale list behind.
WolStaleOnce == ~wolAnswer.ok /\ WolSelect(wolAnswer.up, wolAnswer.of) # {} =>
    wolCache = WolNoCache

(* Wakes come when they are due, and only then.                            *)
WakesAreServed == WolTicksServed /\ WolTicksTimely /\ WolNoCatchUp
                  /\ WolClosedIsQuiet /\ WolRunsConf /\ WolLimited /\ WolStaleOnce
=============================================================================
