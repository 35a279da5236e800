----------------------- MODULE RestartSchedulerProofs -----------------------
(***************************************************************************)
(* What RestartScheduler promises, for every clock, every set of plans and *)
(* every number of saves, jumps, crashes and failures.  IInv is the        *)
(* inductive invariant: where a trigger point is between the tick that     *)
(* fires it and the new process, how far the anchor is, and, while the     *)
(* clock has not jumped, that it passed over nothing.                      *)
(***************************************************************************)
EXTENDS RestartScheduler, FiniteSetTheorems, WellFoundedInduction, TLAPS

\* The point of what the scheduler fires, records or asked for is a moment.
PointInv ==
    /\ spc # "idle" => point \in Times
    /\ execCh.who = "scheduler" => execCh.at \in Times
    /\ tearing.who = "scheduler" => tearing.at \in Times

\* How often point p is on its way: recorded, requested, being served.
OnItsWay(p) ==
    (IF spc = "fire" /\ point = p THEN 1 ELSE 0)
    + (IF execCh.who = "scheduler" /\ execCh.at = p THEN 1 ELSE 0)
    + (IF tearing.who = "scheduler" /\ tearing.at = p THEN 1 ELSE 0)

\* A point was executed or is on its way once, and not before its record.
OnceInv ==
    \A p \in Times : /\ runs[p] + OnItsWay(p) <= 1
                     /\ p > lastRun => runs[p] + OnItsWay(p) = 0

\* The anchor of a scheduler that is on is behind no record, and a point to be
\* recorded is after the last one.
AnchorInv ==
    /\ fp.on => lastRun <= anchor
    /\ spc = "record" => fp.on /\ point = anchor /\ lastRun < point

\* The anchor is at the settings' adoption at least, and at their save once the
\* scheduler has them; a save it has not seen is not in the future.
SinceInv ==
    /\ fp.on => adopted <= anchor
    /\ policy # fp => since <= now
    /\ policy = fp /\ fp.on => since <= anchor

\* While the clock does not jump nothing is ahead of it, and the last tick is not
\* long ago.
ClockInv ==
    /\ jumps \in Nat
    /\ jumps = 0 => /\ lastRun <= now /\ anchor <= now /\ adopted <= now
                    /\ ticked <= now /\ now - ticked <= Lag
                    /\ spc # "idle" => point <= now

\* While the clock does not jump, the points up to the anchor were tried, or are
\* about to be, and those after it are after the last tick.
ServedInv ==
    jumps = 0 /\ fp.on =>
        \A p \in fp.plan :
            /\ adopted < p /\ p <= anchor =>
                   p \in tried \/ (spc = "record" /\ p = point)
            /\ anchor < p => ticked < p

IInv == /\ TypeOK /\ PointInv /\ OnceInv /\ AnchorInv /\ SinceInv
        /\ ClockInv /\ ServedInv

-----------------------------------------------------------------------------
(* The bounds of sets of moments. *)

\* A set of numbers that is not empty has a least member, and Min is it.
LEMMA MinLemma ==
    ASSUME NEW S, S \subseteq Nat, S # {}
    PROVE  Min(S) \in S /\ \A x \in S : Min(S) <= x
<1> DEFINE R == OpToRel(<, Nat)
<1>1. IsWellFoundedOn(R, Nat)
  BY NatLessThanWellFounded
<1>2. \E x \in S : \A y \in S : ~ (<<y, x>> \in R)
  <2> HIDE DEF R
  <2> QED BY <1>1, WFMin
<1>3. \A x, y \in Nat : <<y, x>> \in R <=> y < x
  BY DEF OpToRel
<1> HIDE DEF R
<1>4. PICK x \in S : \A y \in S : ~ (<<y, x>> \in R)
  BY <1>2
<1>5. \A y \in S : x <= y
  <2>1. TAKE y \in S
  <2>2. x \in Nat /\ y \in Nat
    OBVIOUS
  <2>3. ~ (y < x)
    BY <1>3, <1>4, <2>2
  <2> QED BY <2>2, <2>3
<1> QED BY <1>5 DEF Min

\* A set of numbers below a bound that is not empty has a greatest member, and
\* Max is it.
LEMMA MaxLemma ==
    ASSUME NEW n \in Nat, NEW S, S \subseteq 0..n, S # {}
    PROVE  Max(S) \in S /\ \A x \in S : x <= Max(S)
<1> DEFINE T == {n - x : x \in S}
<1>1. T \subseteq Nat /\ T # {}
  <2>1. \A x \in S : n - x \in Nat
    OBVIOUS
  <2> QED BY <2>1
<1>2. Min(T) \in T /\ \A y \in T : Min(T) <= y
  BY <1>1, MinLemma
<1>3. PICK m \in S : Min(T) = n - m
  BY <1>2
<1>4. \A x \in S : n - m <= n - x
  BY <1>2, <1>3
<1>5. \A x \in S : x <= m
  BY <1>4
<1>6. \E x \in S : \A y \in S : x >= y
  BY <1>5
<1> QED BY <1>6 DEF Max

\* What the assumptions say of the constants, in one place.
LEMMA Constants ==
    /\ MaxTime \in Nat /\ 1 <= MaxTime /\ Times = 1..MaxTime
    /\ Lag \in Nat /\ 1 <= Lag /\ Window \in Nat /\ MaxSteps \in Nat /\ 1 <= MaxSteps
    /\ Lag <= Window + 1
    /\ \A plan \in Plans : plan \subseteq Times
    /\ \A plan \in Plans : \A p, q \in plan : p < q => q - p > Window
BY PlanAssumption, TimingAssumption, BoundsAssumption DEF Times

\* What is more than w after a moment that is w ago at most is in the future.
LEMMA GapLemma ==
    ASSUME NEW a \in Nat, NEW b \in Nat, NEW c \in Nat, NEW w \in Nat,
           b - a > w, c - a <= w
    PROVE  c < b
OBVIOUS

\* Next gives a moment, or none.
LEMMA NextLemma ==
    ASSUME NEW plan \in Plans, NEW t \in Times
    PROVE  Next(plan, t) \in Times \cup {Never}
<1> DEFINE later == {p \in plan : p > t}
<1>1. CASE later = {}
  BY <1>1 DEF Next
<1>2. CASE later # {}
  <2>1. later \subseteq Times /\ Times \subseteq Nat
    BY Constants
  <2>2. Min(later) \in later
    BY <1>2, <2>1, MinLemma
  <2> QED BY <1>2, <2>1, <2>2 DEF Next
<1> QED BY <1>1, <1>2

\* The anchor is set to the moment or to the last record, whichever is later.
LEMMA AnchoredLemma ==
    ASSUME NEW t \in Times, lastRun \in 0..MaxTime
    PROVE  /\ Anchored(t) \in Times /\ t <= Anchored(t) /\ lastRun <= Anchored(t)
           /\ lastRun <= t => Anchored(t) = t
<1>1. {t, lastRun} \subseteq 0..MaxTime /\ {t, lastRun} # {}
  BY Constants
<1>2. MaxTime \in Nat
  BY Constants
<1>3. /\ Anchored(t) \in {t, lastRun}
      /\ \A x \in {t, lastRun} : x <= Anchored(t)
  BY <1>1, <1>2, MaxLemma DEF Anchored
<1> QED BY <1>3, Constants

\* A clock set back takes the save with it.
LEMMA MinOfTwo ==
    ASSUME NEW a \in Nat, NEW b \in Nat
    PROVE  Min({a, b}) \in {a, b} /\ Min({a, b}) <= a /\ Min({a, b}) <= b
<1>1. {a, b} \subseteq Nat /\ {a, b} # {}
  OBVIOUS
<1> QED BY <1>1, MinLemma

\* Where a tick starts to look.
Base == IF policy # fp THEN Anchored(now) ELSE anchor

LEMMA BaseLemma ==
    ASSUME TypeOK, AnchorInv, policy.on
    PROVE  Base \in Times /\ lastRun <= Base /\ (policy # fp => now <= Base)
<1>1. now \in Times /\ lastRun \in 0..MaxTime /\ anchor \in Times
  BY DEF TypeOK
<1> QED BY <1>1, AnchoredLemma DEF Base, AnchorInv

\* What a tick that is on may fire, and where it leaves the anchor.
LEMMA TickLemma ==
    ASSUME TypeOK, AnchorInv, Tick, policy.on
    PROVE  /\ anchor' \in Times /\ Base <= anchor'
           /\ \/ /\ spc' = "idle" /\ point' = point
              \/ /\ spc' = "record" /\ point' = anchor' /\ Base < point'
                 /\ point' \in policy.plan /\ point' <= now
           /\ Late(Base) = {} =>
                  \A p \in policy.plan :
                      /\ Base < p /\ p <= anchor' =>
                             spc' = "record" /\ p = point'
                      /\ anchor' < p => now < p
           /\ Base <= now => anchor' <= now
<1> DEFINE late == Late(Base)
           done == {p \in late : Cardinality({q \in late : q < p}) < MaxSteps}
           due == IF Cardinality(late) >= MaxSteps \/ ~policy.on THEN {} ELSE Punctual(Base)
<1>1. /\ anchor' = IF ~policy.on THEN now
                   ELSE IF due # {} THEN Min(due)
                   ELSE Max(done \cup {Base})
      /\ spc' = IF due = {} THEN "idle" ELSE "record"
      /\ point' = IF due = {} THEN point ELSE Min(due)
  BY DEF Tick, Base
<1>2. /\ policy.plan \subseteq Times /\ now \in Times
      /\ \A p, q \in policy.plan : p < q => q - p > Window
  BY Constants DEF TypeOK
<1>3. Base \in Times
  BY BaseLemma
<1>4. Times = 1..MaxTime /\ MaxTime \in Nat /\ Window \in Nat
  BY Constants
<1>5. /\ late = {p \in policy.plan : Base < p /\ p <= now /\ now - p > Window}
      /\ done \subseteq late
  BY DEF Late
<1>6. due \subseteq {p \in policy.plan : Base < p /\ p <= now /\ now - p <= Window}
  BY DEF Punctual
<1>7. due # {} => due = {p \in policy.plan : Base < p /\ p <= now /\ now - p <= Window}
  BY DEF Punctual
<1>8. late = {} =>
        due = {p \in policy.plan : Base < p /\ p <= now /\ now - p <= Window}
  <2>1. Cardinality({}) = 0 /\ MaxSteps \in Nat /\ 1 <= MaxSteps
    BY FS_EmptySet, Constants
  <2>2. late = {} => ~ (Cardinality(late) >= MaxSteps)
    <3> HIDE DEF late
    <3> QED BY <2>1
  <2>3. ~ (Cardinality(late) >= MaxSteps) => due = Punctual(Base)
    OBVIOUS
  <2> QED BY <2>2, <2>3 DEF Punctual
<1> HIDE DEF late, done, due
<1>9. CASE due # {}
  <2>1. due \subseteq Nat
    BY <1>2, <1>4, <1>6
  <2>2. Min(due) \in due /\ \A x \in due : Min(due) <= x
    BY <1>9, <2>1, MinLemma
  <2>3. anchor' = Min(due) /\ spc' = "record" /\ point' = Min(due)
    BY <1>1, <1>9
  <2>4. /\ anchor' \in policy.plan /\ Base < anchor' /\ anchor' <= now
        /\ now - anchor' <= Window
    BY <1>6, <2>2, <2>3
  <2>5. ASSUME late = {}, NEW p \in policy.plan
        PROVE  /\ Base < p /\ p <= anchor' => p = point'
               /\ anchor' < p => now < p
    <3>1. p \in Times /\ anchor' \in Times
      BY <1>2, <2>4
    <3>2. ASSUME Base < p, p <= anchor'
          PROVE  p = point'
      <4>1. p <= now
        BY <1>2, <1>4, <2>4, <3>1, <3>2
      <4>2. ~ (now - p > Window)
        BY <1>5, <2>5, <3>2, <4>1
      <4>3. p \in due
        BY <1>2, <1>4, <1>8, <2>5, <3>1, <3>2, <4>1, <4>2
      <4> QED BY <1>4, <2>2, <2>3, <3>1, <3>2, <4>3
    <3>3. ASSUME anchor' < p
          PROVE  now < p
      <4>1. p - anchor' > Window
        BY <1>2, <2>4, <3>3
      <4>2. p \in Nat /\ anchor' \in Nat /\ now \in Nat
        BY <1>2, <1>4, <3>1
      <4>3. now - anchor' <= Window
        BY <2>4
      <4> QED BY <1>4, <4>1, <4>2, <4>3, GapLemma
    <3> QED BY <3>2, <3>3
  <2> QED BY <1>2, <1>3, <1>4, <2>3, <2>4, <2>5 DEF late
<1>10. CASE due = {}
  <2>1. done \cup {Base} \subseteq 0..MaxTime /\ done \cup {Base} # {}
    BY <1>2, <1>3, <1>4, <1>5
  <2>2. /\ Max(done \cup {Base}) \in done \cup {Base}
        /\ \A x \in done \cup {Base} : x <= Max(done \cup {Base})
    BY <1>4, <2>1, MaxLemma
  <2>3. anchor' = Max(done \cup {Base}) /\ spc' = "idle" /\ point' = point
    BY <1>1, <1>10
  <2>4. anchor' \in Times /\ Base <= anchor' /\ (anchor' = Base \/ anchor' <= now)
    BY <1>2, <1>3, <1>5, <2>2, <2>3
  <2>5. ASSUME late = {}, NEW p \in policy.plan
        PROVE  ~ (Base < p /\ p <= anchor') /\ (anchor' < p => now < p)
    <3>1. anchor' = Base
      BY <1>5, <2>2, <2>3, <2>5
    <3>2. p \in Times
      BY <1>2
    <3>3. SUFFICES ASSUME anchor' < p, p <= now
                   PROVE  FALSE
      BY <1>2, <1>3, <1>4, <3>1, <3>2
    <3>4. ~ (now - p > Window)
      BY <1>5, <2>5, <3>1, <3>3
    <3>5. p \in due
      BY <1>2, <1>4, <1>8, <2>5, <3>1, <3>2, <3>3, <3>4
    <3> QED BY <1>10, <3>5
  <2> QED BY <2>3, <2>4, <2>5 DEF late
<1> QED BY <1>9, <1>10

-----------------------------------------------------------------------------
(* Type correctness. *)

\* The tick leaves anchor and point as its lemma says, on or off.
LEMMA TickTypes ==
    ASSUME TypeOK, AnchorInv, Tick
    PROVE  /\ anchor' \in Times
           /\ \/ spc' = "idle" /\ point' = point
              \/ spc' = "record" /\ point' \in Times /\ point' = anchor'
<1>1. CASE policy.on
  <2>1. anchor' \in Times
    BY <1>1, TickLemma
  <2> QED BY <1>1, <2>1, TickLemma
<1>2. CASE ~policy.on
  BY <1>2 DEF Tick, TypeOK
<1> QED BY <1>1, <1>2

\* A new process starts with the types it should have.
LEMMA BootTypes ==
    ASSUME TypeOK, NEW t \in Times, Boot(t), runs' \in [Times -> Nat]
    PROVE  TypeOK' /\ PointInv'
<1>1. Anchored(t) \in Times
  BY AnchoredLemma DEF TypeOK
<1>2. NoRequest \in Requests
  BY DEF NoRequest, Requests
<1>3. TypeOK'
  <2>1. /\ now' \in Times /\ anchor' \in Times /\ ticked' \in Times
        /\ adopted' \in Times /\ since' \in Times /\ spc' = "idle"
        /\ point' \in 0..MaxTime /\ fp' = policy /\ manual' = "no"
        /\ execCh' \in Requests /\ tearing' \in Requests
    BY <1>1, <1>2, Constants DEF Boot
  <2>2. UNCHANGED <<policy, lastRun, shown, tried>>
    BY DEF Boot
  <2> QED BY <2>1, <2>2 DEF TypeOK
<1>4. PointInv'
  BY DEF PointInv, Boot, NoRequest
<1> QED BY <1>3, <1>4

\* A process that is replaced starts now, and a crashed one later.
LEMMA BootLemma ==
    ASSUME TypeOK, PointInv, Replaced \/ Crash
    PROVE  \E t \in Times : Boot(t) /\ now <= t /\ runs' \in [Times -> Nat]
<1>1. now \in Times /\ runs \in [Times -> Nat] /\ now <= now
  BY Constants DEF TypeOK
<1>2. CASE Replaced
  <2>1. tearing.who = "scheduler" => tearing.at \in Times
    BY DEF PointInv
  <2>2. runs' \in [Times -> Nat]
    BY <1>1, <1>2, <2>1 DEF Replaced
  <2> QED BY <1>1, <1>2, <2>2 DEF Replaced
<1>3. CASE Crash
  <2>1. PICK t \in now..MaxTime : Boot(t)
    BY <1>3 DEF Crash
  <2>2. t \in Times /\ now <= t /\ runs' = runs
    BY <1>1, <1>3, Constants DEF Crash
  <2> QED BY <1>1, <2>1, <2>2
<1> QED BY <1>2, <1>3

LEMMA TypeInit == Init => TypeOK /\ PointInv
<1> SUFFICES ASSUME Init
             PROVE  TypeOK /\ PointInv
  OBVIOUS
<1>1. 1 \in Times /\ 0 \in 0..MaxTime
  BY Constants
<1>2. policy \in [on : BOOLEAN, plan : Plans]
  BY DEF Init
<1>3. shown \in Times \cup {Never}
  BY <1>1, <1>2, NextLemma DEF Init
<1>4. NoRequest \in Requests
  BY DEF NoRequest, Requests
<1>5. runs \in [Times -> Nat]
  BY DEF Init
<1> QED BY <1>1, <1>2, <1>3, <1>4, <1>5 DEF Init, TypeOK, PointInv, NoRequest

LEMMA TypeStep ==
    ASSUME TypeOK, PointInv, AnchorInv, [Step]_vars
    PROVE  TypeOK' /\ PointInv'
<1> USE DEF TypeOK, PointInv
<1>1. CASE Advance
  <2>1. now' \in Times
    BY <1>1, Constants DEF Advance
  <2> QED BY <1>1, <2>1 DEF Advance, scheduler, process, history
<1>2. CASE Jump
  <2>1. PICK t \in Times \ {now} : now' = t /\ since' = Min({since, t})
    BY <1>2 DEF Jump
  <2>2. since' \in Times
    BY <2>1, Constants, MinOfTwo
  <2> QED BY <1>2, <2>1, <2>2 DEF Jump, scheduler, process
<1>3. CASE Save
  <2>1. PICK on \in BOOLEAN, plan \in Plans :
            /\ policy' = [on |-> on, plan |-> plan]
            /\ since' = IF policy' # fp THEN now ELSE adopted
            /\ shown' = IF on THEN Next(plan, now) ELSE Never
    BY <1>3 DEF Save
  <2>2. shown' \in Times \cup {Never} /\ since' \in Times
    BY <2>1, NextLemma
  <2>3. policy' \in [on : BOOLEAN, plan : Plans]
    BY <2>1
  <2> QED BY <1>3, <2>2, <2>3 DEF Save, scheduler, process
<1>4. CASE Tick
  <2>1. anchor' \in Times
    BY <1>4, TickTypes
  <2>2. \/ spc' = "idle" /\ point' = point
        \/ spc' = "record" /\ point' \in Times
    BY <1>4, TickTypes
  <2>3. point' \in 0..MaxTime /\ adopted' \in Times
    BY <1>4, <2>2, Constants DEF Tick
  <2>4. /\ ticked' = now /\ fp' = policy
        /\ UNCHANGED <<now, policy, lastRun, process, since, shown, tried, runs,
                       bounds>>
    BY <1>4 DEF Tick
  <2> QED BY <2>1, <2>2, <2>3, <2>4 DEF process
<1>5. CASE Record
  <2>1. point \in Times /\ point \in 0..MaxTime
    BY <1>5 DEF Record
  <2> QED BY <1>5, <2>1 DEF Record, process
<1>6. CASE Fire
  <2>1. CASE execCh = NoRequest /\ execCh' = [who |-> "scheduler", at |-> point]
    <3>1. point \in Times
      BY <1>6 DEF Fire
    <3>2. execCh' \in Requests
      BY <2>1, <3>1 DEF Requests
    <3> QED BY <1>6, <2>1, <3>1, <3>2 DEF Fire, history, NoRequest
  <2>2. CASE execCh' = execCh
    BY <1>6, <2>2 DEF Fire, history
  <2> QED BY <1>6, <2>1, <2>2 DEF Fire
<1>7. CASE Click
  BY <1>7 DEF Click, scheduler, history, NoRequest
<1>8. CASE Request
  <2>1. CASE execCh' = [who |-> "button", at |-> 0] /\ manual' = "sent"
    <3>1. execCh' \in Requests
      BY <2>1 DEF Requests
    <3> QED BY <1>8, <2>1, <3>1 DEF Request, scheduler, history
  <2>2. CASE execCh' = execCh /\ manual' = "no"
    BY <1>8, <2>2 DEF Request, scheduler, history
  <2> QED BY <1>8, <2>1, <2>2 DEF Request
<1>9. CASE TakeRequest
  <2>1. NoRequest \in Requests
    BY DEF Requests, NoRequest
  <2> QED BY <1>9, <2>1 DEF TakeRequest, scheduler, history, bounds, NoRequest
<1>10. CASE Replaced \/ Crash
  BY <1>10, BootLemma, BootTypes
<1>11. CASE UNCHANGED vars
  BY <1>11 DEF vars
<1> QED BY <1>1, <1>2, <1>3, <1>4, <1>5, <1>6, <1>7, <1>8, <1>9, <1>10, <1>11
        DEF Step

-----------------------------------------------------------------------------
(* Once for each point. *)

\* Boot starts with nothing on its way, and the anchor after the last record.
LEMMA BootOnce ==
    ASSUME TypeOK, NEW t \in Times, Boot(t)
    PROVE  /\ AnchorInv'
           /\ \A p \in Times : OnItsWay(p)' = 0
           /\ lastRun' = lastRun
<1>1. lastRun <= Anchored(t)
  BY AnchoredLemma DEF TypeOK
<1> QED BY <1>1 DEF AnchorInv, Boot, OnItsWay, NoRequest

LEMMA AnchorStep ==
    ASSUME TypeOK, PointInv, AnchorInv, [Step]_vars
    PROVE  AnchorInv'
<1>1. CASE Tick
  <2>1. CASE policy.on
    <3>1. Base \in Times /\ lastRun <= Base
      BY <2>1, BaseLemma
    <3>2. /\ anchor' \in Times /\ Base <= anchor'
          /\ \/ spc' = "idle"
             \/ spc' = "record" /\ point' = anchor' /\ Base < point'
      BY <1>1, <2>1, TickLemma
    <3>3. lastRun' = lastRun /\ fp' = policy /\ lastRun \in 0..MaxTime
      BY <1>1 DEF Tick, TypeOK
    <3> QED BY <2>1, <3>1, <3>2, <3>3, Constants DEF AnchorInv
  <2>2. CASE ~policy.on
    BY <1>1, <2>2 DEF Tick, AnchorInv
  <2> QED BY <2>1, <2>2
<1>2. CASE Record
  <2>1. /\ spc = "record" /\ fp' = fp /\ anchor' = anchor
        /\ \/ lastRun' = point /\ spc' = "fire"
           \/ lastRun' = lastRun /\ spc' = "idle"
    BY <1>2 DEF Record
  <2>2. anchor \in Int
    BY Constants DEF TypeOK
  <2> QED BY <2>1, <2>2 DEF AnchorInv
<1>3. CASE Fire
  BY <1>3 DEF Fire, AnchorInv
<1>4. CASE Replaced \/ Crash
  BY <1>4, BootLemma, BootOnce
<1>5. CASE Advance \/ Jump \/ Save \/ Click \/ Request \/ TakeRequest
           \/ UNCHANGED vars
  <2>1. UNCHANGED <<fp, lastRun, anchor, spc, point>>
    BY <1>5 DEF Advance, Jump, Save, Click, Request, TakeRequest, vars, scheduler
  <2> QED BY <2>1 DEF AnchorInv
<1> QED BY <1>1, <1>2, <1>3, <1>4, <1>5 DEF Step

LEMMA OnceStep ==
    ASSUME TypeOK, PointInv, AnchorInv, OnceInv, [Step]_vars
    PROVE  OnceInv'
<1> SUFFICES ASSUME NEW p \in Times
             PROVE  /\ runs'[p] + OnItsWay(p)' <= 1
                    /\ p > lastRun' => runs'[p] + OnItsWay(p)' = 0
  BY DEF OnceInv
<1>1. /\ runs[p] \in Nat /\ p \in Int /\ lastRun \in Int
      /\ runs[p] + OnItsWay(p) <= 1
      /\ p > lastRun => runs[p] + OnItsWay(p) = 0
  BY Constants DEF TypeOK, OnceInv
<1>2. CASE UNCHANGED <<runs, lastRun, spc, point, execCh, tearing>>
  BY <1>1, <1>2 DEF OnItsWay
<1>3. CASE Advance \/ Jump \/ Save \/ Click \/ UNCHANGED vars
  <2>1. UNCHANGED <<runs, lastRun, spc, point, execCh, tearing>>
    BY <1>3 DEF Advance, Jump, Save, Click, vars, scheduler, process, history
  <2> QED BY <1>2, <2>1
<1>4. CASE Tick
  <2>1. /\ UNCHANGED <<runs, lastRun, execCh, tearing>>
        /\ spc # "fire" /\ spc' # "fire"
    BY <1>4, TickTypes DEF Tick, process
  <2> QED BY <1>1, <2>1 DEF OnItsWay
<1>5. CASE Record
  <2>1. /\ UNCHANGED <<runs, execCh, tearing, point>> /\ spc = "record"
        /\ \/ lastRun' = point /\ spc' = "fire"
           \/ lastRun' = lastRun /\ spc' = "idle"
    BY <1>5 DEF Record, process
  <2>2. lastRun < point /\ point \in Int
    BY <2>1, Constants DEF AnchorInv, PointInv
  <2>3. CASE p = point
    BY <1>1, <2>1, <2>2, <2>3 DEF OnItsWay
  <2>4. CASE p # point
    BY <1>1, <2>1, <2>2, <2>4 DEF OnItsWay
  <2> QED BY <2>3, <2>4
<1>6. CASE Fire
  <2>1. /\ UNCHANGED <<runs, lastRun, tearing, point>>
        /\ spc = "fire" /\ spc' = "idle"
        /\ \/ /\ execCh = NoRequest
              /\ execCh' = [who |-> "scheduler", at |-> point]
           \/ execCh' = execCh
    BY <1>6 DEF Fire, history
  <2> QED BY <1>1, <2>1 DEF OnItsWay, NoRequest
<1>7. CASE Request
  <2>1. /\ UNCHANGED <<runs, lastRun, spc, tearing, point>>
        /\ \/ /\ execCh = NoRequest
              /\ execCh' = [who |-> "button", at |-> 0]
           \/ execCh' = execCh
    BY <1>7 DEF Request, history, scheduler
  <2> QED BY <1>1, <2>1 DEF OnItsWay, NoRequest
<1>8. CASE TakeRequest
  <2>1. /\ UNCHANGED <<runs, lastRun, spc, point>>
        /\ tearing = NoRequest /\ tearing' = execCh /\ execCh' = NoRequest
    BY <1>8 DEF TakeRequest, history, scheduler
  <2> QED BY <1>1, <2>1 DEF OnItsWay, NoRequest
<1>9. CASE Replaced
  <2>1. OnItsWay(p)' = 0 /\ lastRun' = lastRun
    BY <1>9, BootLemma, BootOnce
  <2>2. CASE tearing.who = "scheduler" /\ tearing.at = p
    <3>1. runs'[p] = runs[p] + 1
      BY <1>9, <2>2 DEF Replaced, TypeOK
    <3>2. OnItsWay(p) >= 1
      BY <2>2 DEF OnItsWay
    <3>3. OnItsWay(p) \in Int
      BY DEF OnItsWay
    <3> QED BY <1>1, <2>1, <3>1, <3>2, <3>3
  <2>3. CASE ~ (tearing.who = "scheduler" /\ tearing.at = p)
    <3>1. runs'[p] = runs[p]
      BY <1>9, <2>3 DEF Replaced, TypeOK
    <3>2. OnItsWay(p) >= 0 /\ OnItsWay(p) \in Int
      BY DEF OnItsWay
    <3> QED BY <1>1, <2>1, <3>1, <3>2
  <2> QED BY <2>2, <2>3
<1>10. CASE Crash
  <2>1. OnItsWay(p)' = 0 /\ lastRun' = lastRun
    BY <1>10, BootLemma, BootOnce
  <2>2. runs' = runs
    BY <1>10 DEF Crash
  <2>3. OnItsWay(p) >= 0 /\ OnItsWay(p) \in Int
    BY DEF OnItsWay
  <2> QED BY <1>1, <2>1, <2>2, <2>3
<1> QED BY <1>3, <1>4, <1>5, <1>6, <1>7, <1>8, <1>9, <1>10 DEF Step

-----------------------------------------------------------------------------
(* No point that was over. *)

LEMMA SinceStep ==
    ASSUME TypeOK, PointInv, AnchorInv, SinceInv, [Step]_vars
    PROVE  SinceInv'
<1>1. CASE Advance
  <2>1. UNCHANGED <<policy, fp, adopted, since, anchor>> /\ now' = now + 1
    BY <1>1 DEF Advance, scheduler, history
  <2>2. since \in Int /\ now \in Int
    BY Constants DEF TypeOK
  <2> QED BY <2>1, <2>2 DEF SinceInv
<1>2. CASE Jump
  <2>1. PICK t \in Times \ {now} : now' = t /\ since' = Min({since, t})
    BY <1>2 DEF Jump
  <2>2. UNCHANGED <<policy, fp, adopted, anchor>>
    BY <1>2 DEF Jump, scheduler
  <2>3. since \in Nat /\ t \in Nat /\ anchor \in Nat
    BY Constants DEF TypeOK
  <2>4. since' <= since /\ since' <= t /\ since' \in Nat
    BY <2>1, <2>3, MinOfTwo
  <2> QED BY <2>1, <2>2, <2>3, <2>4 DEF SinceInv
<1>3. CASE Save
  <2>1. since' = IF policy' # fp THEN now ELSE adopted
    BY <1>3 DEF Save
  <2>2. UNCHANGED <<now, fp, adopted, anchor>>
    BY <1>3 DEF Save, scheduler
  <2>3. now \in Int
    BY Constants DEF TypeOK
  <2> QED BY <2>1, <2>2, <2>3 DEF SinceInv
<1>4. CASE Tick
  <2>1. /\ fp' = policy /\ UNCHANGED <<policy, since, now>>
        /\ adopted' = IF policy # fp THEN now ELSE adopted
    BY <1>4 DEF Tick
  <2>2. /\ now \in Int /\ since \in Int /\ adopted \in Int
        /\ anchor \in Int
    BY Constants DEF TypeOK
  <2>3. ASSUME policy.on
        PROVE  adopted' <= anchor' /\ since <= anchor'
    <3>1. Base \in Int /\ anchor' \in Int /\ Base <= anchor'
      BY <1>4, <2>3, BaseLemma, TickLemma, Constants
    <3>2. policy # fp => now <= Base
      BY <2>3, BaseLemma
    <3>3. policy = fp => Base = anchor
      BY DEF Base
    <3> QED BY <2>1, <2>2, <2>3, <3>1, <3>2, <3>3 DEF SinceInv
  <2> QED BY <2>1, <2>3 DEF SinceInv
<1>5. CASE Replaced \/ Crash
  <2>1. PICK t \in Times : Boot(t)
    BY <1>5, BootLemma
  <2>2. t <= Anchored(t)
    BY AnchoredLemma DEF TypeOK
  <2> QED BY <2>1, <2>2 DEF Boot, SinceInv
<1>6. CASE Record \/ Fire \/ Click \/ Request \/ TakeRequest \/ UNCHANGED vars
  <2>1. UNCHANGED <<now, policy, fp, adopted, since, anchor>>
    BY <1>6
    DEF Record, Fire, Click, Request, TakeRequest, vars, scheduler, history
  <2> QED BY <2>1 DEF SinceInv
<1> QED BY <1>1, <1>2, <1>3, <1>4, <1>5, <1>6 DEF Step

-----------------------------------------------------------------------------
(* No point is left out while the clock does not jump. *)

LEMMA ClockStep ==
    ASSUME TypeOK, PointInv, AnchorInv, ClockInv, [Step]_vars
    PROVE  ClockInv'
<1>0. /\ now \in Int /\ lastRun \in Int /\ anchor \in Int /\ adopted \in Int
      /\ ticked \in Int /\ Lag \in Nat
  BY Constants DEF TypeOK
<1>1. CASE Advance
  <2>1. /\ UNCHANGED <<lastRun, anchor, adopted, ticked, spc, point, jumps>>
        /\ now' = now + 1 /\ now - ticked < Lag
    BY <1>1 DEF Advance, scheduler, history, bounds
  <2>2. spc # "idle" => point \in Int
    BY Constants DEF PointInv
  <2> QED BY <1>0, <2>1, <2>2 DEF ClockInv
<1>2. CASE Jump
  BY <1>2 DEF Jump, ClockInv
<1>3. CASE Tick
  <2>1. /\ ticked' = now /\ UNCHANGED <<now, lastRun, jumps>>
        /\ adopted' = IF policy # fp THEN now ELSE adopted
    BY <1>3 DEF Tick, bounds
  <2>2. jumps = 0 => anchor' <= now /\ (spc' # "idle" => point' <= now)
    <3>1. CASE policy.on
      <4>1. jumps = 0 /\ policy # fp => Base = now
        BY AnchoredLemma DEF Base, ClockInv, TypeOK
      <4>2. jumps = 0 => Base <= now
        BY <1>0, <4>1 DEF Base, ClockInv
      <4> QED BY <1>3, <3>1, <4>2, TickLemma
    <3>2. CASE ~policy.on
      BY <1>0, <1>3, <3>2 DEF Tick
    <3> QED BY <3>1, <3>2
  <2> QED BY <1>0, <2>1, <2>2 DEF ClockInv
<1>4. CASE Record
  <2>1. /\ UNCHANGED <<now, anchor, adopted, ticked, point, jumps>>
        /\ spc = "record" /\ (lastRun' = point \/ lastRun' = lastRun)
    BY <1>4 DEF Record
  <2> QED BY <2>1 DEF ClockInv
<1>5. CASE Fire
  <2>1. /\ UNCHANGED <<now, lastRun, anchor, adopted, ticked, jumps>>
        /\ spc' = "idle"
    BY <1>5 DEF Fire, history
  <2> QED BY <2>1 DEF ClockInv
<1>6. CASE Replaced \/ Crash
  <2>1. PICK t \in Times : Boot(t) /\ now <= t
    BY <1>6, BootLemma
  <2>2. jumps' = jumps
    BY <1>6 DEF Replaced, Crash, bounds
  <2>3. t \in Int
    BY Constants
  <2>4. jumps = 0 => lastRun <= t
    BY <1>0, <2>1, <2>3 DEF ClockInv
  <2>5. jumps = 0 => Anchored(t) = t
    BY <2>4, AnchoredLemma DEF TypeOK
  <2> QED BY <1>0, <2>1, <2>2, <2>3, <2>4, <2>5 DEF Boot, ClockInv
<1>7. CASE Save \/ Click \/ Request \/ TakeRequest \/ UNCHANGED vars
  <2>1. UNCHANGED <<now, lastRun, anchor, adopted, ticked, spc, point, jumps>>
    BY <1>7
    DEF Save, Click, Request, TakeRequest, vars, scheduler, history, bounds
  <2> QED BY <2>1 DEF ClockInv
<1> QED BY <1>1, <1>2, <1>3, <1>4, <1>5, <1>6, <1>7 DEF Step

\* While the clock does not jump a tick finds no point that is too late.
LEMMA NothingLate ==
    ASSUME TypeOK, AnchorInv, ClockInv, ServedInv, policy.on, jumps = 0
    PROVE  Late(Base) = {}
<1> SUFFICES ASSUME NEW p \in policy.plan, Base < p, p <= now, now - p > Window
             PROVE  FALSE
  BY DEF Late
<1>1. /\ p \in Nat /\ now \in Nat /\ ticked \in Nat /\ Window \in Nat
      /\ Lag \in Nat /\ Lag <= Window + 1
  BY Constants DEF TypeOK
<1>2. CASE policy = fp
  <2>1. ticked < p
    BY <1>2 DEF Base, ServedInv
  <2>2. now - ticked <= Lag
    BY DEF ClockInv
  <2> QED BY <1>1, <2>1, <2>2
<1>3. CASE policy # fp
  <2>1. now <= Base /\ Base \in Times
    BY <1>3, BaseLemma
  <2> QED BY <1>1, <2>1, Constants
<1> QED BY <1>2, <1>3

LEMMA ServedStep ==
    ASSUME TypeOK, PointInv, AnchorInv, ClockInv, ServedInv, [Step]_vars
    PROVE  ServedInv'
<1>1. CASE Tick
  <2> SUFFICES ASSUME jumps = 0, policy.on, NEW p \in policy.plan
               PROVE  /\ adopted' < p /\ p <= anchor' =>
                             p \in tried' \/ (spc' = "record" /\ p = point')
                      /\ anchor' < p => ticked' < p
    BY <1>1 DEF Tick, ServedInv, bounds
  <2>1. /\ ticked' = now /\ tried' = tried /\ spc = "idle"
        /\ adopted' = IF policy # fp THEN now ELSE adopted
    BY <1>1 DEF Tick
  <2>2. /\ Base < p /\ p <= anchor' => spc' = "record" /\ p = point'
        /\ anchor' < p => now < p
    BY <1>1, NothingLate, TickLemma
  <2>3. p \in Nat /\ Base \in Nat /\ now \in Nat
    BY BaseLemma, Constants DEF TypeOK
  <2>4. adopted' < p /\ p <= Base => p \in tried
    <3>1. CASE policy = fp
      BY <2>1, <3>1 DEF Base, ServedInv
    <3>2. CASE policy # fp
      <4>1. Base = now
        BY <3>2, AnchoredLemma DEF Base, ClockInv, TypeOK
      <4> QED BY <2>1, <2>3, <3>2, <4>1
    <3> QED BY <3>1, <3>2
  <2> QED BY <2>1, <2>2, <2>3, <2>4
<1>2. CASE Record
  BY <1>2 DEF Record, ServedInv
<1>3. CASE Fire
  BY <1>3 DEF Fire, ServedInv, history
<1>4. CASE Replaced \/ Crash
  <2>1. PICK t \in Times : Boot(t) /\ now <= t
    BY <1>4, BootLemma
  <2>2. jumps' = jumps
    BY <1>4 DEF Replaced, Crash, bounds
  <2>3. jumps = 0 => lastRun <= t
    BY <2>1, Constants DEF ClockInv, TypeOK
  <2>4. jumps = 0 => Anchored(t) = t
    BY <2>3, AnchoredLemma DEF TypeOK
  <2>5. \A p \in policy.plan : p \in Nat /\ t \in Nat
    BY Constants DEF TypeOK
  <2> QED BY <2>1, <2>2, <2>4, <2>5 DEF Boot, ServedInv
<1>5. CASE Jump
  BY <1>5 DEF Jump, ClockInv, ServedInv
<1>6. CASE Advance \/ Save \/ Click \/ Request \/ TakeRequest \/ UNCHANGED vars
  <2>1. UNCHANGED <<fp, anchor, adopted, ticked, spc, point, tried, jumps>>
    BY <1>6
    DEF Advance, Save, Click, Request, TakeRequest, vars, scheduler, history,
        bounds
  <2> QED BY <2>1 DEF ServedInv
<1> QED BY <1>1, <1>2, <1>3, <1>4, <1>5, <1>6 DEF Step

-----------------------------------------------------------------------------
(* The theorems. *)

LEMMA InitInv == Init => IInv
<1> SUFFICES ASSUME Init
             PROVE  IInv
  OBVIOUS
<1>1. TypeOK /\ PointInv
  BY TypeInit
<1>2. OnceInv
  BY DEF Init, OnceInv, OnItsWay, NoRequest
<1>3. AnchorInv /\ SinceInv
  BY DEF Init, AnchorInv, SinceInv
<1>4. ClockInv
  BY Constants DEF Init, ClockInv
<1>5. ServedInv
  BY <1>1, Constants DEF Init, ServedInv, TypeOK
<1> QED BY <1>1, <1>2, <1>3, <1>4, <1>5 DEF IInv

LEMMA StepInv == IInv /\ [Step]_vars => IInv'
BY TypeStep, OnceStep, AnchorStep, SinceStep, ClockStep, ServedStep DEF IInv

\* The inductive invariant holds in every reachable state.
THEOREM Inductive == Spec => []IInv
BY InitInv, StepInv, PTL DEF Spec

\* Types hold, and a button that waits has a request to wait for, so that
\* restarting is not left set (handleRestartNow).
THEOREM TypeCorrect == Spec => []TypeOK
<1>1. IInv => TypeOK
  BY DEF IInv
<1> QED BY <1>1, Inductive, PTL

\* A trigger point replaces the process once at most, whatever the clock, the
\* settings and the crashes do (fireAt records before it asks).
THEOREM PointServedOnce == Spec => []AtMostOnce
<1>1. IInv => AtMostOnce
  <2> SUFFICES ASSUME IInv, NEW p \in Times
               PROVE  runs[p] <= 1
    BY DEF AtMostOnce
  <2>1. runs[p] \in Nat /\ runs[p] + OnItsWay(p) <= 1
    BY DEF IInv, TypeOK, OnceInv
  <2>2. OnItsWay(p) \in Nat
    BY DEF OnItsWay
  <2> QED BY <2>1, <2>2
<1> QED BY <1>1, Inductive, PTL

\* While the clock does not jump no point after the adoption of the settings is
\* skipped as late or passed over (tick, catchUpWindow).
THEOREM NoPointLeftOut == Spec => []PointsAreServed
<1>1. IInv => PointsAreServed
  <2> SUFFICES ASSUME IInv, jumps = 0, ticked = now, spc = "idle", policy = fp,
                      policy.on, NEW p \in policy.plan, adopted < p, p <= now
               PROVE  p \in tried
    BY DEF PointsAreServed
  <2>1. p \in Nat /\ anchor \in Nat /\ now \in Nat
    BY Constants DEF IInv, TypeOK
  <2>2. ~ (anchor < p)
    BY <2>1 DEF IInv, ServedInv
  <2> QED BY <2>1, <2>2 DEF IInv, ServedInv
<1> QED BY <1>1, Inductive, PTL

\* A change of the settings, or a start, never restarts the process for a point
\* that was over by then (tick, resetAnchor).
THEOREM NothingOver == Spec => NoSurprise
<1>1. IInv /\ [Step]_vars =>
          [spc = "idle" /\ spc' = "record" => point' > since]_vars
  <2> SUFFICES ASSUME IInv, [Step]_vars, spc = "idle", spc' = "record"
               PROVE  point' > since
    OBVIOUS
  <2>1. Tick
    <3>1. CASE Replaced \/ Crash
      BY <3>1, BootLemma DEF IInv, Boot
    <3>2. CASE Advance \/ Jump \/ Save \/ Click \/ Request \/ TakeRequest
               \/ UNCHANGED vars
      BY <3>2
      DEF Advance, Jump, Save, Click, Request, TakeRequest, vars, scheduler
    <3> QED BY <3>1, <3>2 DEF Step, Record, Fire
  <2>2. policy.on
    BY <2>1 DEF Tick
  <2>3. Base < point' /\ Base \in Times /\ point' \in Times
    BY <2>1, <2>2, TickLemma, BaseLemma DEF IInv
  <2>4. since <= Base
    <3>1. since \in Int /\ now \in Int /\ Base \in Int
      BY <2>3, Constants DEF IInv, TypeOK
    <3>2. CASE policy = fp
      BY <2>2, <3>2 DEF IInv, SinceInv, Base
    <3>3. CASE policy # fp
      BY <2>2, <3>1, <3>3, BaseLemma DEF IInv, SinceInv
    <3> QED BY <3>2, <3>3
  <2>5. since \in Int /\ Base \in Int /\ point' \in Int
    BY <2>3, Constants DEF IInv, TypeOK
  <2> QED BY <2>3, <2>4, <2>5
<1> QED BY <1>1, Inductive, PTL DEF Spec, NoSurprise
=============================================================================
