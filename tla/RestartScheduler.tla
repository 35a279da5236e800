-------------------------- MODULE RestartScheduler --------------------------
(***************************************************************************)
(* Scheduled and manual restarts of the process (internal/restart, the     *)
(* restart page of internal/server, and the execCh of cmd/mantou).         *)
(*                                                                         *)
(* A plan is the set of its trigger points, which are a day apart or more; *)
(* Next gives the first one after a moment.  The clock goes forward one    *)
(* unit at a time, or jumps (NTP, suspension, a restored snapshot).  The   *)
(* scheduler looks at it at least once every Lag units.                    *)
(***************************************************************************)
EXTENDS Integers, FiniteSets, FiniteSetsExt

CONSTANTS
    MaxTime,     \* bound: the clock
    Plans,       \* sets of trigger points an administrator can choose
    Lag,         \* tickInterval, with its drift
    Window,      \* catchUpWindow
    MaxSteps,    \* maxCatchUpSteps
    MaxSaves, MaxJumps, MaxCrashes, MaxFails, MaxClicks  \* bounds

Times == 1..MaxTime

ASSUME PlanAssumption ==
    \A plan \in Plans : /\ plan \subseteq Times
                        /\ \A p, q \in plan : p < q => q - p > Window
\* A point is seen Lag - 1 after it at the latest, which the window covers (half a
\* minute and ten minutes in the code).
ASSUME TimingAssumption ==
    /\ Lag \in Nat \ {0} /\ Window \in Nat /\ MaxSteps \in Nat \ {0}
    /\ Lag <= Window + 1
ASSUME BoundsAssumption ==
    /\ MaxTime \in Nat \ {0}
    /\ {MaxSaves, MaxJumps, MaxCrashes, MaxFails, MaxClicks} \subseteq Nat

VARIABLES
    now,         \* the system clock
    policy,      \* Settings.Restart, what the administrator set
    lastRun,     \* Settings.Restart.LastRunAt in config.json, or 0
    anchor, fp,  \* Scheduler.anchor, Scheduler.fingerprint
    ticked,      \* the clock at the last tick
    spc, point,  \* where the scheduler's goroutine is, and what it fires
    execCh,      \* the request in execCh: who made it, for which point
    tearing,     \* the request servePanels has taken
    manual,      \* Server.restarting and the goroutine of the request
    adopted,     \* the clock when the scheduler adopted the policy (history)
    since,       \* the clock when the settings in force were saved, or adopted
                 \* by a scheduler that starts (history)
    shown,       \* the next run the interface showed at the last save (history)
    tried,       \* points recorded, or whose recording failed (history)
    runs,        \* process replacements for each point (history)
    saves, jumps, crashes, fails, clicks

vars == <<now, policy, lastRun, anchor, fp, ticked, spc, point, execCh, tearing,
          manual, adopted, since, shown, tried, runs, saves, jumps, crashes,
          fails, clicks>>

scheduler == <<anchor, fp, ticked, spc, point>>
process == <<execCh, tearing, manual>>
history == <<adopted, since, shown, tried, runs>>
bounds == <<saves, jumps, crashes, fails, clicks>>

Never == MaxTime + 1
NoRequest == [who |-> "none", at |-> 0]

\* Next: the first trigger point after a moment.
Next(plan, from) ==
    LET later == {p \in plan : p > from}
    IN IF later = {} THEN Never ELSE Min(later)

\* Mutant of Anchored: what was already done is not looked at.
AnchoredNow(moment) == moment

\* resetAnchor: from now on, but never again what was already done.
Anchored(moment) == Max({moment, lastRun})

-----------------------------------------------------------------------------
(* The clock and the settings. *)

Advance ==
    /\ now < MaxTime /\ now - ticked < Lag
    /\ now' = now + 1
    /\ UNCHANGED <<policy, lastRun, scheduler, process, history, bounds>>

Jump ==
    /\ jumps < MaxJumps /\ jumps' = jumps + 1
    /\ \E t \in Times \ {now} :
         /\ now' = t
         /\ since' = Min({since, t})
    /\ UNCHANGED <<policy, lastRun, scheduler, process, adopted, shown, tried,
                   runs, saves, crashes, fails, clicks>>

\* The settings page: LastRunAt is not taken from the request.  Settings put back
\* before the scheduler looked are those it adopted: it sees no change.
Save ==
    /\ saves < MaxSaves /\ saves' = saves + 1
    /\ \E on \in BOOLEAN, plan \in Plans :
         /\ policy' = [on |-> on, plan |-> plan]
         /\ since' = IF policy' # fp THEN now ELSE adopted
         /\ shown' = IF on THEN Next(plan, now) ELSE Never
    /\ UNCHANGED <<now, lastRun, scheduler, process, adopted, tried, runs,
                   jumps, crashes, fails, clicks>>

-----------------------------------------------------------------------------
(* The scheduler. *)

\* The trigger points passed since moment a, too long ago to be executed.
Late(a) == {p \in policy.plan : a < p /\ p <= now /\ now - p > Window}

\* Mutant of Punctual: a point seen at the end of the window is skipped.
PunctualStrictly(a) ==
    {p \in policy.plan : a < p /\ p <= now /\ now - p < Window}

Punctual(a) == {p \in policy.plan : a < p /\ p <= now /\ now - p <= Window}

\* Mutant of Tick: a change of the settings is not noticed.
TickUnaware ==
    /\ spc = "idle" /\ ticked' = now
    /\ fp' = policy
    /\ LET late == Late(anchor)
           done == {p \in late : Cardinality({q \in late : q < p}) < MaxSteps}
           due == IF Cardinality(late) >= MaxSteps \/ ~policy.on THEN {} ELSE Punctual(anchor)
       IN /\ anchor' = IF ~policy.on THEN now
                       ELSE IF due # {} THEN Min(due)
                       ELSE Max(done \cup {anchor})
          /\ spc' = IF due = {} THEN "idle" ELSE "record"
          /\ point' = IF due = {} THEN point ELSE Min(due)
    /\ adopted' = IF policy # fp THEN now ELSE adopted
    /\ UNCHANGED <<now, policy, lastRun, process, since, shown, tried, runs,
                   bounds>>

\* tick: a changed policy starts from now; while it is off, the anchor follows
\* the clock; late points are skipped, MaxSteps in a tick; the first point in
\* the window is fired.
Tick ==
    /\ spc = "idle" /\ ticked' = now
    /\ fp' = policy
    /\ LET base == IF policy # fp THEN Anchored(now) ELSE anchor
           late == Late(base)
           done == {p \in late : Cardinality({q \in late : q < p}) < MaxSteps}
           due == IF Cardinality(late) >= MaxSteps \/ ~policy.on THEN {} ELSE Punctual(base)
       IN /\ anchor' = IF ~policy.on THEN now
                       ELSE IF due # {} THEN Min(due)
                       ELSE Max(done \cup {base})
          /\ spc' = IF due = {} THEN "idle" ELSE "record"
          /\ point' = IF due = {} THEN point ELSE Min(due)
    /\ adopted' = IF policy # fp THEN now ELSE adopted
    /\ UNCHANGED <<now, policy, lastRun, process, since, shown, tried, runs,
                   bounds>>

\* Mutant of Record: a restart that cannot be recorded is done all the same.
RecordLoosely ==
    /\ spc = "record"
    /\ tried' = tried \cup {point}
    /\ \/ lastRun' = point /\ spc' = "fire" /\ UNCHANGED fails
       \/ /\ fails < MaxFails /\ fails' = fails + 1
          /\ spc' = "fire"
          /\ UNCHANGED lastRun
    /\ UNCHANGED <<now, policy, anchor, fp, ticked, point, process, adopted,
                   since, shown, runs, saves, jumps, crashes, clicks>>

\* fireAt, first the record; without it there is no restart ...
Record ==
    /\ spc = "record"
    /\ tried' = tried \cup {point}
    /\ \/ lastRun' = point /\ spc' = "fire" /\ UNCHANGED fails
       \/ /\ fails < MaxFails /\ fails' = fails + 1
          /\ spc' = "idle"
          /\ UNCHANGED lastRun
    /\ UNCHANGED <<now, policy, anchor, fp, ticked, point, process, adopted,
                   since, shown, runs, saves, jumps, crashes, clicks>>

\* RestartExec: refused when the program file is unusable (a failure), or when a
\* request is already waiting.
Refused == execCh # NoRequest \/ fails < MaxFails

\* ... then the request.
Fire ==
    /\ spc = "fire" /\ spc' = "idle"
    /\ \/ /\ execCh = NoRequest
          /\ execCh' = [who |-> "scheduler", at |-> point]
          /\ UNCHANGED fails
       \/ /\ Refused
          /\ fails' = IF execCh = NoRequest THEN fails + 1 ELSE fails
          /\ UNCHANGED execCh
    /\ UNCHANGED <<now, policy, lastRun, anchor, fp, ticked, point, tearing,
                   manual, history, saves, jumps, crashes, clicks>>

-----------------------------------------------------------------------------
(* The restart button. *)

\* handleRestartNow: one at a time; the request is made a little later, after
\* the answer.
Click ==
    /\ clicks < MaxClicks /\ clicks' = clicks + 1
    /\ tearing = NoRequest
    /\ manual' = IF manual = "no" THEN "soon" ELSE manual
    /\ UNCHANGED <<now, policy, lastRun, scheduler, execCh, tearing, history,
                   saves, jumps, crashes, fails>>

\* Mutant of Request: a refusal leaves restarting set.
RequestForgets ==
    /\ manual = "soon"
    /\ \/ /\ execCh = NoRequest
          /\ execCh' = [who |-> "button", at |-> 0]
          /\ UNCHANGED fails
       \/ /\ Refused
          /\ fails' = IF execCh = NoRequest THEN fails + 1 ELSE fails
          /\ UNCHANGED execCh
    /\ manual' = "sent"
    /\ UNCHANGED <<now, policy, lastRun, scheduler, tearing, history, saves,
                   jumps, crashes, clicks>>

Request ==
    /\ manual = "soon"
    /\ \/ /\ execCh = NoRequest
          /\ execCh' = [who |-> "button", at |-> 0]
          /\ manual' = "sent"
          /\ UNCHANGED fails
       \/ /\ Refused
          /\ fails' = IF execCh = NoRequest THEN fails + 1 ELSE fails
          /\ manual' = "no"
          /\ UNCHANGED execCh
    /\ UNCHANGED <<now, policy, lastRun, scheduler, tearing, history, saves,
                   jumps, crashes, clicks>>

-----------------------------------------------------------------------------
(* The process. *)

\* servePanels takes the request and closes what it has to close; the scheduler
\* still runs.
TakeRequest ==
    /\ execCh # NoRequest /\ tearing = NoRequest
    /\ tearing' = execCh /\ execCh' = NoRequest
    /\ UNCHANGED <<now, policy, lastRun, scheduler, manual, history, bounds>>

\* New, in the next process, which starts at moment t.
Boot(t) ==
    /\ now' = t
    /\ anchor' = Anchored(t) /\ fp' = policy /\ ticked' = t
    /\ spc' = "idle" /\ point' = 0
    /\ execCh' = NoRequest /\ tearing' = NoRequest /\ manual' = "no"
    /\ adopted' = t /\ since' = t
    /\ UNCHANGED <<policy, lastRun, shown, tried>>

Replaced ==
    /\ tearing # NoRequest
    /\ Boot(now)
    /\ runs' = IF tearing.who = "scheduler"
               THEN [runs EXCEPT ![tearing.at] = @ + 1] ELSE runs
    /\ UNCHANGED bounds

\* The process is killed, and started again some time later.
Crash ==
    /\ crashes < MaxCrashes /\ crashes' = crashes + 1
    /\ \E t \in now..MaxTime : Boot(t)
    /\ UNCHANGED <<runs, saves, jumps, fails, clicks>>

-----------------------------------------------------------------------------
Init ==
    /\ now = 1
    /\ policy \in [on : BOOLEAN, plan : Plans]
    /\ lastRun = 0
    /\ anchor = 1 /\ fp = policy /\ ticked = 1 /\ spc = "idle" /\ point = 0
    /\ execCh = NoRequest /\ tearing = NoRequest /\ manual = "no"
    /\ adopted = 1 /\ since = 1
    /\ shown = IF policy.on THEN Next(policy.plan, 1) ELSE Never
    /\ tried = {} /\ runs = [p \in Times |-> 0]
    /\ saves = 0 /\ jumps = 0 /\ crashes = 0 /\ fails = 0 /\ clicks = 0

Step ==
    \/ Advance \/ Jump \/ Save
    \/ Tick \/ Record \/ Fire
    \/ Click \/ Request
    \/ TakeRequest \/ Replaced \/ Crash

\* Goroutines go on, and main takes requests.  The clock owes nothing.
Spec ==
    /\ Init /\ [][Step]_vars
    /\ WF_vars(Record) /\ WF_vars(Fire) /\ WF_vars(Request)
    /\ WF_vars(TakeRequest) /\ WF_vars(Replaced)

-----------------------------------------------------------------------------
Requests == [who : {"none", "scheduler", "button"}, at : Times \cup {0}]

\* Types; and a button that waits for its restart has a request to wait for, so
\* that restarting is not left set (handleRestartNow).
TypeOK ==
    /\ now \in Times /\ ticked \in Times /\ adopted \in Times /\ since \in Times
    /\ policy \in [on : BOOLEAN, plan : Plans]
    /\ fp \in [on : BOOLEAN, plan : Plans]
    /\ lastRun \in 0..MaxTime /\ anchor \in Times
    /\ spc \in {"idle", "record", "fire"} /\ point \in 0..MaxTime
    /\ execCh \in Requests /\ tearing \in Requests
    /\ manual \in {"no", "soon", "sent"}
    /\ shown \in Times \cup {Never}
    /\ tried \subseteq Times /\ runs \in [Times -> Nat]
    /\ manual = "sent" => "button" \in {execCh.who, tearing.who}

\* A trigger point replaces the process once at most, although the process
\* forgets everything but LastRunAt each time, the clock may be set back before
\* the point, and the settings may be changed in between.
AtMostOnce == \A p \in Times : runs[p] <= 1

\* Changing the settings never restarts the process for a point that was over
\* when they were saved, nor does a start for one that was over then.
NoSurprise == [][spc = "idle" /\ spc' = "record" => point' > since]_vars

\* While the clock does not jump, every trigger point after the scheduler
\* adopted the settings is served, or its record failed: none is skipped as late
\* or passed over because of a restart in progress.
PointsAreServed ==
    jumps = 0 /\ ticked = now /\ spc = "idle" /\ policy = fp /\ policy.on =>
        \A p \in policy.plan : adopted < p /\ p <= now => p \in tried

\* The restart button does not stay refused: a request ends in a new process or
\* is given up.
ButtonComesBack == manual # "no" ~> manual = "no"

\* What the settings page showed as the next run when the settings were saved is
\* what is executed, when nothing else happens.
ShownIsRun ==
    shown < ticked /\ spc = "idle" => shown \in tried
=============================================================================
