------------------------------ MODULE Sessions ------------------------------
(***************************************************************************)
(* The session registry of the panel (internal/server/session.go), the     *)
(* middleware that asks it (middleware.go, authRequired), and the handlers *)
(* that add and remove sessions: login, logout, the beacon of the last     *)
(* closing tab, and the change of the account (api_auth.go, api_account.go).*)
(*                                                                         *)
(* A token is used for one session.  Moments are numbers from 1, and 0 is  *)
(* the zero time.  The clock only moves when TimePasses does.              *)
(***************************************************************************)
EXTENDS Naturals, FiniteSetsExt

CONSTANTS
    SessTokens,   \* tokens, numbered in the order they are issued
    SessCap,      \* sessionMaxEntries
    SessTtl,      \* Auth.SessionHours
    SessIdle,     \* Auth.SessionIdleMinutes
    SessGrace,    \* sessionGrace
    SessHorizon,  \* bound: the last moment looked at
    SessRenames,  \* bound: changes of the user name
    SessCloses    \* bound: timers of closed sessions at one time

ASSUME SessAssumption ==
    /\ SessTokens \subseteq Nat \ {0}
    /\ {SessRenames, SessCloses} \subseteq Nat
    /\ {SessCap, SessHorizon, SessTtl, SessIdle, SessGrace} \subseteq Nat \ {0}

VARIABLES
    sessNow,      \* the clock
    sessEntries,  \* sessionRegistry.entries, a record for each present token
    sessTimers,   \* the AfterFunc of markPendingDelete: token and moment
    sessName,     \* Auth.Username, counted
    sessChecked,  \* logins whose password has been checked: the name they read
    sessRotating, \* sessions whose change of password has revoked the others;
                  \* 0 for a change of the name that has revoked nothing yet
    sessLife      \* what happened to each session (history)

sessVars == <<sessNow, sessEntries, sessTimers, sessName, sessChecked,
              sessRotating, sessLife>>

SessMoments == 1..SessHorizon
SessNoEntry == [in |-> FALSE, name |-> 0, expires |-> 0, seen |-> 0, pending |-> 0]
SessNone == [t \in SessTokens |-> SessNoEntry]
SessIn == {t \in SessTokens : sessEntries[t].in}
\* A session as its user sees it: begun, last seen, and the moment of a close
\* that no visit has taken back.
SessUnborn == [state |-> "new", at |-> 0, seen |-> 0, closed |-> 0]

SessWithout(out) == [t \in SessTokens |-> IF t \in out THEN SessNoEntry
                                          ELSE sessEntries[t]]
SessEnded(out) == [t \in SessTokens |->
    IF t \in out THEN [SessUnborn EXCEPT !.state = "over"] ELSE sessLife[t]]

-----------------------------------------------------------------------------
(* add and trimToCap. *)

SessExpired(t) == sessNow > sessEntries[t].expires
SessGraceOver(t) == sessEntries[t].pending # 0 /\ sessNow > sessEntries[t].pending

\* Mutant of SessTrimmed: the table is brought to its cap by any session.
SessTrimmedAny(in, out) ==
    Cardinality(in \ out) = Min({Cardinality(in), SessCap - 1})

\* Of the sessions in, first what is dead anyway goes, then the least
\* recently seen, until one more fits.
SessTrimmed(in, out) ==
    LET dead == {t \in in : SessExpired(t) \/ SessGraceOver(t)}
        rest == in \ dead
    IN IF Cardinality(in) < SessCap THEN out = {}
       ELSE /\ dead \subseteq out
            /\ Cardinality(rest \ out) = Min({Cardinality(rest), SessCap - 1})
            /\ \A t \in rest \cap out, u \in rest \ out :
                  sessEntries[t].seen <= sessEntries[u].seen

\* The caller's own session, if it is exchanged, is removed first.
SessAdd(t, name, own) ==
    \E out \in SUBSET (SessIn \ own) :
        /\ SessTrimmed(SessIn \ own, out)
        /\ sessEntries' = [SessWithout(out \union own) EXCEPT ![t] =
                 [in |-> TRUE, name |-> name, expires |-> sessNow + SessTtl,
                  seen |-> sessNow, pending |-> 0]]
        /\ sessLife' = [SessEnded(out \union own) EXCEPT ![t] =
                 [state |-> "on", at |-> sessNow, seen |-> sessNow, closed |-> 0]]

SessNew == {t \in SessTokens : sessLife[t].state = "new" /\ sessChecked[t] = 0}
SessFresh(t) == t \in SessNew /\ \A u \in SessNew : t <= u

\* handleLogin: the configuration is read and the password checked ...
SessCheck(t) ==
    /\ SessFresh(t)
    /\ \A u \in SessTokens : sessChecked[u] = 0    \* bound: one login at a time
    /\ sessChecked' = [sessChecked EXCEPT ![t] = sessName]
    /\ UNCHANGED <<sessNow, sessEntries, sessTimers, sessName, sessRotating, sessLife>>

\* ... then the session is added under the name that was read.
SessLogin(t) ==
    /\ sessChecked[t] # 0
    /\ SessAdd(t, sessChecked[t], {})
    /\ sessChecked' = [sessChecked EXCEPT ![t] = 0]
    /\ UNCHANGED <<sessNow, sessTimers, sessName, sessRotating>>

-----------------------------------------------------------------------------
(* valid, as authRequired asks it. *)

\* Mutant of SessDead: the grace is left to the timer.
SessDeadByTimer(t) ==
    \/ SessExpired(t)
    \/ sessNow - sessEntries[t].seen > SessIdle

SessDead(t) ==
    \/ SessExpired(t)
    \/ sessNow - sessEntries[t].seen > SessIdle
    \/ SessGraceOver(t)

\* A token of another user name is refused before the registry is asked.
SessServes(t) ==
    t \in SessIn /\ sessEntries[t].name = sessName /\ ~SessDead(t)

\* A request that is served is seen; only one that is not silent (background
\* polling) takes a close back.
SessRequest(t, revive) ==
    /\ sessLife[t].state # "new"
    /\ IF SessServes(t)
       THEN /\ sessEntries' = [sessEntries EXCEPT ![t].seen = sessNow,
                  ![t].pending = IF revive THEN 0 ELSE @]
            /\ sessLife' = [sessLife EXCEPT ![t].seen = sessNow,
                  ![t].closed = IF revive THEN 0 ELSE @]
       ELSE /\ sessEntries' = SessWithout({u \in SessIn \cap {t} :
                  sessEntries[u].name = sessName})
            /\ sessLife' = SessEnded({t})
    /\ UNCHANGED <<sessNow, sessTimers, sessName, sessChecked, sessRotating>>

\* handleSessionClose: markPendingDelete, in a request that was just served.
SessClose(t) ==
    /\ SessServes(t) /\ Cardinality(sessTimers) < SessCloses
    /\ sessEntries' = [sessEntries EXCEPT ![t].seen = sessNow,
                                          ![t].pending = sessNow + SessGrace]
    /\ sessTimers' = sessTimers \union {<<t, sessNow + SessGrace>>}
    /\ sessLife' = [sessLife EXCEPT ![t].seen = sessNow, ![t].closed = sessNow]
    /\ UNCHANGED <<sessNow, sessName, sessChecked, sessRotating>>

\* Mutant of SessTimer: the timer deletes without a second look.
SessTimerBlind(t, at) ==
    /\ <<t, at>> \in sessTimers /\ sessNow > at
    /\ sessTimers' = sessTimers \ {<<t, at>>}
    /\ sessEntries' = SessWithout({t})
    /\ UNCHANGED <<sessNow, sessName, sessChecked, sessRotating, sessLife>>

\* The AfterFunc: the session may have been revived, or closed again, since.
SessTimer(t, at) ==
    /\ <<t, at>> \in sessTimers /\ sessNow > at
    /\ sessTimers' = sessTimers \ {<<t, at>>}
    /\ sessEntries' = SessWithout({u \in SessIn \cap {t} : SessGraceOver(u)})
    /\ UNCHANGED <<sessNow, sessName, sessChecked, sessRotating, sessLife>>

SessSweep ==
    /\ sessEntries' = SessWithout({t \in SessIn : SessExpired(t)})
    /\ UNCHANGED <<sessNow, sessTimers, sessName, sessChecked, sessRotating, sessLife>>

-----------------------------------------------------------------------------
(* Logout and changes of the account. *)

SessLogout(t) ==
    /\ SessServes(t)
    /\ sessEntries' = SessWithout({t}) /\ sessLife' = SessEnded({t})
    /\ UNCHANGED <<sessNow, sessTimers, sessName, sessChecked, sessRotating>>

\* handleChangeAccount, a new name: saved, then everything is revoked.
SessRename ==
    /\ sessName <= SessRenames /\ SessIn # {}
    /\ sessName' = sessName + 1
    /\ sessRotating' = sessRotating \union {0}
    /\ UNCHANGED <<sessNow, sessEntries, sessTimers, sessChecked, sessLife>>

SessRevokeAll ==
    /\ 0 \in sessRotating
    /\ sessRotating' = sessRotating \ {0}
    /\ sessEntries' = SessNone
    /\ sessLife' = SessEnded({t \in SessTokens : sessLife[t].state = "on"})
    /\ UNCHANGED <<sessNow, sessTimers, sessName, sessChecked>>

\* A new password: the other sessions are revoked ...
SessRevokeOthers(t) ==
    /\ SessServes(t) /\ sessRotating = {}
    /\ sessRotating' = sessRotating \union {t}
    /\ sessEntries' = SessWithout(SessTokens \ {t})
    /\ sessLife' = SessEnded({u \in SessTokens \ {t} : sessLife[u].state = "on"})
    /\ UNCHANGED <<sessNow, sessTimers, sessName, sessChecked>>

\* ... then the caller's own is exchanged for a new one.
SessRotate(t, new) ==
    /\ t \in sessRotating /\ SessFresh(new)
    /\ SessAdd(new, sessName, {t})
    /\ sessRotating' = sessRotating \ {t}
    /\ UNCHANGED <<sessNow, sessTimers, sessName, sessChecked>>

SessTimePasses ==
    /\ sessNow < SessHorizon
    /\ sessNow' = sessNow + 1
    /\ UNCHANGED <<sessEntries, sessTimers, sessName, sessChecked, sessRotating,
                   sessLife>>

SessInit ==
    /\ sessNow = 1
    /\ sessEntries = SessNone
    /\ sessTimers = {}
    /\ sessName = 1
    /\ sessChecked = [t \in SessTokens |-> 0]
    /\ sessRotating = {}
    /\ sessLife = [t \in SessTokens |-> SessUnborn]

SessNext ==
    \/ \E t \in SessTokens :
          \/ SessCheck(t) \/ SessLogin(t) \/ SessClose(t) \/ SessLogout(t)
          \/ SessRevokeOthers(t)
          \/ \E revive \in BOOLEAN : SessRequest(t, revive)
          \/ \E at \in SessMoments : SessTimer(t, at)
          \/ \E new \in SessTokens : SessRotate(t, new)
    \/ SessSweep \/ SessRename \/ SessRevokeAll \/ SessTimePasses

SessSpec == SessInit /\ [][SessNext]_sessVars
-----------------------------------------------------------------------------
(* Properties. *)

SessTypeOK ==
    /\ sessNow \in SessMoments
    /\ sessEntries \in [SessTokens -> [in : BOOLEAN, name : Nat, expires : Nat,
                                       seen : Nat, pending : Nat]]
    /\ sessTimers \subseteq SessTokens \X Nat
    /\ sessName \in 1..SessRenames + 1
    /\ sessChecked \in [SessTokens -> Nat]
    /\ sessRotating \subseteq SessTokens \union {0}
    /\ Cardinality(SessIn) <= SessCap

\* What the user may expect of a session: not over, seen lately, within its
\* hours, and either open or closed less than the grace ago.
SessAlive(t) ==
    LET life == sessLife[t] IN
    /\ life.state = "on"
    /\ sessNow <= life.at + SessTtl /\ sessNow - life.seen <= SessIdle
    /\ life.closed = 0 \/ sessNow <= life.closed + SessGrace

\* A session serves exactly as long as its user may expect, whatever timers,
\* sweeps, reloads and second closes come in between: a close that a visit
\* took back deletes nothing later, one that nobody took back is final after
\* the grace even when the timer is late, and nothing of an earlier user name
\* is served (session.go:110-308, middleware.go:228-286).
SessionsAsExpected ==
    \A t \in SessTokens :
        /\ SessServes(t) => SessAlive(t)
        /\ SessAlive(t) => t \in SessIn /\ ~SessDead(t)

\* A login at the cap takes the place of the dead, or of the session that was
\* not seen for longest, and is valid itself (session.go:119-174).
SessLoginDisplaces ==
    [][\A t, u \in SessTokens :
         sessLife[u].state = "new" /\ sessLife'[u].state = "on" =>
            /\ sessEntries'[u].in
            /\ (SessAlive(t) /\ t \in SessIn /\ t \notin sessRotating /\ sessLife'[t].state = "over") =>
                  \A v \in SessTokens \ {u} : sessEntries'[v].in =>
                     sessEntries[v].seen >= sessEntries[t].seen]_sessVars
=============================================================================
