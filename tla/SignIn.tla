------------------------------- MODULE SignIn -------------------------------
(***************************************************************************)
(* The first setup and the password checks of the panel: loginLimiter      *)
(* (internal/server/ratelimit.go), handleInitSetup and handleLogin         *)
(* (api_auth.go), and the check asked again before a sensitive operation   *)
(* (reauth.go, handleVerifyIdentity).                                      *)
(*                                                                         *)
(* An attempt takes a place under one or two keys, checks the password     *)
(* outside every lock, and gives the places back by Fail, Reset or         *)
(* Release, each under the limiter's lock on its own.  pendingTTL is left  *)
(* out: it only serves a place nobody gives back, and there is none.       *)
(***************************************************************************)
EXTENDS Naturals, Sequences, FiniteSetsExt

CONSTANTS
    SgnKeys,      \* keys of the limiter
    SgnAttempts,  \* attempts at one time
    SgnAsks,      \* the keys each asks for, in order
    SgnMax,       \* LoginMaxFails, when the lock is on
    SgnCap,       \* loginLimiterMaxEntries
    SgnWindow, SgnLockFor,
    SgnHorizon,   \* bound: the last moment looked at
    SgnStarts     \* bound: attempts begun

\* One key or two different ones: a sign-in asks for the address and for the
\* address with the user, any other check for one (reauth.go:98-107).
ASSUME SgnAssumption ==
    /\ {SgnMax, SgnCap, SgnWindow, SgnLockFor, SgnHorizon} \subseteq Nat \ {0}
    /\ SgnStarts \in Nat
    /\ SgnAsks \in [SgnAttempts -> Seq(SgnKeys)]
    /\ \A a \in SgnAttempts :
          Len(SgnAsks[a]) = 1 \/ (Len(SgnAsks[a]) = 2 /\ SgnAsks[a][1] # SgnAsks[a][2])

VARIABLES
    sgnNow,      \* the clock
    sgnLimit,    \* maxFails, 0 when disabled
    sgnEntries,  \* loginLimiter.entries, a record for each present key
    sgnAt,       \* where each attempt is
    sgnStarted,  \* attempts begun (bound)
    sgnSlack,    \* attempts under way when the key's entry was last dropped (history)
    sgnSetup,    \* the two requests of handleInitSetup
    sgnAdmin     \* Auth: the setup request that made the account, 0 for none

sgnVars == <<sgnNow, sgnLimit, sgnEntries, sgnAt, sgnStarted, sgnSlack,
             sgnSetup, sgnAdmin>>
sgnFixed == <<sgnNow, sgnLimit, sgnSetup, sgnAdmin>>

SgnKinds == {"check", "fail", "reset", "release", "undo"}
SgnIdle == [step |-> "check", key |-> 1]    \* about to ask for its first key
SgnNoEntry == [in |-> FALSE, fails |-> 0, pending |-> 0, first |-> 0, until |-> 0]
SgnRequests == {1, 2}

\* The attempts that hold, or believe they hold, a place under k.
SgnHolds(a, k) ==
    \E i \in DOMAIN SgnAsks[a] : SgnAsks[a][i] = k /\
        CASE sgnAt[a].step = "check" -> i < sgnAt[a].key
          [] sgnAt[a].step = "undo" -> i = 1
          [] OTHER -> i >= sgnAt[a].key
SgnUnderWay(k) == {a \in SgnAttempts : SgnHolds(a, k)}

-----------------------------------------------------------------------------
(* loginLimiter. *)

SgnExpired(e) == /\ e.pending = 0 /\ sgnNow > e.until
                 /\ sgnNow - e.first >= SgnWindow

SgnSwept(table) == [k \in SgnKeys |->
    IF table[k].in /\ SgnExpired(table[k]) THEN SgnNoEntry ELSE table[k]]

SgnPresent(table) == {k \in SgnKeys : table[k].in}

\* The entry a new attempt or failure is counted in: a window that is over
\* forgets the failures, never the attempts under way.
SgnCurrent(e) ==
    IF ~e.in THEN [SgnNoEntry EXCEPT !.in = TRUE, !.first = sgnNow]
    ELSE IF sgnNow - e.first > SgnWindow
         THEN [e EXCEPT !.fails = 0, !.first = sgnNow] ELSE e

\* trimToCap and evictOne: who failed longest ago goes, and what is locked or
\* under way only when there is nothing else, the soonest unlocked first.
SgnTrimmed(table) ==
    LET kept == SgnSwept(table)
        in == SgnPresent(kept)
        plain == {k \in in : kept[k].pending = 0 /\ sgnNow >= kept[k].until}
        victims == IF plain # {}
            THEN {k \in plain : \A m \in plain : kept[k].first <= kept[m].first}
            ELSE {k \in in : \A m \in in : kept[k].until <= kept[m].until}
    IN IF Cardinality(SgnPresent(table)) <= SgnCap THEN {table}
       ELSE IF Cardinality(in) <= SgnCap THEN {kept}
       ELSE {[kept EXCEPT ![k] = SgnNoEntry] : k \in victims}

\* Acquire refuses k, with the table it leaves.
SgnRefuses(table, k) ==
    \/ table[k].in /\ sgnNow < table[k].until
    \/ SgnCurrent(table[k]).fails + SgnCurrent(table[k]).pending >= sgnLimit

SgnRefusal(table, k) ==
    IF sgnNow < table[k].until THEN table ELSE [table EXCEPT ![k] = SgnCurrent(@)]

\* Mutant of SgnGranted: only failures that are on the books count.
SgnGrantedUncounted(table, k) == SgnTrimmed([table EXCEPT ![k] = SgnCurrent(@)])

SgnGranted(table, k) ==
    SgnTrimmed([table EXCEPT ![k] = [SgnCurrent(table[k]) EXCEPT !.pending = @ + 1]])

SgnLess(n) == IF n > 0 THEN n - 1 ELSE 0

SgnReleased(table, k) ==
    LET e == [table[k] EXCEPT !.pending = SgnLess(@)]
    IN IF ~e.in THEN table
       ELSE [table EXCEPT ![k] = IF e.fails = 0 /\ e.pending = 0 /\ e.until = 0
                                 THEN SgnNoEntry ELSE e]

SgnFailed(table, k) ==
    LET swept == SgnSwept(table)
        e == [SgnCurrent(swept[k]) EXCEPT !.pending = SgnLess(@), !.fails = @ + 1]
        locked == [e EXCEPT !.until = sgnNow + SgnLockFor, !.fails = 0,
                            !.first = sgnNow]
    IN IF sgnLimit = 0 THEN {SgnReleased(table, k)}
       ELSE SgnTrimmed([swept EXCEPT ![k] = IF e.fails >= sgnLimit THEN locked ELSE e])

\* An entry that is dropped takes with it what was counted of the attempts
\* still under way.
SgnSet(table) ==
    /\ sgnEntries' = table
    /\ sgnSlack' = [k \in SgnKeys |-> IF table[k].in THEN sgnSlack[k]
                                      ELSE Cardinality(SgnUnderWay(k)')]

-----------------------------------------------------------------------------
(* handleLogin: the address's key, then the user's; handleVerifyIdentity:  *)
(* one key.                                                                *)

SgnStep(a, step, key) == sgnAt' = [sgnAt EXCEPT ![a] = [step |-> step, key |-> key]]
SgnOver(a) == sgnAt' = [sgnAt EXCEPT ![a] = SgnIdle]

SgnCounts(a) ==
    /\ sgnAt[a] = SgnIdle => sgnStarted < SgnStarts
    /\ sgnStarted' = IF sgnAt[a] = SgnIdle THEN sgnStarted + 1 ELSE sgnStarted

SgnAcquire(a) ==
    LET k == SgnAsks[a][sgnAt[a].key] table == SgnSwept(sgnEntries) IN
    /\ sgnAt[a].step = "check" /\ sgnAt[a].key <= Len(SgnAsks[a])
    /\ \/ /\ sgnLimit # 0 /\ ~SgnRefuses(table, k)
          /\ SgnStep(a, "check", sgnAt[a].key + 1)
          /\ \E t \in SgnGranted(table, k) : SgnSet(t)
       \/ /\ sgnLimit = 0
          /\ SgnStep(a, "check", sgnAt[a].key + 1)
          /\ UNCHANGED <<sgnEntries, sgnSlack>>
    /\ SgnCounts(a)
    /\ UNCHANGED sgnFixed

\* Mutant of SgnRefused: the address's place is kept when the user is refused.
SgnRefusedKept(a) ==
    LET k == SgnAsks[a][sgnAt[a].key] table == SgnSwept(sgnEntries) IN
    /\ sgnAt[a].step = "check" /\ sgnAt[a].key <= Len(SgnAsks[a])
    /\ sgnLimit # 0 /\ SgnRefuses(table, k)
    /\ SgnOver(a)
    /\ SgnSet(SgnRefusal(table, k))
    /\ SgnCounts(a)
    /\ UNCHANGED sgnFixed

\* The second refusal gives the first place back, under the lock once more.
SgnRefused(a) ==
    LET k == SgnAsks[a][sgnAt[a].key] table == SgnSwept(sgnEntries) IN
    /\ sgnAt[a].step = "check" /\ sgnAt[a].key <= Len(SgnAsks[a])
    /\ sgnLimit # 0 /\ SgnRefuses(table, k)
    /\ IF sgnAt[a].key = 1 THEN SgnOver(a) ELSE SgnStep(a, "undo", 1)
    /\ SgnSet(SgnRefusal(table, k))
    /\ SgnCounts(a)
    /\ UNCHANGED sgnFixed

SgnUndo(a) ==
    /\ sgnAt[a].step = "undo"
    /\ SgnOver(a)
    /\ SgnSet(SgnReleased(sgnEntries, SgnAsks[a][1]))
    /\ UNCHANGED <<sgnFixed, sgnStarted>>

\* The password is checked, or the request has no conclusion: the account is
\* not set up, or the body cannot be read.
SgnConclude(a) ==
    /\ sgnAt[a].step = "check" /\ sgnAt[a].key > Len(SgnAsks[a])
    /\ \E step \in SgnKinds \ {"check", "undo"} : SgnStep(a, step, 1)
    /\ UNCHANGED <<sgnNow, sgnLimit, sgnEntries, sgnStarted, sgnSlack, sgnSetup,
                   sgnAdmin>>

SgnGiveBack(a) ==
    LET k == SgnAsks[a][sgnAt[a].key] IN
    /\ sgnAt[a].step \in {"fail", "reset", "release"}
    /\ IF sgnAt[a].key = Len(SgnAsks[a]) THEN SgnOver(a)
       ELSE SgnStep(a, sgnAt[a].step, sgnAt[a].key + 1)
    /\ \E t \in CASE sgnAt[a].step = "fail" -> SgnFailed(sgnEntries, k)
                  [] sgnAt[a].step = "reset" -> {[sgnEntries EXCEPT ![k] = SgnNoEntry]}
                  [] OTHER -> {SgnReleased(sgnEntries, k)} : SgnSet(t)
    /\ UNCHANGED <<sgnFixed, sgnStarted>>

\* update: the lock is switched off, or on again, in the settings.
SgnUpdate ==
    /\ sgnLimit' = SgnMax - sgnLimit
    /\ sgnSlack' = [k \in SgnKeys |-> Cardinality(SgnUnderWay(k))]
    /\ UNCHANGED <<sgnNow, sgnEntries, sgnAt, sgnStarted, sgnSetup, sgnAdmin>>

SgnTimePasses ==
    /\ sgnNow < SgnHorizon
    /\ sgnNow' = sgnNow + 1
    /\ UNCHANGED <<sgnLimit, sgnEntries, sgnAt, sgnStarted, sgnSlack, sgnSetup,
                   sgnAdmin>>

-----------------------------------------------------------------------------
(* handleInitSetup: a look at the configuration, a slow hash, and a second *)
(* look inside Update.                                                     *)

SgnSetupUnchanged == UNCHANGED <<sgnNow, sgnLimit, sgnEntries, sgnAt, sgnStarted, sgnSlack>>

SgnSetupLook(r) ==
    /\ sgnSetup[r] = "new"
    /\ sgnSetup' = [sgnSetup EXCEPT ![r] = IF sgnAdmin = 0 THEN "hash" ELSE "conflict"]
    /\ UNCHANGED sgnAdmin /\ SgnSetupUnchanged

\* Mutant of SgnSetupSave: Update does not look again.
SgnSetupSaveBlind(r) ==
    /\ sgnSetup[r] = "hash"
    /\ sgnAdmin' = r
    /\ sgnSetup' = [sgnSetup EXCEPT ![r] = "ok"]
    /\ SgnSetupUnchanged

\* The save may fail; Update then leaves the configuration as it was.
SgnSetupSave(r) ==
    /\ sgnSetup[r] = "hash"
    /\ \/ /\ sgnAdmin = 0 /\ sgnAdmin' = r
          /\ sgnSetup' = [sgnSetup EXCEPT ![r] = "ok"]
       \/ /\ sgnAdmin # 0
          /\ sgnSetup' = [sgnSetup EXCEPT ![r] = "conflict"] /\ UNCHANGED sgnAdmin
       \/ /\ sgnSetup' = [sgnSetup EXCEPT ![r] = "error"] /\ UNCHANGED sgnAdmin
    /\ SgnSetupUnchanged

SgnInit ==
    /\ sgnNow = 1
    /\ sgnLimit = SgnMax
    /\ sgnEntries = [k \in SgnKeys |-> SgnNoEntry]
    /\ sgnAt = [a \in SgnAttempts |-> SgnIdle]
    /\ sgnStarted = 0
    /\ sgnSlack = [k \in SgnKeys |-> 0]
    /\ sgnSetup = [r \in SgnRequests |-> "new"]
    /\ sgnAdmin = 0

SgnNext ==
    \/ \E a \in SgnAttempts :
          \/ SgnAcquire(a) \/ SgnRefused(a) \/ SgnUndo(a)
          \/ SgnConclude(a) \/ SgnGiveBack(a)
    \/ SgnUpdate \/ SgnTimePasses

SgnSetupNext == \E r \in SgnRequests : SgnSetupLook(r) \/ SgnSetupSave(r)

SgnSpec == SgnInit /\ [][SgnNext \/ SgnSetupNext]_sgnVars
-----------------------------------------------------------------------------
(* Properties. *)

SgnTypeOK ==
    /\ sgnNow \in 1..SgnHorizon /\ sgnLimit \in {0, SgnMax}
    /\ sgnEntries \in [SgnKeys -> [in : BOOLEAN, fails : Nat, pending : Nat,
                                   first : Nat, until : Nat]]
    /\ Cardinality(SgnPresent(sgnEntries)) <= SgnCap
    /\ sgnAt \in [SgnAttempts -> [step : SgnKinds, key : Nat]]
    /\ sgnSlack \in [SgnKeys -> Nat]
    /\ sgnSetup \in [SgnRequests -> {"new", "hash", "ok", "conflict", "error"}]

\* Every place counted under a key is an attempt that is still under way:
\* nothing is left behind to lock the key out, whichever way attempts end,
\* entries are dropped and the lock is switched off and on in between
\* (ratelimit.go:104-204, api_auth.go:199-243).
SgnPlacesAreReal ==
    \A k \in SgnKeys : sgnEntries[k].pending <= Cardinality(SgnUnderWay(k))

\* However many attempts arrive at once, no more than the limit are under way
\* or already failed under a key, but for those that a dropped entry had
\* counted (ratelimit.go:104-143).
SgnBurstIsBounded ==
    sgnLimit # 0 => \A k \in SgnKeys :
        Cardinality(SgnUnderWay(k)) + sgnEntries[k].fails <= sgnLimit + sgnSlack[k]

\* One setup request makes the account and only it is told so
\* (api_auth.go:96-134).
SgnSetupOnce == \A r \in SgnRequests : sgnSetup[r] = "ok" => sgnAdmin = r

AttemptsAreCounted == SgnPlacesAreReal /\ SgnBurstIsBounded /\ SgnSetupOnce
=============================================================================
