---------------------------- MODULE CertRenewal ----------------------------
(***************************************************************************)
(* The daily renewal of certificates (internal/modules/cert/cert.go).      *)
(* Time is counted in half days: the renewal time of every certificate is  *)
(* noon, and a certificate may expire at midnight or at noon.  One run     *)
(* handles the certificates in their order; it is cut when it takes more   *)
(* than its 30 minutes, and what it has marked stays marked for the day.   *)
(***************************************************************************)
EXTENDS Naturals, Sequences

CONSTANTS
    RenCount,       \* certificates with AutoRenew, in configuration order
    RenBefore,      \* RenewBeforeDays
    RenLife,        \* half days a new certificate is valid
    RenHorizon,     \* bound: half days looked at
    RenMaxTroubles  \* bound: orders that fail, runs that are cut, noons the
                    \* process is not up

ASSUME RenAssumption ==
    /\ RenCount \in Nat /\ RenBefore \in Nat \ {0} /\ RenHorizon \in Nat
    /\ RenLife \in Nat /\ RenLife > 2 * RenBefore /\ RenMaxTroubles \in Nat

RenCerts == 1..RenCount

VARIABLES
    renNow,       \* the clock
    renNotAfter,  \* when each certificate expires
    renChecked,   \* Module.lastRenewCheck, 0 before the first check
    renDue,       \* the certificates the current run still has to handle
    renManual,    \* certificates an IssueAsync of the user is working on
    renTried,     \* certificates the loop has ordered today (history)
    renTroubles

renVars == <<renNow, renNotAfter, renChecked, renDue, renManual, renTried,
             renTroubles>>

RenToday == renNow \div 2 + 1
RenNoon == renNow % 2 = 1
RenTrouble == renTroubles < RenMaxTroubles /\ renTroubles' = renTroubles + 1

\* remainingDays rounds a part of a day up; renewalDueAt.
RenRemaining(c) ==
    IF renNotAfter[c] <= renNow THEN 0 ELSE (renNotAfter[c] - renNow + 1) \div 2

\* Mutant of RenewalDueAt: on the last of its days it is not due yet.
RenewalDueLate(c) == RenRemaining(c) < RenBefore

RenewalDueAt(c) == RenRemaining(c) <= RenBefore

\* renewCheckDue: from noon on, once a day.
RenCheckDue(c) == RenNoon /\ renChecked[c] # RenToday

-----------------------------------------------------------------------------
\* The loop's tick: the run marks every certificate it is due to check.
RenRunBegins ==
    LET Due == {c \in RenCerts : RenCheckDue(c)} IN
    /\ renDue = {} /\ Due # {}
    /\ renDue' = Due
    /\ renChecked' = [c \in RenCerts |-> IF c \in Due THEN RenToday
                                         ELSE renChecked[c]]
    /\ UNCHANGED <<renNow, renNotAfter, renManual, renTried, renTroubles>>

RenRenewed(c) == renNotAfter' = [renNotAfter EXCEPT ![c] = renNow + RenLife]

\* The next certificate of the run, in the order of the configuration: not due
\* yet, ordered, refused because the user's own request is working on it, or the
\* order fails.
RenRunNext(c) ==
    /\ c \in renDue /\ \A d \in renDue : c <= d
    /\ renDue' = renDue \ {c}
    /\ \/ /\ ~RenewalDueAt(c) \/ c \in renManual
          /\ UNCHANGED <<renNotAfter, renTried, renTroubles>>
       \/ /\ RenewalDueAt(c) /\ c \notin renManual
          /\ renTried' = Append(renTried, c)
          /\ \/ RenRenewed(c) /\ UNCHANGED renTroubles
             \/ RenTrouble /\ UNCHANGED renNotAfter
    /\ UNCHANGED <<renNow, renChecked, renManual>>

\* The run's context is done: the rest is left for tomorrow.
RenRunCut ==
    /\ renDue # {} /\ RenTrouble
    /\ renDue' = {}
    /\ UNCHANGED <<renNow, renNotAfter, renChecked, renManual, renTried>>

\* IssueAsync of the user: refused while the certificate is not due.
RenManualBegins(c) ==
    /\ RenewalDueAt(c) /\ c \notin renManual
    /\ renManual' = renManual \union {c}
    /\ UNCHANGED <<renNow, renNotAfter, renChecked, renDue, renTried, renTroubles>>

RenManualEnds(c) ==
    /\ c \in renManual
    /\ renManual' = renManual \ {c}
    /\ \/ RenRenewed(c) /\ UNCHANGED renTroubles
       \/ RenTrouble /\ UNCHANGED renNotAfter
    /\ UNCHANGED <<renNow, renChecked, renDue, renTried>>

\* Half a day passes, with the process up: its loop ticks every minute, so
\* the run of a noon has begun and ended, and an order takes minutes.
RenTimePasses ==
    /\ renNow < RenHorizon /\ renDue = {} /\ renManual = {}
    /\ \A c \in RenCerts : ~RenCheckDue(c)
    /\ renNow' = renNow + 1
    /\ renTried' = IF RenNoon THEN <<>> ELSE renTried
    /\ UNCHANGED <<renNotAfter, renChecked, renDue, renManual, renTroubles>>

\* The process is down over a noon, and starts without any mark.
RenDown ==
    /\ renNow < RenHorizon /\ RenTrouble
    /\ renNow' = renNow + 2 - (renNow % 2)
    /\ renChecked' = [c \in RenCerts |-> 0]
    /\ renDue' = {} /\ renManual' = {} /\ renTried' = <<>>
    /\ UNCHANGED renNotAfter

RenInit ==
    /\ renNow = 0
    /\ renNotAfter = [c \in RenCerts |-> RenLife + c]
    /\ renChecked = [c \in RenCerts |-> 0]
    /\ renDue = {} /\ renManual = {} /\ renTried = <<>>
    /\ renTroubles = 0

RenNext ==
    \/ RenRunBegins \/ RenRunCut
    \/ \E c \in RenCerts : RenRunNext(c) \/ RenManualBegins(c) \/ RenManualEnds(c)
    \/ RenTimePasses \/ RenDown

RenSpec == RenInit /\ [][RenNext]_renVars

-----------------------------------------------------------------------------
(* Properties. *)

RenTypeOK ==
    /\ renNow \in 0..RenHorizon + 2
    /\ renNotAfter \in [RenCerts -> Nat]
    /\ renChecked \in [RenCerts -> Nat]
    /\ renDue \subseteq RenCerts /\ renManual \subseteq RenCerts
    /\ renTried \in Seq(RenCerts)
    /\ renTroubles \in 0..RenMaxTroubles

\* A certificate does not expire as long as fewer days go wrong than it is
\* renewed ahead of time, though each day has one run only and that may be
\* cut, and no process orders it more than once a day (cert.go:124-205, 312-342).
RenewedInTime ==
    /\ renTroubles < RenBefore => \A c \in RenCerts : renNow < renNotAfter[c]
    /\ \A i, j \in DOMAIN renTried : renTried[i] = renTried[j] => i = j
=============================================================================
