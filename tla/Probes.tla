------------------------------- MODULE Probes -------------------------------
(***************************************************************************)
(* The health of what the web services lead to, and the log of the sources *)
(* they refuse (internal/modules/webservice/probe.go, accesslog.go).       *)
(*                                                                         *)
(* PrbNext: one goroutine sweeps: it copies the targets under the module's *)
(* lock, picks those that are due under another, probes them side by side  *)
(* and records each result under a third, while a reload may install other *)
(* targets.  DenNext: a refused source is logged once in a while, and no   *)
(* more lines than the module's rate allows.                               *)
(***************************************************************************)
EXTENDS Integers, FiniteSets, Sequences

CONSTANTS
    PrbChildren, PrbBackends,      \* children, and what a child may lead to
    PrbInterval, PrbTick, PrbHorizon, PrbMaxReloads,
    DenKeys, DenWindow, DenSweep, DenCap, DenRate, DenHorizon, DenMaxAsks

ASSUME PrbAssumption ==
    /\ {PrbInterval, PrbTick, DenWindow, DenSweep, DenRate, DenHorizon} \subseteq Nat \ {0}
    /\ {PrbHorizon, PrbMaxReloads, DenCap, DenMaxAsks} \subseteq Nat
    /\ 0 \notin PrbBackends

VARIABLES
    prbTargets,    \* probeTargets: the backend of every child, 0 for none
    prbNext,       \* probeNext: when a child is due again, 0 for at once
    prbStatus,     \* linkStatus: for every child what was probed and how it went
    prbLogged,     \* linkLogState
    prbKick,       \* probeKick holds a token
    prbSweep,      \* the sweep: its place, its start, the targets it copied
    prbReload,     \* the reload: idle, or its targets
    prbClosed,     \* probeStop is closed
    prbClock, prbTicked, prbReloads,
    prbSaid,       \* the last line logged about every child
    prbLate        \* children a sweep got wrong because a reload came between
prbVars == <<prbTargets, prbNext, prbStatus, prbLogged, prbKick, prbSweep, prbReload, prbClosed,
             prbClock, prbTicked, prbReloads, prbSaid, prbLate>>

VARIABLES
    denSeen,       \* buckets: when a source was last let through, 0 for never
    denClean,      \* lastClean
    denTokens, denLast,
    denClock, denAsks,
    denLines,      \* the lines logged, with their times
    denEmptied     \* the buckets were thrown away when there were too many
denVars == <<denSeen, denClean, denTokens, denLast, denClock, denAsks, denLines, denEmptied>>

PrbUnknown == [backend |-> 0, ok |-> TRUE]
PrbNobody == [c \in PrbChildren |-> 0]
PrbIdle == [at |-> "idle", now |-> 0, targets |-> PrbNobody]

-----------------------------------------------------------------------------
(* A reload holds the module's lock from its first step to its last.        *)

PrbReloadBegins(targets) ==
    /\ ~prbClosed /\ prbReload = <<>> /\ prbReloads < PrbMaxReloads
    /\ prbReload' = <<targets>> /\ prbReloads' = prbReloads + 1
    /\ prbStatus' = [c \in PrbChildren |-> IF targets[c] = 0 THEN PrbUnknown ELSE prbStatus[c]]
    /\ prbLate' = {}
    /\ UNCHANGED <<prbTargets, prbNext, prbLogged, prbKick, prbSweep, prbClosed, prbClock,
                   prbTicked, prbSaid>>

\* Mutant of PrbDueAgain: the times of children that stay are kept.
PrbDueAgainKept(targets) == [c \in PrbChildren |-> IF targets[c] = 0 THEN 0 ELSE prbNext[c]]

\* refreshProbeTargets forgets when anything is due.
PrbDueAgain(targets) == [c \in PrbChildren |-> 0]

PrbReloadEnds ==
    /\ prbReload # <<>> /\ prbReload' = <<>>
    /\ prbTargets' = prbReload[1] /\ prbNext' = PrbDueAgain(prbReload[1])
    /\ prbLogged' = [c \in PrbChildren |-> IF prbReload[1][c] = 0 THEN "none" ELSE prbLogged[c]]
    /\ prbSaid' = [c \in PrbChildren |-> IF prbReload[1][c] = 0 THEN "none" ELSE prbSaid[c]]
    /\ prbKick' = TRUE
    /\ UNCHANGED <<prbStatus, prbSweep, prbClosed, prbClock, prbTicked, prbReloads, prbLate>>

-----------------------------------------------------------------------------
(* A sweep: on a kick, or on a tick.                                        *)

PrbWakes ==
    /\ prbSweep.at = "idle" /\ ~prbClosed
    /\ \/ prbKick /\ prbKick' = FALSE /\ UNCHANGED prbTicked
       \/ prbClock >= prbTicked + PrbTick /\ prbTicked' = prbClock /\ UNCHANGED prbKick
    /\ prbSweep' = [prbSweep EXCEPT !.at = "wakes", !.now = prbClock]
    /\ UNCHANGED <<prbTargets, prbNext, prbStatus, prbLogged, prbReload, prbClosed, prbClock,
                   prbReloads, prbSaid, prbLate>>

PrbCopies ==
    /\ prbSweep.at = "wakes" /\ prbReload = <<>>
    /\ prbSweep' = [prbSweep EXCEPT !.at = "copied", !.targets = prbTargets]
    /\ UNCHANGED <<prbTargets, prbNext, prbStatus, prbLogged, prbKick, prbReload, prbClosed,
                   prbClock, prbTicked, prbReloads, prbSaid, prbLate>>

\* Those that are due get their next time and are probed.
PrbDue == {c \in PrbChildren : prbSweep.targets[c] # 0 /\ (prbNext[c] = 0 \/ prbSweep.now > prbNext[c])}

PrbPicks ==
    /\ prbSweep.at = "copied"
    /\ prbNext' = [c \in PrbChildren |-> IF c \in PrbDue THEN prbSweep.now + PrbInterval
                                         ELSE prbNext[c]]
    /\ prbSweep' = [prbSweep EXCEPT !.at = "probes",
                       !.targets = [c \in PrbChildren |-> IF c \in PrbDue THEN @[c] ELSE 0]]
    /\ prbLate' = prbLate \union {c \in PrbDue : prbSweep.targets[c] # prbTargets[c]}
    /\ UNCHANGED <<prbTargets, prbStatus, prbLogged, prbKick, prbReload, prbClosed, prbClock,
                   prbTicked, prbReloads, prbSaid>>

\* What a child is to lead to, once the reload that is under way has ended.
PrbWanted == IF prbReload = <<>> THEN prbTargets ELSE prbReload[1]

PrbRecords(c, ok) ==
    LET said == IF ok THEN "well" ELSE "ill"
    IN  /\ prbSweep.at = "probes" /\ prbSweep.targets[c] # 0
        /\ prbSweep' = [prbSweep EXCEPT !.targets[c] = 0]
        /\ prbStatus' = [prbStatus EXCEPT ![c] = [backend |-> prbSweep.targets[c], ok |-> ok]]
        /\ prbLogged' = [prbLogged EXCEPT ![c] = said]
        /\ prbSaid' = IF prbLogged[c] = said THEN prbSaid ELSE [prbSaid EXCEPT ![c] = said]
        /\ prbLate' = IF prbSweep.targets[c] = PrbWanted[c] THEN prbLate ELSE prbLate \union {c}
        /\ UNCHANGED <<prbTargets, prbNext, prbKick, prbReload, prbClosed, prbClock, prbTicked,
                       prbReloads>>

PrbSweepEnds ==
    /\ prbSweep.at = "probes" /\ prbSweep.targets = PrbNobody
    /\ prbSweep' = PrbIdle
    /\ UNCHANGED <<prbTargets, prbNext, prbStatus, prbLogged, prbKick, prbReload, prbClosed,
                   prbClock, prbTicked, prbReloads, prbSaid, prbLate>>

PrbClose ==
    /\ ~prbClosed /\ prbReload = <<>> /\ prbClosed' = TRUE
    /\ UNCHANGED <<prbTargets, prbNext, prbStatus, prbLogged, prbKick, prbSweep, prbReload,
                   prbClock, prbTicked, prbReloads, prbSaid, prbLate>>

PrbTimePasses ==
    /\ prbClock < PrbHorizon /\ prbClock' = prbClock + 1
    /\ UNCHANGED <<prbTargets, prbNext, prbStatus, prbLogged, prbKick, prbSweep, prbReload,
                   prbClosed, prbTicked, prbReloads, prbSaid, prbLate>>

PrbInit ==
    /\ prbTargets = PrbNobody /\ prbNext = PrbNobody
    /\ prbStatus = [c \in PrbChildren |-> PrbUnknown]
    /\ prbLogged = [c \in PrbChildren |-> "none"] /\ prbSaid = prbLogged
    /\ prbKick = FALSE /\ prbSweep = PrbIdle /\ prbReload = <<>> /\ prbClosed = FALSE
    /\ prbClock = 1 /\ prbTicked = 1 /\ prbReloads = 0 /\ prbLate = {}

PrbNextStep ==
    \/ \E targets \in [PrbChildren -> PrbBackends \union {0}] : PrbReloadBegins(targets)
    \/ PrbReloadEnds \/ PrbWakes \/ PrbCopies \/ PrbPicks \/ PrbSweepEnds \/ PrbClose
    \/ \E c \in PrbChildren, ok \in BOOLEAN : PrbRecords(c, ok)
    \/ PrbTimePasses

-----------------------------------------------------------------------------
(* The log of refusals.                                                     *)

DenKept(seen) == [k \in DenKeys |-> IF seen[k] # 0 /\ denClock - seen[k] < DenWindow
                                    THEN seen[k] ELSE 0]
DenNumber(seen) == Cardinality({k \in DenKeys : seen[k] # 0})

\* The buckets at the time of a call: cleaned once in a window.
DenNow == IF denClock - denClean >= DenSweep THEN DenKept(denSeen) ELSE denSeen

\* What is over the cap is cleaned, and thrown away if it still is.
DenPut(k) ==
    LET put == [DenNow EXCEPT ![k] = denClock]
    IN  IF DenNumber(put) <= DenCap THEN [seen |-> put, emptied |-> FALSE]
        ELSE IF DenNumber(DenKept(put)) <= DenCap THEN [seen |-> DenKept(put), emptied |-> FALSE]
        ELSE [seen |-> [o \in DenKeys |-> 0], emptied |-> TRUE]

\* Mutant of DenSuppressed: a suppressed source starts its window anew when
\* it is older than half of it.
DenSuppressedHalf(k) == DenNow[k] # 0 /\ 2 * (denClock - DenNow[k]) < DenWindow

DenSuppressed(k) == DenNow[k] # 0 /\ denClock - DenNow[k] < DenWindow

DenFilled == LET more == denTokens + (denClock - denLast) * DenRate
             IN  IF more > DenRate THEN DenRate ELSE more

\* recordDenied: the source is noted before the rate is asked for.
DenAsk(k) ==
    /\ denAsks < DenMaxAsks /\ denAsks' = denAsks + 1
    /\ denClean' = IF denClock - denClean >= DenSweep THEN denClock ELSE denClean
    /\ IF DenSuppressed(k)
       THEN denSeen' = DenNow /\ UNCHANGED <<denTokens, denLast, denLines, denEmptied>>
       ELSE /\ denSeen' = DenPut(k).seen
            /\ denEmptied' = IF DenPut(k).emptied THEN denClock ELSE denEmptied
            /\ denLast' = denClock
            /\ denTokens' = IF DenFilled >= 1 THEN DenFilled - 1 ELSE DenFilled
            /\ denLines' = IF DenFilled >= 1 THEN Append(denLines, [key |-> k, time |-> denClock])
                           ELSE denLines
    /\ UNCHANGED denClock

DenTimePasses ==
    /\ denClock < DenHorizon /\ denClock' = denClock + 1
    /\ UNCHANGED <<denSeen, denClean, denTokens, denLast, denAsks, denLines, denEmptied>>

DenInit ==
    /\ denSeen = [k \in DenKeys |-> 0] /\ denClean = 1 /\ denTokens = DenRate /\ denLast = 1
    /\ denClock = 1 /\ denAsks = 0 /\ denLines = <<>> /\ denEmptied = 0

DenNextStep == (\E k \in DenKeys : DenAsk(k)) \/ DenTimePasses

-----------------------------------------------------------------------------
\* Every variable has its type.
PrbTypeOK ==
    /\ prbTargets \in [PrbChildren -> PrbBackends \union {0}]
    /\ prbSweep.at \in {"idle", "wakes", "copied", "probes"} /\ prbKick \in BOOLEAN
    /\ prbLate \subseteq PrbChildren
    /\ denTokens \in 0..DenRate /\ denEmptied \in 0..DenHorizon

\* Unless a reload came between a sweep's copy and its picking or recording:
\* what is shown of a child is about what it leads to now once the sweep
\* that a reload kicked is over, a child that is gone has no status, and a
\* target nobody has probed yet is due at once; and the last line about a
\* child says how its last probe went.
PrbIsTrue ==
    /\ prbReload = <<>> => \A c \in PrbChildren \ prbLate :
          /\ prbTargets[c] = 0 => prbStatus[c] = PrbUnknown
          /\ prbTargets[c] # 0 /\ prbStatus[c].backend # prbTargets[c] =>
                \/ prbNext[c] = 0 \/ prbSweep.targets[c] = prbTargets[c]
          /\ ~prbKick /\ prbSweep.at = "idle" /\ prbTargets[c] # 0 /\ ~prbClosed =>
                prbStatus[c].backend = prbTargets[c]
    /\ \A c \in PrbChildren : prbSaid[c] = prbLogged[c]

\* A source is logged at most once in a window, unless the buckets were
\* thrown away since; and two units of time have no more lines between them
\* than the rate allows for both.
DenIsBounded ==
    /\ \A i, j \in DOMAIN denLines :
          i < j /\ denLines[i].key = denLines[j].key
             /\ ~(denEmptied >= denLines[i].time) =>
          denLines[j].time - denLines[i].time >= DenWindow
    /\ \A t \in 1..DenHorizon :
          Cardinality({i \in DOMAIN denLines : denLines[i].time \in {t, t + 1}}) <= 2 * DenRate

ProbesAreTrue == PrbIsTrue /\ DenIsBounded
=============================================================================
