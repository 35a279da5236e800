----------------------------- MODULE UpdateCheck -----------------------------
(***************************************************************************)
(* The look for a newer version (internal/server/api_settings.go): asks of    *)
(* pages, answered from the result kept by the process or by a manifest, or   *)
(* else by GitHub's latest release and, without one, its first tag; saves of  *)
(* the source, failing and limited calls, restarts.                           *)
(*                                                                         *)
(* A version is the sequence of its parts; the table below gives each part    *)
(* its place in the order of texts and its number, if it is one.              *)
(***************************************************************************)
EXTENDS Integers, SequencesExt

CONSTANTS
    ChkAsks,       \* the asks
    ChkVersions,   \* the versions in the order they are published
    ChkTtl,        \* how long a result is kept (updateCheckCacheTTL)
    ChkHorizon,    \* bound: the clock
    ChkMaxTroubles \* bound: calls that fail, starts, saves

ChkPartTexts == <<"", "0", "1", "10", "9", "9b">>
ChkNumber == [p \in ToSet(ChkPartTexts) |->
                 CASE p = "0" -> 0 [] p = "1" -> 1 [] p = "9" -> 9 [] p = "10" -> 10 [] OTHER -> -1]
ChkOrder(p) == CHOOSE i \in DOMAIN ChkPartTexts : ChkPartTexts[i] = p

ASSUME ChkAssumption ==
    /\ ChkVersions \in Seq(Seq(ToSet(ChkPartTexts) \ {""})) /\ ChkVersions # <<>>
    /\ ChkTtl \in Nat \ {0}
    /\ {ChkHorizon, ChkMaxTroubles} \subseteq Nat

VARIABLES
    chkSource,    \* where to look: "manifest", "github"
    chkPublished, \* the newest version of the manifest, the release, the first tag (0: none)
    chkLimited,   \* GitHub limits the calls
    chkRunning,   \* the version that runs
    chkCache,     \* the result kept
    chkAt,        \* the asks
    chkClock,
    chkTroubles

chkVars == <<chkSource, chkPublished, chkLimited, chkRunning, chkCache, chkAt, chkClock,
             chkTroubles>>

ChkNoResult == [says |-> "none", latest |-> 0, newer |-> FALSE, asked |-> 0, from |-> "none"]
ChkFresh == [at |-> "new", from |-> "none", asked |-> 0, result |-> ChkNoResult]
ChkTrouble == /\ chkTroubles < ChkMaxTroubles /\ chkTroubles' = chkTroubles + 1

-----------------------------------------------------------------------------
(* versionGreater.                                                          *)

ChkPart(version, i) == IF i \in DOMAIN version THEN version[i] ELSE ""

\* Numbers as numbers, anything else as text; a part that is missing is no number.
ChkAbove(l, c) == IF ChkNumber[l] # -1 /\ ChkNumber[c] # -1 THEN ChkNumber[l] > ChkNumber[c]
                                                           ELSE ChkOrder(l) > ChkOrder(c)
\* The first part that differs decides.
ChkGreater(latest, current) ==
    LET n == IF Len(latest) > Len(current) THEN Len(latest) ELSE Len(current)
        differ == {i \in 1..n : ChkPart(latest, i) # ChkPart(current, i)} IN
    \E i \in differ : /\ \A j \in differ : i <= j
                      /\ ChkAbove(ChkPart(latest, i), ChkPart(current, i))

\* The publisher numbers upwards.  Pairs are named one by one, since the order
\* is not transitive: 2b is above 10 as a text, 9 above 2b, and 10 above 9.
ASSUME ChkPublishedAscend ==
    \A older, newer \in DOMAIN ChkVersions :
        older < newer => ChkGreater(ChkVersions[newer], ChkVersions[older])

-----------------------------------------------------------------------------
\* Mutant of ChkKept: the result is kept whatever the time.
ChkKeptForEver == chkCache.says # "none"

ChkKept == chkCache.says # "none" /\ chkClock < chkCache.asked + ChkTtl

\* Answered at once from what is kept, unless the page insists.
ChkAsk(a, force) ==
    /\ chkAt[a].at = "new"
    /\ chkAt' = [chkAt EXCEPT ![a] =
          IF ~force /\ ChkKept
          THEN [at |-> "answered", from |-> chkSource, asked |-> chkClock, result |-> chkCache]
          ELSE [at |-> chkSource, from |-> chkSource, asked |-> chkClock, result |-> ChkNoResult]]
    /\ UNCHANGED <<chkSource, chkPublished, chkLimited, chkRunning, chkCache, chkClock,
                   chkTroubles>>

ChkAnswers(a, result) ==
    chkAt' = [chkAt EXCEPT ![a].at = "answered", ![a].result = result]

\* A result is kept and counts from now; one of a failed call is not kept.
ChkConcludes(a, says, latest) ==
    LET result == [says |-> says, latest |-> latest, asked |-> chkClock, from |-> chkAt[a].from,
                   newer |-> latest # 0 /\ ChkGreater(ChkVersions[latest], ChkVersions[chkRunning])]
    IN  chkCache' = result /\ ChkAnswers(a, result)

ChkFails(a) ==
    /\ chkAt[a].at \in {"manifest", "github", "tags"} /\ ChkTrouble
    /\ ChkAnswers(a, [ChkNoResult EXCEPT !.says = "error"])
    /\ UNCHANGED <<chkSource, chkPublished, chkLimited, chkRunning, chkCache, chkClock>>

\* fetchManifest.
ChkManifest(a) ==
    /\ chkAt[a].at = "manifest" /\ chkPublished.manifest # 0
    /\ ChkConcludes(a, "checked", chkPublished.manifest)
    /\ UNCHANGED <<chkSource, chkPublished, chkLimited, chkRunning, chkClock, chkTroubles>>

\* githubLatestRelease: limited, the latest release, or none at all.
ChkRelease(a) ==
    /\ chkAt[a].at = "github"
    /\ CASE chkLimited -> ChkConcludes(a, "limited", 0)
         [] ~chkLimited /\ chkPublished.release # 0 ->
                ChkConcludes(a, "checked", chkPublished.release)
         [] OTHER -> chkAt' = [chkAt EXCEPT ![a].at = "tags"] /\ UNCHANGED chkCache
    /\ UNCHANGED <<chkSource, chkPublished, chkLimited, chkRunning, chkClock, chkTroubles>>

\* githubLatestTag.
ChkTag(a) ==
    /\ chkAt[a].at = "tags"
    /\ CASE chkLimited -> ChkConcludes(a, "limited", 0)
         [] ~chkLimited /\ chkPublished.tag # 0 -> ChkConcludes(a, "checked", chkPublished.tag)
         [] OTHER -> ChkConcludes(a, "unknown", 0)
    /\ UNCHANGED <<chkSource, chkPublished, chkLimited, chkRunning, chkClock, chkTroubles>>

\* A tag comes before its release; the manifest follows either.
ChkPublish ==
    /\ \/ /\ chkPublished.tag < Len(ChkVersions)
          /\ chkPublished' = [chkPublished EXCEPT !.tag = @ + 1]
       \/ /\ chkPublished.release < chkPublished.tag
          /\ chkPublished' = [chkPublished EXCEPT !.release = chkPublished.tag]
       \/ /\ chkPublished.manifest < chkPublished.tag
          /\ chkPublished' = [chkPublished EXCEPT !.manifest = chkPublished.tag]
    /\ UNCHANGED <<chkSource, chkLimited, chkRunning, chkCache, chkAt, chkClock, chkTroubles>>

ChkLimit ==
    /\ ChkTrouble /\ chkLimited' = ~chkLimited
    /\ UNCHANGED <<chkSource, chkPublished, chkRunning, chkCache, chkAt, chkClock>>

\* The settings name another source; what is kept stays.
ChkSave ==
    /\ ChkTrouble /\ chkSource' = IF chkSource = "github" THEN "manifest" ELSE "github"
    /\ UNCHANGED <<chkPublished, chkLimited, chkRunning, chkCache, chkAt, chkClock>>

\* The process starts again, maybe as a version published meanwhile: nothing is kept.
ChkStart ==
    /\ ChkTrouble /\ chkCache' = ChkNoResult
    /\ chkRunning' \in {chkRunning} \union (chkRunning..chkPublished.tag)
    /\ chkAt' = [a \in ChkAsks |-> IF chkAt[a].at = "new" THEN chkAt[a]
                                   ELSE [ChkFresh EXCEPT !.at = "gone"]]
    /\ UNCHANGED <<chkSource, chkPublished, chkLimited, chkClock>>

\* A page has read its answer.
ChkRead(a) ==
    /\ chkAt[a].at = "answered" /\ chkAt' = [chkAt EXCEPT ![a] = [ChkFresh EXCEPT !.at = "gone"]]
    /\ UNCHANGED <<chkSource, chkPublished, chkLimited, chkRunning, chkCache, chkClock,
                   chkTroubles>>

\* A call takes seconds, its result is kept for half an hour: no ask is older.
ChkTimePasses ==
    /\ chkClock < ChkHorizon /\ chkClock' = chkClock + 1
    /\ \A a \in ChkAsks : chkAt[a].at \in {"new", "gone"}
    /\ UNCHANGED <<chkSource, chkPublished, chkLimited, chkRunning, chkCache, chkAt, chkTroubles>>

ChkInit ==
    /\ chkSource = "github" /\ chkPublished = [tag |-> 0, release |-> 0, manifest |-> 0]
    /\ chkLimited = FALSE /\ chkRunning = 1 /\ chkCache = ChkNoResult
    /\ chkAt = [a \in ChkAsks |-> ChkFresh] /\ chkClock = 0 /\ chkTroubles = 0

ChkNextStep ==
    \/ \E a \in ChkAsks :
          \/ \E force \in BOOLEAN : ChkAsk(a, force)
          \/ ChkFails(a) \/ ChkManifest(a) \/ ChkRelease(a) \/ ChkTag(a) \/ ChkRead(a)
    \/ ChkPublish \/ ChkLimit \/ ChkSave \/ ChkStart \/ ChkTimePasses
ChkSpec == ChkInit /\ [][ChkNextStep]_chkVars

-----------------------------------------------------------------------------
ChkTypeOK ==
    /\ chkSource \in {"manifest", "github"} /\ chkLimited \in BOOLEAN
    /\ \A k \in {"tag", "release", "manifest"} : chkPublished[k] \in 0..Len(ChkVersions)
    /\ chkRunning \in DOMAIN ChkVersions /\ chkClock \in 0..ChkHorizon
    /\ chkTroubles \in 0..ChkMaxTroubles
    /\ chkCache.says \in {"none", "checked", "limited", "unknown"}
    /\ \A a \in ChkAsks : chkAt[a].at \in {"new", "manifest", "github", "tags", "answered", "gone"}

\* A page is told of an update exactly if the version it is told of was published
\* after the one that runs, and it was published; what it is told is not older
\* than results are kept.
UpdatesAreSeen ==
    \A a \in ChkAsks :
        LET r == chkAt[a].result IN
        chkAt[a].at = "answered" =>
            /\ r.newer <=> r.latest > chkRunning
            /\ r.latest <= chkPublished.tag
            /\ r.says # "error" => chkAt[a].asked - r.asked < ChkTtl
=============================================================================
