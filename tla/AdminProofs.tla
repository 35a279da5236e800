----------------------------- MODULE AdminProofs -----------------------------
(***************************************************************************)
(* Sessions, the sign-in limit, certificates, updates and saves, for every *)
(* set of tokens, keys, attempts, certificates, uploads and saves, none of *)
(* them assumed finite.  SessInv is the inductive invariant of the         *)
(* registry: what an entry says of a session is what its user may expect,  *)
(* or the entry is void by its name.  SgnInv is that of the limiter: what  *)
(* a key counts is what is under way at it.  CertInv is that of the        *)
(* certificate store: where the two files of a pair are at each step, and  *)
(* what an index may hold; IssInv that of the issuances, RenInv that of    *)
(* the renewals.  UpdInv is that of the updates by a package: who holds    *)
(* the lock, and which versions are known to start; ChkInv that of the     *)
(* look for a newer version.  ImpInv is that of an import: where each      *)
(* directory is at each step, and which list undoes it; BkpInv that of the *)
(* archives: one change of the image at a time, or the image is loose;     *)
(* StgInv that of the saves of the settings: who is between its two looks  *)
(* at a section.  PanelProofs draws the theorems from them.                *)
(***************************************************************************)
EXTENDS CertStore, CertIssue, CertRenewal, Sessions, SignIn, SelfUpdate, UpdateCheck,
        ConfigImport, Backup, Settings, FiniteSetTheorems, TLAPS

-----------------------------------------------------------------------------
(* Sessions. *)

SessShapeInv ==
    /\ sessNow \in SessMoments
    /\ sessEntries \in [SessTokens -> [in : BOOLEAN, name : Nat, expires : Nat,
                                       seen : Nat, pending : Nat]]
    /\ sessTimers \subseteq SessTokens \X Nat
    /\ sessName \in 1..SessRenames + 1
    /\ sessChecked \in [SessTokens -> 0..sessName]
    /\ sessRotating \subseteq SessTokens \union {0}
    /\ sessLife \in [SessTokens -> [state : {"new", "on", "over"}, at : Nat,
                                    seen : Nat, closed : Nat]]
    /\ IsFiniteSet(SessIn) /\ Cardinality(SessIn) <= SessCap

\* The entry says of a session what its user may expect.
SessMatches(t) ==
    LET e == sessEntries[t] life == sessLife[t] IN
    /\ e.expires = life.at + SessTtl /\ e.seen = life.seen
    /\ e.pending = IF life.closed = 0 THEN 0 ELSE life.closed + SessGrace

\* The end of its hours or of the grace has come.
SessOut(t) ==
    LET life == sessLife[t] IN
    \/ sessNow > life.at + SessTtl
    \/ life.closed # 0 /\ sessNow > life.closed + SessGrace

SessEntriesInv ==
    \A t \in SessTokens :
        /\ sessEntries[t].in => sessEntries[t].name <= sessName
        /\ sessEntries[t].in /\ sessLife[t].state # "on" =>
              sessLife[t].state = "over" /\ sessEntries[t].name < sessName
        /\ sessLife[t].state = "on" =>
              IF sessEntries[t].in THEN SessMatches(t) ELSE SessOut(t)
        /\ sessChecked[t] # 0 => sessLife[t].state = "new"
        /\ t \in sessRotating => sessLife[t].state # "new"

SessInv == SessShapeInv /\ SessEntriesInv

LEMMA SessConstants ==
    /\ SessTokens \subseteq Nat \ {0}
    /\ SessCap \in Nat /\ SessCap >= 1
    /\ SessHorizon \in Nat /\ SessHorizon >= 1
    /\ SessTtl \in Nat /\ SessIdle \in Nat /\ SessGrace \in Nat /\ SessGrace >= 1
    /\ SessRenames \in Nat
BY SessAssumption

LEMMA SessInitInv == SessInit => SessInv
<1> SUFFICES ASSUME SessInit
             PROVE  SessInv
  OBVIOUS
<1>1. SessIn = {}
  BY DEF SessInit, SessNone, SessNoEntry, SessIn
<1>2. IsFiniteSet(SessIn) /\ Cardinality(SessIn) <= SessCap
  BY <1>1, FS_EmptySet, SessConstants
<1>3. SessShapeInv
  BY <1>2, SessConstants DEF SessShapeInv, SessInit, SessNone, SessNoEntry, SessUnborn, SessMoments
<1>4. SessEntriesInv
  BY DEF SessEntriesInv, SessInit, SessNone, SessNoEntry, SessUnborn
<1> QED BY <1>3, <1>4 DEF SessInv

\* Sessions that leave the table make room.
LEMMA SessFewer ==
    ASSUME SessShapeInv, SessIn' \subseteq SessIn
    PROVE  IsFiniteSet(SessIn') /\ Cardinality(SessIn') <= SessCap
<1>1. IsFiniteSet(SessIn) /\ Cardinality(SessIn) <= SessCap
  BY DEF SessShapeInv
<1>2. /\ IsFiniteSet(SessIn') /\ Cardinality(SessIn') <= Cardinality(SessIn)
  BY <1>1, FS_Subset
<1>3. Cardinality(SessIn') \in Nat /\ Cardinality(SessIn) \in Nat
  BY <1>1, <1>2, FS_CardinalityType
<1> QED BY <1>1, <1>2, <1>3, SessConstants

LEMMA SessMinLemma ==
    ASSUME NEW a \in Nat, NEW b \in Nat
    PROVE  Min({a, b}) \in {a, b} /\ Min({a, b}) <= a /\ Min({a, b}) <= b
<1>1. \E x \in {a, b} : \A y \in {a, b} : x <= y
  <2>1. CASE a <= b
    BY <2>1
  <2>2. CASE b <= a
    BY <2>2
  <2> QED BY <2>1, <2>2
<1> QED BY <1>1 DEF Min

\* What add leaves: the new session, and the others that were not trimmed; and
\* with it they are at most the cap.
LEMMA SessAddRoom ==
    ASSUME SessShapeInv, NEW in \in SUBSET SessIn, NEW out \in SUBSET in,
           NEW t, SessTrimmed(in, out)
    PROVE  IsFiniteSet((in \ out) \union {t}) /\ Cardinality((in \ out) \union {t}) <= SessCap
<1> DEFINE dead == {u \in in : SessExpired(u) \/ SessGraceOver(u)}
           rest == in \ dead
<1>1. IsFiniteSet(SessIn)
  BY DEF SessShapeInv
<1>2. IsFiniteSet(in) /\ IsFiniteSet(in \ out) /\ IsFiniteSet(rest)
  <2>1. IsFiniteSet(in)
    BY <1>1, FS_Subset
  <2> QED BY <2>1, FS_Subset
<1>3. /\ Cardinality(in) \in Nat /\ Cardinality(in \ out) \in Nat
      /\ Cardinality(rest) \in Nat
  BY <1>2, FS_CardinalityType
<1>4. Cardinality(in \ out) <= SessCap - 1
  <2>1. CASE Cardinality(in) < SessCap
    <3>1. in \ out = in
      BY <2>1 DEF SessTrimmed
    <3> QED BY <2>1, <3>1, <1>3, SessConstants
  <2>2. CASE ~(Cardinality(in) < SessCap)
    <3>1. /\ dead \subseteq out
          /\ Cardinality(rest \ out) = Min({Cardinality(rest), SessCap - 1})
      BY <2>2 DEF SessTrimmed
    <3>2. rest \ out = in \ out
      BY <3>1
    <3>3. Min({Cardinality(rest), SessCap - 1}) <= SessCap - 1
      BY <1>3, SessConstants, SessMinLemma
    <3> HIDE DEF rest, dead
    <3> QED BY <3>1, <3>2, <3>3
  <2> QED BY <2>1, <2>2
<1>5. /\ IsFiniteSet((in \ out) \union {t})
      /\ Cardinality((in \ out) \union {t}) <= Cardinality(in \ out) + 1
  <2> DEFINE left == in \ out
  <2>1. IsFiniteSet(left) /\ Cardinality(left) \in Nat
    BY <1>2, <1>3
  <2> HIDE DEF left
  <2>2. /\ IsFiniteSet(left \union {t})
        /\ Cardinality(left \union {t}) =
              IF t \in left THEN Cardinality(left) ELSE Cardinality(left) + 1
    BY <2>1, FS_AddElement
  <2>3. Cardinality(left \union {t}) <= Cardinality(left) + 1
    BY <2>1, <2>2
  <2> QED BY <2>2, <2>3 DEF left
<1>6. Cardinality((in \ out) \union {t}) \in Nat
  BY <1>5, FS_CardinalityType
<1> QED BY <1>3, <1>4, <1>5, <1>6, SessConstants

\* What a login or an exchange does with the sessions.
LEMMA SessAddStep ==
    ASSUME SessInv, NEW t \in SessTokens, NEW name \in 1..sessName,
           NEW own \in SUBSET SessTokens, t \notin own,
           \A u \in own : sessLife[u].state # "new",
           sessLife[t].state = "new", SessAdd(t, name, own),
           sessChecked' \in [SessTokens -> 0..sessName], sessChecked'[t] = 0,
           \A u \in SessTokens \ {t} : sessChecked'[u] \in {0, sessChecked[u]},
           sessRotating' \subseteq sessRotating,
           UNCHANGED <<sessNow, sessName, sessTimers>>
    PROVE  SessInv'
<1>1. SessShapeInv /\ SessEntriesInv
  BY DEF SessInv
<1>2. t \notin SessIn
  BY <1>1 DEF SessEntriesInv, SessIn
<1>3. PICK out \in SUBSET (SessIn \ own) :
        /\ SessTrimmed(SessIn \ own, out)
        /\ sessEntries' = [SessWithout(out \union own) EXCEPT ![t] =
                 [in |-> TRUE, name |-> name, expires |-> sessNow + SessTtl,
                  seen |-> sessNow, pending |-> 0]]
        /\ sessLife' = [SessEnded(out \union own) EXCEPT ![t] =
                 [state |-> "on", at |-> sessNow, seen |-> sessNow, closed |-> 0]]
  BY DEF SessAdd
<1>4. t \notin out
  BY <1>2
<1>5. /\ sessEntries'[t] = [in |-> TRUE, name |-> name, expires |-> sessNow + SessTtl,
                            seen |-> sessNow, pending |-> 0]
      /\ sessLife'[t] = [state |-> "on", at |-> sessNow, seen |-> sessNow, closed |-> 0]
      /\ \A u \in out \union own :
            /\ sessEntries'[u] = SessNoEntry
            /\ sessLife'[u] = [SessUnborn EXCEPT !.state = "over"]
      /\ \A u \in SessTokens \ (out \union own \union {t}) :
            sessEntries'[u] = sessEntries[u] /\ sessLife'[u] = sessLife[u]
  BY <1>3, <1>4 DEF SessWithout, SessEnded, SessIn
<1>6. SessIn' = ((SessIn \ own) \ out) \union {t}
  <2>1. \A u \in SessTokens : u \in SessIn' <=> sessEntries'[u].in
    BY DEF SessIn
  <2>2. sessEntries'[t].in /\ \A u \in out \union own : ~sessEntries'[u].in
    BY <1>5 DEF SessNoEntry
  <2>3. \A u \in SessTokens : u \in SessIn <=> sessEntries[u].in
    BY DEF SessIn
  <2>4. SessIn \subseteq SessTokens /\ SessIn' \subseteq SessTokens
    BY DEF SessIn
  <2> QED BY <1>5, <2>1, <2>2, <2>3, <2>4
<1>7. IsFiniteSet(SessIn') /\ Cardinality(SessIn') <= SessCap
  BY <1>1, <1>3, <1>6, SessAddRoom
<1>8. SessShapeInv'
  <2>1. sessNow \in Nat /\ sessName \in Nat
    BY <1>1, SessConstants DEF SessShapeInv, SessMoments
  <2>2. sessEntries' \in [SessTokens -> [in : BOOLEAN, name : Nat, expires : Nat,
                                         seen : Nat, pending : Nat]]
    <3> DEFINE Entry == [in : BOOLEAN, name : Nat, expires : Nat, seen : Nat, pending : Nat]
    <3>1. SessWithout(out \union own) \in [SessTokens -> Entry]
      BY <1>1 DEF SessShapeInv, SessWithout, SessNoEntry
    <3>2. [in |-> TRUE, name |-> name, expires |-> sessNow + SessTtl,
           seen |-> sessNow, pending |-> 0] \in Entry
      BY <2>1, SessConstants
    <3> HIDE DEF Entry
    <3>3. sessEntries' \in [SessTokens -> Entry]
      BY <1>3, <3>1, <3>2
    <3> QED BY <3>3 DEF Entry
  <2>3. sessLife' \in [SessTokens -> [state : {"new", "on", "over"}, at : Nat,
                                      seen : Nat, closed : Nat]]
    BY <1>1, <1>3, <2>1, SessConstants DEF SessShapeInv, SessEnded, SessUnborn
  <2> QED BY <1>1, <1>7, <2>2, <2>3 DEF SessShapeInv, SessMoments
<1>9. SessEntriesInv'
  <2> SUFFICES ASSUME NEW u \in SessTokens
               PROVE  /\ sessEntries'[u].in => sessEntries'[u].name <= sessName
                      /\ sessEntries'[u].in /\ sessLife'[u].state # "on" =>
                            sessLife'[u].state = "over" /\ sessEntries'[u].name < sessName
                      /\ sessLife'[u].state = "on" =>
                            IF sessEntries'[u].in THEN SessMatches(u)' ELSE SessOut(u)'
                      /\ sessChecked'[u] # 0 => sessLife'[u].state = "new"
                      /\ u \in sessRotating' => sessLife'[u].state # "new"
    BY DEF SessEntriesInv
  <2>1. CASE u = t
    BY <2>1, <1>5 DEF SessMatches
  <2>2. CASE u \in out \union own
    <3>1. sessChecked'[u] = 0
      <4>1. u \in out => sessLife[u].state # "new"
        BY <1>1 DEF SessEntriesInv, SessIn
      <4>2. sessLife[u].state # "new" => sessChecked[u] = 0
        BY <1>1 DEF SessEntriesInv
      <4> QED BY <2>2, <4>1, <4>2
    <3> QED BY <2>2, <1>5, <3>1 DEF SessNoEntry, SessUnborn
  <2>3. CASE u \notin out \union own \union {t}
    BY <2>3, <1>5, <1>1 DEF SessEntriesInv, SessMatches, SessOut
  <2> QED BY <2>1, <2>2, <2>3
<1> QED BY <1>8, <1>9 DEF SessInv

\* Sessions end: entries leave the table, with their lives or because they are
\* out anyway.
LEMMA SessDropStep ==
    ASSUME SessInv, NEW out \in SUBSET SessTokens,
           sessEntries' = SessWithout(out),
           \/ UNCHANGED sessLife /\ \A t \in out : sessLife[t].state = "on" => SessOut(t)
           \/ \E over \in SUBSET SessTokens :
                 /\ sessLife' = SessEnded(over)
                 /\ \A t \in out : sessLife[t].state = "on" => t \in over
                 /\ \A t \in over : /\ sessLife[t].state # "new"
                                    /\ t \in out \/ sessEntries[t].name < sessName
                                       \/ ~sessEntries[t].in,
           sessTimers' \subseteq sessTimers, sessRotating' \subseteq sessRotating \union SessTokens,
           \A t \in SessTokens : t \in sessRotating' \ sessRotating => sessLife[t].state = "on",
           UNCHANGED <<sessNow, sessName, sessChecked>>
    PROVE  SessInv'
<1>1. SessShapeInv /\ SessEntriesInv
  BY DEF SessInv
<1>2. \A t \in SessTokens : sessEntries'[t] = IF t \in out THEN SessNoEntry ELSE sessEntries[t]
  BY DEF SessWithout
<1>3. SessIn' \subseteq SessIn
  BY <1>2 DEF SessIn, SessNoEntry
<1>4. IsFiniteSet(SessIn') /\ Cardinality(SessIn') <= SessCap
  BY <1>1, <1>3, SessFewer
<1>5. \/ \A t \in SessTokens : /\ sessLife'[t] = sessLife[t]
                               /\ t \in out /\ sessLife[t].state = "on" => SessOut(t)
      \/ \A t \in SessTokens :
            \/ /\ sessLife'[t] = [SessUnborn EXCEPT !.state = "over"]
               /\ sessLife[t].state # "new"
               /\ t \in out \/ sessEntries[t].name < sessName \/ ~sessEntries[t].in
            \/ sessLife'[t] = sessLife[t] /\ (t \in out => sessLife[t].state # "on")
  BY DEF SessEnded
<1>6. SessShapeInv'
  <2>1. sessEntries' \in [SessTokens -> [in : BOOLEAN, name : Nat, expires : Nat,
                                         seen : Nat, pending : Nat]]
    BY <1>1 DEF SessShapeInv, SessWithout, SessNoEntry
  <2>2. sessLife' \in [SessTokens -> [state : {"new", "on", "over"}, at : Nat,
                                      seen : Nat, closed : Nat]]
    BY <1>1 DEF SessShapeInv, SessEnded, SessUnborn
  <2> QED BY <1>1, <1>4, <2>1, <2>2 DEF SessShapeInv, SessMoments
<1>7. SessEntriesInv'
  <2> SUFFICES ASSUME NEW u \in SessTokens
               PROVE  /\ sessEntries'[u].in => sessEntries'[u].name <= sessName
                      /\ sessEntries'[u].in /\ sessLife'[u].state # "on" =>
                            sessLife'[u].state = "over" /\ sessEntries'[u].name < sessName
                      /\ sessLife'[u].state = "on" =>
                            IF sessEntries'[u].in THEN SessMatches(u)' ELSE SessOut(u)'
                      /\ sessChecked'[u] # 0 => sessLife'[u].state = "new"
                      /\ u \in sessRotating' => sessLife'[u].state # "new"
    BY DEF SessEntriesInv
  <2>1. /\ sessEntries[u].in => sessEntries[u].name <= sessName
        /\ sessEntries[u].in /\ sessLife[u].state # "on" =>
              sessLife[u].state = "over" /\ sessEntries[u].name < sessName
        /\ sessLife[u].state = "on" =>
              IF sessEntries[u].in THEN SessMatches(u) ELSE SessOut(u)
        /\ sessChecked[u] # 0 => sessLife[u].state = "new"
        /\ u \in sessRotating => sessLife[u].state # "new"
    BY <1>1 DEF SessEntriesInv
  <2>2. CASE u \in out
    BY <2>1, <2>2, <1>2, <1>5 DEF SessNoEntry, SessUnborn, SessOut
  <2>3. CASE u \notin out
    BY <2>1, <2>3, <1>2, <1>5 DEF SessMatches, SessUnborn, SessOut
  <2> QED BY <2>2, <2>3
<1> QED BY <1>6, <1>7 DEF SessInv

LEMMA SessRecords ==
    ASSUME NEW e \in [in : BOOLEAN, name : Nat, expires : Nat, seen : Nat, pending : Nat],
           NEW l \in [state : {"new", "on", "over"}, at : Nat, seen : Nat, closed : Nat],
           NEW seen, NEW pending, NEW closed
    PROVE  /\ LET x == [e EXCEPT !.seen = seen, !.pending = pending]
              IN /\ x.in = e.in /\ x.name = e.name /\ x.expires = e.expires
                 /\ x.seen = seen /\ x.pending = pending
           /\ LET x == [l EXCEPT !.seen = seen, !.closed = closed]
              IN x.state = l.state /\ x.at = l.at /\ x.seen = seen /\ x.closed = closed
OBVIOUS

\* A session that is served is seen, and its close is taken back or begun.
LEMMA SessSeenStep ==
    ASSUME SessInv, NEW t \in SessTokens, SessServes(t),
           NEW closed \in Nat,
           sessEntries' = [sessEntries EXCEPT ![t].seen = sessNow,
               ![t].pending = IF closed = 0 THEN 0 ELSE closed + SessGrace],
           sessLife' = [sessLife EXCEPT ![t].seen = sessNow, ![t].closed = closed],
           sessTimers' \subseteq SessTokens \X Nat,
           UNCHANGED <<sessNow, sessName, sessChecked, sessRotating>>
    PROVE  SessInv'
<1>1. SessShapeInv /\ SessEntriesInv
  BY DEF SessInv
<1>2. /\ sessEntries'[t] = [sessEntries[t] EXCEPT !.seen = sessNow,
                               !.pending = IF closed = 0 THEN 0 ELSE closed + SessGrace]
      /\ sessLife'[t] = [sessLife[t] EXCEPT !.seen = sessNow, !.closed = closed]
      /\ \A u \in SessTokens \ {t} :
            sessEntries'[u] = sessEntries[u] /\ sessLife'[u] = sessLife[u]
  BY <1>1 DEF SessShapeInv
<1>3. /\ sessEntries[t] \in [in : BOOLEAN, name : Nat, expires : Nat, seen : Nat, pending : Nat]
      /\ sessLife[t] \in [state : {"new", "on", "over"}, at : Nat, seen : Nat, closed : Nat]
      /\ sessNow \in Nat
  BY <1>1, SessConstants DEF SessShapeInv, SessMoments
<1>4. /\ sessEntries'[t].in = sessEntries[t].in /\ sessEntries'[t].name = sessEntries[t].name
      /\ sessEntries'[t].expires = sessEntries[t].expires
      /\ sessEntries'[t].seen = sessNow
      /\ sessEntries'[t].pending = IF closed = 0 THEN 0 ELSE closed + SessGrace
      /\ sessLife'[t].state = sessLife[t].state /\ sessLife'[t].at = sessLife[t].at
      /\ sessLife'[t].seen = sessNow /\ sessLife'[t].closed = closed
  <2> DEFINE pending == IF closed = 0 THEN 0 ELSE closed + SessGrace
  <2>1. sessEntries'[t] = [sessEntries[t] EXCEPT !.seen = sessNow, !.pending = pending]
    BY <1>2
  <2>2. sessLife'[t] = [sessLife[t] EXCEPT !.seen = sessNow, !.closed = closed]
    BY <1>2
  <2> HIDE DEF pending
  <2>3. /\ sessEntries'[t].in = sessEntries[t].in /\ sessEntries'[t].name = sessEntries[t].name
        /\ sessEntries'[t].expires = sessEntries[t].expires
        /\ sessEntries'[t].seen = sessNow
        /\ sessEntries'[t].pending = pending
    BY ONLY <2>1, <1>3, SessRecords
  <2>4. /\ sessLife'[t].state = sessLife[t].state /\ sessLife'[t].at = sessLife[t].at
        /\ sessLife'[t].seen = sessNow /\ sessLife'[t].closed = closed
    BY ONLY <2>2, <1>3, SessRecords
  <2> QED BY <2>3, <2>4 DEF pending
<1>5. SessIn' \subseteq SessIn
  BY <1>2, <1>4 DEF SessIn
<1>6. SessShapeInv'
  <2>1. IsFiniteSet(SessIn') /\ Cardinality(SessIn') <= SessCap
    BY <1>1, <1>5, SessFewer
  <2>2. sessEntries' \in [SessTokens -> [in : BOOLEAN, name : Nat, expires : Nat,
                                         seen : Nat, pending : Nat]]
    <3> DEFINE Entry == [in : BOOLEAN, name : Nat, expires : Nat, seen : Nat, pending : Nat]
               pending == IF closed = 0 THEN 0 ELSE closed + SessGrace
    <3>1. pending \in Nat
      BY SessConstants
    <3>2. [sessEntries[t] EXCEPT !.seen = sessNow, !.pending = pending] \in Entry
      BY <1>3, <3>1
    <3>3. sessEntries' = [sessEntries EXCEPT ![t] =
                             [sessEntries[t] EXCEPT !.seen = sessNow, !.pending = pending]]
      BY <1>1 DEF SessShapeInv
    <3>4. sessEntries \in [SessTokens -> Entry]
      BY <1>1 DEF SessShapeInv
    <3> HIDE DEF Entry, pending
    <3>5. sessEntries' \in [SessTokens -> Entry]
      BY <3>2, <3>3, <3>4
    <3> QED BY <3>5 DEF Entry
  <2>3. sessLife' \in [SessTokens -> [state : {"new", "on", "over"}, at : Nat,
                                      seen : Nat, closed : Nat]]
    BY <1>1, <1>3 DEF SessShapeInv
  <2> QED BY <1>1, <2>1, <2>2, <2>3 DEF SessShapeInv, SessMoments
<1>7. SessEntriesInv'
  <2> SUFFICES ASSUME NEW u \in SessTokens
               PROVE  /\ sessEntries'[u].in => sessEntries'[u].name <= sessName
                      /\ sessEntries'[u].in /\ sessLife'[u].state # "on" =>
                            sessLife'[u].state = "over" /\ sessEntries'[u].name < sessName
                      /\ sessLife'[u].state = "on" =>
                            IF sessEntries'[u].in THEN SessMatches(u)' ELSE SessOut(u)'
                      /\ sessChecked'[u] # 0 => sessLife'[u].state = "new"
                      /\ u \in sessRotating' => sessLife'[u].state # "new"
    BY DEF SessEntriesInv
  <2>1. CASE u # t
    <3>1. sessEntries'[u] = sessEntries[u] /\ sessLife'[u] = sessLife[u]
      BY <2>1, <1>2
    <3>2. UNCHANGED <<sessNow, sessName, sessChecked, sessRotating>>
      OBVIOUS
    <3> QED BY <3>1, <3>2, <1>1 DEF SessEntriesInv, SessMatches, SessOut
  <2>2. CASE u = t
    <3>1. sessEntries[t].in /\ sessEntries[t].name = sessName
      BY DEF SessServes, SessIn
    <3>2. sessLife[t].state = "on" /\ SessMatches(t)
      BY <1>1, <3>1, <1>3 DEF SessEntriesInv, SessShapeInv
    <3>3. sessChecked[t] = 0
      BY <1>1, <3>2 DEF SessEntriesInv
    <3> QED BY <2>2, <3>1, <3>2, <3>3, <1>1, <1>3, <1>4 DEF SessMatches, SessShapeInv
  <2> QED BY <2>1, <2>2
<1> QED BY <1>6, <1>7 DEF SessInv

LEMMA SessStep == SessInv /\ [SessNext]_sessVars => SessInv'
<1> SUFFICES ASSUME SessInv, [SessNext]_sessVars
             PROVE  SessInv'
  OBVIOUS
<1>1. SessShapeInv /\ SessEntriesInv
  BY DEF SessInv
<1>2. sessNow \in Nat /\ sessNow >= 1 /\ sessName \in Nat /\ sessName >= 1
  BY <1>1, SessConstants DEF SessShapeInv, SessMoments
<1>3. CASE UNCHANGED sessVars
  <2>1. UNCHANGED <<sessNow, sessEntries, sessTimers, sessName, sessChecked, sessRotating,
                    sessLife>>
    BY <1>3 DEF sessVars
  <2>2. SessIn' = SessIn
    BY <2>1 DEF SessIn
  <2> QED BY <1>1, <2>1, <2>2 DEF SessInv, SessShapeInv, SessEntriesInv, SessMatches, SessOut
<1>4. ASSUME NEW t \in SessTokens, SessCheck(t)
      PROVE  SessInv'
  <2>1. UNCHANGED <<sessNow, sessEntries, sessTimers, sessName, sessRotating, sessLife>>
    BY <1>4 DEF SessCheck
  <2>2. SessIn' = SessIn
    BY <2>1 DEF SessIn
  <2>3. sessChecked' \in [SessTokens -> 0..sessName]
    BY <1>1, <1>2, <1>4 DEF SessCheck, SessShapeInv
  <2>4. \A u \in SessTokens : sessChecked'[u] # 0 => sessLife[u].state = "new"
    BY <1>1, <1>4 DEF SessCheck, SessFresh, SessNew, SessShapeInv, SessEntriesInv
  <2> QED BY <1>1, <2>1, <2>2, <2>3, <2>4
          DEF SessInv, SessShapeInv, SessEntriesInv, SessMatches, SessOut
<1>5. ASSUME NEW t \in SessTokens, SessLogin(t)
      PROVE  SessInv'
  <2>1. sessChecked[t] \in 1..sessName /\ sessLife[t].state = "new"
    BY <1>1, <1>2, <1>5 DEF SessLogin, SessShapeInv, SessEntriesInv
  <2>2. PICK name \in 1..sessName : name = sessChecked[t]
    BY <2>1
  <2>3. SessAdd(t, name, {})
    BY <1>5, <2>2 DEF SessLogin
  <2>4. /\ sessChecked' \in [SessTokens -> 0..sessName] /\ sessChecked'[t] = 0
        /\ \A u \in SessTokens \ {t} : sessChecked'[u] \in {0, sessChecked[u]}
    BY <1>1, <1>2, <1>5 DEF SessLogin, SessShapeInv
  <2> QED BY <1>5, <2>1, <2>3, <2>4, SessAddStep DEF SessLogin
<1>6. ASSUME NEW t \in SessTokens, NEW new \in SessTokens, SessRotate(t, new)
      PROVE  SessInv'
  <2>1. /\ t \in sessRotating /\ sessLife[t].state # "new" /\ sessLife[new].state = "new"
        /\ sessChecked[new] = 0
    BY <1>1, <1>6 DEF SessRotate, SessFresh, SessNew, SessEntriesInv
  <2>2. PICK name \in 1..sessName : name = sessName
    BY <1>2
  <2>3. SessAdd(new, name, {t})
    BY <1>6, <2>2 DEF SessRotate
  <2>4. /\ sessChecked' \in [SessTokens -> 0..sessName] /\ sessChecked'[new] = 0
        /\ \A u \in SessTokens \ {new} : sessChecked'[u] \in {0, sessChecked[u]}
    BY <1>1, <1>6, <2>1 DEF SessRotate, SessShapeInv
  <2> QED BY <1>6, <2>1, <2>3, <2>4, SessAddStep DEF SessRotate
<1>7. ASSUME NEW t \in SessTokens, NEW revive \in BOOLEAN, SessRequest(t, revive)
      PROVE  SessInv'
  <2>1. UNCHANGED <<sessNow, sessTimers, sessName, sessChecked, sessRotating>>
    BY <1>7 DEF SessRequest
  <2>2. CASE SessServes(t)
    <3>1. SessMatches(t) /\ sessLife[t].closed \in Nat /\ sessEntries[t].pending \in Nat
      BY <1>1, <2>2 DEF SessServes, SessIn, SessEntriesInv, SessShapeInv
    <3>2. PICK closed \in Nat : closed = IF revive THEN 0 ELSE sessLife[t].closed
      BY <3>1
    <3>3. (IF revive THEN 0 ELSE sessEntries[t].pending)
             = IF closed = 0 THEN 0 ELSE closed + SessGrace
      BY <3>1, <3>2 DEF SessMatches
    <3>4. /\ sessEntries' = [sessEntries EXCEPT ![t].seen = sessNow,
                ![t].pending = IF closed = 0 THEN 0 ELSE closed + SessGrace]
          /\ sessLife' = [sessLife EXCEPT ![t].seen = sessNow, ![t].closed = closed]
      <4>1. /\ sessEntries' = [sessEntries EXCEPT ![t].seen = sessNow,
                  ![t].pending = IF revive THEN 0 ELSE sessEntries[t].pending]
            /\ sessLife' = [sessLife EXCEPT ![t].seen = sessNow,
                  ![t].closed = IF revive THEN 0 ELSE sessLife[t].closed]
        BY <1>1, <1>7, <2>2 DEF SessRequest, SessShapeInv
      <4> QED BY <4>1, <3>2, <3>3
    <3> QED BY <2>1, <2>2, <3>4, <1>1, SessSeenStep DEF SessShapeInv
  <2>3. CASE ~SessServes(t)
    <3> DEFINE out == {u \in SessIn \cap {t} : sessEntries[u].name = sessName}
    <3>1. sessEntries' = SessWithout(out) /\ sessLife' = SessEnded({t})
          /\ sessLife[t].state # "new"
      BY <1>7, <2>3 DEF SessRequest
    <3>2. t \in out \/ sessEntries[t].name < sessName \/ ~sessEntries[t].in
      <4>1. sessEntries[t].in => sessEntries[t].name <= sessName
        BY <1>1 DEF SessEntriesInv
      <4>2. sessEntries[t].name \in Nat
        BY <1>1 DEF SessShapeInv
      <4>3. sessEntries[t].in => t \in SessIn
        BY DEF SessIn
      <4> QED BY <4>1, <4>2, <4>3, <1>2
    <3>3. out \subseteq {t}
      OBVIOUS
    <3> HIDE DEF out
    <3> QED BY <2>1, <3>1, <3>2, <3>3, SessDropStep
  <2> QED BY <2>2, <2>3
<1>8. ASSUME NEW t \in SessTokens, SessClose(t)
      PROVE  SessInv'
  <2>1. /\ sessEntries' = [sessEntries EXCEPT ![t].seen = sessNow,
                ![t].pending = IF sessNow = 0 THEN 0 ELSE sessNow + SessGrace]
        /\ sessLife' = [sessLife EXCEPT ![t].seen = sessNow, ![t].closed = sessNow]
    <3>1. sessNow # 0
      BY <1>2
    <3>2. /\ sessEntries' = [sessEntries EXCEPT ![t].seen = sessNow,
                                               ![t].pending = sessNow + SessGrace]
          /\ sessLife' = [sessLife EXCEPT ![t].seen = sessNow, ![t].closed = sessNow]
      BY <1>8 DEF SessClose
    <3>3. sessNow + SessGrace = IF sessNow = 0 THEN 0 ELSE sessNow + SessGrace
      BY <3>1
    <3> QED BY <3>2, <3>3
  <2>2. sessTimers' \subseteq SessTokens \X Nat
    BY <1>1, <1>2, <1>8, SessConstants DEF SessClose, SessShapeInv
  <2>3. SessServes(t) /\ UNCHANGED <<sessNow, sessName, sessChecked, sessRotating>>
    BY <1>8 DEF SessClose
  <2>4. PICK closed \in Nat : closed = sessNow
    BY <1>2
  <2>5. /\ sessEntries' = [sessEntries EXCEPT ![t].seen = sessNow,
                ![t].pending = IF closed = 0 THEN 0 ELSE closed + SessGrace]
        /\ sessLife' = [sessLife EXCEPT ![t].seen = sessNow, ![t].closed = closed]
    BY <2>1, <2>4
  <2> QED BY <2>2, <2>3, <2>5, SessSeenStep
<1>9. ASSUME NEW t \in SessTokens, NEW at \in SessMoments, SessTimer(t, at)
      PROVE  SessInv'
  <2> DEFINE out == {u \in SessIn \cap {t} : SessGraceOver(u)}
  <2>1. /\ sessEntries' = SessWithout(out) /\ sessTimers' \subseteq sessTimers
        /\ UNCHANGED <<sessNow, sessName, sessChecked, sessRotating, sessLife>>
    BY <1>9 DEF SessTimer
  <2>2. \A u \in out : sessLife[u].state = "on" => SessOut(u)
    BY <1>1 DEF SessEntriesInv, SessIn, SessGraceOver, SessMatches, SessOut
  <2>3. out \in SUBSET SessTokens
    BY DEF SessIn
  <2> HIDE DEF out
  <2> QED BY <2>1, <2>2, <2>3, SessDropStep
<1>10. ASSUME SessSweep
       PROVE  SessInv'
  <2> DEFINE out == {t \in SessIn : SessExpired(t)}
  <2>1. /\ sessEntries' = SessWithout(out)
        /\ UNCHANGED <<sessNow, sessName, sessTimers, sessChecked, sessRotating, sessLife>>
    BY <1>10 DEF SessSweep
  <2>2. \A u \in out : sessLife[u].state = "on" => SessOut(u)
    BY <1>1 DEF SessEntriesInv, SessIn, SessExpired, SessMatches, SessOut
  <2>3. out \in SUBSET SessTokens
    BY DEF SessIn
  <2> HIDE DEF out
  <2> QED BY <2>1, <2>2, <2>3, SessDropStep
<1>11. ASSUME NEW t \in SessTokens, SessLogout(t)
       PROVE  SessInv'
  <2>1. /\ sessEntries' = SessWithout({t}) /\ sessLife' = SessEnded({t})
        /\ UNCHANGED <<sessNow, sessTimers, sessName, sessChecked, sessRotating>>
    BY <1>11 DEF SessLogout
  <2>2. sessLife[t].state # "new"
    BY <1>1, <1>11 DEF SessLogout, SessServes, SessIn, SessEntriesInv
  <2> QED BY <2>1, <2>2, SessDropStep
<1>12. ASSUME NEW t \in SessTokens, SessRevokeOthers(t)
       PROVE  SessInv'
  <2> DEFINE over == {u \in SessTokens \ {t} : sessLife[u].state = "on"}
             out == SessTokens \ {t}
  <2>1. /\ sessEntries' = SessWithout(out) /\ sessLife' = SessEnded(over)
        /\ sessRotating' = sessRotating \union {t}
        /\ UNCHANGED <<sessNow, sessTimers, sessName, sessChecked>>
    BY <1>12 DEF SessRevokeOthers
  <2>2. sessLife[t].state = "on"
    BY <1>1, <1>12 DEF SessRevokeOthers, SessServes, SessIn, SessEntriesInv, SessShapeInv
  <2>3. /\ \A u \in out : sessLife[u].state = "on" => u \in over
        /\ \A u \in over : sessLife[u].state # "new" /\ u \in out
        /\ over \in SUBSET SessTokens /\ out \in SUBSET SessTokens
    OBVIOUS
  <2>4. \A u \in SessTokens : u \in sessRotating' \ sessRotating => sessLife[u].state = "on"
    BY <2>1, <2>2
  <2> HIDE DEF over, out
  <2> QED BY <2>1, <2>3, <2>4, SessDropStep
<1>13. ASSUME SessRename
       PROVE  SessInv'
  <2>1. /\ sessName' = sessName + 1 /\ sessRotating' = sessRotating \union {0}
        /\ sessName' \in 1..SessRenames + 1
        /\ UNCHANGED <<sessNow, sessEntries, sessTimers, sessChecked, sessLife>>
    BY <1>1, <1>2, <1>13, SessConstants DEF SessRename
  <2>2. SessIn' = SessIn
    BY <2>1 DEF SessIn
  <2>3. sessChecked \in [SessTokens -> 0..sessName']
    BY <1>1, <1>2, <2>1 DEF SessShapeInv
  <2>4. SessShapeInv'
    BY <1>1, <2>1, <2>2, <2>3 DEF SessShapeInv
  <2>5. SessEntriesInv'
    <3> SUFFICES ASSUME NEW u \in SessTokens
                 PROVE  /\ sessEntries[u].in => sessEntries[u].name <= sessName + 1
                        /\ sessEntries[u].in /\ sessLife[u].state # "on" =>
                              sessLife[u].state = "over" /\ sessEntries[u].name < sessName + 1
                        /\ sessLife[u].state = "on" =>
                              IF sessEntries[u].in THEN SessMatches(u) ELSE SessOut(u)
                        /\ sessChecked[u] # 0 => sessLife[u].state = "new"
                        /\ u \in sessRotating => sessLife[u].state # "new"
      BY <2>1, SessConstants DEF SessEntriesInv, SessMatches, SessOut
    <3>1. sessEntries[u].name \in Nat
      BY <1>1 DEF SessShapeInv
    <3> QED BY <3>1, <1>1, <1>2 DEF SessEntriesInv
  <2> QED BY <2>4, <2>5 DEF SessInv
<1>14. ASSUME SessRevokeAll
       PROVE  SessInv'
  <2> DEFINE over == {t \in SessTokens : sessLife[t].state = "on"}
  <2>1. /\ sessEntries' = SessWithout(SessTokens) /\ sessLife' = SessEnded(over)
        /\ sessRotating' \subseteq sessRotating
        /\ UNCHANGED <<sessNow, sessTimers, sessName, sessChecked>>
    BY <1>14 DEF SessRevokeAll, SessNone, SessWithout
  <2>2. /\ \A u \in SessTokens : sessLife[u].state = "on" => u \in over
        /\ \A u \in over : sessLife[u].state # "new" /\ u \in SessTokens
        /\ over \in SUBSET SessTokens
    OBVIOUS
  <2> HIDE DEF over
  <2> QED BY <2>1, <2>2, SessDropStep
<1>15. ASSUME SessTimePasses
       PROVE  SessInv'
  <2>1. /\ sessNow' = sessNow + 1 /\ sessNow' \in SessMoments
        /\ UNCHANGED <<sessEntries, sessTimers, sessName, sessChecked, sessRotating, sessLife>>
    BY <1>1, <1>2, <1>15, SessConstants DEF SessTimePasses, SessMoments
  <2>2. SessIn' = SessIn
    BY <2>1 DEF SessIn
  <2>3. SessShapeInv'
    BY <1>1, <2>1, <2>2 DEF SessShapeInv
  <2>4. \A t \in SessTokens : SessOut(t) => SessOut(t)'
    BY <1>1, <1>2, <2>1, SessConstants DEF SessOut, SessShapeInv
  <2>5. SessEntriesInv'
    BY <1>1, <2>1, <2>4 DEF SessEntriesInv, SessMatches
  <2> QED BY <2>3, <2>5 DEF SessInv
<1> QED BY <1>3, <1>4, <1>5, <1>6, <1>7, <1>8, <1>9, <1>10, <1>11, <1>12, <1>13, <1>14, <1>15
        DEF SessNext

\* The invariant shows what a session's user may expect.
LEMMA SessShows == SessInv => SessTypeOK /\ SessionsAsExpected
<1> SUFFICES ASSUME SessInv
             PROVE  SessTypeOK /\ SessionsAsExpected
  OBVIOUS
<1>1. SessShapeInv /\ SessEntriesInv
  BY DEF SessInv
<1>2. SessTypeOK
  BY <1>1 DEF SessTypeOK, SessShapeInv
<1>3. ASSUME NEW t \in SessTokens
      PROVE  /\ SessServes(t) => SessAlive(t)
             /\ SessAlive(t) => t \in SessIn /\ ~SessDead(t)
  <2>1. /\ sessNow \in Nat /\ sessNow >= 1 /\ sessName \in Nat
        /\ sessLife[t].at \in Nat /\ sessLife[t].seen \in Nat /\ sessLife[t].closed \in Nat
        /\ sessEntries[t].in \in BOOLEAN
    BY <1>1, SessConstants DEF SessShapeInv, SessMoments
  <2>2. SessServes(t) => SessAlive(t)
    BY <1>1, <2>1, SessConstants DEF SessServes, SessIn, SessEntriesInv, SessMatches, SessDead,
       SessExpired, SessGraceOver, SessAlive
  <2>3. SessAlive(t) => t \in SessIn /\ ~SessDead(t)
    BY <1>1, <2>1, SessConstants DEF SessIn, SessEntriesInv, SessMatches, SessOut, SessDead,
       SessExpired, SessGraceOver, SessAlive
  <2> QED BY <2>2, <2>3
<1> QED BY <1>2, <1>3 DEF SessionsAsExpected

\* What a new session u does to another, t, as SessLoginDisplaces asks.
SessDisplaced(t, u) ==
    /\ sessEntries'[u].in
    /\ (SessAlive(t) /\ t \in SessIn /\ t \notin sessRotating /\ sessLife'[t].state = "over") =>
          \A v \in SessTokens \ {u} : sessEntries'[v].in =>
             sessEntries[v].seen >= sessEntries[t].seen

\* The session that add puts in takes the place of the dead, or of the session
\* that was not seen for longest.
LEMMA SessAddDisplaces ==
    ASSUME SessInv, NEW t \in SessTokens, NEW u \in SessTokens, NEW new \in SessTokens,
           NEW name, NEW own \in SUBSET sessRotating,
           sessLife[u].state = "new", sessLife'[u].state = "on", SessAdd(new, name, own)
    PROVE  SessDisplaced(t, u)
<1>1. SessShapeInv /\ SessEntriesInv
  BY DEF SessInv
<1> DEFINE in == SessIn \ own
           dead == {v \in in : SessExpired(v) \/ SessGraceOver(v)}
           rest == in \ dead
<1>2. PICK out \in SUBSET in :
        /\ SessTrimmed(in, out)
        /\ sessEntries' = [SessWithout(out \union own) EXCEPT ![new] =
                 [in |-> TRUE, name |-> name, expires |-> sessNow + SessTtl,
                  seen |-> sessNow, pending |-> 0]]
        /\ sessLife' = [SessEnded(out \union own) EXCEPT ![new] =
                 [state |-> "on", at |-> sessNow, seen |-> sessNow, closed |-> 0]]
  BY DEF SessAdd
<1>3. \A v \in SessTokens \ {new} :
        IF v \in out \union own
        THEN sessEntries'[v] = SessNoEntry /\ sessLife'[v] = [SessUnborn EXCEPT !.state = "over"]
        ELSE sessEntries'[v] = sessEntries[v] /\ sessLife'[v] = sessLife[v]
  BY <1>2 DEF SessWithout, SessEnded
<1>4. sessEntries'[new].in
  BY <1>2 DEF SessWithout
<1>5. u = new
  BY <1>3 DEF SessUnborn
<1>6. ASSUME SessAlive(t), t \in SessIn, t \notin sessRotating, sessLife'[t].state = "over",
             NEW v \in SessTokens \ {u}, sessEntries'[v].in
      PROVE  sessEntries[v].seen >= sessEntries[t].seen
  <2>1. t # u /\ sessLife[t].state = "on"
    BY <1>6 DEF SessAlive
  <2>2. t \in out
    BY <1>6, <1>3, <1>5, <2>1
  <2>3. ~SessExpired(t) /\ ~SessGraceOver(t)
    <3>1. SessMatches(t)
      BY <1>1, <1>6, <2>1 DEF SessEntriesInv, SessIn
    <3>2. /\ sessNow \in Nat /\ sessLife[t].at \in Nat /\ sessLife[t].closed \in Nat
      BY <1>1, SessConstants DEF SessShapeInv, SessMoments
    <3> QED BY <1>6, <3>1, <3>2, SessConstants
            DEF SessMatches, SessAlive, SessExpired, SessGraceOver
  <2>4. t \in rest
    BY <2>2, <2>3
  <2>5. v \in in \ out
    BY <1>3, <1>5, <1>6 DEF SessNoEntry, SessIn
  <2>6. /\ dead \subseteq out
        /\ \A x \in rest \cap out, y \in rest \ out : sessEntries[x].seen <= sessEntries[y].seen
    BY <1>2, <2>2 DEF SessTrimmed
  <2>7. v \in rest \ out
    BY <2>5, <2>6
  <2>8. sessEntries[t].seen <= sessEntries[v].seen
    BY <2>2, <2>4, <2>6, <2>7
  <2>9. sessEntries[t].seen \in Nat /\ sessEntries[v].seen \in Nat
    BY <1>1 DEF SessShapeInv
  <2> QED BY <2>8, <2>9
<1> QED BY <1>4, <1>5, <1>6 DEF SessDisplaced

LEMMA SessStepDisplaces ==
    ASSUME SessInv, SessNext, NEW t \in SessTokens, NEW u \in SessTokens,
           sessLife[u].state = "new", sessLife'[u].state = "on"
    PROVE  SessDisplaced(t, u)
<1>1. SessShapeInv /\ SessEntriesInv
  BY DEF SessInv
<1>2. ASSUME NEW x \in SessTokens, SessLogin(x)
      PROVE  SessDisplaced(t, u)
  BY <1>2, SessAddDisplaces DEF SessLogin
<1>3. ASSUME NEW x \in SessTokens, NEW new \in SessTokens, SessRotate(x, new)
      PROVE  SessDisplaced(t, u)
  BY <1>3, SessAddDisplaces DEF SessRotate
<1>4. ASSUME NEW over, sessLife' = SessEnded(over)
      PROVE  FALSE
  BY <1>4 DEF SessEnded, SessUnborn
<1>5. ASSUME UNCHANGED sessLife
      PROVE  FALSE
  BY <1>5
<1>6. ASSUME NEW x \in SessTokens, SessCheck(x)
      PROVE  FALSE
  BY <1>6, <1>5 DEF SessCheck
<1>7. ASSUME NEW x \in SessTokens, NEW revive \in BOOLEAN, SessRequest(x, revive)
      PROVE  FALSE
  <2>1. CASE SessServes(x)
    BY <2>1, <1>7, <1>1 DEF SessRequest, SessShapeInv
  <2>2. CASE ~SessServes(x)
    BY <2>2, <1>7, <1>4 DEF SessRequest
  <2> QED BY <2>1, <2>2
<1>8. ASSUME NEW x \in SessTokens, SessClose(x)
      PROVE  FALSE
  BY <1>8, <1>1 DEF SessClose, SessShapeInv
<1>9. ASSUME NEW x \in SessTokens, SessLogout(x) \/ SessRevokeOthers(x)
      PROVE  FALSE
  BY <1>9, <1>4 DEF SessLogout, SessRevokeOthers
<1>10. ASSUME NEW x \in SessTokens, NEW at, SessTimer(x, at)
       PROVE  FALSE
  BY <1>10, <1>5 DEF SessTimer
<1>11. ASSUME SessSweep \/ SessRename \/ SessTimePasses
       PROVE  FALSE
  BY <1>11, <1>5 DEF SessSweep, SessRename, SessTimePasses
<1>12. ASSUME SessRevokeAll
       PROVE  FALSE
  BY <1>12, <1>4 DEF SessRevokeAll
<1> QED BY <1>2, <1>3, <1>6, <1>7, <1>8, <1>9, <1>10, <1>11, <1>12 DEF SessNext

-----------------------------------------------------------------------------
(* Sign-in. *)

SgnEntry == [in : BOOLEAN, fails : Nat, pending : Nat, first : Nat, until : Nat]

SgnShapeInv ==
    /\ sgnNow \in 1..SgnHorizon /\ sgnLimit \in {0, SgnMax}
    /\ sgnEntries \in [SgnKeys -> SgnEntry]
    /\ IsFiniteSet(SgnPresent(sgnEntries)) /\ Cardinality(SgnPresent(sgnEntries)) <= SgnCap
    /\ sgnAt \in [SgnAttempts -> [step : SgnKinds, key : Nat]]
    /\ sgnSlack \in [SgnKeys -> Nat]
    /\ sgnSetup \in [SgnRequests -> {"new", "hash", "ok", "conflict", "error"}]
    /\ sgnAdmin \in SgnRequests \union {0}

\* An attempt asks for its keys in turn, then gives each back; a second
\* refusal gives the first back.  Finitely many are under way.
SgnAttemptsInv ==
    /\ \A a \in SgnAttempts : LET at == sgnAt[a] IN
          /\ at.key >= 1
          /\ at.step = "check" => at.key <= Len(SgnAsks[a]) + 1
          /\ at.step = "undo" => Len(SgnAsks[a]) = 2
          /\ at.step \notin {"check", "undo"} => at.key <= Len(SgnAsks[a])
    /\ IsFiniteSet({a \in SgnAttempts : sgnAt[a] # SgnIdle})

\* Of a key whose entry is e, with n attempts under way and the given slack:
\* what is counted is under way; while the lock is on what is under way is
\* counted, but for the slack, and is within the limit with what failed.
SgnCounted(e, n, slack, limit) ==
    /\ ~e.in => e = SgnNoEntry
    /\ e.pending <= n /\ e.fails <= SgnMax
    /\ limit # 0 => n <= e.pending + slack /\ n + e.fails <= limit + slack

SgnCountsInv ==
    \A k \in SgnKeys : SgnCounted(sgnEntries[k], Cardinality(SgnUnderWay(k)), sgnSlack[k],
                                  sgnLimit)

SgnInv == SgnShapeInv /\ SgnAttemptsInv /\ SgnCountsInv /\ SgnSetupOnce

LEMMA SgnConstants ==
    /\ SgnMax \in Nat /\ SgnMax >= 1 /\ SgnCap \in Nat /\ SgnCap >= 1
    /\ SgnWindow \in Nat /\ SgnLockFor \in Nat
    /\ SgnHorizon \in Nat /\ SgnHorizon >= 1
    /\ \A a \in SgnAttempts :
          /\ SgnAsks[a] \in Seq(SgnKeys) /\ DOMAIN SgnAsks[a] = 1..Len(SgnAsks[a])
          /\ \A i \in 1..Len(SgnAsks[a]) : SgnAsks[a][i] \in SgnKeys
          /\ Len(SgnAsks[a]) = 1 \/ (Len(SgnAsks[a]) = 2 /\ SgnAsks[a][1] # SgnAsks[a][2])
<1>1. \A a \in SgnAttempts : SgnAsks[a] \in Seq(SgnKeys)
  BY SgnAssumption
<1> QED BY <1>1, SgnAssumption

LEMMA SgnLengths ==
    \A a \in SgnAttempts : Len(SgnAsks[a]) \in Nat /\ 1 <= Len(SgnAsks[a])
BY SgnConstants

-----------------------------------------------------------------------------
(* The table. *)

\* A table whose absent entries are empty.
SgnTable == {table \in [SgnKeys -> SgnEntry] :
                \A k \in SgnKeys : ~table[k].in => table[k] = SgnNoEntry}

LEMMA SgnSweptTable ==
    ASSUME NEW table \in SgnTable
    PROVE  /\ SgnSwept(table) \in SgnTable
           /\ \A k \in SgnKeys : /\ SgnSwept(table)[k] \in {table[k], SgnNoEntry}
                                 /\ SgnSwept(table)[k].pending = table[k].pending
                                 /\ SgnSwept(table)[k].fails \in {0, table[k].fails}
           /\ SgnPresent(SgnSwept(table)) \subseteq SgnPresent(table)
<1>1. SgnNoEntry \in SgnEntry
  BY DEF SgnNoEntry, SgnEntry
<1>2. \A k \in SgnKeys :
        SgnSwept(table)[k] = IF table[k].in /\ SgnExpired(table[k]) THEN SgnNoEntry ELSE table[k]
  BY DEF SgnSwept
<1>3. SgnSwept(table) \in SgnTable
  BY <1>1 DEF SgnSwept, SgnTable, SgnNoEntry
<1>4. \A k \in SgnKeys : /\ SgnSwept(table)[k].pending = table[k].pending
                         /\ SgnSwept(table)[k].fails \in {0, table[k].fails}
  BY <1>2 DEF SgnExpired, SgnNoEntry
<1>5. SgnPresent(SgnSwept(table)) \subseteq SgnPresent(table)
  BY <1>2 DEF SgnPresent, SgnNoEntry
<1> QED BY <1>2, <1>3, <1>4, <1>5

LEMMA SgnCurrentEntry ==
    ASSUME NEW e \in SgnEntry, sgnNow \in Nat, ~e.in => e = SgnNoEntry
    PROVE  /\ SgnCurrent(e) \in SgnEntry /\ SgnCurrent(e).in
           /\ SgnCurrent(e).pending = e.pending /\ SgnCurrent(e).fails \in {0, e.fails}
<1>1. CASE ~e.in
  BY <1>1 DEF SgnCurrent, SgnNoEntry, SgnEntry
<1>2. CASE e.in /\ sgnNow - e.first > SgnWindow
  <2>1. SgnCurrent(e) = [e EXCEPT !.fails = 0, !.first = sgnNow]
    BY <1>2 DEF SgnCurrent
  <2>2. /\ [e EXCEPT !.fails = 0, !.first = sgnNow].in = e.in
        /\ [e EXCEPT !.fails = 0, !.first = sgnNow].pending = e.pending
        /\ [e EXCEPT !.fails = 0, !.first = sgnNow].fails = 0
        /\ [e EXCEPT !.fails = 0, !.first = sgnNow] \in SgnEntry
    BY DEF SgnEntry
  <2> QED BY <2>1, <2>2, <1>2
<1>3. CASE e.in /\ ~(sgnNow - e.first > SgnWindow)
  BY <1>3 DEF SgnCurrent
<1> QED BY <1>1, <1>2, <1>3

\* Trimming drops entries only, until the table fits.
LEMMA SgnTrimmedTable ==
    ASSUME NEW table \in SgnTable, IsFiniteSet(SgnPresent(table)),
           Cardinality(SgnPresent(table)) <= SgnCap + 1, NEW t \in SgnTrimmed(table)
    PROVE  /\ t \in SgnTable
           /\ \A k \in SgnKeys : t[k] \in {table[k], SgnNoEntry}
           /\ IsFiniteSet(SgnPresent(t)) /\ Cardinality(SgnPresent(t)) <= SgnCap
<1> DEFINE kept == SgnSwept(table)
           in == SgnPresent(kept)
<1>1. /\ kept \in SgnTable /\ in \subseteq SgnPresent(table)
      /\ \A k \in SgnKeys : kept[k] \in {table[k], SgnNoEntry}
  BY SgnSweptTable
<1>2. IsFiniteSet(in) /\ Cardinality(in) <= Cardinality(SgnPresent(table))
  BY <1>1, FS_Subset
<1>3. Cardinality(in) \in Nat /\ Cardinality(SgnPresent(table)) \in Nat
  BY <1>2, FS_CardinalityType
<1>4. CASE t = table /\ Cardinality(SgnPresent(table)) <= SgnCap
  BY <1>4
<1>5. CASE t = kept /\ Cardinality(in) <= SgnCap
  BY <1>5, <1>1, <1>2
<1>6. ASSUME NEW k \in in, t = [kept EXCEPT ![k] = SgnNoEntry]
      PROVE  /\ t \in SgnTable
             /\ \A m \in SgnKeys : t[m] \in {table[m], SgnNoEntry}
             /\ IsFiniteSet(SgnPresent(t)) /\ Cardinality(SgnPresent(t)) <= SgnCap
  <2>1. k \in SgnKeys
    BY DEF SgnPresent
  <2>2. \A m \in SgnKeys : t[m] = IF m = k THEN SgnNoEntry ELSE kept[m]
    BY <1>1, <1>6, <2>1 DEF SgnTable
  <2>3. t \in SgnTable
    BY <1>1, <1>6, <2>1 DEF SgnTable, SgnNoEntry, SgnEntry
  <2>4. SgnPresent(t) \subseteq in \ {k}
    BY <2>2 DEF SgnPresent, SgnNoEntry
  <2>5. IsFiniteSet(in \ {k}) /\ Cardinality(in \ {k}) = Cardinality(in) - 1
    <3> HIDE DEF in
    <3> QED BY <1>2, FS_RemoveElement
  <2>6. IsFiniteSet(SgnPresent(t)) /\ Cardinality(SgnPresent(t)) <= Cardinality(in \ {k})
    BY <2>4, <2>5, FS_Subset
  <2>7. Cardinality(SgnPresent(t)) \in Nat
    BY <2>6, FS_CardinalityType
  <2> HIDE DEF in
  <2>8. Cardinality(SgnPresent(t)) <= SgnCap
    BY <1>2, <1>3, <2>5, <2>6, <2>7, SgnConstants
  <2> QED BY <1>1, <2>2, <2>3, <2>6, <2>8
<1>7. \/ t = table /\ Cardinality(SgnPresent(table)) <= SgnCap
      \/ t = kept /\ Cardinality(in) <= SgnCap
      \/ \E k \in in : t = [kept EXCEPT ![k] = SgnNoEntry]
  BY DEF SgnTrimmed
<1> QED BY <1>4, <1>5, <1>6, <1>7

-----------------------------------------------------------------------------
(* The attempts under way. *)

\* What attempt a holds when it is at "at".
SgnHoldsAt(a, at, k) ==
    \E i \in 1..Len(SgnAsks[a]) : SgnAsks[a][i] = k /\
        CASE at.step = "check" -> i < at.key
          [] at.step = "undo" -> i = 1
          [] OTHER -> i >= at.key

LEMMA SgnHoldsLemma ==
    ASSUME NEW a \in SgnAttempts, NEW k
    PROVE  /\ SgnHolds(a, k) <=> SgnHoldsAt(a, sgnAt[a], k)
           /\ SgnHolds(a, k)' <=> SgnHoldsAt(a, sgnAt'[a], k)
BY SgnConstants DEF SgnHolds, SgnHoldsAt

SgnStepKey(step, key) == [step |-> step, key |-> key]

\* An attempt takes places by asking, and gives them back one by one.
LEMMA SgnPlaces ==
    ASSUME NEW a \in SgnAttempts, NEW j \in 1..Len(SgnAsks[a])
    PROVE  /\ \A k : ~SgnHoldsAt(a, SgnIdle, k)
           /\ \A k : SgnHoldsAt(a, SgnStepKey("check", j + 1), k) <=>
                        SgnHoldsAt(a, SgnStepKey("check", j), k) \/ k = SgnAsks[a][j]
           /\ ~SgnHoldsAt(a, SgnStepKey("check", j), SgnAsks[a][j])
           /\ \A step \in {"fail", "reset", "release"} :
                 /\ \A k : /\ SgnHoldsAt(a, SgnStepKey(step, j + 1), k) <=>
                                 SgnHoldsAt(a, SgnStepKey(step, j), k) /\ k # SgnAsks[a][j]
                           /\ SgnHoldsAt(a, SgnStepKey(step, 1), k) <=>
                                 SgnHoldsAt(a, SgnStepKey("check", Len(SgnAsks[a]) + 1), k)
                           /\ ~SgnHoldsAt(a, SgnStepKey(step, Len(SgnAsks[a]) + 1), k)
                 /\ SgnHoldsAt(a, SgnStepKey(step, j), SgnAsks[a][j])
           /\ \A key, k : SgnHoldsAt(a, SgnStepKey("undo", key), k) <=> k = SgnAsks[a][1]
           /\ \A k : Len(SgnAsks[a]) = 2 =>
                 (SgnHoldsAt(a, SgnStepKey("check", 2), k) <=> k = SgnAsks[a][1])
<1>1. /\ Len(SgnAsks[a]) = 1 \/ (Len(SgnAsks[a]) = 2 /\ SgnAsks[a][1] # SgnAsks[a][2])
  BY SgnConstants
<1>2. CASE Len(SgnAsks[a]) = 1
  BY <1>2 DEF SgnHoldsAt, SgnStepKey, SgnIdle
<1>3. CASE Len(SgnAsks[a]) = 2 /\ SgnAsks[a][1] # SgnAsks[a][2]
  <2>1. 1..Len(SgnAsks[a]) = {1, 2}
    BY <1>3
  <2>2. j = 1 \/ j = 2
    BY <2>1
  <2>3. \A at, k : SgnHoldsAt(a, at, k) <=>
           \/ SgnAsks[a][1] = k /\ CASE at.step = "check" -> 1 < at.key
                                     [] at.step = "undo" -> TRUE
                                     [] OTHER -> 1 >= at.key
           \/ SgnAsks[a][2] = k /\ CASE at.step = "check" -> 2 < at.key
                                     [] at.step = "undo" -> FALSE
                                     [] OTHER -> 2 >= at.key
    BY <2>1 DEF SgnHoldsAt
  <2> QED BY <1>3, <2>2, <2>3 DEF SgnStepKey, SgnIdle
<1> QED BY <1>1, <1>2, <1>3

LEMMA SgnUnderWayFinite ==
    ASSUME SgnAttemptsInv, NEW k
    PROVE  IsFiniteSet(SgnUnderWay(k)) /\ Cardinality(SgnUnderWay(k)) \in Nat
<1>1. SgnUnderWay(k) \subseteq {a \in SgnAttempts : sgnAt[a] # SgnIdle}
  <2> SUFFICES ASSUME NEW a \in SgnAttempts, SgnHolds(a, k), sgnAt[a] = SgnIdle
               PROVE  FALSE
    BY DEF SgnUnderWay
  <2>1. 1 \in 1..Len(SgnAsks[a])
    BY SgnConstants
  <2> QED BY <2>1, SgnHoldsLemma, SgnPlaces
<1>2. IsFiniteSet(SgnUnderWay(k))
  BY <1>1, FS_Subset DEF SgnAttemptsInv
<1> QED BY <1>2, FS_CardinalityType

SgnAllFinite == \A k : Cardinality(SgnUnderWay(k)) \in Nat

\* And so in the next state.
LEMMA SgnUnderWayNext == SgnAttemptsInv' => \A k : Cardinality(SgnUnderWay(k)') \in Nat
<1>1. SgnAttemptsInv => SgnAllFinite
  BY SgnUnderWayFinite DEF SgnAllFinite
<1>2. SgnAttemptsInv' => SgnAllFinite'
  BY <1>1, PTL
<1> QED BY <1>2 DEF SgnAllFinite

\* Nobody's place changes.
LEMMA SgnStays ==
    ASSUME NEW a \in SgnAttempts, NEW at, sgnAt \in [SgnAttempts -> [step : SgnKinds, key : Nat]],
           sgnAt' = [sgnAt EXCEPT ![a] = at],
           \A k : SgnHoldsAt(a, at, k) <=> SgnHoldsAt(a, sgnAt[a], k)
    PROVE  \A k : SgnUnderWay(k)' = SgnUnderWay(k)
<1> SUFFICES ASSUME NEW k, NEW b \in SgnAttempts
             PROVE  SgnHolds(b, k)' <=> SgnHolds(b, k)
  BY DEF SgnUnderWay
<1>1. sgnAt'[b] = IF b = a THEN at ELSE sgnAt[b]
  OBVIOUS
<1> QED BY <1>1, SgnHoldsLemma

\* An attempt takes a place under one key.
LEMMA SgnTakes ==
    ASSUME SgnAttemptsInv, NEW a \in SgnAttempts, NEW at, NEW key,
           sgnAt \in [SgnAttempts -> [step : SgnKinds, key : Nat]],
           sgnAt' = [sgnAt EXCEPT ![a] = at],
           \A k : SgnHoldsAt(a, at, k) <=> SgnHoldsAt(a, sgnAt[a], k) \/ k = key,
           ~SgnHoldsAt(a, sgnAt[a], key)
    PROVE  /\ \A k : k # key => SgnUnderWay(k)' = SgnUnderWay(k)
           /\ Cardinality(SgnUnderWay(key)') = Cardinality(SgnUnderWay(key)) + 1
<1>1. \A b \in SgnAttempts : sgnAt'[b] = IF b = a THEN at ELSE sgnAt[b]
  OBVIOUS
<1>2. \A k : k # key => SgnUnderWay(k)' = SgnUnderWay(k)
  BY <1>1, SgnHoldsLemma DEF SgnUnderWay
<1>3. /\ SgnUnderWay(key)' = SgnUnderWay(key) \union {a}
      /\ a \notin SgnUnderWay(key)
  BY <1>1, SgnHoldsLemma DEF SgnUnderWay
<1>4. IsFiniteSet(SgnUnderWay(key))
  BY SgnUnderWayFinite
<1> QED BY <1>2, <1>3, <1>4, FS_AddElement

\* An attempt gives a place back.
LEMMA SgnReturns ==
    ASSUME SgnAttemptsInv, NEW a \in SgnAttempts, NEW at, NEW key,
           sgnAt \in [SgnAttempts -> [step : SgnKinds, key : Nat]],
           sgnAt' = [sgnAt EXCEPT ![a] = at],
           \A k : SgnHoldsAt(a, at, k) <=> SgnHoldsAt(a, sgnAt[a], k) /\ k # key,
           SgnHoldsAt(a, sgnAt[a], key)
    PROVE  /\ \A k : k # key => SgnUnderWay(k)' = SgnUnderWay(k)
           /\ Cardinality(SgnUnderWay(key)') = Cardinality(SgnUnderWay(key)) - 1
           /\ Cardinality(SgnUnderWay(key)) >= 1
<1>1. \A b \in SgnAttempts : sgnAt'[b] = IF b = a THEN at ELSE sgnAt[b]
  OBVIOUS
<1>2. \A k : k # key => SgnUnderWay(k)' = SgnUnderWay(k)
  BY <1>1, SgnHoldsLemma DEF SgnUnderWay
<1>3. /\ SgnUnderWay(key)' = SgnUnderWay(key) \ {a}
      /\ a \in SgnUnderWay(key)
  BY <1>1, SgnHoldsLemma DEF SgnUnderWay
<1>4. IsFiniteSet(SgnUnderWay(key)) /\ Cardinality(SgnUnderWay(key)) \in Nat
  BY SgnUnderWayFinite
<1>5. /\ IsFiniteSet(SgnUnderWay(key) \ {a})
      /\ Cardinality(SgnUnderWay(key) \ {a}) = Cardinality(SgnUnderWay(key)) - 1
  BY <1>3, <1>4, FS_RemoveElement
<1>6. Cardinality(SgnUnderWay(key) \ {a}) \in Nat
  BY <1>5, FS_CardinalityType
<1> QED BY <1>2, <1>3, <1>4, <1>5, <1>6

\* An attempt that is where an attempt may be.
SgnWellAt(a, at) ==
    /\ at \in [step : SgnKinds, key : Nat] /\ at.key >= 1
    /\ at.step = "check" => at.key <= Len(SgnAsks[a]) + 1
    /\ at.step = "undo" => Len(SgnAsks[a]) = 2
    /\ at.step \notin {"check", "undo"} => at.key <= Len(SgnAsks[a])

LEMMA SgnAttemptMoves ==
    ASSUME SgnAttemptsInv, NEW a \in SgnAttempts, NEW at,
           sgnAt \in [SgnAttempts -> [step : SgnKinds, key : Nat]],
           sgnAt' = [sgnAt EXCEPT ![a] = at], SgnWellAt(a, at)
    PROVE  /\ SgnAttemptsInv'
           /\ sgnAt' \in [SgnAttempts -> [step : SgnKinds, key : Nat]]
<1>1. \A b \in SgnAttempts : sgnAt'[b] = IF b = a THEN at ELSE sgnAt[b]
  OBVIOUS
<1>2. IsFiniteSet({b \in SgnAttempts : sgnAt[b] # SgnIdle}')
  <2> DEFINE busy == {b \in SgnAttempts : sgnAt[b] # SgnIdle}
             after == {b \in SgnAttempts : sgnAt'[b] # SgnIdle}
  <2>1. after \subseteq busy \union {a}
    BY <1>1
  <2>2. IsFiniteSet(busy)
    BY DEF SgnAttemptsInv
  <2> HIDE DEF busy
  <2>3. IsFiniteSet(busy \union {a})
    BY <2>2, FS_AddElement
  <2>4. IsFiniteSet(after)
    BY <2>1, <2>3, FS_Subset
  <2> QED BY <2>4 DEF SgnIdle
<1>3. \A b \in SgnAttempts : LET x == sgnAt'[b] IN
          /\ x.key >= 1
          /\ x.step = "check" => x.key <= Len(SgnAsks[b]) + 1
          /\ x.step = "undo" => Len(SgnAsks[b]) = 2
          /\ x.step \notin {"check", "undo"} => x.key <= Len(SgnAsks[b])
  BY <1>1 DEF SgnWellAt, SgnAttemptsInv
<1>4. SgnAttemptsInv'
  BY <1>2, <1>3 DEF SgnAttemptsInv
<1>5. sgnAt' \in [SgnAttempts -> [step : SgnKinds, key : Nat]]
  BY DEF SgnWellAt
<1> QED BY <1>4, <1>5

\* The counts, one key at a time.
LEMMA SgnCountedLemma ==
    ASSUME NEW e \in SgnEntry, NEW f \in SgnEntry, NEW n \in Nat, NEW slack \in Nat,
           NEW limit \in {0, SgnMax}, SgnCounted(e, n, slack, limit), f.in,
           f.pending \in Nat, f.fails \in Nat
    PROVE  /\ f.pending = e.pending /\ f.fails \in {0, e.fails} => SgnCounted(f, n, slack, limit)
           /\ f.pending = e.pending /\ f.fails \in {0, e.fails} /\ limit = 0 =>
                 SgnCounted(f, n + 1, slack, limit)
           /\ (/\ f.pending = e.pending + 1 /\ f.fails \in {0, e.fails}
               /\ limit # 0 /\ f.fails + e.pending < limit) =>
                 SgnCounted(f, n + 1, slack, limit)
           /\ (/\ n >= 1 /\ f.pending = SgnLess(e.pending)
               /\ f.fails \in {0, e.fails, e.fails + 1, 1} /\ f.fails <= SgnMax) =>
                 SgnCounted(f, n - 1, slack, limit)
<1>1. /\ limit \in Nat /\ SgnMax \in Nat /\ e.pending \in Nat /\ e.fails \in Nat
      /\ e.pending <= n /\ e.fails <= SgnMax
      /\ limit # 0 => n <= e.pending + slack /\ n + e.fails <= limit + slack
      /\ limit # 0 => limit = SgnMax
  BY SgnConstants DEF SgnCounted, SgnEntry
<1>2. f.pending = e.pending /\ f.fails \in {0, e.fails} => SgnCounted(f, n, slack, limit)
  BY <1>1 DEF SgnCounted
<1>3. f.pending = e.pending /\ f.fails \in {0, e.fails} /\ limit = 0 =>
         SgnCounted(f, n + 1, slack, limit)
  BY <1>1 DEF SgnCounted
<1>4. (/\ f.pending = e.pending + 1 /\ f.fails \in {0, e.fails}
       /\ limit # 0 /\ f.fails + e.pending < limit) =>
         SgnCounted(f, n + 1, slack, limit)
  BY <1>1 DEF SgnCounted
<1>5. (/\ n >= 1 /\ f.pending = SgnLess(e.pending)
       /\ f.fails \in {0, e.fails, e.fails + 1, 1} /\ f.fails <= SgnMax) =>
         SgnCounted(f, n - 1, slack, limit)
  <2> SUFFICES ASSUME n >= 1, f.pending = SgnLess(e.pending),
                      f.fails \in {0, e.fails, e.fails + 1, 1}, f.fails <= SgnMax
               PROVE  SgnCounted(f, n - 1, slack, limit)
    OBVIOUS
  <2>1. f.pending = IF e.pending > 0 THEN e.pending - 1 ELSE 0
    BY DEF SgnLess
  <2>2. CASE f.fails \in {0, e.fails}
    BY <1>1, <2>1, <2>2 DEF SgnCounted
  <2>3. CASE f.fails \in {e.fails + 1, 1}
    BY <1>1, <2>1, <2>3 DEF SgnCounted
  <2> QED BY <2>2, <2>3
<1> QED BY <1>2, <1>3, <1>4, <1>5

\* A table is put in place: what is absent is not counted any more, and its
\* slack is what is under way.
LEMMA SgnTableStep ==
    ASSUME SgnShapeInv, SgnAttemptsInv', NEW table \in SgnTable, SgnSet(table),
           UNCHANGED sgnLimit,
           \A k \in SgnKeys : table[k].in =>
              SgnCounted(table[k], Cardinality(SgnUnderWay(k)'), sgnSlack[k], sgnLimit)
    PROVE  SgnCountsInv' /\ sgnSlack' \in [SgnKeys -> Nat] /\ sgnEntries' = table
<1>1. \A k : Cardinality(SgnUnderWay(k)') \in Nat
  BY SgnUnderWayNext
<1>2. /\ sgnEntries' = table
      /\ \A k \in SgnKeys : sgnSlack'[k] = IF table[k].in THEN sgnSlack[k]
                                           ELSE Cardinality(SgnUnderWay(k)')
      /\ sgnSlack' \in [SgnKeys -> Nat]
  BY <1>1 DEF SgnSet, SgnShapeInv
<1>3. SgnCountsInv'
  <2> SUFFICES ASSUME NEW k \in SgnKeys
               PROVE  SgnCounted(table[k], Cardinality(SgnUnderWay(k)'), sgnSlack'[k], sgnLimit)
    BY <1>2 DEF SgnCountsInv
  <2>1. CASE table[k].in
    BY <1>2, <2>1
  <2>2. CASE ~table[k].in
    <3>1. table[k] = SgnNoEntry
      BY <2>2 DEF SgnTable
    <3>2. sgnSlack'[k] = Cardinality(SgnUnderWay(k)')
      BY <1>2, <2>2
    <3>3. sgnLimit \in Nat
      BY SgnConstants DEF SgnShapeInv
    <3> QED BY <1>1, <3>1, <3>2, <3>3, SgnConstants DEF SgnCounted, SgnNoEntry
  <2> QED BY <2>1, <2>2
<1> QED BY <1>2, <1>3

LEMMA SgnFacts ==
    ASSUME SgnInv
    PROVE  /\ sgnEntries \in SgnTable /\ sgnNow \in Nat /\ sgnLimit \in {0, SgnMax}
           /\ sgnLimit \in Nat /\ sgnSlack \in [SgnKeys -> Nat]
           /\ sgnAt \in [SgnAttempts -> [step : SgnKinds, key : Nat]]
           /\ IsFiniteSet(SgnPresent(sgnEntries))
           /\ Cardinality(SgnPresent(sgnEntries)) <= SgnCap
           /\ SgnSwept(sgnEntries) \in SgnTable
           /\ \A k \in SgnKeys :
                 /\ SgnSwept(sgnEntries)[k] \in {sgnEntries[k], SgnNoEntry}
                 /\ SgnSwept(sgnEntries)[k].pending = sgnEntries[k].pending
                 /\ SgnSwept(sgnEntries)[k].fails \in {0, sgnEntries[k].fails}
                 /\ sgnEntries[k] \in SgnEntry
           /\ SgnPresent(SgnSwept(sgnEntries)) \subseteq SgnPresent(sgnEntries)
<1>1. sgnEntries \in SgnTable
  BY DEF SgnInv, SgnShapeInv, SgnCountsInv, SgnCounted, SgnTable
<1>2. \A k \in SgnKeys : sgnEntries[k] \in SgnEntry
  BY DEF SgnInv, SgnShapeInv
<1> QED BY <1>1, <1>2, SgnSweptTable, SgnConstants DEF SgnInv, SgnShapeInv

\* An entry is put into a table that holds no more than the limiter's.
LEMMA SgnPutTable ==
    ASSUME SgnInv, NEW table \in SgnTable, SgnPresent(table) \subseteq SgnPresent(sgnEntries),
           NEW k \in SgnKeys, NEW e \in SgnEntry, e.in \/ e = SgnNoEntry
    PROVE  /\ [table EXCEPT ![k] = e] \in SgnTable
           /\ \A m \in SgnKeys : [table EXCEPT ![k] = e][m] = IF m = k THEN e ELSE table[m]
           /\ IsFiniteSet(SgnPresent([table EXCEPT ![k] = e]))
           /\ Cardinality(SgnPresent([table EXCEPT ![k] = e])) <= SgnCap + 1
           /\ ~e.in \/ table[k].in =>
                 Cardinality(SgnPresent([table EXCEPT ![k] = e])) <= SgnCap
<1> DEFINE mid == [table EXCEPT ![k] = e]
<1>1. /\ mid \in SgnTable
      /\ \A m \in SgnKeys : mid[m] = IF m = k THEN e ELSE table[m]
  BY DEF SgnTable
<1>2. IsFiniteSet(SgnPresent(sgnEntries)) /\ Cardinality(SgnPresent(sgnEntries)) <= SgnCap
  BY SgnFacts
<1>3. SgnPresent(mid) \subseteq SgnPresent(sgnEntries) \union {k}
  BY <1>1 DEF SgnPresent
<1>4. ~e.in \/ table[k].in => SgnPresent(mid) \subseteq SgnPresent(sgnEntries)
  BY <1>1 DEF SgnPresent
<1> HIDE DEF mid
<1>5. /\ IsFiniteSet(SgnPresent(sgnEntries) \union {k})
      /\ Cardinality(SgnPresent(sgnEntries) \union {k}) <= SgnCap + 1
  <2>1. Cardinality(SgnPresent(sgnEntries)) \in Nat
    BY <1>2, FS_CardinalityType
  <2>2. /\ IsFiniteSet(SgnPresent(sgnEntries) \union {k})
        /\ Cardinality(SgnPresent(sgnEntries) \union {k}) =
              IF k \in SgnPresent(sgnEntries) THEN Cardinality(SgnPresent(sgnEntries))
              ELSE Cardinality(SgnPresent(sgnEntries)) + 1
    BY <1>2, FS_AddElement
  <2> QED BY <1>2, <2>1, <2>2, SgnConstants
<1>6. /\ IsFiniteSet(SgnPresent(mid))
      /\ Cardinality(SgnPresent(mid)) <= Cardinality(SgnPresent(sgnEntries) \union {k})
  BY <1>3, <1>5, FS_Subset
<1>7. /\ Cardinality(SgnPresent(mid)) \in Nat
      /\ Cardinality(SgnPresent(sgnEntries) \union {k}) \in Nat
      /\ Cardinality(SgnPresent(sgnEntries)) \in Nat
  BY <1>2, <1>5, <1>6, FS_CardinalityType
<1>8. ~e.in \/ table[k].in => Cardinality(SgnPresent(mid)) <= Cardinality(SgnPresent(sgnEntries))
  BY <1>2, <1>4, FS_Subset
<1>9. Cardinality(SgnPresent(mid)) <= SgnCap + 1
  BY <1>5, <1>6, <1>7, SgnConstants
<1>10. ~e.in \/ table[k].in => Cardinality(SgnPresent(mid)) <= SgnCap
  BY <1>2, <1>7, <1>8, SgnConstants
<1> QED BY <1>1, <1>6, <1>9, <1>10 DEF mid

\* Acquire grants a key.
LEMMA SgnAcquireStep ==
    ASSUME SgnInv, NEW a \in SgnAttempts, SgnAcquire(a)
    PROVE  SgnInv'
<1>1. PICK j \in Nat : j = sgnAt[a].key
  BY SgnFacts
<1>2. /\ j \in 1..Len(SgnAsks[a]) /\ sgnAt[a].step = "check"
  BY <1>1, SgnConstants DEF SgnAcquire, SgnInv, SgnAttemptsInv
<1>3. PICK k \in SgnKeys : k = SgnAsks[a][j]
  BY <1>2, SgnConstants
<1>4. sgnAt[a] = SgnStepKey("check", j)
  BY <1>1, <1>2, SgnFacts DEF SgnStepKey
<1>5. sgnAt' = [sgnAt EXCEPT ![a] = SgnStepKey("check", j + 1)]
  BY <1>1 DEF SgnAcquire, SgnStep, SgnStepKey
<1>6. UNCHANGED sgnFixed /\ UNCHANGED <<sgnNow, sgnLimit, sgnSetup, sgnAdmin>>
  BY DEF SgnAcquire, sgnFixed
<1>7. SgnWellAt(a, SgnStepKey("check", j + 1))
  BY <1>2, SgnConstants DEF SgnWellAt, SgnStepKey, SgnKinds
<1>8. SgnAttemptsInv' /\ sgnAt' \in [SgnAttempts -> [step : SgnKinds, key : Nat]]
  BY <1>5, <1>7, SgnAttemptMoves, SgnFacts DEF SgnInv
<1>9. /\ \A m : m # k => SgnUnderWay(m)' = SgnUnderWay(m)
      /\ Cardinality(SgnUnderWay(k)') = Cardinality(SgnUnderWay(k)) + 1
  <2>1. /\ \A m : SgnHoldsAt(a, SgnStepKey("check", j + 1), m) <=>
                     SgnHoldsAt(a, sgnAt[a], m) \/ m = k
        /\ ~SgnHoldsAt(a, sgnAt[a], k)
    BY <1>2, <1>3, <1>4, SgnPlaces
  <2> QED BY <1>5, <2>1, SgnTakes, SgnFacts DEF SgnInv
<1>10. \A m : Cardinality(SgnUnderWay(m)) \in Nat
  BY SgnUnderWayFinite DEF SgnInv
<1>11. CASE sgnLimit = 0 /\ UNCHANGED <<sgnEntries, sgnSlack>>
  <2>1. SgnCountsInv'
    <3> SUFFICES ASSUME NEW m \in SgnKeys
                 PROVE  SgnCounted(sgnEntries[m], Cardinality(SgnUnderWay(m)'), sgnSlack[m], 0)
      BY <1>6, <1>11 DEF SgnCountsInv
    <3>1. SgnCounted(sgnEntries[m], Cardinality(SgnUnderWay(m)), sgnSlack[m], 0)
      BY <1>11 DEF SgnInv, SgnCountsInv
    <3>2. CASE m # k
      BY <3>1, <3>2, <1>9
    <3>3. CASE m = k
      <4>1. sgnEntries[m].pending \in Nat
        BY SgnFacts DEF SgnEntry
      <4> QED BY <3>1, <3>3, <4>1, <1>9, <1>10 DEF SgnCounted
    <3> QED BY <3>2, <3>3
  <2>2. SgnShapeInv'
    BY <1>6, <1>8, <1>11 DEF SgnInv, SgnShapeInv, SgnPresent
  <2> QED BY <1>6, <1>8, <2>1, <2>2 DEF SgnInv, SgnSetupOnce
<1>12. CASE /\ sgnLimit # 0 /\ ~SgnRefuses(SgnSwept(sgnEntries), k)
            /\ \E t \in SgnGranted(SgnSwept(sgnEntries), k) : SgnSet(t)
  <2> DEFINE table == SgnSwept(sgnEntries)
             f == SgnCurrent(table[k])
             g == [f EXCEPT !.pending = @ + 1]
             mid == [table EXCEPT ![k] = g]
  <2>1. table \in SgnTable /\ SgnPresent(table) \subseteq SgnPresent(sgnEntries)
    BY SgnFacts
  <2>2. /\ f \in SgnEntry /\ f.in /\ f.pending = sgnEntries[k].pending
        /\ f.fails \in {0, sgnEntries[k].fails}
    <3>1. /\ table[k] \in SgnEntry /\ (~table[k].in => table[k] = SgnNoEntry)
          /\ table[k].pending = sgnEntries[k].pending
          /\ table[k].fails \in {0, sgnEntries[k].fails}
      BY <2>1, SgnFacts DEF SgnTable
    <3> HIDE DEF table
    <3> QED BY <3>1, SgnCurrentEntry, SgnFacts
  <2>3. ~(f.fails + f.pending >= sgnLimit)
    BY <1>12 DEF SgnRefuses
  <2>4. PICK t \in SgnTrimmed(mid) : SgnSet(t)
    <3> HIDE DEF table
    <3>1. SgnGranted(table, k) = SgnTrimmed(mid)
      BY DEF SgnGranted
    <3> QED BY <1>12, <3>1 DEF table
  <2> HIDE DEF table, f
  <2>5. g \in SgnEntry /\ g.in /\ g.pending = f.pending + 1 /\ g.fails = f.fails
    BY <2>2 DEF SgnEntry
  <2> HIDE DEF g
  <2>6. /\ mid \in SgnTable
        /\ \A m \in SgnKeys : mid[m] = IF m = k THEN g ELSE table[m]
        /\ IsFiniteSet(SgnPresent(mid)) /\ Cardinality(SgnPresent(mid)) <= SgnCap + 1
    BY <2>1, <2>5, SgnPutTable
  <2> HIDE DEF mid
  <2>7. /\ t \in SgnTable /\ \A m \in SgnKeys : t[m] \in {mid[m], SgnNoEntry}
        /\ IsFiniteSet(SgnPresent(t)) /\ Cardinality(SgnPresent(t)) <= SgnCap
    BY <2>4, <2>6, SgnTrimmedTable
  <2>8. ASSUME NEW m \in SgnKeys, t[m].in
        PROVE  SgnCounted(t[m], Cardinality(SgnUnderWay(m)'), sgnSlack[m], sgnLimit)
    <3>1. t[m] = mid[m]
      BY <2>7, <2>8 DEF SgnNoEntry
    <3>2. SgnCounted(sgnEntries[m], Cardinality(SgnUnderWay(m)), sgnSlack[m], sgnLimit)
      BY DEF SgnInv, SgnCountsInv
    <3>3. CASE m # k
      <4>1. t[m] = sgnEntries[m]
        BY <3>1, <3>3, <2>6, <2>8, SgnFacts DEF SgnNoEntry, table
      <4> QED BY <4>1, <3>2, <3>3, <1>9
    <3>4. CASE m = k
      <4>1. t[m] = g
        BY <3>1, <3>4, <2>6
      <4>2. /\ g.pending \in Nat /\ g.fails \in Nat /\ f.fails \in Nat /\ f.pending \in Nat
        BY <2>2, <2>5 DEF SgnEntry
      <4>3. /\ g.pending = sgnEntries[m].pending + 1 /\ g.fails \in {0, sgnEntries[m].fails}
            /\ g.fails + sgnEntries[m].pending < sgnLimit
        BY <2>2, <2>3, <2>5, <3>4, <4>2, SgnFacts
      <4>4. SgnCounted(g, Cardinality(SgnUnderWay(m)) + 1, sgnSlack[m], sgnLimit)
        BY <3>2, <4>2, <4>3, <2>5, <1>10, <1>12, SgnCountedLemma, SgnFacts
      <4> QED BY <4>1, <4>4, <3>4, <1>9
    <3> QED BY <3>3, <3>4
  <2>9. SgnCountsInv' /\ sgnSlack' \in [SgnKeys -> Nat] /\ sgnEntries' = t
    BY <1>6, <1>8, <2>4, <2>7, <2>8, SgnTableStep DEF SgnInv
  <2>10. SgnShapeInv'
    BY <1>6, <1>8, <2>7, <2>9 DEF SgnInv, SgnShapeInv, SgnTable
  <2> QED BY <1>6, <1>8, <2>9, <2>10 DEF SgnInv, SgnSetupOnce
<1> QED BY <1>1, <1>3, <1>11, <1>12 DEF SgnAcquire

\* What a refusal or a return leaves of the table: an entry that is still there
\* counts for its own attempts.
LEMMA SgnPutStep ==
    ASSUME SgnInv, SgnAttemptsInv',
           sgnAt' \in [SgnAttempts -> [step : SgnKinds, key : Nat]],
           UNCHANGED sgnFixed, NEW t \in SgnTable, SgnSet(t),
           IsFiniteSet(SgnPresent(t)), Cardinality(SgnPresent(t)) <= SgnCap,
           \A k \in SgnKeys : t[k].in =>
              SgnCounted(t[k], Cardinality(SgnUnderWay(k)'), sgnSlack[k], sgnLimit)
    PROVE  SgnInv'
<1>1. UNCHANGED <<sgnNow, sgnLimit, sgnSetup, sgnAdmin>>
  BY DEF sgnFixed
<1>2. SgnCountsInv' /\ sgnSlack' \in [SgnKeys -> Nat] /\ sgnEntries' = t
  BY <1>1, SgnTableStep DEF SgnInv
<1>3. SgnShapeInv'
  BY <1>1, <1>2 DEF SgnInv, SgnShapeInv, SgnTable
<1> QED BY <1>1, <1>2, <1>3 DEF SgnInv, SgnSetupOnce

\* Acquire refuses the key: the limiter counts nothing.
LEMMA SgnRefusedStep ==
    ASSUME SgnInv, NEW a \in SgnAttempts, SgnRefused(a)
    PROVE  SgnInv'
<1>1. PICK j \in Nat : j = sgnAt[a].key
  BY SgnFacts
<1>2. /\ j \in 1..Len(SgnAsks[a]) /\ sgnAt[a].step = "check"
  BY <1>1, SgnConstants DEF SgnRefused, SgnInv, SgnAttemptsInv
<1>3. PICK k \in SgnKeys : k = SgnAsks[a][j]
  BY <1>2, SgnConstants
<1>4. sgnAt[a] = SgnStepKey("check", j)
  BY <1>1, <1>2, SgnFacts DEF SgnStepKey
<1>5. PICK at : /\ at = IF j = 1 THEN SgnIdle ELSE SgnStepKey("undo", 1)
                /\ sgnAt' = [sgnAt EXCEPT ![a] = at]
  BY <1>1 DEF SgnRefused, SgnOver, SgnStep, SgnStepKey
<1>6. UNCHANGED sgnFixed
  BY DEF SgnRefused
<1>7. SgnWellAt(a, at)
  BY <1>2, <1>5, SgnConstants DEF SgnWellAt, SgnStepKey, SgnKinds, SgnIdle
<1>8. SgnAttemptsInv' /\ sgnAt' \in [SgnAttempts -> [step : SgnKinds, key : Nat]]
  BY <1>5, <1>7, SgnAttemptMoves, SgnFacts DEF SgnInv
<1>9. \A m : SgnUnderWay(m)' = SgnUnderWay(m)
  <2>1. \A m : SgnHoldsAt(a, at, m) <=> SgnHoldsAt(a, sgnAt[a], m)
    <3>1. CASE j = 1
      BY <3>1, <1>4, <1>5 DEF SgnHoldsAt, SgnStepKey, SgnIdle
    <3>2. CASE j # 1
      <4>1. j = 2 /\ Len(SgnAsks[a]) = 2
        BY <3>2, <1>2, SgnConstants
      <4> QED BY <4>1, <1>2, <1>4, <1>5, SgnPlaces
    <3> QED BY <3>1, <3>2
  <2> QED BY <1>5, <2>1, SgnStays, SgnFacts
<1>10. sgnLimit # 0 /\ SgnRefuses(SgnSwept(sgnEntries), k)
  BY <1>1, <1>3 DEF SgnRefused
<1>11. SgnSet(SgnRefusal(SgnSwept(sgnEntries), k))
  BY <1>1, <1>3 DEF SgnRefused
<1> DEFINE table == SgnSwept(sgnEntries)
           f == SgnCurrent(table[k])
<1>12. table \in SgnTable /\ SgnPresent(table) \subseteq SgnPresent(sgnEntries)
  BY SgnFacts
<1>13. \A m \in SgnKeys : /\ table[m] \in {sgnEntries[m], SgnNoEntry}
                          /\ table[m].pending = sgnEntries[m].pending
                          /\ table[m].fails \in {0, sgnEntries[m].fails}
                          /\ table[m] \in SgnEntry /\ (~table[m].in => table[m] = SgnNoEntry)
  BY <1>12, SgnFacts DEF SgnTable
<1>14. \A m \in SgnKeys : table[m].in =>
          SgnCounted(table[m], Cardinality(SgnUnderWay(m)'), sgnSlack[m], sgnLimit)
  BY <1>9, <1>13 DEF SgnInv, SgnCountsInv, SgnNoEntry
<1>15. /\ f \in SgnEntry /\ f.in /\ f.pending = sgnEntries[k].pending
       /\ f.fails \in {0, sgnEntries[k].fails}
  <2> HIDE DEF table
  <2> QED BY <1>13, SgnCurrentEntry, SgnFacts
<1>16. table[k].in
  <2> SUFFICES ASSUME ~table[k].in
               PROVE  FALSE
    OBVIOUS
  <2>1. table[k] = SgnNoEntry
    BY <1>13
  <2>2. f.fails = 0 /\ f.pending = 0
    <3> HIDE DEF table
    <3> QED BY <2>1, <1>13, <1>15 DEF SgnCurrent, SgnNoEntry
  <2> QED BY <1>10, <2>1, <2>2, SgnFacts DEF SgnRefuses, SgnNoEntry
<1> HIDE DEF table, f
<1>17. CASE SgnRefusal(table, k) = table
  <2>1. IsFiniteSet(SgnPresent(table)) /\ Cardinality(SgnPresent(table)) <= SgnCap
    <3>1. /\ IsFiniteSet(SgnPresent(table)) /\ IsFiniteSet(SgnPresent(sgnEntries))
          /\ Cardinality(SgnPresent(table)) <= Cardinality(SgnPresent(sgnEntries))
      BY <1>12, FS_Subset, SgnFacts
    <3>2. Cardinality(SgnPresent(table)) \in Nat /\ Cardinality(SgnPresent(sgnEntries)) \in Nat
      BY <3>1, FS_CardinalityType
    <3> QED BY <3>1, <3>2, SgnFacts, SgnConstants
  <2>2. SgnSet(table)
    BY <1>11, <1>17 DEF table
  <2> QED BY <1>6, <1>8, <1>12, <1>14, <2>1, <2>2, SgnPutStep
<1>18. CASE SgnRefusal(table, k) = [table EXCEPT ![k] = f]
  <2>1. PICK t : t = [table EXCEPT ![k] = f]
    OBVIOUS
  <2>2. /\ t \in SgnTable /\ IsFiniteSet(SgnPresent(t)) /\ Cardinality(SgnPresent(t)) <= SgnCap
        /\ \A m \in SgnKeys : t[m] = IF m = k THEN f ELSE table[m]
    <3> DEFINE u == [table EXCEPT ![k] = f]
    <3>1. /\ u \in SgnTable /\ IsFiniteSet(SgnPresent(u)) /\ Cardinality(SgnPresent(u)) <= SgnCap
          /\ \A m \in SgnKeys : u[m] = IF m = k THEN f ELSE table[m]
      BY <1>12, <1>15, <1>16, SgnPutTable
    <3>2. t = u
      BY <2>1
    <3> HIDE DEF u
    <3> QED BY <3>1, <3>2
  <2>3. SgnSet(t)
    BY <1>11, <1>18, <2>1 DEF table
  <2>4. ASSUME NEW m \in SgnKeys, t[m].in
        PROVE  SgnCounted(t[m], Cardinality(SgnUnderWay(m)'), sgnSlack[m], sgnLimit)
    <3>1. CASE m # k
      BY <1>14, <2>2, <2>4, <3>1
    <3>2. CASE m = k
      <4>1. SgnCounted(sgnEntries[k], Cardinality(SgnUnderWay(k)), sgnSlack[k], sgnLimit)
        BY DEF SgnInv, SgnCountsInv
      <4>2. Cardinality(SgnUnderWay(k)) \in Nat
        BY SgnUnderWayFinite DEF SgnInv
      <4>3. f.pending \in Nat /\ f.fails \in Nat
        BY <1>15 DEF SgnEntry
      <4>4. SgnCounted(f, Cardinality(SgnUnderWay(k)), sgnSlack[k], sgnLimit)
        BY <4>1, <4>2, <4>3, <1>15, SgnCountedLemma, SgnFacts
      <4> QED BY <4>4, <3>2, <2>2, <1>9
    <3> QED BY <3>1, <3>2
  <2> QED BY <1>6, <1>8, <2>2, <2>3, <2>4, SgnPutStep
<1> QED BY <1>17, <1>18 DEF SgnRefusal, f

\* A place given back without a conclusion leaves the table.
LEMMA SgnReleasedTable ==
    ASSUME SgnInv, NEW k \in SgnKeys
    PROVE  /\ SgnReleased(sgnEntries, k) \in SgnTable
           /\ IsFiniteSet(SgnPresent(SgnReleased(sgnEntries, k)))
           /\ Cardinality(SgnPresent(SgnReleased(sgnEntries, k))) <= SgnCap
           /\ \A m \in SgnKeys \ {k} : SgnReleased(sgnEntries, k)[m] = sgnEntries[m]
           /\ SgnReleased(sgnEntries, k)[k].in =>
                 /\ SgnReleased(sgnEntries, k)[k].pending = SgnLess(sgnEntries[k].pending)
                 /\ SgnReleased(sgnEntries, k)[k].fails = sgnEntries[k].fails
<1> DEFINE e == [sgnEntries[k] EXCEPT !.pending = SgnLess(@)]
           new == IF e.fails = 0 /\ e.pending = 0 /\ e.until = 0 THEN SgnNoEntry ELSE e
<1>1. /\ sgnEntries \in SgnTable /\ sgnEntries[k] \in SgnEntry
      /\ IsFiniteSet(SgnPresent(sgnEntries)) /\ Cardinality(SgnPresent(sgnEntries)) <= SgnCap
  BY SgnFacts
<1>2. /\ e \in SgnEntry /\ e.in = sgnEntries[k].in /\ e.fails = sgnEntries[k].fails
      /\ e.pending = SgnLess(sgnEntries[k].pending)
  <2>1. SgnLess(sgnEntries[k].pending) \in Nat
    BY <1>1 DEF SgnLess, SgnEntry
  <2> QED BY <1>1, <2>1 DEF SgnEntry
<1>3. SgnReleased(sgnEntries, k) = IF ~e.in THEN sgnEntries ELSE [sgnEntries EXCEPT ![k] = new]
  BY DEF SgnReleased
<1>4. SgnNoEntry \in SgnEntry
  BY DEF SgnNoEntry, SgnEntry
<1>5. CASE ~e.in
  <2>1. SgnReleased(sgnEntries, k) = sgnEntries /\ ~sgnEntries[k].in
    BY <1>2, <1>3, <1>5
  <2> QED BY <1>1, <2>1
<1>6. CASE e.in
  <2>1. SgnReleased(sgnEntries, k) = [sgnEntries EXCEPT ![k] = new]
    BY <1>3, <1>6
  <2>2. /\ new \in SgnEntry /\ (new.in \/ new = SgnNoEntry)
        /\ new.in => new = e
        /\ sgnEntries[k].in
    BY <1>2, <1>4, <1>6 DEF SgnNoEntry
  <2> HIDE DEF new, e
  <2>3. /\ [sgnEntries EXCEPT ![k] = new] \in SgnTable
        /\ IsFiniteSet(SgnPresent([sgnEntries EXCEPT ![k] = new]))
        /\ Cardinality(SgnPresent([sgnEntries EXCEPT ![k] = new])) <= SgnCap
        /\ \A m \in SgnKeys : [sgnEntries EXCEPT ![k] = new][m] = IF m = k THEN new ELSE sgnEntries[m]
    BY <1>1, <2>2, SgnPutTable
  <2> QED BY <1>2, <2>1, <2>2, <2>3
<1> QED BY <1>5, <1>6

\* An attempt gives a place back: the entry that is still there has one less
\* under way, and one more failure at most.
LEMMA SgnReturnStep ==
    ASSUME SgnInv, SgnAttemptsInv',
           sgnAt' \in [SgnAttempts -> [step : SgnKinds, key : Nat]],
           UNCHANGED sgnFixed, NEW t \in SgnTable, SgnSet(t),
           IsFiniteSet(SgnPresent(t)), Cardinality(SgnPresent(t)) <= SgnCap,
           NEW k \in SgnKeys,
           \A m : m # k => SgnUnderWay(m)' = SgnUnderWay(m),
           Cardinality(SgnUnderWay(k)') = Cardinality(SgnUnderWay(k)) - 1,
           Cardinality(SgnUnderWay(k)) >= 1,
           \A m \in SgnKeys \ {k} : t[m].in => t[m] = sgnEntries[m],
           t[k].in =>
              /\ t[k].pending = SgnLess(sgnEntries[k].pending)
              /\ t[k].fails \in {0, sgnEntries[k].fails, sgnEntries[k].fails + 1, 1}
              /\ t[k].fails <= SgnMax
    PROVE  SgnInv'
<1>1. ASSUME NEW m \in SgnKeys, t[m].in
      PROVE  SgnCounted(t[m], Cardinality(SgnUnderWay(m)'), sgnSlack[m], sgnLimit)
  <2>1. SgnCounted(sgnEntries[m], Cardinality(SgnUnderWay(m)), sgnSlack[m], sgnLimit)
    BY DEF SgnInv, SgnCountsInv
  <2>2. CASE m # k
    BY <1>1, <2>1, <2>2
  <2>3. CASE m = k
    <3>1. Cardinality(SgnUnderWay(k)) \in Nat
      BY SgnUnderWayFinite DEF SgnInv
    <3>2. t[k] \in SgnEntry /\ t[k].pending \in Nat /\ t[k].fails \in Nat
      BY DEF SgnTable, SgnEntry
    <3>3. SgnCounted(t[k], Cardinality(SgnUnderWay(k)) - 1, sgnSlack[k], sgnLimit)
      BY <1>1, <2>1, <2>3, <3>1, <3>2, SgnCountedLemma, SgnFacts
    <3> QED BY <2>3, <3>3
  <2> QED BY <2>2, <2>3
<1> QED BY <1>1, SgnPutStep

LEMMA SgnUndoStep ==
    ASSUME SgnInv, NEW a \in SgnAttempts, SgnUndo(a)
    PROVE  SgnInv'
<1>1. sgnAt[a].step = "undo" /\ Len(SgnAsks[a]) = 2
  BY DEF SgnUndo, SgnInv, SgnAttemptsInv
<1>2. PICK k \in SgnKeys : k = SgnAsks[a][1]
  BY <1>1, SgnConstants
<1>3. PICK key : sgnAt[a] = SgnStepKey("undo", key)
  BY <1>1, SgnFacts DEF SgnStepKey
<1>4. sgnAt' = [sgnAt EXCEPT ![a] = SgnIdle]
  BY DEF SgnUndo, SgnOver
<1>5. SgnWellAt(a, SgnIdle)
  BY <1>1 DEF SgnWellAt, SgnIdle, SgnKinds
<1>6. SgnAttemptsInv' /\ sgnAt' \in [SgnAttempts -> [step : SgnKinds, key : Nat]]
  BY <1>4, <1>5, SgnAttemptMoves, SgnFacts DEF SgnInv
<1>7. /\ \A m : m # k => SgnUnderWay(m)' = SgnUnderWay(m)
      /\ Cardinality(SgnUnderWay(k)') = Cardinality(SgnUnderWay(k)) - 1
      /\ Cardinality(SgnUnderWay(k)) >= 1
  <2>1. 1 \in 1..Len(SgnAsks[a])
    BY <1>1
  <2>2. /\ \A m : SgnHoldsAt(a, SgnIdle, m) <=> SgnHoldsAt(a, sgnAt[a], m) /\ m # k
        /\ SgnHoldsAt(a, sgnAt[a], k)
    BY <2>1, <1>2, <1>3, SgnPlaces
  <2> QED BY <1>4, <2>2, SgnReturns, SgnFacts DEF SgnInv
<1>8. PICK t : t = SgnReleased(sgnEntries, k)
  OBVIOUS
<1>9. SgnSet(t) /\ UNCHANGED sgnFixed
  BY <1>2, <1>8 DEF SgnUndo
<1>10. /\ t \in SgnTable /\ IsFiniteSet(SgnPresent(t)) /\ Cardinality(SgnPresent(t)) <= SgnCap
       /\ \A m \in SgnKeys \ {k} : t[m] = sgnEntries[m]
       /\ t[k].in => /\ t[k].pending = SgnLess(sgnEntries[k].pending)
                     /\ t[k].fails = sgnEntries[k].fails
  BY <1>8, SgnReleasedTable
<1>11. sgnEntries[k].fails <= SgnMax
  BY DEF SgnInv, SgnCountsInv, SgnCounted
<1> QED BY <1>6, <1>7, <1>9, <1>10, <1>11, SgnReturnStep

LEMMA SgnGiveBackStep ==
    ASSUME SgnInv, NEW a \in SgnAttempts, SgnGiveBack(a)
    PROVE  SgnInv'
<1>1. PICK j \in Nat : j = sgnAt[a].key
  BY SgnFacts
<1>2. PICK step \in {"fail", "reset", "release"} : step = sgnAt[a].step
  BY DEF SgnGiveBack
<1>3. j \in 1..Len(SgnAsks[a])
  BY <1>1, <1>2, SgnConstants DEF SgnInv, SgnAttemptsInv
<1>4. PICK k \in SgnKeys : k = SgnAsks[a][j]
  BY <1>3, SgnConstants
<1>5. sgnAt[a] = SgnStepKey(step, j)
  BY <1>1, <1>2, SgnFacts DEF SgnStepKey
<1>6. PICK at : /\ at = IF j = Len(SgnAsks[a]) THEN SgnIdle ELSE SgnStepKey(step, j + 1)
                /\ sgnAt' = [sgnAt EXCEPT ![a] = at]
  BY <1>1, <1>2 DEF SgnGiveBack, SgnOver, SgnStep, SgnStepKey
<1>7. SgnWellAt(a, at)
  BY <1>3, <1>6, SgnConstants DEF SgnWellAt, SgnStepKey, SgnKinds, SgnIdle
<1>8. SgnAttemptsInv' /\ sgnAt' \in [SgnAttempts -> [step : SgnKinds, key : Nat]]
  BY <1>6, <1>7, SgnAttemptMoves, SgnFacts DEF SgnInv
<1>9. /\ \A m : m # k => SgnUnderWay(m)' = SgnUnderWay(m)
      /\ Cardinality(SgnUnderWay(k)') = Cardinality(SgnUnderWay(k)) - 1
      /\ Cardinality(SgnUnderWay(k)) >= 1
  <2>1. /\ \A m : SgnHoldsAt(a, at, m) <=> SgnHoldsAt(a, sgnAt[a], m) /\ m # k
        /\ SgnHoldsAt(a, sgnAt[a], k)
    <3>1. /\ \A m : SgnHoldsAt(a, SgnStepKey(step, j + 1), m) <=>
                       SgnHoldsAt(a, SgnStepKey(step, j), m) /\ m # k
          /\ SgnHoldsAt(a, SgnStepKey(step, j), k)
          /\ \A m : ~SgnHoldsAt(a, SgnStepKey(step, Len(SgnAsks[a]) + 1), m)
          /\ \A m : ~SgnHoldsAt(a, SgnIdle, m)
      BY <1>3, <1>4, SgnPlaces
    <3> QED BY <3>1, <1>5, <1>6
  <2> QED BY <1>6, <2>1, SgnReturns, SgnFacts DEF SgnInv
<1>10. UNCHANGED sgnFixed
  BY DEF SgnGiveBack
<1>11. sgnEntries[k].fails <= SgnMax /\ sgnEntries[k] \in SgnEntry
  BY SgnFacts DEF SgnInv, SgnCountsInv, SgnCounted
<1>12. ASSUME SgnSet(SgnReleased(sgnEntries, k))
       PROVE  SgnInv'
  <2>1. PICK t : t = SgnReleased(sgnEntries, k)
    OBVIOUS
  <2>2. /\ t \in SgnTable /\ IsFiniteSet(SgnPresent(t)) /\ Cardinality(SgnPresent(t)) <= SgnCap
        /\ \A m \in SgnKeys \ {k} : t[m] = sgnEntries[m]
        /\ t[k].in => /\ t[k].pending = SgnLess(sgnEntries[k].pending)
                      /\ t[k].fails = sgnEntries[k].fails
    BY <2>1, SgnReleasedTable
  <2>3. SgnSet(t)
    BY <1>12, <2>1
  <2> QED BY <1>8, <1>9, <1>10, <1>11, <2>2, <2>3, SgnReturnStep
<1>13. ASSUME SgnSet([sgnEntries EXCEPT ![k] = SgnNoEntry])
       PROVE  SgnInv'
  <2> DEFINE u == [sgnEntries EXCEPT ![k] = SgnNoEntry]
  <2>1. /\ u \in SgnTable /\ IsFiniteSet(SgnPresent(u)) /\ Cardinality(SgnPresent(u)) <= SgnCap
        /\ \A m \in SgnKeys : u[m] = IF m = k THEN SgnNoEntry ELSE sgnEntries[m]
    <3>1. SgnNoEntry \in SgnEntry /\ ~SgnNoEntry.in
      BY DEF SgnNoEntry, SgnEntry
    <3> QED BY <3>1, SgnFacts, SgnPutTable
  <2>2. ~u[k].in /\ \A m \in SgnKeys \ {k} : u[m] = sgnEntries[m]
    BY <2>1 DEF SgnNoEntry
  <2> HIDE DEF u
  <2>3. PICK t : t = u
    OBVIOUS
  <2>4. SgnSet(t)
    BY <1>13, <2>3 DEF u
  <2> QED BY <1>8, <1>9, <1>10, <2>1, <2>2, <2>3, <2>4, SgnReturnStep
<1>14. ASSUME sgnLimit # 0, NEW t \in SgnFailed(sgnEntries, k), SgnSet(t)
       PROVE  SgnInv'
  <2> DEFINE swept == SgnSwept(sgnEntries)
             f == SgnCurrent(swept[k])
             e == [f EXCEPT !.pending = SgnLess(@), !.fails = @ + 1]
             locked == [e EXCEPT !.until = sgnNow + SgnLockFor, !.fails = 0, !.first = sgnNow]
             g == IF e.fails >= sgnLimit THEN locked ELSE e
             mid == [swept EXCEPT ![k] = g]
  <2>1. t \in SgnTrimmed(mid)
    BY <1>14 DEF SgnFailed
  <2>2. swept \in SgnTable /\ SgnPresent(swept) \subseteq SgnPresent(sgnEntries)
        /\ swept[k] \in SgnEntry /\ (~swept[k].in => swept[k] = SgnNoEntry)
        /\ swept[k].pending = sgnEntries[k].pending
        /\ swept[k].fails \in {0, sgnEntries[k].fails}
        /\ \A m \in SgnKeys : swept[m] \in {sgnEntries[m], SgnNoEntry}
    BY SgnFacts DEF SgnTable
  <2> HIDE DEF swept
  <2>3. /\ f \in SgnEntry /\ f.in /\ f.pending = sgnEntries[k].pending
        /\ f.fails \in {0, sgnEntries[k].fails}
    BY <2>2, SgnCurrentEntry, SgnFacts
  <2> HIDE DEF f
  <2>4. /\ e \in SgnEntry /\ e.in /\ e.pending = SgnLess(sgnEntries[k].pending)
        /\ e.fails \in {sgnEntries[k].fails + 1, 1}
    <3>1. SgnLess(f.pending) \in Nat /\ f.fails + 1 \in Nat
      BY <2>3 DEF SgnLess, SgnEntry
    <3>2. e \in SgnEntry
      BY <2>3, <3>1 DEF SgnEntry
    <3>3. e.in = f.in
      BY <2>3 DEF SgnEntry
    <3>4. e.pending = SgnLess(f.pending)
      BY <2>3 DEF SgnEntry
    <3>5. e.fails = f.fails + 1
      BY <2>3 DEF SgnEntry
    <3> HIDE DEF e
    <3> QED BY <2>3, <3>2, <3>3, <3>4, <3>5
  <2> HIDE DEF e
  <2>5. /\ locked \in SgnEntry /\ locked.in /\ locked.pending = e.pending /\ locked.fails = 0
    <3>1. sgnNow + SgnLockFor \in Nat /\ sgnNow \in Nat
      BY SgnFacts, SgnConstants
    <3>2. locked \in SgnEntry
      BY <2>4, <3>1 DEF SgnEntry
    <3>3. locked.in = e.in
      BY <2>4 DEF SgnEntry
    <3>4. locked.pending = e.pending
      BY <2>4 DEF SgnEntry
    <3>5. locked.fails = 0
      BY <2>4 DEF SgnEntry
    <3> HIDE DEF locked
    <3> QED BY <2>4, <3>2, <3>3, <3>4, <3>5
  <2> HIDE DEF locked
  <2>6. /\ g \in SgnEntry /\ g.in /\ g.pending = SgnLess(sgnEntries[k].pending)
        /\ g.fails \in {0, sgnEntries[k].fails + 1, 1} /\ g.fails <= SgnMax
    <3>1. e.fails \in Nat
      BY <2>4 DEF SgnEntry
    <3>2. sgnLimit = SgnMax
      BY <1>14, SgnFacts
    <3> QED BY <2>4, <2>5, <3>1, <3>2, SgnConstants
  <2> HIDE DEF g
  <2>7. /\ mid \in SgnTable
        /\ \A m \in SgnKeys : mid[m] = IF m = k THEN g ELSE swept[m]
        /\ IsFiniteSet(SgnPresent(mid)) /\ Cardinality(SgnPresent(mid)) <= SgnCap + 1
    BY <2>2, <2>6, SgnPutTable
  <2> HIDE DEF mid
  <2>8. /\ t \in SgnTable /\ \A m \in SgnKeys : t[m] \in {mid[m], SgnNoEntry}
        /\ IsFiniteSet(SgnPresent(t)) /\ Cardinality(SgnPresent(t)) <= SgnCap
    BY <2>1, <2>7, SgnTrimmedTable
  <2>9. \A m \in SgnKeys \ {k} : t[m].in => t[m] = sgnEntries[m]
    BY <2>2, <2>7, <2>8 DEF SgnNoEntry
  <2>10. t[k].in => t[k] = g
    BY <2>7, <2>8 DEF SgnNoEntry
  <2>11. t[k].in => /\ t[k].pending = SgnLess(sgnEntries[k].pending)
                    /\ t[k].fails \in {0, sgnEntries[k].fails, sgnEntries[k].fails + 1, 1}
                    /\ t[k].fails <= SgnMax
    BY <2>6, <2>10
  <2> QED BY <1>8, <1>9, <1>10, <1>14, <2>8, <2>9, <2>11, SgnReturnStep
<1>15. PICK t \in CASE step = "fail" -> SgnFailed(sgnEntries, k)
                    [] step = "reset" -> {[sgnEntries EXCEPT ![k] = SgnNoEntry]}
                    [] OTHER -> {SgnReleased(sgnEntries, k)} : SgnSet(t)
  BY <1>1, <1>2, <1>4 DEF SgnGiveBack
<1>16. CASE step = "fail"
  <2>1. t \in SgnFailed(sgnEntries, k)
    BY <1>15, <1>16
  <2>2. CASE sgnLimit = 0
    <3>1. t = SgnReleased(sgnEntries, k)
      BY <2>1, <2>2 DEF SgnFailed
    <3> QED BY <1>12, <1>15, <3>1
  <2>3. CASE sgnLimit # 0
    BY <1>14, <1>15, <2>1, <2>3
  <2> QED BY <2>2, <2>3
<1>17. CASE step = "reset"
  <2>1. t = [sgnEntries EXCEPT ![k] = SgnNoEntry]
    BY <1>15, <1>17
  <2> QED BY <1>13, <1>15, <2>1
<1>18. CASE step = "release"
  <2>1. t = SgnReleased(sgnEntries, k)
    BY <1>15, <1>18
  <2> QED BY <1>12, <1>15, <2>1
<1> QED BY <1>16, <1>17, <1>18

LEMMA SgnConcludeStep ==
    ASSUME SgnInv, NEW a \in SgnAttempts, SgnConclude(a)
    PROVE  SgnInv'
<1>1. sgnAt[a].step = "check" /\ sgnAt[a].key = Len(SgnAsks[a]) + 1
  BY SgnFacts, SgnConstants DEF SgnConclude, SgnInv, SgnAttemptsInv
<1>2. PICK step \in {"fail", "reset", "release"} :
        sgnAt' = [sgnAt EXCEPT ![a] = SgnStepKey(step, 1)]
  BY DEF SgnConclude, SgnStep, SgnStepKey, SgnKinds
<1>3. SgnWellAt(a, SgnStepKey(step, 1))
  <2>1. 1 <= Len(SgnAsks[a])
    BY SgnLengths
  <2> QED BY <2>1 DEF SgnWellAt, SgnStepKey, SgnKinds
<1>4. SgnAttemptsInv' /\ sgnAt' \in [SgnAttempts -> [step : SgnKinds, key : Nat]]
  BY <1>2, <1>3, SgnAttemptMoves, SgnFacts DEF SgnInv
<1>5. \A m : SgnUnderWay(m)' = SgnUnderWay(m)
  <2>1. sgnAt[a] = SgnStepKey("check", Len(SgnAsks[a]) + 1)
    BY <1>1, SgnFacts DEF SgnStepKey
  <2>2. 1 \in 1..Len(SgnAsks[a])
    BY SgnLengths
  <2>3. \A m : SgnHoldsAt(a, SgnStepKey(step, 1), m) <=> SgnHoldsAt(a, sgnAt[a], m)
    BY <2>1, <2>2, SgnPlaces
  <2> QED BY <1>2, <2>3, SgnStays, SgnFacts
<1>6. UNCHANGED <<sgnNow, sgnLimit, sgnEntries, sgnStarted, sgnSlack, sgnSetup, sgnAdmin>>
  BY DEF SgnConclude
<1>7. SgnCountsInv'
  BY <1>5, <1>6 DEF SgnInv, SgnCountsInv
<1>8. SgnShapeInv'
  BY <1>4, <1>6 DEF SgnInv, SgnShapeInv, SgnPresent
<1> QED BY <1>4, <1>6, <1>7, <1>8 DEF SgnInv, SgnSetupOnce

\* Nothing is said of the attempts.
LEMMA SgnSameAttempts ==
    ASSUME SgnInv, UNCHANGED sgnAt
    PROVE  SgnAttemptsInv' /\ \A m : SgnUnderWay(m)' = SgnUnderWay(m)
<1>1. {b \in SgnAttempts : sgnAt[b] # SgnIdle}' = {b \in SgnAttempts : sgnAt[b] # SgnIdle}
  BY DEF SgnIdle
<1>2. SgnAttemptsInv'
  BY <1>1 DEF SgnInv, SgnAttemptsInv
<1> QED BY <1>2 DEF SgnUnderWay, SgnHolds

LEMMA SgnUpdateStep ==
    ASSUME SgnInv, SgnUpdate
    PROVE  SgnInv'
<1>1. SgnAttemptsInv' /\ \A m : SgnUnderWay(m)' = SgnUnderWay(m)
  BY SgnSameAttempts DEF SgnUpdate
<1>2. \A m : Cardinality(SgnUnderWay(m)) \in Nat
  BY SgnUnderWayFinite DEF SgnInv
<1>3. sgnLimit' \in {0, SgnMax} /\ sgnLimit' \in Nat
  BY SgnFacts, SgnConstants DEF SgnUpdate
<1>4. /\ UNCHANGED <<sgnNow, sgnEntries, sgnAt, sgnSetup, sgnAdmin>>
      /\ \A k \in SgnKeys : sgnSlack'[k] = Cardinality(SgnUnderWay(k))
      /\ sgnSlack' \in [SgnKeys -> Nat]
  BY <1>2 DEF SgnUpdate
<1>5. SgnCountsInv'
  <2> SUFFICES ASSUME NEW k \in SgnKeys
               PROVE  SgnCounted(sgnEntries[k], Cardinality(SgnUnderWay(k)),
                                 Cardinality(SgnUnderWay(k)), sgnLimit')
    BY <1>1, <1>4 DEF SgnCountsInv
  <2>1. SgnCounted(sgnEntries[k], Cardinality(SgnUnderWay(k)), sgnSlack[k], sgnLimit)
    BY DEF SgnInv, SgnCountsInv
  <2>2. sgnEntries[k].pending \in Nat /\ sgnEntries[k].fails \in Nat
    BY SgnFacts DEF SgnEntry
  <2> QED BY <1>2, <1>3, <2>1, <2>2, SgnConstants DEF SgnCounted
<1>6. SgnShapeInv'
  BY <1>3, <1>4 DEF SgnInv, SgnShapeInv, SgnPresent
<1> QED BY <1>1, <1>4, <1>5, <1>6 DEF SgnInv, SgnSetupOnce

LEMMA SgnInitInv == SgnInit => SgnInv
<1> SUFFICES ASSUME SgnInit
             PROVE  SgnInv
  OBVIOUS
<1>1. SgnPresent(sgnEntries) = {}
  BY DEF SgnInit, SgnPresent, SgnNoEntry
<1>2. IsFiniteSet({}) /\ Cardinality({}) = 0
  BY FS_EmptySet
<1>3. SgnShapeInv
  <2>1. sgnEntries \in [SgnKeys -> SgnEntry]
    BY DEF SgnInit, SgnNoEntry, SgnEntry
  <2>2. sgnAt \in [SgnAttempts -> [step : SgnKinds, key : Nat]]
    BY DEF SgnInit, SgnIdle, SgnKinds
  <2>3. sgnNow \in 1..SgnHorizon /\ sgnLimit \in {0, SgnMax}
    BY SgnConstants DEF SgnInit
  <2>4. /\ sgnSlack \in [SgnKeys -> Nat] /\ sgnAdmin \in SgnRequests \union {0}
        /\ sgnSetup \in [SgnRequests -> {"new", "hash", "ok", "conflict", "error"}]
    BY DEF SgnInit
  <2>5. IsFiniteSet(SgnPresent(sgnEntries)) /\ Cardinality(SgnPresent(sgnEntries)) <= SgnCap
    BY <1>1, <1>2, SgnConstants
  <2> QED BY <2>1, <2>2, <2>3, <2>4, <2>5 DEF SgnShapeInv
<1>4. SgnAttemptsInv
  <2>1. {a \in SgnAttempts : sgnAt[a] # SgnIdle} = {}
    BY DEF SgnInit
  <2>2. \A a \in SgnAttempts : sgnAt[a].step = "check" /\ sgnAt[a].key = 1
    BY DEF SgnInit, SgnIdle
  <2>3. \A a \in SgnAttempts : 1 <= Len(SgnAsks[a]) + 1
    BY SgnLengths
  <2>4. IsFiniteSet({a \in SgnAttempts : sgnAt[a] # SgnIdle})
    BY <1>2, <2>1
  <2> QED BY <2>2, <2>3, <2>4 DEF SgnAttemptsInv
<1>5. SgnCountsInv
  <2> SUFFICES ASSUME NEW k \in SgnKeys
               PROVE  SgnCounted(SgnNoEntry, Cardinality(SgnUnderWay(k)), 0, SgnMax)
    BY DEF SgnInit, SgnCountsInv
  <2>1. SgnUnderWay(k) = {}
    <3> SUFFICES ASSUME NEW a \in SgnAttempts, SgnHolds(a, k)
                 PROVE  FALSE
      BY DEF SgnUnderWay
    <3>1. 1 \in 1..Len(SgnAsks[a])
      BY SgnLengths
    <3>2. sgnAt[a] = SgnIdle
      BY DEF SgnInit
    <3> QED BY <3>1, <3>2, SgnHoldsLemma, SgnPlaces
  <2> QED BY <1>2, <2>1, SgnConstants DEF SgnCounted, SgnNoEntry
<1>6. SgnSetupOnce
  BY DEF SgnSetupOnce, SgnInit
<1> QED BY <1>3, <1>4, <1>5, <1>6 DEF SgnInv

LEMMA SgnSetupStep ==
    ASSUME SgnInv, SgnSetupNext
    PROVE  SgnInv'
<1>1. UNCHANGED <<sgnNow, sgnLimit, sgnEntries, sgnAt, sgnStarted, sgnSlack>>
  BY DEF SgnSetupNext, SgnSetupLook, SgnSetupSave, SgnSetupUnchanged
<1>2. SgnAttemptsInv' /\ \A m : SgnUnderWay(m)' = SgnUnderWay(m)
  BY <1>1, SgnSameAttempts
<1>3. SgnCountsInv'
  BY <1>1, <1>2 DEF SgnInv, SgnCountsInv
<1>4. /\ sgnSetup' \in [SgnRequests -> {"new", "hash", "ok", "conflict", "error"}]
      /\ sgnAdmin' \in SgnRequests \union {0}
      /\ SgnSetupOnce'
  <2>1. PICK r \in SgnRequests : SgnSetupLook(r) \/ SgnSetupSave(r)
    BY DEF SgnSetupNext
  <2>2. /\ sgnSetup \in [SgnRequests -> {"new", "hash", "ok", "conflict", "error"}]
        /\ sgnAdmin \in SgnRequests \union {0} /\ SgnSetupOnce
    BY DEF SgnInv, SgnShapeInv
  <2>3. CASE SgnSetupLook(r)
    BY <2>2, <2>3 DEF SgnSetupLook, SgnSetupOnce
  <2>4. CASE SgnSetupSave(r)
    BY <2>2, <2>4 DEF SgnSetupSave, SgnSetupOnce, SgnRequests
  <2> QED BY <2>1, <2>3, <2>4
<1>5. SgnShapeInv'
  BY <1>1, <1>4 DEF SgnInv, SgnShapeInv, SgnPresent
<1> QED BY <1>2, <1>3, <1>4, <1>5 DEF SgnInv

LEMMA SgnStepInv == SgnInv /\ [SgnNext \/ SgnSetupNext]_sgnVars => SgnInv'
<1> SUFFICES ASSUME SgnInv, [SgnNext \/ SgnSetupNext]_sgnVars
             PROVE  SgnInv'
  OBVIOUS
<1>1. ASSUME UNCHANGED <<sgnLimit, sgnEntries, sgnAt, sgnSlack, sgnSetup, sgnAdmin>>,
             sgnNow' \in 1..SgnHorizon
      PROVE  SgnInv'
  <2>1. SgnAttemptsInv' /\ \A m : SgnUnderWay(m)' = SgnUnderWay(m)
    BY <1>1, SgnSameAttempts
  <2>2. SgnCountsInv'
    BY <1>1, <2>1 DEF SgnInv, SgnCountsInv
  <2>3. SgnShapeInv'
    BY <1>1 DEF SgnInv, SgnShapeInv, SgnPresent
  <2> QED BY <1>1, <2>1, <2>2, <2>3 DEF SgnInv, SgnSetupOnce
<1>2. CASE UNCHANGED sgnVars
  BY <1>1, <1>2 DEF sgnVars, SgnInv, SgnShapeInv
<1>3. CASE SgnTimePasses
  <2>1. sgnNow' \in 1..SgnHorizon
    BY <1>3, SgnConstants DEF SgnTimePasses, SgnInv, SgnShapeInv
  <2> QED BY <1>1, <1>3, <2>1 DEF SgnTimePasses
<1> QED BY <1>2, <1>3, SgnAcquireStep, SgnRefusedStep, SgnUndoStep, SgnConcludeStep,
           SgnGiveBackStep, SgnUpdateStep, SgnSetupStep DEF SgnNext

\* The invariant shows that attempts are counted.
LEMMA SgnShows == SgnInv => SgnTypeOK /\ AttemptsAreCounted
<1> SUFFICES ASSUME SgnInv
             PROVE  SgnTypeOK /\ AttemptsAreCounted
  OBVIOUS
<1>1. SgnTypeOK
  BY DEF SgnInv, SgnShapeInv, SgnTypeOK, SgnEntry
<1>2. SgnPlacesAreReal /\ SgnBurstIsBounded
  BY DEF SgnInv, SgnCountsInv, SgnCounted, SgnPlacesAreReal, SgnBurstIsBounded
<1> QED BY <1>1, <1>2 DEF AttemptsAreCounted, SgnInv

-----------------------------------------------------------------------------
(* The store of certificates. *)

\* The pair a certificate has, but for the Save at work.
CertKept(c) ==
    IF certSave.cert # c THEN certFiles[c]
    ELSE [crt |-> IF CertAt("backupCrt") THEN certFiles[c].crt ELSE certSave.bakCrt,
          key |-> IF \/ certSave.pc \in {"backupCrt", "backupKey"}
                     \/ CertAt("undo") /\ certSave.bakKey = 0
                  THEN certFiles[c].key ELSE certSave.bakKey]

CertMatched(pair) == pair.crt # 0 /\ pair.crt = pair.key

\* What may be kept after so many troubles: a mixed pair takes three, a key
\* alone takes one.
CertAllowed(pair, troubles) ==
    /\ pair.crt # 0 /\ pair.key # 0 => pair.crt = pair.key \/ troubles >= 3
    /\ pair.crt = 0 /\ pair.key # 0 => troubles >= 1

CertKeptInv ==
    \A c \in CertIds : LET pair == CertKept(c) IN
        /\ CertAllowed(pair, certTroubles)
        /\ pair.crt <= certSerial /\ pair.key <= certSerial
        /\ certSave.cert = c => pair.crt < certSerial /\ pair.key < certSerial

\* Where the files are at each step of a Save.
CertSaveInv ==
    LET file == certFiles[certSave.cert] IN
    /\ CertAt("free") => certSave = CertNoSave
    /\ ~CertAt("free") => certSave.cert \in CertIds /\ certSave.serial = certSerial
    /\ CertAt("backupCrt") => certSave.bakCrt = 0 /\ certSave.bakKey = 0
    /\ CertAt("backupKey") => file.crt = 0 /\ certSave.bakKey = 0
    /\ CertAt("putCrt") => file.crt = 0 /\ file.key = 0
    /\ CertAt("putKey") => file.crt = certSerial /\ file.key = 0
    /\ CertAt("setIndexed") => file.crt = certSerial /\ file.key = certSerial
    /\ CertAt("undo") =>
          /\ certTroubles >= 1
          /\ certSave.bakKey # 0 => file.key = 0
          /\ \/ file.crt = 0
             \/ /\ file.crt = certSerial /\ file.key = 0 /\ certTroubles >= 2
                /\ certSave.bakCrt = 0 /\ certSave.bakKey # 0 => certTroubles >= 3

\* Nothing above top is indexed, and the best of what is has the name.
CertGoodIndex(index, top) ==
    /\ \A c \in CertIds : index.byID[c] <= top
    /\ CertByMerit(index)
    /\ index.owner # 0 => index.byID[index.owner] # 0

CertIndexInv ==
    \A index \in {certIndex, certSwap.staging} : CertGoodIndex(index, certSerial)

\* The index that Save writes to.
CertCurrent == IF certSwap.on THEN certSwap.staging ELSE certIndex

\* Every pair that is kept is indexed, but those Reload has still to load; and
\* what is in the new index already is not newer than what it will load.
CertFreshInv ==
    \A c \in CertIds : LET pair == CertKept(c) IN
        CertMatched(pair) =>
            /\ c \in certListed /\ ~(certSwap.on /\ c \in certSwap.todo)
                   => CertCurrent.byID[c] = pair.crt
            /\ certSwap.on => certSwap.staging.byID[c] <= pair.crt

CertInv == CertTypeOK /\ CertKeptInv /\ CertSaveInv /\ CertIndexInv /\ CertFreshInv

CertIndexType == [byID : [CertIds -> CertSerials], owner : CertIds \union {0}]

LEMMA CertConstants ==
    /\ CertMaxSerial \in Nat /\ CertMaxSerial >= 1 /\ CertMaxTroubles \in Nat
    /\ CertIds \subseteq Nat /\ 0 \notin CertIds /\ 1 \in CertIds
    /\ CertByCN \subseteq CertIds
BY CertIdsAssumption, CertBoundAssumption

LEMMA CertHalf ==
    ASSUME NEW top \in Nat, NEW s \in 0..top, NEW t \in 0..top, top >= 1
    PROVE  /\ (s + 1) \div 2 \in Nat /\ (s + 1) \div 2 <= top
           /\ s <= t => (s + 1) \div 2 <= (t + 1) \div 2
OBVIOUS

LEMMA CertExpiryBounds ==
    ASSUME NEW s \in CertSerials, NEW t \in CertSerials
    PROVE  /\ CertExpiry(s) \in Nat /\ CertExpiry(s) <= CertMaxSerial
           /\ s <= t => CertExpiry(s) <= CertExpiry(t)
BY CertConstants, CertHalf DEF CertExpiry, CertSerials

\* A claim wins by its rank, and among equals by the smaller id.
LEMMA CertClaimByRank ==
    ASSUME NEW index \in CertIndexType, NEW cur \in CertIds, NEW next \in CertIds
    PROVE  /\ CertRank(index, cur) \in Nat /\ CertRank(index, next) \in Nat
           /\ CertClaimWins(index, cur, next) <=>
                 \/ CertRank(index, next) > CertRank(index, cur)
                 \/ CertRank(index, next) = CertRank(index, cur) /\ next < cur
<1>1. index.byID[cur] \in CertSerials /\ index.byID[next] \in CertSerials
  BY DEF CertIndexType
<1> DEFINE a == CertExpiry(index.byID[cur])
           b == CertExpiry(index.byID[next])
<1>2. a \in Nat /\ b \in Nat /\ a <= CertMaxSerial /\ b <= CertMaxSerial
  BY <1>1, CertExpiryBounds
<1>3. /\ CertRank(index, cur) = (IF cur \in CertByCN THEN 0 ELSE CertMaxSerial + 1) + a
      /\ CertRank(index, next) = (IF next \in CertByCN THEN 0 ELSE CertMaxSerial + 1) + b
  BY DEF CertRank
<1>4. CertClaimWins(index, cur, next) <=>
         \/ cur \in CertByCN /\ next \notin CertByCN
         \/ /\ cur \in CertByCN <=> next \in CertByCN
            /\ b > a \/ (b = a /\ next < cur)
  BY DEF CertClaimWins
<1> HIDE DEF a, b
<1> QED BY <1>2, <1>3, <1>4, CertConstants

\* What a better pair does to an index that is in order.
LEMMA CertIndexedGood ==
    ASSUME NEW index \in CertIndexType, NEW top \in CertSerials, CertGoodIndex(index, top),
           NEW c \in CertIds, NEW serial \in CertSerials,
           serial # 0, index.byID[c] <= serial, serial <= top
    PROVE  /\ CertIndexed(index, c, serial) \in CertIndexType
           /\ CertIndexed(index, c, serial).byID = [index.byID EXCEPT ![c] = serial]
           /\ CertGoodIndex(CertIndexed(index, c, serial), top)
<1> DEFINE cur == IF index.owner = c THEN 0 ELSE index.owner
           mid == [index EXCEPT !.byID[c] = serial]
           new == CertIndexed(index, c, serial)
<1>1. /\ index.byID \in [CertIds -> CertSerials] /\ index.owner \in CertIds \union {0}
  BY DEF CertIndexType
<1>2. /\ mid \in CertIndexType /\ mid.byID = [index.byID EXCEPT ![c] = serial]
      /\ mid.owner = index.owner
  BY <1>1 DEF CertIndexType
<1>3. new = [mid EXCEPT !.owner = IF cur = 0 \/ CertClaimWins(mid, cur, c) THEN c ELSE cur]
  BY DEF CertIndexed
<1> HIDE DEF mid, new
<1>4. /\ new.byID = mid.byID
      /\ new.owner = IF cur = 0 \/ CertClaimWins(mid, cur, c) THEN c ELSE cur
      /\ new \in CertIndexType
  BY <1>1, <1>2, <1>3 DEF CertIndexType
<1>5. \A d \in CertIds : CertRank(new, d) = CertRank(mid, d)
  BY <1>4 DEF CertRank
<1>6. \A d \in CertIds : /\ CertRank(index, d) \in Nat /\ CertRank(mid, d) \in Nat
                         /\ d # c => CertRank(mid, d) = CertRank(index, d)
                         /\ CertRank(mid, d) >= CertRank(index, d)
  <2>1. ASSUME NEW d \in CertIds, d # c PROVE CertRank(mid, d) = CertRank(index, d)
    BY <1>1, <1>2, <2>1 DEF CertRank
  <2>2. CertRank(mid, c) >= CertRank(index, c)
    <3>1. CertExpiry(index.byID[c]) <= CertExpiry(serial)
      BY <1>1, CertExpiryBounds
    <3>2. CertExpiry(index.byID[c]) \in Nat /\ CertExpiry(serial) \in Nat
      BY <1>1, CertExpiryBounds
    <3>3. mid.byID[c] = serial
      BY <1>1, <1>2
    <3> QED BY <3>1, <3>2, <3>3, CertConstants DEF CertRank
  <2>3. \A d \in CertIds : CertRank(index, d) \in Nat /\ CertRank(mid, d) \in Nat
    BY <1>2, CertClaimByRank
  <2> SUFFICES ASSUME NEW d \in CertIds
               PROVE  CertRank(mid, d) >= CertRank(index, d)
    BY <2>1, <2>3
  <2>4. CertRank(index, d) \in Nat /\ CertRank(mid, d) \in Nat
    BY <2>3
  <2>5. CASE d = c
    BY <2>2, <2>5
  <2>6. CASE d # c
    BY <2>1, <2>4, <2>6
  <2> QED BY <2>5, <2>6
<1> DEFINE Known(i) == {d \in CertIds : i.byID[d] # 0}
<1>7. /\ index.owner # 0 => index.byID[index.owner] # 0
      /\ index.owner # 0 <=> Known(index) # {}
      /\ \A d \in Known(index) :
            \/ CertRank(index, index.owner) > CertRank(index, d)
            \/ CertRank(index, index.owner) = CertRank(index, d) /\ index.owner <= d
  BY DEF CertGoodIndex, CertByMerit
<1>8. /\ \A d \in CertIds : d # c => (mid.byID[d] = index.byID[d])
      /\ mid.byID[c] = serial
  BY <1>1, <1>2
<1>9. c \in Known(new) /\ \A d \in Known(new) : d = c \/ d \in Known(index)
  BY <1>4, <1>8
<1>10. new.owner \in Known(new)
  BY <1>1, <1>4, <1>7, <1>8
<1>11. \A d \in Known(new) :
            \/ CertRank(mid, new.owner) > CertRank(mid, d)
            \/ CertRank(mid, new.owner) = CertRank(mid, d) /\ new.owner <= d
  <2>1. CASE cur = 0
    <3>1. index.owner = c \/ Known(index) = {}
      BY <2>1, <1>7
    <3>2. new.owner = c
      BY <2>1, <1>4
    <3> SUFFICES ASSUME NEW d \in Known(new)
                 PROVE  \/ CertRank(mid, c) > CertRank(mid, d)
                        \/ CertRank(mid, c) = CertRank(mid, d) /\ c <= d
      BY <3>2
    <3>3. d \in Nat /\ c \in Nat /\ d \in CertIds
      BY CertConstants
    <3>4. CASE d = c
      BY <3>3, <3>4
    <3>5. CASE d # c
      <4>1. d \in Known(index) /\ index.owner = c
        BY <3>1, <3>5, <1>9
      <4>2. \/ CertRank(index, c) > CertRank(index, d)
            \/ CertRank(index, c) = CertRank(index, d) /\ c <= d
        BY <4>1, <1>7
      <4>3. /\ CertRank(mid, c) \in Nat /\ CertRank(mid, d) \in Nat
            /\ CertRank(index, c) \in Nat /\ CertRank(index, d) \in Nat
            /\ CertRank(mid, c) >= CertRank(index, c)
            /\ CertRank(mid, d) = CertRank(index, d)
        BY <3>3, <3>5, <1>6
      <4> QED BY <3>5, <3>3, <4>2, <4>3
    <3> QED BY <3>4, <3>5
  <2>2. CASE cur # 0
    <3>1. cur = index.owner /\ cur \in CertIds /\ cur # c
      BY <2>2, <1>1
    <3>2. \A d \in Known(index) \ {c} :
            \/ CertRank(mid, cur) > CertRank(mid, d)
            \/ CertRank(mid, cur) = CertRank(mid, d) /\ cur <= d
      BY <3>1, <1>6, <1>7
    <3>3. CertClaimWins(mid, cur, c) <=>
             \/ CertRank(mid, c) > CertRank(mid, cur)
             \/ CertRank(mid, c) = CertRank(mid, cur) /\ c < cur
      BY <3>1, <1>2, CertClaimByRank
    <3> HIDE DEF cur
    <3>4. cur \in Nat /\ c \in Nat /\ \A d \in Known(new) : d \in Nat
      BY <3>1, CertConstants
    <3>5. \A d \in CertIds : CertRank(mid, d) \in Nat
      BY <1>6
    <3> SUFFICES ASSUME NEW d \in Known(new)
                 PROVE  \/ CertRank(mid, new.owner) > CertRank(mid, d)
                        \/ CertRank(mid, new.owner) = CertRank(mid, d) /\ new.owner <= d
      OBVIOUS
    <3>6. d = c \/ d \in Known(index)
      BY <1>9
    <3>7. /\ CertRank(mid, c) \in Nat /\ CertRank(mid, d) \in Nat
          /\ CertRank(mid, cur) \in Nat /\ d \in Nat /\ c \in Nat /\ cur \in Nat
      BY <3>1, <3>4, <3>5
    <3>8. CASE CertClaimWins(mid, cur, c)
      <4>1. new.owner = c
        BY <3>8, <1>4
      <4> QED BY <3>2, <3>3, <3>6, <3>7, <3>8, <4>1
    <3>9. CASE ~CertClaimWins(mid, cur, c)
      <4>1. new.owner = cur
        BY <2>2, <3>9, <1>4
      <4> QED BY <3>2, <3>3, <3>6, <3>7, <3>9, <4>1
    <3> QED BY <3>8, <3>9
  <2> QED BY <2>1, <2>2
<1>12. CertByMerit(new)
  <2>1. new.owner # 0
    BY <1>10, CertConstants
  <2>2. \A d \in Known(new) :
            \/ CertRank(new, new.owner) > CertRank(new, d)
            \/ CertRank(new, new.owner) = CertRank(new, d) /\ new.owner <= d
    BY <1>5, <1>10, <1>11
  <2> QED BY <2>1, <2>2, <1>10 DEF CertByMerit
<1>13. CertGoodIndex(new, top)
  BY <1>4, <1>8, <1>10, <1>12 DEF CertGoodIndex
<1> QED BY <1>2, <1>4, <1>13 DEF new

CertPair == [crt : CertSerials, key : CertSerials]
CertSteps == {"free", "backupCrt", "backupKey", "putCrt", "putKey", "setIndexed", "undo"}

\* The type invariant, with names for the types.
LEMMA CertTypes ==
    CertTypeOK <=>
        /\ certListed \subseteq CertIds
        /\ certFiles \in [CertIds -> CertPair]
        /\ certSave \in [pc : CertSteps, cert : CertIds \union {0}, serial : CertSerials,
                         bakCrt : CertSerials, bakKey : CertSerials]
        /\ certIndex \in CertIndexType
        /\ certSwap \in [on : BOOLEAN, todo : SUBSET CertIds, staging : CertIndexType]
        /\ certSerial \in CertSerials /\ certTroubles \in 0..CertMaxTroubles
BY DEF CertTypeOK, CertPair, CertSteps, CertIndexType

LEMMA CertKeptOf ==
    ASSUME CertTypeOK, NEW c \in CertIds
    PROVE  CertKept(c) \in CertPair
BY CertTypes DEF CertKept, CertPair

\* The kept pairs do not change, and nothing but the Save goes on.
CertSaving ==
    /\ \A c \in CertIds : CertKept(c)' = CertKept(c)
    /\ UNCHANGED <<certListed, certIndex, certSwap, certSerial>>
    /\ certTroubles' >= certTroubles /\ certTroubles' \in 0..CertMaxTroubles
    /\ certSave'.cert = certSave.cert

LEMMA CertSavingInv ==
    ASSUME CertInv, CertSaving, CertTypeOK', CertSaveInv'
    PROVE  CertInv'
<1>1. CertKeptInv'
  BY DEF CertInv, CertSaving, CertKeptInv, CertAllowed, CertTypeOK
<1>2. CertIndexInv'
  BY DEF CertInv, CertSaving, CertIndexInv
<1>3. CertFreshInv'
  BY DEF CertInv, CertSaving, CertFreshInv, CertCurrent
<1> QED BY <1>1, <1>2, <1>3 DEF CertInv

\* A step of the Save at work, and what it leaves on disk.
LEMMA CertPuts ==
    ASSUME CertTypeOK, certSave.cert \in CertIds,
           NEW crt \in CertSerials, NEW key \in CertSerials, CertPut(crt, key)
    PROVE  /\ certFiles' \in [CertIds -> CertPair]
           /\ certFiles'[certSave.cert].crt = crt /\ certFiles'[certSave.cert].key = key
           /\ \A c \in CertIds \ {certSave.cert} : certFiles'[c] = certFiles[c]
BY CertTypes DEF CertPut, CertPair

LEMMA CertMovesInv ==
    ASSUME CertInv, CertBackupCrt \/ CertBackupKey \/ CertPutCrt \/ CertPutKey
    PROVE  CertInv'
<1> DEFINE cert == certSave.cert
           file == certFiles[cert]
<1>0. /\ CertTypeOK /\ CertSaveInv /\ certFiles \in [CertIds -> CertPair]
      /\ certSave \in [pc : CertSteps, cert : CertIds \union {0}, serial : CertSerials,
                       bakCrt : CertSerials, bakKey : CertSerials]
  BY CertTypes DEF CertInv
<1>1. CASE CertBackupCrt
  <2>1. cert \in CertIds /\ file \in CertPair
    BY <1>0, <1>1 DEF CertBackupCrt, CertSaveInv, CertAt
  <2>2. /\ certSave' = [certSave EXCEPT !.pc = "backupKey", !.bakCrt = file.crt]
        /\ CertPut(0, file.key)
        /\ UNCHANGED <<certTroubles, certListed, certIndex, certSwap, certSerial>>
    BY <1>1 DEF CertBackupCrt, CertOnlyFiles, CertFile
  <2>3. /\ certFiles' \in [CertIds -> CertPair]
        /\ certFiles'[cert].crt = 0 /\ certFiles'[cert].key = file.key
        /\ \A c \in CertIds \ {cert} : certFiles'[c] = certFiles[c]
    BY <1>0, <2>1, <2>2, CertPuts, CertConstants DEF CertPair, CertSerials
  <2>4. CertTypeOK'
    BY <1>0, <2>1, <2>2, <2>3 DEF CertTypeOK, CertPair
  <2>5. CertSaveInv'
    BY <1>0, <1>1, <2>1, <2>2, <2>3 DEF CertBackupCrt, CertSaveInv, CertAt
  <2>6. \A c \in CertIds : CertKept(c)' = CertKept(c)
    BY <1>0, <1>1, <2>1, <2>2, <2>3 DEF CertBackupCrt, CertKept, CertAt, CertSaveInv, CertPair
  <2>7. CertSaving
    BY <1>0, <2>2, <2>6, CertTypes, CertConstants DEF CertSaving
  <2> QED BY <2>4, <2>5, <2>7, CertSavingInv
<1>2. CASE CertBackupKey
  <2>1. cert \in CertIds /\ file \in CertPair
    BY <1>0, <1>2 DEF CertBackupKey, CertSaveInv, CertAt
  <2>2. /\ certSave' = [certSave EXCEPT !.pc = "putCrt", !.bakKey = file.key]
        /\ CertPut(file.crt, 0)
        /\ UNCHANGED <<certTroubles, certListed, certIndex, certSwap, certSerial>>
    BY <1>2 DEF CertBackupKey, CertOnlyFiles, CertFile
  <2>3. /\ certFiles' \in [CertIds -> CertPair]
        /\ certFiles'[cert].crt = file.crt /\ certFiles'[cert].key = 0
        /\ \A c \in CertIds \ {cert} : certFiles'[c] = certFiles[c]
    BY <1>0, <2>1, <2>2, CertPuts, CertConstants DEF CertPair, CertSerials
  <2>4. CertTypeOK'
    BY <1>0, <2>1, <2>2, <2>3 DEF CertTypeOK, CertPair
  <2>5. CertSaveInv'
    BY <1>0, <1>2, <2>1, <2>2, <2>3 DEF CertBackupKey, CertSaveInv, CertAt
  <2>6. \A c \in CertIds : CertKept(c)' = CertKept(c)
    BY <1>0, <1>2, <2>1, <2>2, <2>3 DEF CertBackupKey, CertKept, CertAt, CertSaveInv, CertPair
  <2>7. CertSaving
    BY <1>0, <2>2, <2>6, CertTypes, CertConstants DEF CertSaving
  <2> QED BY <2>4, <2>5, <2>7, CertSavingInv
<1>3. CASE CertPutCrt
  <2>1. cert \in CertIds /\ file \in CertPair /\ certSave.serial = certSerial
    BY <1>0, <1>3 DEF CertPutCrt, CertSaveInv, CertAt
  <2>2. /\ certSave' = [certSave EXCEPT !.pc = "putKey"]
        /\ CertPut(certSerial, file.key)
        /\ UNCHANGED <<certTroubles, certListed, certIndex, certSwap, certSerial>>
    BY <1>3, <2>1 DEF CertPutCrt, CertOnlyFiles, CertFile, CertGoto
  <2>3. /\ certFiles' \in [CertIds -> CertPair]
        /\ certFiles'[cert].crt = certSerial /\ certFiles'[cert].key = file.key
        /\ \A c \in CertIds \ {cert} : certFiles'[c] = certFiles[c]
    BY <1>0, <2>1, <2>2, CertPuts, CertTypes DEF CertPair
  <2>4. CertTypeOK'
    BY <1>0, <2>1, <2>2, <2>3 DEF CertTypeOK, CertPair
  <2>5. CertSaveInv'
    BY <1>0, <1>3, <2>1, <2>2, <2>3 DEF CertPutCrt, CertSaveInv, CertAt
  <2>6. \A c \in CertIds : CertKept(c)' = CertKept(c)
    BY <1>0, <1>3, <2>1, <2>2, <2>3 DEF CertPutCrt, CertKept, CertAt, CertSaveInv, CertPair
  <2>7. CertSaving
    BY <1>0, <2>2, <2>6, CertTypes, CertConstants DEF CertSaving
  <2> QED BY <2>4, <2>5, <2>7, CertSavingInv
<1>4. CASE CertPutKey
  <2>1. cert \in CertIds /\ file \in CertPair /\ certSave.serial = certSerial
    BY <1>0, <1>4 DEF CertPutKey, CertSaveInv, CertAt
  <2>2. /\ certSave' = [certSave EXCEPT !.pc = "setIndexed"]
        /\ CertPut(file.crt, certSerial)
        /\ UNCHANGED <<certTroubles, certListed, certIndex, certSwap, certSerial>>
    BY <1>4, <2>1 DEF CertPutKey, CertOnlyFiles, CertFile, CertGoto
  <2>3. /\ certFiles' \in [CertIds -> CertPair]
        /\ certFiles'[cert].crt = file.crt /\ certFiles'[cert].key = certSerial
        /\ \A c \in CertIds \ {cert} : certFiles'[c] = certFiles[c]
    BY <1>0, <2>1, <2>2, CertPuts, CertTypes DEF CertPair
  <2>4. CertTypeOK'
    BY <1>0, <2>1, <2>2, <2>3 DEF CertTypeOK, CertPair
  <2>5. CertSaveInv'
    BY <1>0, <1>4, <2>1, <2>2, <2>3 DEF CertPutKey, CertSaveInv, CertAt
  <2>6. \A c \in CertIds : CertKept(c)' = CertKept(c)
    BY <1>0, <1>4, <2>1, <2>2, <2>3 DEF CertPutKey, CertKept, CertAt, CertSaveInv, CertPair
  <2>7. CertSaving
    BY <1>0, <2>2, <2>6, CertTypes, CertConstants DEF CertSaving
  <2> QED BY <2>4, <2>5, <2>7, CertSavingInv
<1> QED BY <1>1, <1>2, <1>3, <1>4

LEMMA CertBeginsInv ==
    ASSUME CertInv, NEW c \in CertIds, CertSaveBegins(c)
    PROVE  CertInv'
<1>0. CertTypeOK /\ CertSaveInv /\ CertKeptInv
  BY DEF CertInv
<1>1. /\ certSave' = [pc |-> "backupCrt", cert |-> c, serial |-> certSerial + 1,
                      bakCrt |-> 0, bakKey |-> 0]
      /\ certSave.cert = 0 /\ certSerial' = certSerial + 1 /\ certSerial' \in CertSerials
      /\ UNCHANGED <<certListed, certFiles, certIndex, certSwap, certTroubles>>
  <2>1. certSave = CertNoSave /\ certSerial < CertMaxSerial /\ certSerial' = certSerial + 1
    BY <1>0 DEF CertSaveBegins, CertSaveInv
  <2>2. certSerial' \in CertSerials
    BY <1>0, <2>1, CertConstants DEF CertTypeOK, CertSerials
  <2> QED BY <2>1, <2>2 DEF CertSaveBegins, CertNoSave
<1>2. CertTypeOK'
  BY <1>0, <1>1, CertConstants DEF CertTypeOK, CertSerials
<1>3. CertSaveInv'
  BY <1>1, CertConstants DEF CertSaveInv, CertAt, CertNoSave
<1>4. \A d \in CertIds : CertKept(d)' = certFiles[d] /\ CertKept(d) = certFiles[d]
  BY <1>0, <1>1, CertTypes, CertConstants DEF CertKept, CertAt, CertPair
<1>5. CertKeptInv'
  <2>1. certSerial \in Nat /\ certSerial' = certSerial + 1 /\ certTroubles' = certTroubles
    BY <1>0, <1>1 DEF CertTypeOK, CertSerials
  <2>2. \A d \in CertIds : certFiles[d].crt \in Nat /\ certFiles[d].key \in Nat
    BY <1>0 DEF CertTypeOK, CertSerials
  <2> QED BY <1>0, <1>4, <2>1, <2>2 DEF CertKeptInv, CertAllowed
<1>6. CertIndexInv'
  <2>1. certSerial \in Nat /\ certSerial' = certSerial + 1
    BY <1>0, <1>1 DEF CertTypeOK, CertSerials
  <2>2. \A index \in {certIndex, certSwap.staging}, d \in CertIds : index.byID[d] \in Nat
    BY <1>0 DEF CertTypeOK, CertSerials
  <2> QED BY <1>1, <2>1, <2>2 DEF CertInv, CertIndexInv, CertGoodIndex
<1>7. CertFreshInv'
  BY <1>1, <1>4 DEF CertInv, CertFreshInv, CertCurrent
<1> QED BY <1>2, <1>3, <1>5, <1>6, <1>7 DEF CertInv

\* A failure that leads to undo.
LEMMA CertFailsInv ==
    ASSUME CertInv, CertPutFails \/ (CertBackupFails /\ CertAt("backupKey"))
    PROVE  CertInv'
<1> DEFINE cert == certSave.cert
           file == certFiles[cert]
<1>0. /\ CertTypeOK /\ CertSaveInv /\ certFiles \in [CertIds -> CertPair] /\ CertKeptInv
      /\ certSave \in [pc : CertSteps, cert : CertIds \union {0}, serial : CertSerials,
                       bakCrt : CertSerials, bakKey : CertSerials]
      /\ certTroubles \in Nat
  BY CertTypes DEF CertInv
<1>1. /\ certSave.pc \in {"backupKey", "putCrt", "putKey"}
      /\ certSave' = [certSave EXCEPT !.pc = "undo"]
      /\ UNCHANGED <<certListed, certIndex, certSwap, certSerial>>
      /\ \E n \in {1, 2} : CertTrouble(n)
  BY DEF CertPutFails, CertBackupFails, CertAt, CertGoto, CertOnlyFiles
<1>2. cert \in CertIds /\ file \in CertPair
  BY <1>0, <1>1 DEF CertSaveInv, CertAt
<1>3. /\ certTroubles' >= certTroubles + 1 /\ certTroubles' \in 0..CertMaxTroubles
  BY <1>0, <1>1, CertConstants DEF CertTrouble
<1>4. /\ certFiles' \in [CertIds -> CertPair]
      /\ \A c \in CertIds \ {cert} : certFiles'[c] = certFiles[c]
      /\ certFiles'[cert].key = file.key
      /\ IF CertAt("putKey")
         THEN \/ certFiles'[cert].crt = 0
              \/ certFiles'[cert].crt = file.crt /\ certTroubles' >= certTroubles + 2
         ELSE certFiles'[cert].crt = file.crt
  <2>1. CASE CertAt("putKey") /\ CertPut(0, file.key)
    <3>1. 0 \in CertSerials /\ file.key \in CertSerials
      BY <1>2, CertConstants DEF CertPair, CertSerials
    <3>2. /\ certFiles' \in [CertIds -> CertPair]
          /\ certFiles'[certSave.cert].crt = 0 /\ certFiles'[certSave.cert].key = file.key
          /\ \A c \in CertIds \ {certSave.cert} : certFiles'[c] = certFiles[c]
      <4> HIDE DEF file
      <4> QED BY <1>0, <1>2, <2>1, <3>1, CertPuts
    <3> QED BY <2>1, <3>2
  <2>2. CASE CertAt("putKey") /\ CertTrouble(2) /\ UNCHANGED certFiles
    BY <1>0, <2>2 DEF CertTrouble
  <2>3. CASE ~CertAt("putKey") /\ UNCHANGED certFiles
    BY <1>0, <2>3
  <2> QED BY <2>1, <2>2, <2>3 DEF CertPutFails, CertBackupFails, CertFile, CertAt
<1>5. CertTypeOK'
  BY <1>0, <1>1, <1>3, <1>4 DEF CertTypeOK, CertPair
<1>6. CertSaveInv'
  <2>1. CertKept(cert) = [crt |-> certSave.bakCrt, key |-> IF CertAt("backupKey") THEN file.key
                                                           ELSE certSave.bakKey]
    BY <1>0, <1>1 DEF CertKept, CertAt
  <2>2. CertAt("putKey") /\ certSave.bakCrt = 0 /\ certSave.bakKey # 0 => certTroubles >= 1
    BY <1>0, <1>2, <2>1 DEF CertKeptInv, CertAllowed, CertAt
  <2> QED BY <1>0, <1>1, <1>2, <1>3, <1>4, <2>2 DEF CertSaveInv, CertAt
<1>7. \A c \in CertIds : CertKept(c)' = CertKept(c)
  BY <1>0, <1>1, <1>2, <1>4 DEF CertKept, CertAt, CertSaveInv, CertPair
<1>8. CertSaving
  BY <1>0, <1>1, <1>3, <1>7, CertConstants DEF CertSaving
<1> QED BY <1>5, <1>6, <1>8, CertSavingInv

\* A Save ends without a new pair: each certificate keeps what it had, or what
\* it is left with is no pair.
CertGivesUp ==
    /\ certSave' = CertNoSave
    /\ UNCHANGED <<certListed, certIndex, certSwap, certSerial>>
    /\ certTroubles' >= certTroubles /\ certTroubles' \in 0..CertMaxTroubles
    /\ certFiles' \in [CertIds -> CertPair]
    /\ \A c \in CertIds :
          \/ certFiles'[c] = CertKept(c)
          \/ /\ ~CertMatched(certFiles'[c]) /\ CertAllowed(certFiles'[c], certTroubles')
             /\ certFiles'[c].crt <= certSerial /\ certFiles'[c].key <= certSerial

LEMMA CertGivesUpInv == ASSUME CertInv, CertGivesUp PROVE CertInv'
<1>0. CertTypeOK /\ CertKeptInv /\ certTroubles \in Nat
  BY DEF CertInv, CertTypeOK
<1>1. CertTypeOK'
  BY <1>0, CertConstants DEF CertGivesUp, CertTypeOK, CertPair, CertNoSave, CertSerials
<1>2. CertSaveInv'
  BY DEF CertGivesUp, CertSaveInv, CertAt, CertNoSave
<1>3. \A c \in CertIds : CertKept(c)' = certFiles'[c]
  BY CertConstants DEF CertGivesUp, CertKept, CertNoSave
<1>4. CertKeptInv'
  <2> SUFFICES ASSUME NEW c \in CertIds
               PROVE  /\ CertAllowed(certFiles'[c], certTroubles')
                      /\ certFiles'[c].crt <= certSerial' /\ certFiles'[c].key <= certSerial'
                      /\ certSave'.cert # c
    BY <1>3 DEF CertKeptInv
  <2>1. certSave'.cert # c /\ certSerial' = certSerial
    BY CertConstants DEF CertGivesUp, CertNoSave
  <2>2. CASE certFiles'[c] = CertKept(c)
    BY <1>0, <2>1, <2>2 DEF CertKeptInv, CertAllowed, CertGivesUp
  <2>3. CASE certFiles'[c] # CertKept(c)
    BY <2>1, <2>3 DEF CertGivesUp
  <2> QED BY <2>1, <2>2, <2>3
<1>5. CertIndexInv'
  BY DEF CertGivesUp, CertInv, CertIndexInv
<1>6. CertFreshInv'
  BY <1>3 DEF CertGivesUp, CertInv, CertFreshInv, CertCurrent
<1> QED BY <1>1, <1>2, <1>4, <1>5, <1>6 DEF CertInv

LEMMA CertBackupFailsInv ==
    ASSUME CertInv, CertBackupFails, CertAt("backupCrt")
    PROVE  CertInv'
<1>0. /\ certFiles \in [CertIds -> CertPair] /\ certTroubles \in Nat /\ certSave.cert \in CertIds
  BY CertTypes DEF CertInv, CertSaveInv, CertAt
<1>1. /\ certSave' = CertNoSave /\ certTroubles' = certTroubles + 1
      /\ certTroubles' \in 0..CertMaxTroubles /\ certFiles' = certFiles
      /\ UNCHANGED <<certListed, certIndex, certSwap, certSerial>>
  BY <1>0, CertConstants DEF CertBackupFails, CertAt, CertTrouble, CertOnlyFiles
<1>2. \A c \in CertIds : certFiles'[c] = CertKept(c)
  BY <1>0, <1>1 DEF CertKept, CertAt, CertPair
<1> QED BY <1>0, <1>1, <1>2, CertGivesUpInv DEF CertGivesUp

LEMMA CertUndoInv == ASSUME CertInv, CertUndo PROVE CertInv'
<1> DEFINE cert == certSave.cert
           file == certFiles[cert]
           crt == IF certSave.bakCrt = 0 THEN file.crt ELSE certSave.bakCrt
           key == IF certSave.bakKey = 0 THEN file.key ELSE certSave.bakKey
<1>0. /\ CertTypeOK /\ CertSaveInv /\ certFiles \in [CertIds -> CertPair] /\ CertKeptInv
      /\ certSave \in [pc : CertSteps, cert : CertIds \union {0}, serial : CertSerials,
                       bakCrt : CertSerials, bakKey : CertSerials]
      /\ certTroubles \in Nat /\ certSerial \in Nat
  BY CertTypes DEF CertInv, CertSerials
<1>1. /\ CertAt("undo") /\ certSave' = CertNoSave
      /\ UNCHANGED <<certListed, certIndex, certSwap, certSerial>>
  BY DEF CertUndo, CertOnlyFiles
<1>2. cert \in CertIds /\ file \in CertPair /\ crt \in CertSerials /\ key \in CertSerials
  BY <1>0, <1>1 DEF CertSaveInv, CertAt, CertPair
<1>3. CertKept(cert) = [crt |-> certSave.bakCrt, key |-> key]
  BY <1>1 DEF CertKept, CertAt
<1>4. /\ certTroubles >= 1
      /\ certSave.bakKey # 0 => file.key = 0
      /\ \/ file.crt = 0
         \/ /\ file.crt = certSerial /\ file.key = 0 /\ certTroubles >= 2
            /\ certSave.bakCrt = 0 /\ certSave.bakKey # 0 => certTroubles >= 3
  BY <1>0, <1>1 DEF CertSaveInv
<1>5. /\ CertAllowed(CertKept(cert), certTroubles)
      /\ certSave.bakCrt < certSerial /\ key < certSerial
  BY <1>0, <1>2, <1>3 DEF CertKeptInv
<1>6. \A c \in CertIds \ {cert} : CertKept(c) = certFiles[c]
  BY DEF CertKept
<1> DEFINE Left(f, t) == /\ ~CertMatched(f) /\ CertAllowed(f, t)
                         /\ f.crt <= certSerial /\ f.key <= certSerial
<1>7. ASSUME NEW x \in CertSerials, NEW y \in CertSerials, CertPut(x, y),
             certTroubles' >= certTroubles, certTroubles' \in 0..CertMaxTroubles,
             [crt |-> x, key |-> y] = CertKept(cert) \/ Left([crt |-> x, key |-> y], certTroubles')
      PROVE  CertInv'
  <2>1. /\ certFiles' \in [CertIds -> CertPair]
        /\ certFiles'[cert] = [crt |-> x, key |-> y]
        /\ \A c \in CertIds \ {cert} : certFiles'[c] = certFiles[c]
    BY <1>0, <1>2, <1>7, CertPuts DEF CertPair
  <2>2. CertGivesUp
    BY <1>1, <1>2, <1>6, <1>7, <2>1 DEF CertGivesUp
  <2> QED BY <2>2, CertGivesUpInv
<1>8. CASE CertPut(crt, key) /\ UNCHANGED certTroubles
  <2>1. [crt |-> crt, key |-> key] = CertKept(cert) \/ Left([crt |-> crt, key |-> key], certTroubles)
    BY <1>0, <1>2, <1>3, <1>4, <1>5 DEF CertMatched, CertAllowed, CertPair, CertSerials
  <2> QED BY <1>0, <1>2, <1>7, <1>8, <2>1, CertTypes
<1>9. CASE certSave.bakCrt # 0 /\ CertTrouble(1) /\ CertPut(file.crt, key)
  <2>1. certTroubles' = certTroubles + 1 /\ certTroubles' \in 0..CertMaxTroubles
    BY <1>0, <1>9, CertConstants DEF CertTrouble
  <2>2. Left([crt |-> file.crt, key |-> key], certTroubles')
    BY <1>0, <1>2, <1>3, <1>4, <1>5, <2>1 DEF CertMatched, CertAllowed, CertPair, CertSerials
  <2>3. file.crt \in CertSerials
    BY <1>2 DEF CertPair
  <2> QED BY <1>0, <1>2, <1>7, <1>9, <2>1, <2>2, <2>3
<1>10. ASSUME certSave.bakKey # 0, NEW x \in {0, file.crt}, CertPut(x, file.key),
              certTroubles' >= certTroubles + 1, certTroubles' \in 0..CertMaxTroubles
       PROVE  CertInv'
  <2>1. x \in CertSerials /\ file.key \in CertSerials
    BY <1>2, <1>10, CertConstants DEF CertPair, CertSerials
  <2>2. Left([crt |-> x, key |-> file.key], certTroubles')
    BY <1>0, <1>2, <1>4, <1>10 DEF CertMatched, CertAllowed, CertPair, CertSerials
  <2> QED BY <1>0, <1>7, <1>10, <2>1, <2>2
<1>11. CASE /\ certSave.bakKey # 0 /\ CertTrouble(1)
            /\ CertPut(IF certSave.bakCrt = 0 THEN file.crt ELSE 0, file.key)
  BY <1>0, <1>10, <1>11, CertConstants DEF CertTrouble
<1>12. CASE certSave.bakKey # 0 /\ CertTrouble(2) /\ UNCHANGED certFiles
  <2>1. CertPut(file.crt, file.key)
    BY <1>0, <1>2, <1>12 DEF CertPut, CertPair
  <2> QED BY <1>0, <1>10, <1>12, <2>1, CertConstants DEF CertTrouble
<1> QED BY <1>8, <1>9, <1>11, <1>12 DEF CertUndo, CertFile

\* The Save returns: its pair is kept, and goes into the index in use.
LEMMA CertReturnsInv == ASSUME CertInv, CertSaveReturns PROVE CertInv'
<1> DEFINE cert == certSave.cert
<1>0. /\ CertTypeOK /\ CertSaveInv /\ certFiles \in [CertIds -> CertPair] /\ CertKeptInv
      /\ certIndex \in CertIndexType
      /\ certSwap \in [on : BOOLEAN, todo : SUBSET CertIds, staging : CertIndexType]
      /\ certSerial \in CertSerials /\ certSerial \in Nat
  BY CertTypes DEF CertInv, CertSerials
<1>1. /\ CertAt("setIndexed") /\ certSave' = CertNoSave /\ CertSetIndexed(cert, certSerial)
      /\ cert \in CertIds
      /\ UNCHANGED <<certListed, certFiles, certSerial, certTroubles>>
  BY <1>0 DEF CertSaveReturns, CertSaveInv, CertAt
<1>2. certFiles[cert] = [crt |-> certSerial, key |-> certSerial] /\ certSerial # 0
  <2>1. certFiles[cert].crt = certSerial /\ certFiles[cert].key = certSerial
    BY <1>0, <1>1 DEF CertSaveInv
  <2>2. CertKept(cert).crt < certSerial /\ CertKept(cert).crt \in Nat
    BY <1>0, <1>1, CertKeptOf DEF CertKeptInv, CertPair, CertSerials
  <2> QED BY <1>0, <1>1, <2>1, <2>2 DEF CertPair
<1>3. \A c \in CertIds : CertKept(c)' = certFiles[c]
  BY <1>1, CertConstants DEF CertKept, CertNoSave
<1>4. \A c \in CertIds \ {cert} : CertKept(c) = certFiles[c]
  BY DEF CertKept
<1>5. ASSUME NEW index \in {certIndex, certSwap.staging}
      PROVE  /\ CertIndexed(index, cert, certSerial) \in CertIndexType
             /\ CertIndexed(index, cert, certSerial).byID = [index.byID EXCEPT ![cert] = certSerial]
             /\ CertGoodIndex(CertIndexed(index, cert, certSerial), certSerial)
  <2>1. index \in CertIndexType /\ CertGoodIndex(index, certSerial)
    BY <1>0 DEF CertInv, CertIndexInv
  <2>2. index.byID[cert] <= certSerial
    BY <1>1, <2>1 DEF CertGoodIndex
  <2> QED BY <1>0, <1>1, <1>2, <2>1, <2>2, CertIndexedGood
<1> DEFINE new == CertIndexed(CertCurrent, cert, certSerial)
<1>6. /\ new \in CertIndexType /\ CertGoodIndex(new, certSerial)
      /\ new.byID = [CertCurrent.byID EXCEPT ![cert] = certSerial]
  BY <1>5 DEF CertCurrent
<1>7. IF certSwap.on THEN certSwap' = [certSwap EXCEPT !.staging = new] /\ certIndex' = certIndex
      ELSE certIndex' = new /\ certSwap' = certSwap
  BY <1>1 DEF CertSetIndexed, CertCurrent
<1> HIDE DEF new
<1>8. CertTypeOK'
  <2>1. certIndex' \in CertIndexType
    BY <1>0, <1>6, <1>7
  <2>2. certSwap' \in [on : BOOLEAN, todo : SUBSET CertIds, staging : CertIndexType]
    BY <1>0, <1>6, <1>7
  <2> QED BY <1>0, <1>1, <2>1, <2>2, CertConstants
          DEF CertTypeOK, CertIndexType, CertNoSave, CertSerials
<1>9. CertSaveInv'
  BY <1>1 DEF CertSaveInv, CertAt, CertNoSave
<1>10. CertKeptInv'
  <2>1. \A c \in CertIds : /\ CertAllowed(certFiles[c], certTroubles)
                           /\ certFiles[c].crt <= certSerial /\ certFiles[c].key <= certSerial
    <3> SUFFICES ASSUME NEW c \in CertIds
                 PROVE  /\ CertAllowed(certFiles[c], certTroubles)
                        /\ certFiles[c].crt <= certSerial /\ certFiles[c].key <= certSerial
      OBVIOUS
    <3>1. CASE c = cert
      BY <1>0, <1>2, <3>1 DEF CertAllowed
    <3>2. CASE c # cert
      BY <1>0, <1>4, <3>2 DEF CertKeptInv
    <3> QED BY <3>1, <3>2
  <2>2. certSave'.cert = 0
    BY <1>1 DEF CertNoSave
  <2> QED BY <1>1, <1>3, <2>1, <2>2, CertConstants DEF CertKeptInv, CertAllowed
<1>11. CertIndexInv'
  <2>1. \A index \in {certIndex', certSwap'.staging} :
            index = new \/ index \in {certIndex, certSwap.staging}
    BY <1>0, <1>7
  <2> QED BY <1>1, <1>6, <2>1 DEF CertInv, CertIndexInv
<1>12. CertFreshInv'
  <2>1. /\ certSwap'.on = certSwap.on /\ certSwap'.todo = certSwap.todo
        /\ CertCurrent' = new
        /\ certSwap.on => certSwap'.staging = new
    BY <1>0, <1>7 DEF CertCurrent
  <2>2. /\ new.byID[cert] = certSerial
        /\ \A c \in CertIds \ {cert} : new.byID[c] = CertCurrent.byID[c]
    BY <1>0, <1>1, <1>6 DEF CertCurrent, CertIndexType
  <2>3. certSwap.on => CertCurrent = certSwap.staging
    BY DEF CertCurrent
  <2>4. ASSUME NEW c \in CertIds, CertMatched(certFiles[c])
        PROVE  /\ c \in certListed /\ ~(certSwap.on /\ c \in certSwap.todo)
                      => new.byID[c] = certFiles[c].crt
               /\ certSwap.on => new.byID[c] <= certFiles[c].crt
    <3>1. CASE c = cert
      BY <1>0, <1>2, <2>2, <3>1
    <3>2. CASE c # cert
      BY <1>4, <2>2, <2>3, <2>4, <3>2 DEF CertInv, CertFreshInv
    <3> QED BY <3>1, <3>2
  <2> QED BY <1>1, <1>3, <2>1, <2>4 DEF CertFreshInv
<1> QED BY <1>8, <1>9, <1>10, <1>11, <1>12 DEF CertInv

\* An empty index is in order.
LEMMA CertEmptyGood ==
    ASSUME NEW top \in Nat
    PROVE  CertEmpty \in CertIndexType /\ CertGoodIndex(CertEmpty, top)
BY CertConstants DEF CertEmpty, CertIndexType, CertGoodIndex, CertByMerit, CertSerials

\* What Reload leaves alone.
LEMMA CertSwapsInv ==
    ASSUME CertInv, CertOnlySwap, CertIndexInv', CertFreshInv', certIndex' \in CertIndexType,
           certSwap' \in [on : BOOLEAN, todo : SUBSET CertIds, staging : CertIndexType]
    PROVE  CertInv'
<1>1. CertTypeOK'
  BY DEF CertInv, CertTypeOK, CertOnlySwap, CertIndexType
<1>2. CertSaveInv'
  BY DEF CertInv, CertSaveInv, CertOnlySwap, CertAt
<1>3. CertKeptInv'
  BY DEF CertInv, CertKeptInv, CertOnlySwap, CertAt, CertKept, CertAllowed
<1> QED BY <1>1, <1>2, <1>3 DEF CertInv

LEMMA CertReloadInv ==
    ASSUME CertInv, CertBeginIndexSwap \/ CertCommitIndex \/ \E c \in CertIds : CertLoad(c)
    PROVE  CertInv'
<1>0. /\ CertTypeOK /\ certFiles \in [CertIds -> CertPair] /\ CertKeptInv /\ CertIndexInv
      /\ CertFreshInv /\ CertSaveInv
      /\ certIndex \in CertIndexType /\ certListed \subseteq CertIds
      /\ certSwap \in [on : BOOLEAN, todo : SUBSET CertIds, staging : CertIndexType]
      /\ certSerial \in CertSerials /\ certSerial \in Nat
  BY CertTypes DEF CertInv, CertSerials
<1>1. CertOnlySwap
  BY DEF CertBeginIndexSwap, CertCommitIndex, CertLoad
<1>2. \A c \in CertIds : CertKept(c)' = CertKept(c)
  BY <1>1 DEF CertOnlySwap, CertKept, CertAt
<1>3. CASE CertBeginIndexSwap
  <2>1. /\ certSwap' = [on |-> TRUE, todo |-> certListed, staging |-> CertEmpty]
        /\ certIndex' = certIndex
    BY <1>3 DEF CertBeginIndexSwap
  <2>2. CertIndexInv'
    BY <1>0, <1>1, <2>1, CertEmptyGood DEF CertIndexInv, CertOnlySwap
  <2>3. CertFreshInv'
    <3>1. \A c \in CertIds : certSwap'.staging.byID[c] = 0
      BY <2>1 DEF CertEmpty
    <3>2. \A c \in CertIds : CertKept(c).crt \in Nat
      <4> SUFFICES ASSUME NEW c \in CertIds PROVE CertKept(c).crt \in Nat
        OBVIOUS
      <4>1. CertKept(c) \in CertPair
        BY <1>0, CertKeptOf
      <4> HIDE DEF CertKept
      <4> QED BY <4>1, CertConstants DEF CertPair, CertSerials
    <3> QED BY <1>1, <1>2, <2>1, <3>1, <3>2 DEF CertFreshInv, CertOnlySwap
  <2> QED BY <1>0, <1>1, <2>1, <2>2, <2>3, CertEmptyGood, CertSwapsInv
<1>4. CASE CertCommitIndex
  <2>1. certSwap.on /\ certSwap.todo = {} /\ certIndex' = certSwap.staging
        /\ certSwap' = CertNoSwap
    BY <1>4 DEF CertCommitIndex
  <2>2. certSwap'.on = FALSE /\ certSwap'.staging = CertEmpty
    BY <2>1 DEF CertNoSwap
  <2>3. CertIndexInv'
    BY <1>0, <1>1, <2>1, <2>2, CertEmptyGood DEF CertIndexInv, CertOnlySwap
  <2>4. CertFreshInv'
    BY <1>0, <1>1, <1>2, <2>1, <2>2 DEF CertFreshInv, CertOnlySwap, CertCurrent
  <2>5. certSwap' \in [on : BOOLEAN, todo : SUBSET CertIds, staging : CertIndexType]
    BY <2>1, CertEmptyGood DEF CertNoSwap
  <2> QED BY <1>0, <1>1, <2>1, <2>3, <2>4, <2>5, CertSwapsInv
<1>5. ASSUME NEW c \in CertIds, CertLoad(c)
      PROVE  CertInv'
  <2> DEFINE pair == certFiles[c]
             new == IF CertMatched(pair) THEN CertIndexed(certSwap.staging, c, pair.crt)
                    ELSE certSwap.staging
  <2>1. /\ certSwap.on /\ CertAt("free") /\ certIndex' = certIndex
        /\ certSwap' = [certSwap EXCEPT !.todo = certSwap.todo \ {c}, !.staging = new]
    BY <1>5 DEF CertLoad, CertMatched
  <2>2. \A d \in CertIds : CertKept(d) = certFiles[d]
    BY <1>0, <2>1, CertConstants DEF CertSaveInv, CertKept, CertNoSave
  <2>3. /\ new \in CertIndexType /\ CertGoodIndex(new, certSerial)
        /\ \A d \in CertIds \ {c} : new.byID[d] = certSwap.staging.byID[d]
        /\ CertMatched(pair) => new.byID[c] = pair.crt
    <3>1. certSwap.staging \in CertIndexType /\ CertGoodIndex(certSwap.staging, certSerial)
      BY <1>0 DEF CertIndexInv
    <3>2. CASE CertMatched(pair)
      <4>1. /\ pair.crt \in CertSerials /\ pair.crt # 0
            /\ certSwap.staging.byID[c] <= pair.crt /\ pair.crt <= certSerial
        BY <1>0, <2>1, <2>2, <3>2 DEF CertFreshInv, CertKeptInv, CertMatched, CertPair
      <4>2. ASSUME NEW index \in {certSwap.staging}, NEW serial \in {pair.crt}
            PROVE  /\ CertIndexed(index, c, serial) \in CertIndexType
                   /\ CertGoodIndex(CertIndexed(index, c, serial), certSerial)
                   /\ CertIndexed(index, c, serial).byID = [index.byID EXCEPT ![c] = serial]
        <5>1. /\ index \in CertIndexType /\ CertGoodIndex(index, certSerial)
              /\ serial \in CertSerials /\ serial # 0
              /\ index.byID[c] <= serial /\ serial <= certSerial
          BY <3>1, <4>1, <4>2
        <5>2. certSerial \in CertSerials
          BY <1>0
        <5> QED BY <5>1, <5>2, CertIndexedGood
      <4> DEFINE put == CertIndexed(certSwap.staging, c, pair.crt)
      <4>3. /\ put \in CertIndexType /\ CertGoodIndex(put, certSerial)
            /\ put.byID = [certSwap.staging.byID EXCEPT ![c] = pair.crt]
        BY <4>2
      <4>4. new = put /\ certSwap.staging.byID \in [CertIds -> CertSerials]
        BY <3>1, <3>2 DEF CertIndexType
      <4> HIDE DEF put, new
      <4> QED BY <4>3, <4>4
    <3>3. CASE ~CertMatched(pair)
      BY <3>1, <3>3
    <3> QED BY <3>2, <3>3
  <2> HIDE DEF new
  <2>4. /\ certSwap'.on /\ certSwap'.todo = certSwap.todo \ {c} /\ certSwap'.staging = new
        /\ certSwap' \in [on : BOOLEAN, todo : SUBSET CertIds, staging : CertIndexType]
    BY <1>0, <2>1, <2>3
  <2>5. CertIndexInv'
    BY <1>0, <1>1, <2>1, <2>3, <2>4 DEF CertIndexInv, CertOnlySwap
  <2>6. CertFreshInv'
    <3> SUFFICES ASSUME NEW d \in CertIds, CertMatched(certFiles[d])
                 PROVE  /\ d \in certListed /\ d \notin certSwap.todo \ {c}
                              => new.byID[d] = certFiles[d].crt
                        /\ new.byID[d] <= certFiles[d].crt
      BY <1>1, <1>2, <2>2, <2>4 DEF CertFreshInv, CertCurrent, CertOnlySwap
    <3>1. CASE d = c
      BY <1>0, <2>3, <3>1 DEF CertPair, CertSerials
    <3>2. CASE d # c
      BY <1>0, <2>1, <2>2, <2>3, <3>2 DEF CertFreshInv, CertCurrent
    <3> QED BY <3>1, <3>2
  <2> QED BY <1>0, <1>1, <2>1, <2>4, <2>5, <2>6, CertSwapsInv
<1> QED BY <1>3, <1>4, <1>5

LEMMA CertDeleteInv ==
    ASSUME CertInv, NEW c \in CertIds, CertDelete(c)
    PROVE  CertInv'
<1>0. CertTypeOK /\ CertKeptInv /\ CertIndexInv /\ CertFreshInv /\ CertSaveInv
      /\ certTroubles \in Nat
  BY DEF CertInv, CertTypeOK
<1>1. /\ certListed' \subseteq certListed
      /\ certTroubles' = certTroubles + 1 /\ certTroubles' \in 0..CertMaxTroubles
      /\ UNCHANGED <<certFiles, certSave, certIndex, certSwap, certSerial>>
  BY <1>0, CertConstants DEF CertDelete, CertTrouble
<1>2. \A d \in CertIds : CertKept(d)' = CertKept(d)
  BY <1>1 DEF CertKept, CertAt
<1>3. CertTypeOK'
  BY <1>0, <1>1 DEF CertTypeOK
<1>4. CertSaveInv'
  BY <1>0, <1>1 DEF CertSaveInv, CertAt
<1>5. CertKeptInv'
  BY <1>0, <1>1, <1>2 DEF CertKeptInv, CertAllowed
<1>6. CertIndexInv' /\ CertFreshInv'
  BY <1>0, <1>1, <1>2 DEF CertIndexInv, CertFreshInv, CertCurrent
<1> QED BY <1>3, <1>4, <1>5, <1>6 DEF CertInv

\* The end of the process: what the Save at work set aside is lost.
LEMMA CertCrashInv == ASSUME CertInv, CertCrash PROVE CertInv'
<1>0. /\ CertTypeOK /\ CertKeptInv /\ CertIndexInv /\ CertFreshInv /\ CertSaveInv
      /\ certTroubles \in Nat /\ certFiles \in [CertIds -> CertPair]
      /\ certSerial \in CertSerials /\ certSerial \in Nat /\ certListed \subseteq CertIds
      /\ certSave \in [pc : CertSteps, cert : CertIds \union {0}, serial : CertSerials,
                       bakCrt : CertSerials, bakKey : CertSerials]
  BY CertTypes DEF CertInv, CertSerials
<1>1. /\ certTroubles' = certTroubles + 1 /\ certTroubles' \in 0..CertMaxTroubles
      /\ certSave' = CertNoSave /\ certIndex' = CertEmpty
      /\ certSwap' = [on |-> TRUE, todo |-> certListed, staging |-> CertEmpty]
      /\ UNCHANGED <<certListed, certFiles, certSerial>>
  BY <1>0, CertConstants DEF CertCrash, CertTrouble
<1>2. \A c \in CertIds : CertKept(c)' = certFiles[c]
  BY <1>1, CertConstants DEF CertKept, CertNoSave
<1>3. CertTypeOK'
  BY <1>0, <1>1, CertEmptyGood, CertConstants
     DEF CertTypeOK, CertNoSave, CertSerials, CertIndexType
<1>4. CertSaveInv'
  BY <1>1 DEF CertSaveInv, CertAt, CertNoSave
<1>5. \A c \in CertIds : /\ CertAllowed(certFiles[c], certTroubles + 1)
                         /\ certFiles[c].crt <= certSerial /\ certFiles[c].key <= certSerial
  <2> SUFFICES ASSUME NEW c \in CertIds
               PROVE  /\ CertAllowed(certFiles[c], certTroubles + 1)
                      /\ certFiles[c].crt <= certSerial /\ certFiles[c].key <= certSerial
    OBVIOUS
  <2>1. /\ CertAllowed(CertKept(c), certTroubles)
        /\ CertKept(c).crt <= certSerial /\ CertKept(c).key <= certSerial
    BY <1>0 DEF CertKeptInv
  <2>2. CASE certSave.cert # c \/ CertAt("backupCrt")
    <3>1. CertKept(c) = certFiles[c]
      BY <1>0, <2>2 DEF CertKept, CertPair, CertAt
    <3> QED BY <1>0, <2>1, <3>1 DEF CertAllowed
  <2>3. CASE certSave.cert = c /\ ~CertAt("backupCrt")
    <3>1. /\ certFiles[c].crt \in {0, certSerial} /\ ~CertAt("free")
          /\ certFiles[c].crt # 0 => certFiles[c].key \in {0, certFiles[c].crt}
      BY <1>0, <2>3, CertConstants DEF CertSaveInv, CertAt, CertNoSave, CertSteps
    <3>2. certFiles[c].key <= certSerial
      <4>1. CASE certSave.pc = "backupKey" \/ (CertAt("undo") /\ certSave.bakKey = 0)
        BY <2>1, <2>3, <4>1 DEF CertKept, CertAt
      <4>2. CASE certSave.pc \in {"putCrt", "putKey", "setIndexed"}
        BY <1>0, <2>3, <4>2 DEF CertSaveInv, CertAt
      <4>3. CASE CertAt("undo") /\ certSave.bakKey # 0
        BY <1>0, <2>3, <4>3 DEF CertSaveInv, CertAt
      <4> QED BY <1>0, <2>3, <3>1, <4>1, <4>2, <4>3 DEF CertAt, CertSteps
    <3> QED BY <1>0, <3>1, <3>2 DEF CertAllowed
  <2> QED BY <2>2, <2>3
<1>6. CertKeptInv'
  <2>1. certSave'.cert = 0
    BY <1>1 DEF CertNoSave
  <2> QED BY <1>1, <1>2, <1>5, <2>1, CertConstants DEF CertKeptInv, CertAllowed
<1>7. CertIndexInv'
  BY <1>0, <1>1, CertEmptyGood DEF CertIndexInv
<1>8. CertFreshInv'
  <2>1. \A c \in CertIds : certSwap'.staging.byID[c] = 0 /\ certFiles[c].crt \in Nat
    BY <1>0, <1>1 DEF CertEmpty, CertPair, CertSerials
  <2> QED BY <1>1, <1>2, <2>1 DEF CertFreshInv
<1> QED BY <1>3, <1>4, <1>6, <1>7, <1>8 DEF CertInv

LEMMA CertInitInv == CertInit => CertInv
<1> SUFFICES ASSUME CertInit PROVE CertInv
  OBVIOUS
<1>1. /\ CertEmpty \in CertIndexType /\ CertGoodIndex(CertEmpty, 1)
      /\ 1 \in CertSerials /\ 0 \in CertSerials /\ CertEmpty.byID = [c \in CertIds |-> 0]
  <2>1. 1 \in Nat /\ 1 \in CertSerials /\ 0 \in CertSerials
    BY CertConstants DEF CertSerials
  <2>2. CertEmpty.byID = [c \in CertIds |-> 0]
    BY DEF CertEmpty
  <2> QED BY <2>1, <2>2, CertEmptyGood
<1>2. /\ certIndex \in CertIndexType /\ CertGoodIndex(certIndex, 1)
      /\ certIndex.byID = [CertEmpty.byID EXCEPT ![1] = 1]
  <2>1. CertEmpty.byID[1] = 0 /\ 1 \in CertIds
    BY <1>1, CertConstants
  <2>2. CertEmpty.byID[1] <= 1
    BY <2>1
  <2>3. certIndex = CertIndexed(CertEmpty, 1, 1)
    BY DEF CertInit
  <2> QED BY <1>1, <2>1, <2>2, <2>3, CertIndexedGood
<1>3. certIndex.byID[1] = 1
  BY <1>1, <1>2, CertConstants
<1>4. /\ certSave = CertNoSave /\ certSwap = CertNoSwap /\ certSerial = 1 /\ certTroubles = 0
      /\ certListed = CertIds
      /\ \A c \in CertIds : certFiles[c] = IF c = 1 THEN [crt |-> 1, key |-> 1]
                                           ELSE [crt |-> 0, key |-> 0]
      /\ certFiles \in [CertIds -> CertPair]
  BY <1>1 DEF CertInit, CertPair
<1>5. \A c \in CertIds : CertKept(c) = certFiles[c]
  BY <1>4, CertConstants DEF CertKept, CertNoSave
<1>6. CertTypeOK
  BY <1>1, <1>2, <1>4, CertConstants, CertTypes DEF CertNoSave, CertNoSwap, CertSteps
<1>7. CertSaveInv
  BY <1>4 DEF CertSaveInv, CertAt, CertNoSave
<1>8. CertKeptInv
  <2> SUFFICES ASSUME NEW c \in CertIds
               PROVE  /\ CertAllowed(certFiles[c], 0)
                      /\ certFiles[c].crt <= 1 /\ certFiles[c].key <= 1
                      /\ certSave.cert # c
    BY <1>4, <1>5 DEF CertKeptInv
  <2>1. certSave.cert # c
    BY <1>4, CertConstants DEF CertNoSave
  <2>2. CASE c = 1
    BY <1>4, <2>1, <2>2 DEF CertAllowed
  <2>3. CASE c # 1
    BY <1>4, <2>1, <2>3 DEF CertAllowed
  <2> QED BY <2>2, <2>3
<1>9. CertIndexInv
  BY <1>1, <1>2, <1>4 DEF CertIndexInv, CertNoSwap
<1>10. CertFreshInv
  BY <1>3, <1>4, <1>5 DEF CertFreshInv, CertCurrent, CertMatched, CertNoSwap
<1> QED BY <1>6, <1>7, <1>8, <1>9, <1>10 DEF CertInv

LEMMA CertStepInv == ASSUME CertInv, [CertNext]_certVars PROVE CertInv'
<1>1. CASE UNCHANGED certVars
  BY <1>1 DEF certVars, CertInv, CertTypeOK, CertSaveInv, CertKeptInv, CertIndexInv,
              CertFreshInv, CertAt, CertKept, CertCurrent, CertAllowed
<1>2. ASSUME CertBackupFails PROVE CertInv'
  BY <1>2, CertBackupFailsInv, CertFailsInv DEF CertBackupFails
<1>3. ASSUME CertPutFails PROVE CertInv'
  BY <1>3, CertFailsInv
<1> QED BY <1>1, <1>2, <1>3, CertBeginsInv, CertMovesInv, CertReturnsInv, CertUndoInv,
           CertReloadInv, CertDeleteInv, CertCrashInv DEF CertNext

LEMMA CertShows == CertInv => CertTypeOK /\ CertStoreConsistent
<1> SUFFICES ASSUME CertInv PROVE CertStoreConsistent
  BY DEF CertInv
<1>0. /\ CertTypeOK /\ CertKeptInv /\ CertIndexInv /\ CertFreshInv /\ CertSaveInv
      /\ certTroubles \in Nat /\ certFiles \in [CertIds -> CertPair]
      /\ certSave \in [pc : CertSteps, cert : CertIds \union {0}, serial : CertSerials,
                       bakCrt : CertSerials, bakKey : CertSerials]
  BY CertTypes DEF CertInv
<1>1. CertPairsMatch
  <2> SUFFICES ASSUME certTroubles <= 2, NEW c \in CertIds,
                      certFiles[c].crt # 0, certFiles[c].key # 0
               PROVE  certFiles[c].crt = certFiles[c].key
    BY DEF CertPairsMatch
  <2>1. CASE certSave.cert # c \/ CertAt("backupCrt")
    <3>1. CertKept(c) = certFiles[c]
      BY <1>0, <2>1 DEF CertKept, CertPair, CertAt
    <3> QED BY <1>0, <3>1 DEF CertKeptInv, CertAllowed
  <2>2. CASE certSave.cert = c /\ ~CertAt("backupCrt")
    BY <1>0, <2>2, CertConstants DEF CertSaveInv, CertAt, CertNoSave, CertSteps
  <2> QED BY <2>1, <2>2
<1>2. CertIndexIsFresh
  <2>1. CertAt("free") => \A c \in CertIds : CertKept(c) = certFiles[c]
    BY <1>0, CertConstants DEF CertSaveInv, CertKept, CertNoSave
  <2>2. certListed \subseteq CertIds
    BY <1>0 DEF CertTypeOK
  <2> QED BY <1>0, <2>1, <2>2 DEF CertIndexIsFresh, CertFreshInv, CertMatched, CertCurrent
<1>3. CertByMerit(certIndex) /\ CertByMerit(certSwap.staging)
  BY <1>0 DEF CertIndexInv, CertGoodIndex
<1> QED BY <1>1, <1>2, <1>3 DEF CertStoreConsistent

-----------------------------------------------------------------------------
(* Issuances. *)

IssKinds == {"idle", "pending", "read", "account", "order", "challenge",
             "verify", "validate", "failed", "success"}

\* A job that works holds its certificate, alone; a record is published while
\* its validation runs; a module that closed in time is quiet.
IssJobsInv ==
    /\ \A j \in IssJobs : ~IssAt(j, "idle") => issJob[j].cert \in issuing
    /\ \A c \in issuing : \E j \in IssJobs : IssWorksOn(j, c)
    /\ \A i, j \in IssJobs :
          ~IssAt(i, "idle") /\ ~IssAt(j, "idle") /\ issJob[i].cert = issJob[j].cert => i = j
    /\ \A j \in issTxt : issJob[j].pc \in {"challenge", "verify"}
    /\ issClosing = "closed" => issuing = {}

\* A status in progress that nobody works on is about to be marked.
IssStatusInv ==
    \A c \in IssCerts :
        /\ issConf[c].present /\ issStatus[c] \in {"pending", "running"}
        /\ \A j \in IssJobs : ~IssWorksOn(j, c)
        => issRecover.on /\ c \notin issRecover.busy

IssEditsInv ==
    /\ issTroubles \in 0..IssMaxTroubles
    /\ \A c \in IssCerts : issConf[c].gen <= issTroubles + 1

IssInv == IssTypeOK /\ IssEditsInv /\ IssJobsInv /\ IssStatusInv

IssJobType == [pc : IssKinds, cert : IssCerts, gen : 0..IssMaxTroubles + 1,
               key : IssJobs \union {IssNoKey}]

LEMMA IssConstants ==
    /\ IssMaxTroubles \in Nat /\ IssNoKey \notin IssJobs
    /\ IssIdle \in IssJobType /\ IssIdle.pc = "idle" /\ IssIdle.cert \in IssCerts
<1>1. IssIdle.cert \in IssCerts
  BY IssCertsAssumption DEF IssIdle
<1> QED BY <1>1, IssBoundAssumption, IssKeyAssumption DEF IssIdle, IssJobType, IssKinds

LEMMA IssInitInv == IssInit => IssInv
<1> SUFFICES ASSUME IssInit PROVE IssInv
  OBVIOUS
<1>1. IssTypeOK
  BY IssConstants DEF IssInit, IssTypeOK, IssJobType, IssKinds
<1>2. IssEditsInv
  BY IssConstants DEF IssInit, IssEditsInv
<1>3. IssJobsInv
  BY IssConstants DEF IssInit, IssJobsInv, IssAt, IssWorksOn
<1>4. IssStatusInv
  BY DEF IssInit, IssStatusInv
<1> QED BY <1>1, <1>2, <1>3, <1>4 DEF IssInv

\* A job goes on with its certificate, or is through with it.
IssGoesOn(j) ==
    /\ ~IssAt(j, "idle")
    /\ issJob' \in [IssJobs -> IssJobType]
    /\ \A i \in IssJobs \ {j} : issJob'[i] = issJob[i]
    /\ issJob'[j].pc # "idle" /\ issJob'[j].cert = issJob[j].cert
    /\ issuing' = issuing
    /\ issTxt' \subseteq IssJobs
    /\ \A i \in issTxt' : i = j \/ i \in issTxt
    /\ j \in issTxt' => issJob'[j].pc \in {"challenge", "verify"}
    /\ \/ issStatus' = issStatus
       \/ IssReport(issJob[j].cert, "pending") \/ IssReport(issJob[j].cert, "running")

IssLeaves(j) ==
    /\ ~IssAt(j, "idle") /\ IssEnd(j)
    /\ issTxt' = issTxt /\ j \notin issTxt
    /\ IssReport(issJob[j].cert, "failed") \/ IssReport(issJob[j].cert, "success")

LEMMA IssJobSteps ==
    ASSUME IssInv, NEW j \in IssJobs, IssJobStep(j)
    PROVE  /\ UNCHANGED <<issConf, issRest>>
           /\ issAccount' \in IssJobs \union {IssNoKey}
           /\ IssGoesOn(j) \/ IssLeaves(j)
<1> DEFINE job == issJob[j]
<1>1. /\ issJob \in [IssJobs -> IssJobType] /\ issAccount \in IssJobs \union {IssNoKey}
      /\ issTxt \subseteq IssJobs
      /\ \A c \in IssCerts : issConf[c].gen \in 0..IssMaxTroubles + 1
      /\ \A i \in issTxt : issJob[i].pc \in {"challenge", "verify"}
      /\ job.cert \in IssCerts
  BY IssConstants DEF IssInv, IssTypeOK, IssJobType, IssKinds, IssJobsInv
<1>2. CASE IssPending(j)
  BY <1>1, <1>2 DEF IssPending, IssGoesOn, IssAt, IssGoto, IssJobType, IssKinds, issRest
<1>3. CASE IssRead(j)
  <2>1. CASE IssEnd(j) /\ IssReport(job.cert, "failed")
    BY <1>1, <1>3, <2>1 DEF IssRead, IssLeaves, IssAt, issRest
  <2>2. CASE ~(IssEnd(j) /\ IssReport(job.cert, "failed"))
    BY <1>1, <1>3, <2>2 DEF IssRead, IssGoesOn, IssAt, issRest, IssJobType, IssKinds
  <2> QED BY <2>1, <2>2
<1>4. CASE IssAccountKey(j)
  BY <1>1, <1>4 DEF IssAccountKey, IssGoesOn, IssAt, IssGoto, IssJobType, IssKinds, issRest
<1>5. CASE IssChallenge(j)
  BY <1>1, <1>5 DEF IssChallenge, IssGoesOn, IssAt, IssGoto, IssJobType, IssKinds, issRest
<1>6. CASE IssProgress(j)
  BY <1>1, <1>6 DEF IssProgress, IssGoesOn, IssAt, IssGoto, IssJobType, IssKinds, issRest
<1>7. CASE IssOrderEnds(j)
  BY <1>1, <1>7 DEF IssOrderEnds, IssGoesOn, IssAt, IssGoto, IssJobType, IssKinds, issRest
<1>8. CASE IssSave(j)
  BY <1>1, <1>8 DEF IssSave, IssGoesOn, IssAt, IssGoto, IssJobType, IssKinds, issRest
<1>9. CASE IssFinish(j)
  BY <1>1, <1>9 DEF IssFinish, IssLeaves, IssAt, issRest
<1> QED BY <1>2, <1>3, <1>4, <1>5, <1>6, <1>7, <1>8, <1>9 DEF IssJobStep

LEMMA IssReportTyped ==
    ASSUME IssTypeOK, NEW c \in IssCerts,
           NEW state \in {"pending", "running", "failed", "success"}, IssReport(c, state)
    PROVE  /\ issStatus' \in [IssCerts -> {"none", "pending", "running", "failed", "success"}]
           /\ issConf[c].present => issStatus'[c] = state
           /\ \A d \in IssCerts \ {c} : issStatus'[d] = issStatus[d]
BY DEF IssTypeOK, IssReport

LEMMA IssGoesOnInv ==
    ASSUME IssInv, NEW j \in IssJobs, IssGoesOn(j),
           UNCHANGED <<issConf, issRest>>, issAccount' \in IssJobs \union {IssNoKey}
    PROVE  IssInv'
<1> DEFINE cert == issJob[j].cert
<1>0. cert \in IssCerts /\ issJob \in [IssJobs -> IssJobType]
  BY DEF IssInv, IssTypeOK, IssJobType, IssKinds
<1>1. /\ issStatus' \in [IssCerts -> {"none", "pending", "running", "failed", "success"}]
      /\ \A d \in IssCerts \ {cert} : issStatus'[d] = issStatus[d]
  BY <1>0, IssReportTyped DEF IssInv, IssGoesOn, IssTypeOK
<1>2. IssTypeOK'
  BY <1>1 DEF IssInv, IssTypeOK, IssGoesOn, IssJobType, IssKinds, issRest
<1>3. IssEditsInv'
  BY DEF IssInv, IssEditsInv, issRest
<1>4. \A i \in IssJobs : /\ issJob'[i].pc = "idle" <=> issJob[i].pc = "idle"
                         /\ issJob'[i].cert = issJob[i].cert
  BY <1>0 DEF IssGoesOn, IssAt
<1>5. IssJobsInv'
  BY <1>0, <1>4 DEF IssInv, IssJobsInv, IssGoesOn, IssAt, IssWorksOn, issRest, IssTypeOK
<1>6. IssStatusInv'
  BY <1>0, <1>1, <1>4 DEF IssInv, IssStatusInv, IssGoesOn, IssAt, IssWorksOn, issRest
<1> QED BY <1>2, <1>3, <1>5, <1>6 DEF IssInv

LEMMA IssLeavesInv ==
    ASSUME IssInv, NEW j \in IssJobs, IssLeaves(j),
           UNCHANGED <<issConf, issRest>>, issAccount' \in IssJobs \union {IssNoKey}
    PROVE  IssInv'
<1> DEFINE cert == issJob[j].cert
<1>0. cert \in IssCerts /\ issJob \in [IssJobs -> IssJobType]
  BY DEF IssInv, IssTypeOK, IssJobType, IssKinds
<1>1. /\ issStatus' \in [IssCerts -> {"none", "pending", "running", "failed", "success"}]
      /\ \A d \in IssCerts \ {cert} : issStatus'[d] = issStatus[d]
      /\ issConf[cert].present => issStatus'[cert] \in {"failed", "success"}
  BY <1>0, IssReportTyped DEF IssInv, IssLeaves, IssTypeOK
<1>2. /\ issJob' \in [IssJobs -> IssJobType]
      /\ \A i \in IssJobs \ {j} : issJob'[i] = issJob[i]
      /\ issJob'[j].pc = "idle"
  BY <1>0, IssConstants DEF IssLeaves, IssEnd
<1>3. issuing' = issuing \ {cert}
  BY DEF IssLeaves, IssEnd
<1>4. IssTypeOK'
  BY <1>1, <1>2, <1>3 DEF IssInv, IssTypeOK, IssLeaves, IssJobType, IssKinds, issRest
<1>5. IssEditsInv'
  BY DEF IssInv, IssEditsInv, issRest
<1>6. IssJobsInv'
  <2>0. IssJobsInv /\ issTxt \subseteq IssJobs /\ issTxt' = issTxt /\ j \notin issTxt
        /\ ~IssAt(j, "idle") /\ issClosing' = issClosing
    BY DEF IssInv, IssLeaves, IssTypeOK, issRest
  <2>1. \A i \in IssJobs : issJob'[i].pc # "idle" =>
            /\ i # j /\ issJob'[i] = issJob[i] /\ issJob[i].cert \in issuing
            /\ issJob[i].cert # cert
    BY <1>2, <2>0 DEF IssJobsInv, IssAt
  <2>2. \A c \in issuing' : \E i \in IssJobs : issJob'[i].pc # "idle" /\ issJob'[i].cert = c
    BY <1>2, <1>3, <2>0 DEF IssJobsInv, IssWorksOn
  <2>3. \A i \in issTxt' : issJob'[i].pc \in {"challenge", "verify"}
    BY <1>2, <2>0 DEF IssJobsInv
  <2>4. \A i \in IssJobs : issJob'[i].pc # "idle" => issJob'[i].cert \in issuing'
    BY <1>3, <2>1
  <2>5. \A i, k \in IssJobs : issJob'[i].pc # "idle" /\ issJob'[k].pc # "idle"
            /\ issJob'[i].cert = issJob'[k].cert => i = k
    BY <2>0, <2>1 DEF IssJobsInv, IssAt
  <2>6. issClosing' = "closed" => issuing' = {}
    BY <1>3, <2>0 DEF IssJobsInv
  <2> QED BY <2>2, <2>3, <2>4, <2>5, <2>6 DEF IssJobsInv, IssAt, IssWorksOn
<1>7. IssStatusInv'
  BY <1>0, <1>1, <1>2 DEF IssInv, IssStatusInv, IssAt, IssWorksOn, issRest
<1> QED BY <1>4, <1>5, <1>6, <1>7 DEF IssInv

LEMMA IssStartInv ==
    ASSUME IssInv, NEW j \in IssJobs, NEW c \in IssCerts, NEW how \in {"pending", "read"},
           IssStart(j, c, how)
    PROVE  IssInv'
<1>0. issJob \in [IssJobs -> IssJobType]
  BY DEF IssInv, IssTypeOK, IssJobType, IssKinds
<1>1. /\ issJob' \in [IssJobs -> IssJobType]
      /\ \A i \in IssJobs \ {j} : issJob'[i] = issJob[i]
      /\ issJob[j].pc = "idle" /\ issJob'[j].pc # "idle" /\ issJob'[j].cert = c
  BY <1>0, IssConstants DEF IssStart, IssAt, IssJobType, IssKinds
<1>2. /\ issuing' = issuing \union {c} /\ c \notin issuing /\ issClosing = "open"
      /\ UNCHANGED <<issConf, issAccount, issStatus, issRecover, issClosing, issTxt,
                     issTroubles>>
  BY DEF IssStart, IssBegin
<1>3. IssTypeOK'
  BY <1>1, <1>2 DEF IssInv, IssTypeOK, IssJobType, IssKinds
<1>4. IssEditsInv'
  BY <1>2 DEF IssInv, IssEditsInv
<1>5. IssJobsInv'
  <2>0. IssJobsInv /\ issTxt \subseteq IssJobs
    BY DEF IssInv, IssTypeOK
  <2>1. \A i \in IssJobs : i # j /\ issJob'[i].pc # "idle" =>
            /\ issJob'[i] = issJob[i] /\ issJob[i].cert \in issuing
            /\ issJob[i].cert # c
    BY <1>1, <1>2, <2>0 DEF IssJobsInv, IssAt
  <2>2. \A d \in issuing' : \E i \in IssJobs : issJob'[i].pc # "idle" /\ issJob'[i].cert = d
    <3>1. ASSUME NEW d \in issuing
          PROVE  \E i \in IssJobs : issJob'[i].pc # "idle" /\ issJob'[i].cert = d
      <4>1. PICK i \in IssJobs : issJob[i].pc # "idle" /\ issJob[i].cert = d
        BY <2>0 DEF IssJobsInv, IssWorksOn
      <4> QED BY <1>1, <4>1
    <3> QED BY <1>1, <1>2, <3>1
  <2>3. \A i \in issTxt' : issJob'[i].pc \in {"challenge", "verify"}
    BY <1>1, <1>2, <2>0 DEF IssJobsInv
  <2>4. \A i \in IssJobs : issJob'[i].pc # "idle" => issJob'[i].cert \in issuing'
    BY <1>1, <1>2, <2>1
  <2>5. \A i, k \in IssJobs : issJob'[i].pc # "idle" /\ issJob'[k].pc # "idle"
            /\ issJob'[i].cert = issJob'[k].cert => i = k
    BY <1>1, <2>0, <2>1 DEF IssJobsInv, IssAt
  <2> QED BY <1>2, <2>2, <2>3, <2>4, <2>5 DEF IssJobsInv, IssAt, IssWorksOn
<1>6. IssStatusInv'
  BY <1>0, <1>1, <1>2 DEF IssInv, IssStatusInv, IssAt, IssWorksOn
<1> QED BY <1>3, <1>4, <1>5, <1>6 DEF IssInv

\* Recovery, edits, Close and the end of the process.
LEMMA IssAroundInv ==
    ASSUME IssInv,
           \/ IssRecoverCopy \/ IssRecover \/ IssClose \/ IssCloseReturns \/ IssCrash
           \/ \E c \in IssCerts, keep \in BOOLEAN : IssEdit(c, keep)
    PROVE  IssInv'
<1>1. CASE IssRecoverCopy
  <2>1. \A c \in IssCerts : c \in issuing => \E j \in IssJobs : IssWorksOn(j, c)
    BY DEF IssInv, IssJobsInv
  <2>2. IssTypeOK' /\ IssEditsInv' /\ IssJobsInv'
    BY <1>1 DEF IssInv, IssTypeOK, IssEditsInv, IssJobsInv, IssRecoverCopy, IssAt, IssWorksOn
  <2>3. IssStatusInv'
    BY <1>1, <2>1 DEF IssInv, IssStatusInv, IssRecoverCopy, IssWorksOn
  <2> QED BY <2>2, <2>3 DEF IssInv
<1>2. CASE IssRecover
  <2>1. IssTypeOK' /\ IssEditsInv' /\ IssJobsInv'
    BY <1>2 DEF IssInv, IssTypeOK, IssEditsInv, IssJobsInv, IssRecover, IssAt, IssWorksOn
  <2>2. IssStatusInv'
    BY <1>2 DEF IssInv, IssTypeOK, IssStatusInv, IssRecover, IssWorksOn
  <2> QED BY <2>1, <2>2 DEF IssInv
<1>3. CASE IssClose \/ IssCloseReturns
  BY <1>3 DEF IssInv, IssTypeOK, IssEditsInv, IssJobsInv, IssStatusInv, IssClose,
              IssCloseReturns, IssAt, IssWorksOn
<1>4. CASE IssCrash
  <2>1. \A j \in IssJobs : issJob'[j] = IssIdle
    BY <1>4 DEF IssCrash
  <2>2. IssTypeOK'
    BY <1>4, IssConstants DEF IssInv, IssTypeOK, IssCrash, IssJobType, IssKinds
  <2>3. IssEditsInv'
    BY <1>4, IssConstants DEF IssInv, IssEditsInv, IssTypeOK, IssCrash, IssTrouble
  <2>4. IssJobsInv' /\ IssStatusInv'
    BY <1>4, <2>1, IssConstants DEF IssJobsInv, IssStatusInv, IssCrash, IssAt, IssWorksOn
  <2> QED BY <2>2, <2>3, <2>4 DEF IssInv
<1>5. ASSUME NEW c \in IssCerts, NEW keep \in BOOLEAN, IssEdit(c, keep)
      PROVE  IssInv'
  <2>1. /\ issTroubles' = issTroubles + 1 /\ issTroubles < IssMaxTroubles
        /\ issConf[c].present
        /\ \A d \in IssCerts \ {c} : issConf'[d] = issConf[d]
        /\ issConf'[c] = [present |-> keep, gen |-> issConf[c].gen + 1]
    BY <1>5 DEF IssEdit, IssTrouble, IssInv, IssTypeOK
  <2>2. \A d \in IssCerts : /\ issConf'[d].gen \in 1..issTroubles' + 1
                            /\ issConf'[d].present \in BOOLEAN
                            /\ issConf'[d].present => issConf[d].present
    BY <2>1, IssConstants DEF IssInv, IssTypeOK, IssEditsInv
  <2>3. issConf' \in [IssCerts -> [present : BOOLEAN, gen : 1..IssMaxTroubles + 1]]
    <3> DEFINE T == [present : BOOLEAN, gen : 1..IssMaxTroubles + 1]
    <3>1. issConf[c].gen + 1 \in 1..IssMaxTroubles + 1
      BY <2>1, IssConstants DEF IssInv, IssTypeOK, IssEditsInv
    <3>2. [present |-> keep, gen |-> issConf[c].gen + 1] \in T
      BY <3>1
    <3>3. issConf \in [IssCerts -> T]
      BY DEF IssInv, IssTypeOK
    <3> QED BY <1>5, <3>2, <3>3 DEF IssEdit
  <2>4. IssTypeOK'
    BY <1>5, <2>3 DEF IssInv, IssTypeOK, IssEdit
  <2>5. IssEditsInv'
    BY <2>1, <2>2, IssConstants DEF IssInv, IssEditsInv
  <2>6. IssJobsInv'
    BY <1>5 DEF IssInv, IssJobsInv, IssEdit, IssAt, IssWorksOn
  <2>7. IssStatusInv'
    BY <1>5, <2>2 DEF IssInv, IssStatusInv, IssEdit, IssWorksOn
  <2> QED BY <2>4, <2>5, <2>6, <2>7 DEF IssInv
<1> QED BY <1>1, <1>2, <1>3, <1>4, <1>5

LEMMA IssStepInv ==
    ASSUME IssInv, [IssNext]_issVars
    PROVE  IssInv'
<1>1. ASSUME NEW j \in IssJobs, IssJobStep(j) PROVE IssInv'
  <2>1. /\ UNCHANGED <<issConf, issRest>>
        /\ issAccount' \in IssJobs \union {IssNoKey}
        /\ IssGoesOn(j) \/ IssLeaves(j)
    BY <1>1, IssJobSteps
  <2> QED BY <2>1, IssGoesOnInv, IssLeavesInv
<1>2. CASE UNCHANGED issVars
  BY <1>2 DEF issVars, IssInv, IssTypeOK, IssEditsInv, IssJobsInv, IssStatusInv, IssAt,
              IssWorksOn
<1> QED BY <1>1, <1>2, IssStartInv, IssAroundInv DEF IssNext

LEMMA IssShows == IssInv => IssTypeOK /\ IssOperationsEnd
<1> SUFFICES ASSUME IssInv PROVE IssOperationsEnd
  BY DEF IssInv
<1>1. ASSUME NEW c \in IssCerts, NEW i \in IssJobs, NEW j \in IssJobs,
             IssWorksOn(i, c), IssWorksOn(j, c)
      PROVE  i = j
  BY <1>1 DEF IssInv, IssJobsInv, IssWorksOn, IssAt
<1>2. ASSUME NEW c \in IssCerts, issConf[c].present, ~issRecover.on,
             \A j \in IssJobs : ~IssWorksOn(j, c)
      PROVE  issStatus[c] \notin {"pending", "running"} /\ c \notin issuing
  BY <1>2 DEF IssInv, IssJobsInv, IssStatusInv
<1>3. ASSUME issClosing = "closed"
      PROVE  issTxt = {} /\ \A j \in IssJobs : IssAt(j, "idle")
  BY <1>3 DEF IssInv, IssJobsInv, IssTypeOK, IssAt
<1> QED BY <1>1, <1>2, <1>3 DEF IssOperationsEnd

-----------------------------------------------------------------------------
(* Renewals. *)

\* Nothing is handled, ordered or marked before noon.
RenMarksInv ==
    /\ \A c \in RenCerts : renChecked[c] <= RenToday
    /\ ~RenNoon => /\ renDue = {} /\ renTried = <<>>
                   /\ \A c \in RenCerts : renChecked[c] < RenToday
    /\ \A c \in renDue : renChecked[c] = RenToday
    /\ \A i \in DOMAIN renTried :
          renChecked[renTried[i]] = RenToday /\ renTried[i] \notin renDue
    /\ \A i, j \in DOMAIN renTried : renTried[i] = renTried[j] => i = j

\* The run of this noon is through with c, and so is the user.
RenHandled(c) == renChecked[c] = RenToday /\ c \notin renDue /\ c \notin renManual

\* At midnight a certificate has its days left, but for one per trouble; half a
\* day less when noon has come, until it is handled.
RenMargin(c) == IF ~RenNoon THEN 1 ELSE IF RenHandled(c) THEN 2 ELSE 0
RenMarginInv ==
    \A c \in RenCerts :
        renNotAfter[c] + 2 * renTroubles + 1 >= renNow + 2 * RenBefore + RenMargin(c)

RenInv == RenTypeOK /\ RenMarksInv /\ RenMarginInv

LEMMA RenConstants ==
    /\ RenCount \in Nat /\ RenBefore \in Nat /\ RenBefore >= 1 /\ RenHorizon \in Nat
    /\ RenLife \in Nat /\ RenLife >= 2 * RenBefore + 1 /\ RenMaxTroubles \in Nat
    /\ RenCerts \subseteq Nat
<1>1. RenCerts \subseteq Nat
  BY RenAssumption DEF RenCerts
<1> QED BY <1>1, RenAssumption

\* The two halves of a day.
LEMMA RenClock ==
    ASSUME NEW n \in Nat
    PROVE  /\ n \div 2 \in Nat /\ n % 2 \in {0, 1} /\ n = 2 * (n \div 2) + (n % 2)
           /\ (n + 1) % 2 = 1 - (n % 2)
           /\ (n + 1) \div 2 = n \div 2 + (n % 2)
           /\ (n + 2 - (n % 2)) % 2 # 1
           /\ n + 2 - (n % 2) \in Nat
           /\ n + 2 - (n % 2) <= n + 2
           /\ (n + 2 - (n % 2)) \div 2 + 1 \in Nat \ {0}
OBVIOUS

\* What is not due has more than its days left.
LEMMA RenNotDue ==
    ASSUME NEW now \in Nat, NEW notAfter \in Nat, NEW before \in Nat,
           ~((IF notAfter <= now THEN 0 ELSE (notAfter - now + 1) \div 2) <= before)
    PROVE  notAfter >= now + 2 * before + 1
<1>1. notAfter > now
  OBVIOUS
<1>2. (notAfter - now + 1) \div 2 >= before + 1
  BY <1>1
<1>3. notAfter - now + 1 >= 2 * ((notAfter - now + 1) \div 2)
  BY <1>1
<1> QED BY <1>1, <1>2, <1>3

LEMMA RenInitInv == RenInit => RenInv
<1> SUFFICES ASSUME RenInit PROVE RenInv
  OBVIOUS
<1>1. RenTypeOK
  BY RenConstants DEF RenInit, RenTypeOK
<1>2. RenMarksInv
  BY RenConstants DEF RenInit, RenMarksInv, RenToday, RenNoon
<1>3. RenMarginInv
  BY RenConstants DEF RenInit, RenMarginInv, RenMargin, RenNoon
<1> QED BY <1>1, <1>2, <1>3 DEF RenInv

LEMMA RenTypes ==
    ASSUME RenTypeOK
    PROVE  /\ renNow \in Nat /\ renTroubles \in Nat
           /\ \A c \in RenCerts : renNotAfter[c] \in Nat /\ renChecked[c] \in Nat
           /\ renNotAfter \in [RenCerts -> Nat] /\ renChecked \in [RenCerts -> Nat]
           /\ renDue \subseteq RenCerts /\ renTried \in Seq(RenCerts)
           /\ RenToday \in Nat /\ renNow % 2 \in {0, 1}
BY RenConstants, RenClock DEF RenTypeOK, RenToday

\* What is known of one certificate, and the types it takes to reckon with it.
LEMMA RenMarginOf ==
    ASSUME RenInv, NEW c \in RenCerts
    PROVE  /\ renNotAfter[c] + 2 * renTroubles + 1 >= renNow + 2 * RenBefore + RenMargin(c)
           /\ renNotAfter[c] \in Nat /\ renNow \in Nat /\ renTroubles \in Nat
           /\ RenBefore \in Nat /\ RenMargin(c) \in {0, 1, 2}
           /\ ~RenNoon => RenMargin(c) = 1
           /\ RenNoon => RenMargin(c) \in {0, 2}
<1>1. /\ RenMargin(c) \in {0, 1, 2}
      /\ ~RenNoon => RenMargin(c) = 1
      /\ RenNoon => RenMargin(c) \in {0, 2}
  BY DEF RenMargin
<1> QED BY <1>1, RenTypes, RenConstants DEF RenInv, RenMarginInv

LEMMA RenRenewedMargin ==
    ASSUME RenInv, NEW c \in RenCerts, RenRenewed(c)
    PROVE  /\ renNotAfter' \in [RenCerts -> Nat]
           /\ renNotAfter'[c] >= renNow + 2 * RenBefore + 1
           /\ \A d \in RenCerts \ {c} : renNotAfter'[d] = renNotAfter[d]
<1>1. renNow + RenLife \in Nat
  BY RenConstants, RenTypes DEF RenInv
<1> QED BY <1>1, RenConstants, RenTypes DEF RenInv, RenRenewed

\* A run begins: it marks what it is going to handle.
LEMMA RenRunBeginsInv == ASSUME RenInv, RenRunBegins PROVE RenInv'
<1> USE DEF RenInv
<1>1. /\ renDue' \subseteq RenCerts /\ renDue = {} /\ RenNoon
      /\ \A c \in RenCerts : IF c \in renDue' THEN renChecked[c] # RenToday
                                                   /\ renChecked'[c] = RenToday
                             ELSE renChecked'[c] = renChecked[c] 
      /\ renChecked' \in [RenCerts -> Nat]
      /\ UNCHANGED <<renNow, renNotAfter, renManual, renTried, renTroubles>>
  BY RenTypes DEF RenRunBegins, RenCheckDue
<1>2. RenTypeOK'
  BY <1>1 DEF RenTypeOK
<1>3. RenMarksInv'
  <2>1. \A i \in DOMAIN renTried : renTried[i] \in RenCerts
    BY RenTypes
  <2>2. RenToday' = RenToday /\ RenNoon'
    BY <1>1 DEF RenToday, RenNoon
  <2>3. RenToday \in Nat
    BY RenTypes
  <2>4. \A c \in RenCerts : renChecked'[c] <= RenToday
    BY <1>1, <2>3 DEF RenMarksInv
  <2>5. \A i \in DOMAIN renTried : renTried[i] \notin renDue' /\ renChecked'[renTried[i]] = RenToday
    BY <1>1, <2>1 DEF RenMarksInv
  <2> QED BY <1>1, <2>2, <2>4, <2>5 DEF RenMarksInv
<1>4. RenMarginInv'
  BY <1>1, RenTypes, RenConstants DEF RenMarginInv, RenMargin, RenHandled, RenNoon, RenToday
<1> QED BY <1>2, <1>3, <1>4

LEMMA RenRunNextInv == ASSUME RenInv, NEW c \in RenCerts, RenRunNext(c) PROVE RenInv'
<1> USE DEF RenInv
<1>1. /\ renDue' = renDue \ {c} /\ c \in renDue
      /\ UNCHANGED <<renNow, renChecked, renManual>>
      /\ renTried' = renTried \/ renTried' = Append(renTried, c)
  BY DEF RenRunNext
<1>2. /\ renNotAfter' \in [RenCerts -> Nat]
      /\ renTroubles' \in 0..RenMaxTroubles
      /\ \A d \in RenCerts \ {c} : renNotAfter'[d] = renNotAfter[d]
      /\ renTroubles' >= renTroubles
      /\ \/ c \in renManual /\ UNCHANGED <<renNotAfter, renTroubles>>
         \/ /\ renNotAfter'[c] >= renNow + 2 * RenBefore + 1
            /\ UNCHANGED renTroubles
         \/ renNotAfter'[c] = renNotAfter[c] /\ renTroubles' = renTroubles + 1
  <2>1. CASE UNCHANGED <<renNotAfter, renTroubles>> /\ c \in renManual
    BY <2>1, RenTypes DEF RenTypeOK
  <2>2. CASE UNCHANGED <<renNotAfter, renTroubles>> /\ ~RenewalDueAt(c)
    BY <2>2, RenTypes, RenConstants, RenNotDue DEF RenTypeOK, RenewalDueAt, RenRemaining
  <2>3. CASE RenRenewed(c) /\ UNCHANGED renTroubles
    BY <2>3, RenTypes, RenConstants, RenRenewedMargin DEF RenTypeOK
  <2>4. CASE RenTrouble /\ UNCHANGED renNotAfter
    BY <2>4, RenTypes, RenConstants DEF RenTypeOK, RenTrouble
  <2> QED BY <2>1, <2>2, <2>3, <2>4 DEF RenRunNext
<1>3. RenTypeOK'
  <2>1. renTried' \in Seq(RenCerts)
    <3>1. renTried \in Seq(RenCerts) /\ Append(renTried, c) \in Seq(RenCerts)
      BY DEF RenTypeOK
    <3> QED BY <1>1, <3>1
  <2> QED BY <1>1, <1>2, <2>1 DEF RenTypeOK
<1>4. RenNoon /\ renChecked[c] = RenToday
  BY <1>1 DEF RenMarksInv
<1>5. RenMarksInv'
  <2>1. CASE renTried' = renTried
    BY <1>1, <2>1, <1>4, RenTypes DEF RenMarksInv, RenToday, RenNoon
  <2>2. CASE renTried' = Append(renTried, c)
    <3>1. /\ DOMAIN renTried' = 1..Len(renTried) + 1 /\ DOMAIN renTried = 1..Len(renTried)
          /\ Len(renTried) \in Nat /\ renTried'[Len(renTried) + 1] = c
          /\ \A i \in DOMAIN renTried : renTried'[i] = renTried[i]
      BY <2>2, RenTypes
    <3>2. \A i \in DOMAIN renTried' : i = Len(renTried) + 1 \/ i \in DOMAIN renTried
      BY <3>1
    <3>3. \A i \in DOMAIN renTried : renTried[i] # c
      BY <1>1 DEF RenMarksInv
    <3>4. \A i \in DOMAIN renTried' : renChecked[renTried'[i]] = RenToday
                                      /\ renTried'[i] \notin renDue'
      BY <1>1, <1>4, <3>1, <3>2 DEF RenMarksInv
    <3>5. \A i, j \in DOMAIN renTried' : renTried'[i] = renTried'[j] => i = j
      BY <3>1, <3>2, <3>3 DEF RenMarksInv
    <3> HIDE DEF RenNoon
    <3> QED BY <1>1, <1>4, <3>4, <3>5 DEF RenMarksInv, RenToday, RenNoon
  <2> QED BY <1>1, <2>1, <2>2
<1>6. RenMarginInv'
  <2>1. RenToday' = RenToday /\ (RenNoon' <=> RenNoon)
    BY <1>1 DEF RenToday, RenNoon
  <2>2. \A d \in RenCerts : RenMargin(d) \in {0, 2} /\ RenMargin(d)' \in {0, 2}
    BY <1>4, <2>1 DEF RenMargin
  <2>3. RenMargin(c) = 0 /\ (c \in renManual => RenMargin(c)' = 0)
    BY <1>1, <1>4, <2>1 DEF RenMargin, RenHandled
  <2>4. \A d \in RenCerts \ {c} : RenMargin(d)' = RenMargin(d)
    BY <1>1, <2>1 DEF RenMargin, RenHandled
  <2>5. \A d \in RenCerts : renNotAfter[d] \in Nat /\ renNotAfter'[d] \in Nat
    BY <1>2, RenTypes
  <2>6. /\ renNow \in Nat /\ renTroubles \in Nat /\ renTroubles' \in Nat /\ RenBefore \in Nat
        /\ renNow' = renNow
    BY <1>1, <1>2, RenTypes, RenConstants
  <2>7. \A d \in RenCerts :
            renNotAfter[d] + 2 * renTroubles + 1 >= renNow + 2 * RenBefore + RenMargin(d)
    BY DEF RenMarginInv
  <2>8. \A d \in RenCerts \ {c} :
            renNotAfter'[d] + 2 * renTroubles' + 1 >= renNow + 2 * RenBefore + RenMargin(d)'
    BY <1>2, <2>2, <2>4, <2>5, <2>6, <2>7
  <2>9. renNotAfter'[c] + 2 * renTroubles' + 1 >= renNow + 2 * RenBefore + RenMargin(c)'
    BY <1>2, <2>2, <2>3, <2>5, <2>6, <2>7
  <2> QED BY <2>6, <2>8, <2>9 DEF RenMarginInv
<1> QED BY <1>3, <1>5, <1>6

LEMMA RenRunCutInv == ASSUME RenInv, RenRunCut PROVE RenInv'
<1> USE DEF RenInv
<1>1. /\ renDue' = {} /\ renTroubles' = renTroubles + 1 /\ renTroubles' \in 0..RenMaxTroubles
      /\ UNCHANGED <<renNow, renNotAfter, renChecked, renManual, renTried>>
  BY RenTypes, RenConstants DEF RenRunCut, RenTrouble
<1>2. RenTypeOK'
  BY <1>1 DEF RenTypeOK
<1>3. RenMarksInv'
  BY <1>1 DEF RenMarksInv, RenToday, RenNoon
<1>4. RenMarginInv'
  <2>1. ASSUME NEW d \in RenCerts
        PROVE  renNotAfter'[d] + 2 * renTroubles' + 1
                   >= renNow' + 2 * RenBefore + RenMargin(d)'
    <3>1. IF RenNoon THEN RenMargin(d)' \in {0, 2} ELSE RenMargin(d)' = 1
      BY <1>1 DEF RenMargin, RenNoon
    <3> QED BY <1>1, <3>1, RenMarginOf
  <2> QED BY <2>1 DEF RenMarginInv
<1> QED BY <1>2, <1>3, <1>4

LEMMA RenManualInv ==
    ASSUME RenInv, NEW c \in RenCerts, RenManualBegins(c) \/ RenManualEnds(c)
    PROVE  RenInv'
<1> USE DEF RenInv
<1>1. CASE RenManualBegins(c)
  <2>1. /\ renManual' = renManual \union {c}
        /\ UNCHANGED <<renNow, renNotAfter, renChecked, renDue, renTried, renTroubles>>
    BY <1>1 DEF RenManualBegins
  <2>2. RenTypeOK' /\ RenMarksInv'
    BY <2>1 DEF RenTypeOK, RenMarksInv, RenToday, RenNoon
  <2>3. ASSUME NEW d \in RenCerts
        PROVE  renNotAfter'[d] + 2 * renTroubles' + 1
                   >= renNow' + 2 * RenBefore + RenMargin(d)'
    <3>1. RenHandled(d)' => RenHandled(d)
      BY <2>1 DEF RenHandled, RenToday
    <3>2. \/ RenMargin(d)' = RenMargin(d)
          \/ RenMargin(d)' = 0 /\ RenMargin(d) = 2
      BY <2>1, <3>1 DEF RenMargin, RenNoon
    <3> QED BY <2>1, <3>2, RenMarginOf
  <2>4. RenMarginInv'
    BY <2>3 DEF RenMarginInv
  <2> QED BY <2>2, <2>4
<1>2. CASE RenManualEnds(c)
  <2>1. /\ renManual' = renManual \ {c} /\ c \in renManual
        /\ UNCHANGED <<renNow, renChecked, renDue, renTried>>
    BY <1>2 DEF RenManualEnds
  <2>2. /\ renNotAfter' \in [RenCerts -> Nat]
        /\ renTroubles' \in 0..RenMaxTroubles
        /\ \A d \in RenCerts \ {c} : renNotAfter'[d] = renNotAfter[d]
        /\ \/ /\ renNotAfter'[c] >= renNow + 2 * RenBefore + 1
              /\ UNCHANGED renTroubles
           \/ renNotAfter'[c] = renNotAfter[c] /\ renTroubles' = renTroubles + 1
    <3>1. CASE RenRenewed(c) /\ UNCHANGED renTroubles
      BY <3>1, RenRenewedMargin DEF RenTypeOK
    <3>2. CASE RenTrouble /\ UNCHANGED renNotAfter
      BY <3>2, RenTypes, RenConstants DEF RenTypeOK, RenTrouble
    <3> QED BY <1>2, <3>1, <3>2 DEF RenManualEnds
  <2>3. RenTypeOK'
    BY <2>1, <2>2 DEF RenTypeOK
  <2>4. RenMarksInv'
    BY <2>1 DEF RenMarksInv, RenToday, RenNoon
  <2>5. /\ \A d \in RenCerts \ {c} : RenMargin(d)' = RenMargin(d)
        /\ RenMargin(c) \in {0, 1} /\ RenMargin(c)' \in {0, 1, 2}
        /\ RenMargin(c) = 1 => RenMargin(c)' = 1
    BY <2>1 DEF RenMargin, RenHandled, RenNoon, RenToday
  <2>6. /\ \A d \in RenCerts : renNotAfter[d] \in Nat /\ renNotAfter'[d] \in Nat
        /\ renNow \in Nat /\ renTroubles \in Nat /\ renTroubles' \in Nat /\ RenBefore \in Nat
    BY <2>2, RenTypes, RenConstants
  <2>7. \A d \in RenCerts :
            renNotAfter[d] + 2 * renTroubles + 1 >= renNow + 2 * RenBefore + RenMargin(d)
    BY DEF RenMarginInv
  <2>8. \A d \in RenCerts :
            renNotAfter'[d] + 2 * renTroubles' + 1 >= renNow + 2 * RenBefore + RenMargin(d)'
    <3>1. ASSUME NEW d \in RenCerts, d # c
          PROVE renNotAfter'[d] + 2 * renTroubles' + 1 >= renNow + 2 * RenBefore + RenMargin(d)'
      <4>1. RenMargin(d)' = RenMargin(d) /\ RenMargin(d) \in {0, 1, 2}
        BY <3>1, <2>5, RenMarginOf
      <4> QED BY <3>1, <4>1, <2>2, <2>6, <2>7
    <3>2. renNotAfter'[c] + 2 * renTroubles' + 1 >= renNow + 2 * RenBefore + RenMargin(c)'
      BY <2>2, <2>5, <2>6, <2>7
    <3> QED BY <3>1, <3>2
  <2>9. RenMarginInv'
    BY <2>1, <2>8 DEF RenMarginInv
  <2> QED BY <2>3, <2>4, <2>9
<1> QED BY <1>1, <1>2

\* Noon and midnight, with the process up.
LEMMA RenTimePassesInv == ASSUME RenInv, RenTimePasses PROVE RenInv'
<1> USE DEF RenInv
<1>1. /\ renNow < RenHorizon /\ renNow' = renNow + 1 /\ renDue = {} /\ renManual = {}
      /\ renTried' = IF RenNoon THEN <<>> ELSE renTried
      /\ \A c \in RenCerts : ~RenCheckDue(c)
      /\ UNCHANGED <<renNotAfter, renChecked, renDue, renManual, renTroubles>>
  BY DEF RenTimePasses
<1>2. /\ RenToday' = RenToday + (renNow % 2)
      /\ RenNoon' <=> ~RenNoon
  BY <1>1, RenTypes, RenClock DEF RenToday, RenNoon
<1>3. RenTypeOK'
  BY <1>1, RenTypes, RenConstants DEF RenTypeOK
<1>4. RenMarksInv'
  <2>1. CASE RenNoon
    BY <1>1, <1>2, <2>1, RenTypes DEF RenMarksInv, RenNoon
  <2>2. CASE ~RenNoon
    BY <1>1, <1>2, <2>2, RenTypes DEF RenMarksInv, RenNoon
  <2> QED BY <2>1, <2>2
<1>5. RenMarginInv'
  <2>1. CASE RenNoon
    <3>1. \A c \in RenCerts : RenMargin(c) = 2 /\ RenMargin(c)' = 1
      BY <1>1, <1>2, <2>1 DEF RenMargin, RenHandled, RenCheckDue
    <3> QED BY <1>1, <3>1, RenTypes, RenConstants DEF RenMarginInv
  <2>2. CASE ~RenNoon
    <3>1. \A c \in RenCerts : RenMargin(c) = 1 /\ RenMargin(c)' = 0
      <4>1. \A c \in RenCerts : renChecked'[c] # RenToday'
        BY <1>1, <1>2, <2>2, RenTypes DEF RenMarksInv, RenNoon
      <4> QED BY <1>2, <2>2, <4>1 DEF RenMargin, RenHandled
    <3> QED BY <1>1, <3>1, RenTypes, RenConstants DEF RenMarginInv
  <2> QED BY <2>1, <2>2
<1> QED BY <1>3, <1>4, <1>5

LEMMA RenDownInv == ASSUME RenInv, RenDown PROVE RenInv'
<1> USE DEF RenInv
<1>1. /\ renNow < RenHorizon /\ renNow' = renNow + 2 - (renNow % 2)
      /\ renTroubles' = renTroubles + 1 /\ renTroubles' \in 0..RenMaxTroubles
      /\ renChecked' = [c \in RenCerts |-> 0]
      /\ renDue' = {} /\ renManual' = {} /\ renTried' = <<>>
      /\ renNotAfter' = renNotAfter
  BY RenTypes, RenConstants DEF RenDown, RenTrouble
<1>2. ~RenNoon' /\ RenToday' \in Nat \ {0} /\ renNow' \in 0..RenHorizon + 2
  <2>1. renNow \in Nat
    BY RenTypes
  <2>2. renNow' \in Nat /\ renNow' % 2 # 1 /\ renNow' <= renNow + 2
    BY <1>1, <2>1, RenClock
  <2>3. renNow' \div 2 + 1 \in Nat \ {0}
    BY <1>1, <2>1, RenClock
  <2>4. renNow' \in 0..RenHorizon + 2
    BY <1>1, <2>1, <2>2, RenConstants
  <2>5. ~RenNoon'
    BY <2>2 DEF RenNoon
  <2>6. RenToday' \in Nat \ {0}
    BY <2>3 DEF RenToday
  <2> QED BY <2>4, <2>5, <2>6
<1>3. RenTypeOK'
  BY <1>1, <1>2 DEF RenTypeOK
<1>4. RenMarksInv'
  BY <1>1, <1>2 DEF RenMarksInv
<1>5. RenMarginInv'
  <2>1. renNow' = IF RenNoon THEN renNow + 1 ELSE renNow + 2
    BY <1>1, RenTypes DEF RenNoon
  <2> HIDE DEF RenNoon
  <2>2. ASSUME NEW c \in RenCerts
        PROVE  renNotAfter'[c] + 2 * renTroubles' + 1
                   >= renNow' + 2 * RenBefore + RenMargin(c)'
    <3>1. RenMargin(c)' = 1
      BY <1>2 DEF RenMargin
    <3>2. renNotAfter'[c] = renNotAfter[c] /\ renTroubles' = renTroubles + 1
      BY <1>1
    <3> QED BY <2>1, <3>1, <3>2, RenMarginOf
  <2> QED BY <2>2 DEF RenMarginInv
<1> QED BY <1>3, <1>4, <1>5

LEMMA RenStepInv == ASSUME RenInv, [RenNext]_renVars PROVE RenInv'
<1>1. CASE UNCHANGED renVars
  BY <1>1 DEF renVars, RenInv, RenTypeOK, RenMarksInv, RenMarginInv, RenMargin, RenHandled,
              RenNoon, RenToday
<1> QED BY <1>1, RenRunBeginsInv, RenRunNextInv, RenRunCutInv, RenManualInv,
           RenTimePassesInv, RenDownInv DEF RenNext

LEMMA RenShows == RenInv => RenTypeOK /\ RenewedInTime
<1> SUFFICES ASSUME RenInv PROVE RenewedInTime
  BY DEF RenInv
<1>1. ASSUME renTroubles < RenBefore, NEW c \in RenCerts
      PROVE  renNow < renNotAfter[c]
  BY <1>1, RenMarginOf
<1> QED BY <1>1 DEF RenInv, RenMarksInv, RenewedInTime

-----------------------------------------------------------------------------
(* The update by an uploaded package. *)

UpdVersions == UpdUploads \union {0}
UpdUploadType == [at : UpdSteps, policy : UpdPolicies, signed : BOOLEAN, runs : BOOLEAN,
                  by : {"none", "signature", "grant", "password"}, old : UpdVersions]

\* A version that was installed once: it starts, and its upload is not asked anew.
UpdSound(v) == v = 0 \/ (v \in UpdUploads /\ updUpload[v].runs /\ ~UpdAt(v, "idle"))

UpdShapeInv ==
    /\ updPolicy \in UpdPolicies /\ updGrant \in BOOLEAN
    /\ updLock \in UpdVersions /\ updExe \in UpdVersions
    /\ updUpload \in [UpdUploads -> UpdUploadType]
    /\ updBak = {} \/ \E v \in UpdVersions : updBak = {v}
    /\ updGranted \in 0..UpdMaxGrants /\ updSpent \in Nat
    /\ updTroubles \in 0..UpdMaxTroubles

\* Who holds the lock, how far it is, and what it has tried and set aside.
UpdHolder(r) ==
    LET u == updUpload[r] IN
    /\ u.at \notin {"idle", "asked", "over"} => updLock = r
    /\ u.at \in {"passed", "cleared", "backed", "renamed", "applied"} => u.runs
    /\ u.at \in {"backed", "renamed", "applied"} => updBak = {u.old} /\ UpdSound(u.old)
    /\ u.at \in {"renamed", "applied"} => updExe = r

UpdInv == /\ UpdShapeInv /\ UpdGrantOnce
          /\ \A r \in UpdUploads : UpdHolder(r)
          /\ \A v \in updBak \union {updExe} : UpdSound(v)

LEMMA UpdConstants ==
    /\ UpdUploads \subseteq Nat /\ 0 \notin UpdUploads
    /\ UpdMaxGrants \in Nat /\ UpdMaxTroubles \in Nat
BY UpdAssumption

LEMMA UpdInitInv == UpdInit => UpdInv
<1> SUFFICES ASSUME UpdInit PROVE UpdInv
  OBVIOUS
<1>1. UpdNew \in UpdUploadType /\ UpdNew.at = "idle"
  BY DEF UpdNew, UpdUploadType, UpdSteps, UpdPolicies, UpdVersions
<1>2. updUpload \in [UpdUploads -> UpdUploadType] /\ \A r \in UpdUploads : updUpload[r].at = "idle"
  BY <1>1 DEF UpdInit
<1>3. UpdShapeInv
  <2>1. 0 \in 0..UpdMaxGrants /\ 0 \in 0..UpdMaxTroubles /\ 0 \in UpdVersions /\ 0 \in Nat
    BY UpdConstants DEF UpdVersions
  <2> QED BY <1>2, <2>1 DEF UpdInit, UpdShapeInv, UpdPolicies
<1>3a. UpdGrantOnce
  BY DEF UpdInit, UpdGrantOnce
<1>4. \A r \in UpdUploads : UpdHolder(r)
  BY <1>2 DEF UpdHolder
<1>5. updBak \union {updExe} = {0}
  BY DEF UpdInit
<1> QED BY <1>3, <1>3a, <1>4, <1>5 DEF UpdInv, UpdSound

\* What has been installed stays so, unless its upload were asked anew.
LEMMA UpdStaysSound ==
    ASSUME UpdInv, NEW r \in UpdUploads, NEW u, updUpload' = [updUpload EXCEPT ![r] = u],
           ~UpdAt(r, "idle") => u.at # "idle" /\ u.runs = updUpload[r].runs,
           NEW v, UpdSound(v)
    PROVE  UpdSound(v)'
BY DEF UpdInv, UpdShapeInv, UpdSound, UpdAt

\* A step of one upload leaves the others what they were: either it changes
\* nothing they know of, or it has the lock, or it takes it.
LEMMA UpdStepOf ==
    ASSUME UpdInv, NEW r \in UpdUploads, NEW u \in UpdUploadType,
           updUpload' = [updUpload EXCEPT ![r] = u],
           ~UpdAt(r, "idle") => u.at # "idle" /\ u.runs = updUpload[r].runs,
           updLock \in {0, r} \/ UNCHANGED <<updLock, updExe, updBak>>,
           UpdShapeInv', UpdGrantOnce', UpdHolder(r)',
           \A v \in updBak' \union {updExe'} : v \in updBak \union {updExe} \/ UpdSound(v)'
    PROVE  UpdInv'
<1>1. \A v : UpdSound(v) => UpdSound(v)'
  BY UpdStaysSound
<1>2. ASSUME NEW q \in UpdUploads, q # r PROVE UpdHolder(q)'
  <2>1. updUpload'[q] = updUpload[q] /\ UpdHolder(q)
    BY <1>2 DEF UpdInv, UpdShapeInv
  <2>2. CASE updLock \in {0, r}
    <3>1. updUpload[q].at \in {"idle", "asked", "over"}
      BY <1>2, <2>1, <2>2, UpdConstants DEF UpdHolder
    <3> QED BY <2>1, <3>1 DEF UpdHolder
  <2>3. CASE UNCHANGED <<updLock, updExe, updBak>>
    BY <1>1, <2>1, <2>3 DEF UpdHolder
  <2> QED BY <2>2, <2>3
<1>3. \A v \in updBak' \union {updExe'} : UpdSound(v)'
  BY <1>1 DEF UpdInv
<1> QED BY <1>2, <1>3 DEF UpdInv

\* What leaves the uploads alone.
LEMMA UpdSettingsInv ==
    ASSUME UpdInv, UpdAuth \/ UpdExpire \/ UpdConfigure \/ UNCHANGED updVars
    PROVE  UpdInv'
<1>1. UNCHANGED <<updLock, updUpload, updExe, updBak, updTroubles, updSpent>>
  BY DEF UpdAuth, UpdExpire, UpdConfigure, updVars
<1>2. /\ updPolicy' \in UpdPolicies /\ updGrant' \in BOOLEAN /\ updGranted' \in 0..UpdMaxGrants
      /\ \/ updGranted' = updGranted + 1
         \/ updGranted' = updGranted /\ updGrant' \in {updGrant, FALSE}
  <2>1. CASE UpdAuth
    <3>1. updPolicy \in UpdPolicies /\ updGranted \in 0..UpdMaxGrants
      BY DEF UpdInv, UpdShapeInv
    <3>2. /\ updPolicy' = updPolicy /\ updGrant' = TRUE
          /\ updGranted' = updGranted + 1 /\ updGranted < UpdMaxGrants
      BY <2>1 DEF UpdAuth
    <3>3. updGranted' \in 0..UpdMaxGrants
      BY <3>1, <3>2, UpdConstants
    <3>4. updPolicy' \in UpdPolicies /\ updGrant' \in BOOLEAN
      BY <3>1, <3>2
    <3> QED BY <3>2, <3>3, <3>4, Zenon
  <2>2. CASE UpdExpire
    BY <2>2 DEF UpdInv, UpdShapeInv, UpdExpire
  <2>3. CASE UpdConfigure
    BY <2>3 DEF UpdInv, UpdShapeInv, UpdConfigure
  <2>4. CASE UNCHANGED updVars
    BY <2>4 DEF UpdInv, UpdShapeInv, updVars
  <2> QED BY <2>1, <2>2, <2>3, <2>4
<1>3. UpdShapeInv'
  BY <1>1, <1>2 DEF UpdInv, UpdShapeInv
<1>4. UpdGrantOnce'
  <2>1. updSpent \in Nat /\ updGranted \in Nat /\ updGrant \in BOOLEAN /\ UpdGrantOnce
    BY UpdConstants DEF UpdInv, UpdShapeInv
  <2>2. CASE updGranted' = updGranted + 1
    BY <1>1, <2>1, <2>2, <1>2 DEF UpdGrantOnce
  <2>3. CASE updGranted' = updGranted /\ updGrant' \in {updGrant, FALSE}
    <3>1. CASE updGrant' = FALSE
      BY <1>1, <2>1, <2>3, <3>1 DEF UpdGrantOnce
    <3>2. CASE updGrant' = updGrant
      BY <1>1, <2>1, <2>3, <3>2 DEF UpdGrantOnce
    <3> QED BY <2>3, <3>1, <3>2
  <2> QED BY <1>2, <2>2, <2>3
<1> QED BY <1>1, <1>3, <1>4 DEF UpdInv, UpdHolder, UpdSound, UpdAt

LEMMA UpdRestartInv == ASSUME UpdInv, UpdRestart PROVE UpdInv'
<1>1. /\ UNCHANGED <<updPolicy, updExe, updBak, updGranted, updSpent, updTroubles>>
      /\ updLock' = 0 /\ updGrant' = FALSE
      /\ updUpload \in [UpdUploads -> UpdUploadType]
      /\ updUpload' \in [UpdUploads -> UpdUploadType]
      /\ \A r \in UpdUploads : /\ updUpload'[r].at \in {"idle", "over"}
                               /\ updUpload'[r].runs = updUpload[r].runs
                               /\ updUpload[r].at # "idle" => updUpload'[r].at = "over"
  BY DEF UpdInv, UpdShapeInv, UpdRestart, UpdUploadType, UpdSteps, UpdAt
<1>2. UpdShapeInv' /\ UpdGrantOnce'
  <2>1. updSpent \in Nat /\ updGranted \in Nat /\ updGrant \in BOOLEAN /\ UpdGrantOnce
    BY UpdConstants DEF UpdInv, UpdShapeInv
  <2>2. UpdGrantOnce'
    BY <1>1, <2>1 DEF UpdGrantOnce
  <2>3. UpdShapeInv'
    BY <1>1 DEF UpdInv, UpdShapeInv, UpdVersions
  <2> QED BY <2>2, <2>3
<1>3. \A r \in UpdUploads : UpdHolder(r)'
  BY <1>1 DEF UpdHolder
<1>4. \A v \in updBak' \union {updExe'} : UpdSound(v)'
  BY <1>1 DEF UpdInv, UpdSound, UpdAt
<1> QED BY <1>2, <1>3, <1>4 DEF UpdInv

\* What an upload is like before its step, and that the step is its own.
LEMMA UpdOne ==
    ASSUME UpdInv, NEW r \in UpdUploads
    PROVE  /\ updUpload[r] \in UpdUploadType /\ UpdHolder(r) /\ UpdShapeInv /\ UpdGrantOnce
           /\ updUpload \in [UpdUploads -> UpdUploadType] /\ updExe \in UpdVersions
           /\ UpdSound(updExe) /\ (\A v \in updBak : UpdSound(v))
BY DEF UpdInv, UpdShapeInv

LEMMA UpdAskInv == ASSUME UpdInv, NEW r \in UpdUploads, UpdAsk(r) PROVE UpdInv'
<1>1. PICK signed, runs \in BOOLEAN :
         updUpload' = [updUpload EXCEPT ![r] = [UpdNew EXCEPT !.at = "asked",
              !.policy = updPolicy, !.signed = signed, !.runs = runs]]
  BY DEF UpdAsk
<1> DEFINE u == [UpdNew EXCEPT !.at = "asked", !.policy = updPolicy, !.signed = signed,
                               !.runs = runs]
<1>2. u \in UpdUploadType /\ u.at = "asked"
  BY UpdOne DEF UpdShapeInv, UpdNew, UpdUploadType, UpdSteps, UpdVersions
<1> HIDE DEF u
<1>3. UpdShapeInv' /\ UpdGrantOnce'
  BY <1>1, <1>2, UpdOne DEF UpdAsk, UpdShapeInv, UpdGrantOnce, u
<1>4. UpdHolder(r)'
  BY <1>1, <1>2, UpdOne DEF UpdHolder, u
<1> QED BY <1>1, <1>2, <1>3, <1>4, UpdStepOf DEF UpdAsk, u

LEMMA UpdTakeInv == ASSUME UpdInv, NEW r \in UpdUploads, UpdTake(r) PROVE UpdInv'
<1> DEFINE by == IF updUpload[r].policy = "key" THEN "signature"
                 ELSE IF updGrant THEN "grant" ELSE "password"
           u == IF updLock = 0 THEN [updUpload[r] EXCEPT !.at = "locked", !.by = by]
                ELSE [updUpload[r] EXCEPT !.at = "over"]
<1>0. UpdAt(r, "asked") /\ UNCHANGED <<updPolicy, updExe, updBak, updGranted, updTroubles>>
  BY DEF UpdTake
<1>1. /\ u \in UpdUploadType /\ u.at = (IF updLock = 0 THEN "locked" ELSE "over")
      /\ u.runs = updUpload[r].runs
  BY UpdOne DEF UpdUploadType, UpdSteps
<1>2. updUpload' = [updUpload EXCEPT ![r] = u]
  <2>1. CASE updLock = 0
    BY <2>1, UpdOne DEF UpdTake
  <2>2. CASE updLock # 0
    BY <2>2, UpdOne DEF UpdTake, UpdGo
  <2> QED BY <2>1, <2>2
<1>3. /\ updLock' = (IF updLock = 0 THEN r ELSE updLock)
      /\ \/ updGrant' = updGrant /\ updSpent' = updSpent
         \/ updGrant' = FALSE /\ updSpent' = updSpent
         \/ updGrant /\ updGrant' = FALSE /\ updSpent' = updSpent + 1
  <2>1. CASE updLock = 0
    <3>1. updLock' = r /\ updGrant' = FALSE /\ updSpent' = updSpent + (IF by = "grant" THEN 1 ELSE 0)
      BY <2>1 DEF UpdTake, UpdConsumed
    <3>2. by = "grant" => updGrant
      OBVIOUS
    <3> QED BY <2>1, <3>1, <3>2, UpdOne DEF UpdShapeInv
  <2>2. CASE updLock # 0
    BY <2>2 DEF UpdTake
  <2> QED BY <2>1, <2>2
<1> HIDE DEF u, by
<1>4. UpdShapeInv'
  <2>1. updUpload' \in [UpdUploads -> UpdUploadType]
    BY <1>1, <1>2, UpdOne
  <2>2. updLock' \in UpdVersions /\ updGrant' \in BOOLEAN /\ updSpent' \in Nat
    <3>1. updLock \in UpdVersions /\ updGrant \in BOOLEAN /\ updSpent \in Nat
      BY UpdOne DEF UpdShapeInv
    <3>2. updLock' \in UpdVersions
      BY <1>3, <3>1 DEF UpdVersions
    <3>3. updSpent' \in Nat
      BY <1>3, <3>1
    <3>4. updGrant' \in BOOLEAN
      BY <1>3, <3>1, Zenon
    <3> QED BY <3>2, <3>3, <3>4
  <2> QED BY <1>0, <2>1, <2>2, UpdOne DEF UpdShapeInv
<1>5. UpdGrantOnce'
  <2>1. updSpent \in Nat /\ updGranted \in Nat /\ updGrant \in BOOLEAN
    BY UpdOne DEF UpdShapeInv
  <2> QED BY <2>1, <1>0, <1>3, UpdOne DEF UpdGrantOnce
<1>6. UpdHolder(r)'
  <2>1. updUpload'[r] = u
    BY <1>2, UpdOne
  <2> QED BY <1>1, <1>3, <2>1 DEF UpdHolder
<1>7. updLock \in {0, r} \/ UNCHANGED <<updLock, updExe, updBak>>
  BY <1>0, <1>3
<1> QED BY <1>0, <1>1, <1>2, <1>4, <1>5, <1>6, <1>7, UpdStepOf DEF UpdAt

\* The steps of the one that has the lock.
LEMMA UpdWorksInv ==
    ASSUME UpdInv, NEW r \in UpdUploads,
           \/ UpdDrop(r) \/ UpdStage(r) \/ UpdSmoke(r) \/ UpdClearBackup(r) \/ UpdBackup(r)
           \/ UpdRename(r) \/ UpdRecheck(r) \/ UpdRollBack(r)
    PROVE  UpdInv'
<1> DEFINE u == updUpload'[r]
<1>0. /\ updUpload[r] \in UpdUploadType /\ UpdHolder(r) /\ UpdShapeInv /\ UpdGrantOnce
      /\ updUpload \in [UpdUploads -> UpdUploadType] /\ updExe \in UpdVersions
      /\ UpdSound(updExe) /\ (\A v \in updBak : UpdSound(v))
  BY UpdOne
<1>1. /\ updUpload[r].at \notin {"idle", "asked", "over"} /\ updLock = r
      /\ UNCHANGED <<updPolicy, updGrant, updGranted, updSpent>>
  BY <1>0 DEF UpdDrop, UpdStage, UpdSmoke, UpdClearBackup, UpdBackup, UpdRename, UpdRecheck,
              UpdRollBack, UpdSame, UpdAt, UpdHolder
<1>2. /\ updUpload' = [updUpload EXCEPT ![r] = u]
      /\ u \in UpdUploadType /\ u.runs = updUpload[r].runs /\ u.at \notin {"idle", "asked"}
  BY <1>0 DEF UpdDrop, UpdStage, UpdSmoke, UpdClearBackup, UpdBackup, UpdRename, UpdRecheck,
              UpdRollBack, UpdGo, UpdUploadType, UpdSteps
<1>3. \A v : UpdSound(v) => UpdSound(v)'
  BY <1>1, <1>2, UpdStaysSound DEF UpdAt
<1>4. UpdGrantOnce'
  BY <1>0, <1>1 DEF UpdGrantOnce
<1>5. ASSUME UpdDrop(r) \/ UpdStage(r) \/ UpdSmoke(r)
      PROVE  UpdShapeInv' /\ UpdHolder(r)' /\ updBak' \union {updExe'} = updBak \union {updExe}
  <2>1. /\ UNCHANGED <<updExe, updBak, updTroubles>>
        /\ u.at \in {"over", "staged", "passed"}
        /\ u.at # "over" => updLock' = updLock
        /\ u.at = "passed" => u.runs
        /\ updLock' \in {updLock, 0}
    <3>1. CASE UpdDrop(r)
      BY <1>0, <3>1 DEF UpdDrop, UpdGo
    <3>2. CASE UpdStage(r)
      BY <1>0, <3>2 DEF UpdStage, UpdGo
    <3>3. CASE UpdSmoke(r)
      BY <1>0, <3>3 DEF UpdSmoke, UpdGo
    <3> QED BY <1>5, <3>1, <3>2, <3>3
  <2>2. UpdShapeInv'
    BY <1>0, <1>1, <1>2, <2>1 DEF UpdShapeInv, UpdVersions
  <2> QED BY <1>1, <2>1, <2>2 DEF UpdHolder
<1>6. ASSUME UpdClearBackup(r)
      PROVE  UpdShapeInv' /\ UpdHolder(r)' /\ updBak' \union {updExe'} \subseteq updBak \union {updExe}
  <2>1. /\ UNCHANGED <<updExe, updLock, updTroubles>> /\ updBak' = {}
        /\ u.at = "cleared" /\ updUpload[r].at = "passed"
    BY <1>0, <1>6 DEF UpdClearBackup, UpdGo, UpdAt
  <2>2. UpdShapeInv'
    BY <1>0, <1>1, <1>2, <2>1 DEF UpdShapeInv
  <2> QED BY <1>0, <1>1, <1>2, <2>1, <2>2 DEF UpdHolder
<1>7. ASSUME UpdBackup(r)
      PROVE  UpdShapeInv' /\ UpdHolder(r)' /\ updBak' \union {updExe'} \subseteq updBak \union {updExe}
  <2>1. /\ UNCHANGED <<updExe, updLock, updTroubles>> /\ updBak' = {updExe}
        /\ u.at = "backed" /\ u.old = updExe /\ updUpload[r].at = "cleared"
    BY <1>0, <1>7 DEF UpdBackup, UpdAt
  <2>2. UpdShapeInv'
    BY <1>0, <1>1, <1>2, <2>1 DEF UpdShapeInv
  <2>3. UpdSound(updExe)'
    BY <1>0, <1>3, <2>1
  <2> QED BY <1>0, <1>1, <1>2, <2>1, <2>2, <2>3 DEF UpdHolder, UpdSound, UpdAt
<1>8. ASSUME UpdRename(r) \/ UpdRecheck(r)
      PROVE  /\ UpdShapeInv' /\ UpdHolder(r)'
             /\ \A v \in updBak' \union {updExe'} : v \in updBak \/ v = r
  <2>1. /\ UNCHANGED <<updBak, updLock, updTroubles>> /\ updExe' = r
        /\ u.at \in {"renamed", "applied"} /\ u.old = updUpload[r].old
        /\ updUpload[r].at \in {"backed", "renamed"}
    <3>1. CASE UpdRename(r)
      BY <1>0, <3>1 DEF UpdRename, UpdAt, UpdGo
    <3>2. CASE UpdRecheck(r)
      <4>1. updUpload[r].at = "renamed" /\ updExe = r
        BY <1>0, <3>2 DEF UpdRecheck, UpdAt, UpdHolder
      <4> QED BY <1>0, <3>2, <4>1 DEF UpdRecheck, UpdGo
    <3> QED BY <1>8, <3>1, <3>2
  <2>2. UpdShapeInv'
    BY <1>0, <1>1, <1>2, <2>1 DEF UpdShapeInv, UpdVersions
  <2>3. updBak = {u.old} /\ UpdSound(u.old)
    BY <1>0, <2>1 DEF UpdHolder
  <2> QED BY <1>0, <1>1, <1>2, <1>3, <2>1, <2>2, <2>3 DEF UpdHolder, UpdSound, UpdAt
<1>9. ASSUME UpdRollBack(r)
      PROVE  UpdShapeInv' /\ UpdHolder(r)' /\ updBak' \union {updExe'} \subseteq updBak \union {updExe}
  <2>1. /\ updLock' = 0 /\ u.at = "over" /\ updTroubles' \in 0..UpdMaxTroubles
        /\ \/ updBak' = {} /\ updExe' \in updBak
           \/ updBak' = updBak /\ updExe' = updExe
    BY <1>0, <1>9, UpdConstants DEF UpdRollBack, UpdGo, UpdShapeInv
  <2>2. UpdShapeInv'
    BY <1>0, <1>1, <1>2, <2>1 DEF UpdShapeInv, UpdVersions
  <2> QED BY <2>1, <2>2 DEF UpdHolder
<1>10. UpdRename(r) \/ UpdRecheck(r) => UpdSound(r)'
  BY <1>0, <1>1, <1>2 DEF UpdRename, UpdRecheck, UpdSound, UpdAt, UpdHolder
<1> HIDE DEF u
<1>11. /\ UpdShapeInv' /\ UpdHolder(r)'
       /\ \A v \in updBak' \union {updExe'} : v \in updBak \union {updExe} \/ UpdSound(v)'
  BY <1>5, <1>6, <1>7, <1>8, <1>9, <1>10
<1> QED BY <1>1, <1>2, <1>4, <1>11, UpdStepOf

LEMMA UpdStepInv == ASSUME UpdInv, [UpdNext]_updVars PROVE UpdInv'
BY UpdSettingsInv, UpdRestartInv, UpdAskInv, UpdTakeInv, UpdWorksInv DEF UpdNext

LEMMA UpdShows == UpdInv => UpdTypeOK /\ UpdateIsSafe
<1> SUFFICES ASSUME UpdInv PROVE UpdTypeOK /\ UpdateIsSafe
  OBVIOUS
<1>1. UpdTypeOK
  <2>1. Cardinality(updBak) <= 1
    <3>1. CASE updBak = {}
      BY <3>1, FS_EmptySet
    <3>2. ASSUME NEW v, updBak = {v} PROVE Cardinality(updBak) <= 1
      <4>1. Cardinality({v}) = 1
        BY FS_Singleton
      <4> QED BY <3>2, <4>1
    <3> QED BY <3>1, <3>2 DEF UpdInv, UpdShapeInv
  <2>2. updSpent \in 0..UpdMaxGrants
    BY UpdConstants DEF UpdInv, UpdShapeInv, UpdGrantOnce
  <2> QED BY <2>1, <2>2 DEF UpdInv, UpdShapeInv, UpdTypeOK, UpdVersions, UpdUploadType
<1>2. UpdStartable
  BY DEF UpdInv, UpdStartable, UpdRuns, UpdSound
<1>3. UpdPromiseKept /\ UpdWayBack
  BY DEF UpdInv, UpdPromiseKept, UpdWayBack, UpdHolder, UpdAt, UpdRuns, UpdSound
<1> QED BY <1>1, <1>2, <1>3 DEF UpdInv, UpdateIsSafe

-----------------------------------------------------------------------------
(* The look for a newer version. *)

ChkTexts == ToSet(ChkPartTexts)

LEMMA ChkSequences ==
    ASSUME NEW S, NEW s \in Seq(S)
    PROVE  /\ DOMAIN s = 1..Len(s) /\ Len(s) \in Nat /\ (s # <<>> => Len(s) # 0)
           /\ \A i \in DOMAIN s : s[i] \in S
OBVIOUS

LEMMA ChkWider ==
    ASSUME NEW S, NEW T, S \subseteq T, NEW s \in Seq(S)
    PROVE  s \in Seq(T)
OBVIOUS

LEMMA ChkConstants ==
    /\ DOMAIN ChkVersions = 1..Len(ChkVersions) /\ Len(ChkVersions) \in Nat \ {0}
    /\ \A v \in DOMAIN ChkVersions : ChkVersions[v] \in Seq(ChkTexts)
    /\ ChkTtl \in Nat \ {0} /\ ChkHorizon \in Nat /\ ChkMaxTroubles \in Nat
<1>1. /\ ChkVersions \in Seq(Seq(ChkTexts \ {""})) /\ ChkVersions # <<>>
      /\ ChkTtl \in Nat \ {0} /\ ChkHorizon \in Nat /\ ChkMaxTroubles \in Nat
  BY ChkAssumption DEF ChkTexts
<1>2. DOMAIN ChkVersions = 1..Len(ChkVersions) /\ Len(ChkVersions) \in Nat \ {0}
  BY <1>1, ChkSequences
<1>3. ASSUME NEW v \in DOMAIN ChkVersions PROVE ChkVersions[v] \in Seq(ChkTexts)
  <2>1. ChkVersions[v] \in Seq(ChkTexts \ {""})
    BY <1>1, ChkSequences
  <2>2. ChkTexts \ {""} \subseteq ChkTexts
    OBVIOUS
  <2> QED BY <2>1, <2>2, ChkWider
<1> QED BY <1>1, <1>2, <1>3

\* The place of a text in the order, and its number, are integers.
LEMMA ChkPlaces ==
    ASSUME NEW p \in ChkTexts
    PROVE  ChkOrder(p) \in 1..6 /\ ChkNumber[p] \in Int
<1>1. DOMAIN ChkPartTexts = 1..6
  BY DEF ChkPartTexts
<1>2. PICK i \in DOMAIN ChkPartTexts : ChkPartTexts[i] = p
  BY DEF ChkTexts, ToSet
<1>3. ChkOrder(p) \in 1..6
  BY <1>1, <1>2 DEF ChkOrder
<1>4. ChkNumber[p] = CASE p = "0" -> 0 [] p = "1" -> 1 [] p = "9" -> 9 [] p = "10" -> 10
                       [] OTHER -> -1
  BY DEF ChkNumber, ChkTexts
<1>5. ChkNumber[p] \in Int
  BY <1>4
<1> QED BY <1>3, <1>5

\* No part is above one that is above it.
LEMMA ChkAboveAsymmetric ==
    ASSUME NEW p \in ChkTexts, NEW q \in ChkTexts, ChkAbove(p, q)
    PROVE  ~ChkAbove(q, p)
<1>1. /\ ChkOrder(p) \in Int /\ ChkOrder(q) \in Int
      /\ ChkNumber[p] \in Int /\ ChkNumber[q] \in Int
  BY ChkPlaces
<1> QED BY <1>1 DEF ChkAbove

\* And no version.
LEMMA ChkGreaterAsymmetric ==
    ASSUME NEW a \in Seq(ChkTexts), NEW b \in Seq(ChkTexts), ChkGreater(a, b)
    PROVE  ~ChkGreater(b, a)
<1> DEFINE n == IF Len(a) > Len(b) THEN Len(a) ELSE Len(b)
           m == IF Len(b) > Len(a) THEN Len(b) ELSE Len(a)
           differ == {i \in 1..n : ChkPart(a, i) # ChkPart(b, i)}
<1>1. n = m
  OBVIOUS
<1>2. differ = {i \in 1..m : ChkPart(b, i) # ChkPart(a, i)}
  BY <1>1
<1>3. "" \in ChkTexts
  <2>1. ChkPartTexts[1] = "" /\ 1 \in DOMAIN ChkPartTexts
    BY DEF ChkPartTexts
  <2> QED BY <2>1 DEF ChkTexts, ToSet
<1>4. \A i : ChkPart(a, i) \in ChkTexts /\ ChkPart(b, i) \in ChkTexts
  <2>1. ASSUME NEW version \in Seq(ChkTexts), NEW i PROVE ChkPart(version, i) \in ChkTexts
    <3>1. CASE i \in DOMAIN version
      BY <3>1 DEF ChkPart
    <3>2. CASE i \notin DOMAIN version
      BY <1>3, <3>2 DEF ChkPart
    <3> QED BY <3>1, <3>2
  <2> QED BY <2>1
<1>5. PICK i \in differ : /\ \A j \in differ : i <= j
                          /\ ChkAbove(ChkPart(a, i), ChkPart(b, i))
  BY DEF ChkGreater
<1>6. ASSUME NEW k \in differ, \A j \in differ : k <= j,
             ChkAbove(ChkPart(b, k), ChkPart(a, k))
      PROVE  FALSE
  <2>1. k = i
    <3>1. i \in Int /\ k \in Int /\ i <= k /\ k <= i
      BY <1>5, <1>6
    <3> QED BY <3>1
  <2> QED BY <1>4, <1>5, <1>6, <2>1, ChkAboveAsymmetric
<1> QED BY <1>2, <1>6 DEF ChkGreater

LEMMA ChkGreaterIrreflexive == ASSUME NEW a PROVE ~ChkGreater(a, a)
BY DEF ChkGreater

\* What the parts say of two published versions is which came later.
LEMMA ChkGreaterIsLater ==
    ASSUME NEW l \in DOMAIN ChkVersions, NEW c \in DOMAIN ChkVersions
    PROVE  ChkGreater(ChkVersions[l], ChkVersions[c]) <=> l > c
<1>0. l \in Nat /\ c \in Nat /\ ChkVersions[l] \in Seq(ChkTexts) /\ ChkVersions[c] \in Seq(ChkTexts)
  BY ChkConstants
<1>1. CASE l > c
  BY <1>0, <1>1, ChkPublishedAscend
<1>2. CASE l = c
  BY <1>0, <1>2, ChkGreaterIrreflexive
<1>3. CASE l < c
  <2>1. ChkGreater(ChkVersions[c], ChkVersions[l])
    BY <1>3, ChkPublishedAscend
  <2> QED BY <1>0, <1>3, <2>1, ChkGreaterAsymmetric
<1> QED BY <1>0, <1>1, <1>2, <1>3

ChkLatest == 0..Len(ChkVersions)
ChkResultType == [says : {"none", "checked", "limited", "unknown", "error"}, latest : ChkLatest,
                  newer : BOOLEAN, asked : Nat, from : {"none", "manifest", "github"}]
ChkAskType == [at : {"new", "manifest", "github", "tags", "answered", "gone"},
               from : {"none", "manifest", "github"}, asked : Nat, result : ChkResultType]

\* A result speaks of a published version, and rightly of the one that runs.
ChkTrue(result) ==
    /\ result.newer <=> result.latest > chkRunning
    /\ result.latest <= chkPublished.tag

ChkKeptTrue == ChkTrue(chkCache)

\* An ask on its way was made in this moment; one that is answered had an
\* answer no older than results are kept.
ChkAskHonest(a) ==
    LET ask == chkAt[a] IN
    /\ ask.at \in {"manifest", "github", "tags"} => ask.asked = chkClock
    /\ ask.at = "answered" =>
          /\ ChkTrue(ask.result)
          /\ ask.result.says # "error" => ask.asked < ask.result.asked + ChkTtl

ChkShapeInv ==
    /\ chkSource \in {"manifest", "github"} /\ chkLimited \in BOOLEAN
    /\ chkPublished \in [tag : ChkLatest, release : ChkLatest, manifest : ChkLatest]
    /\ chkPublished.release <= chkPublished.tag /\ chkPublished.manifest <= chkPublished.tag
    /\ chkRunning \in DOMAIN ChkVersions /\ chkClock \in 0..ChkHorizon
    /\ chkTroubles \in 0..ChkMaxTroubles
    /\ chkCache \in ChkResultType /\ chkCache.says # "error"
    /\ chkAt \in [ChkAsks -> ChkAskType]

ChkInv == /\ ChkShapeInv /\ ChkKeptTrue
          /\ \A a \in ChkAsks : ChkAskHonest(a)

LEMMA ChkShowsInv == ChkInv => ChkTypeOK /\ UpdatesAreSeen
<1> SUFFICES ASSUME ChkInv PROVE ChkTypeOK /\ UpdatesAreSeen
  OBVIOUS
<1>1. ChkTypeOK
  BY DEF ChkInv, ChkShapeInv, ChkTypeOK, ChkResultType, ChkAskType, ChkLatest
<1>2. ASSUME NEW a \in ChkAsks, chkAt[a].at = "answered"
      PROVE  /\ chkAt[a].result.newer <=> chkAt[a].result.latest > chkRunning
             /\ chkAt[a].result.latest <= chkPublished.tag
             /\ chkAt[a].result.says # "error" => chkAt[a].asked - chkAt[a].result.asked < ChkTtl
  <2>1. chkAt[a].asked \in Nat /\ chkAt[a].result.asked \in Nat /\ ChkTtl \in Nat
    BY ChkConstants DEF ChkInv, ChkShapeInv, ChkAskType, ChkResultType
  <2>2. ChkAskHonest(a)
    BY DEF ChkInv
  <2> QED BY <1>2, <2>1, <2>2 DEF ChkAskHonest, ChkTrue
<1> QED BY <1>1, <1>2 DEF UpdatesAreSeen

\* What is kept and asked when nothing is.
LEMMA ChkNoResultTyped ==
    /\ ChkNoResult \in ChkResultType /\ ChkNoResult.says # "error"
    /\ [ChkNoResult EXCEPT !.says = "error"] \in ChkResultType
    /\ ChkFresh \in ChkAskType /\ ChkFresh.at = "new"
    /\ [ChkFresh EXCEPT !.at = "gone"] \in ChkAskType
<1>1. 0 \in ChkLatest
  BY ChkConstants DEF ChkLatest
<1>2. /\ ChkNoResult \in ChkResultType /\ ChkNoResult.says # "error"
      /\ [ChkNoResult EXCEPT !.says = "error"] \in ChkResultType
  BY <1>1 DEF ChkNoResult, ChkResultType
<1>3. /\ ChkFresh \in ChkAskType /\ ChkFresh.at = "new"
      /\ [ChkFresh EXCEPT !.at = "gone"] \in ChkAskType
  BY <1>2 DEF ChkFresh, ChkAskType
<1> QED BY <1>2, <1>3

LEMMA ChkInitInv == ChkInit => ChkInv
<1> SUFFICES ASSUME ChkInit PROVE ChkInv
  OBVIOUS
<1>1. ChkNoResult \in ChkResultType /\ ChkNoResult.says # "error"
  BY ChkNoResultTyped
<1>2. ChkFresh \in ChkAskType /\ ChkFresh.at = "new"
  BY ChkNoResultTyped
<1>3. /\ 0 \in ChkLatest /\ 0 \in 0..ChkHorizon /\ 0 \in 0..ChkMaxTroubles
      /\ 1 \in DOMAIN ChkVersions
  BY ChkConstants DEF ChkLatest
<1>4. ChkShapeInv
  <2>1. chkAt \in [ChkAsks -> ChkAskType]
    BY <1>2 DEF ChkInit
  <2>2. /\ chkPublished \in [tag : ChkLatest, release : ChkLatest, manifest : ChkLatest]
        /\ chkPublished.release <= chkPublished.tag /\ chkPublished.manifest <= chkPublished.tag
    BY <1>3 DEF ChkInit
  <2> QED BY <1>1, <1>3, <2>1, <2>2 DEF ChkInit, ChkShapeInv
<1>5. ChkKeptTrue
  BY DEF ChkInit, ChkKeptTrue, ChkTrue, ChkNoResult
<1>6. \A a \in ChkAsks : ChkAskHonest(a)
  BY <1>2 DEF ChkInit, ChkAskHonest
<1> QED BY <1>4, <1>5, <1>6 DEF ChkInv

\* A step of one ask that leaves the world alone leaves the others honest.
LEMMA ChkStepOf ==
    ASSUME ChkInv, NEW a \in ChkAsks, NEW ask \in ChkAskType,
           chkAt' = [chkAt EXCEPT ![a] = ask],
           UNCHANGED <<chkSource, chkPublished, chkLimited, chkRunning, chkClock>>,
           chkTroubles' \in 0..ChkMaxTroubles,
           chkCache' \in ChkResultType, chkCache'.says # "error", ChkKeptTrue',
           ChkAskHonest(a)'
    PROVE  ChkInv'
<1>1. ChkShapeInv'
  <2>1. chkAt' \in [ChkAsks -> ChkAskType]
    BY DEF ChkInv, ChkShapeInv
  <2> QED BY <2>1 DEF ChkInv, ChkShapeInv
<1>2. ASSUME NEW b \in ChkAsks, b # a PROVE ChkAskHonest(b)'
  <2>1. chkAt'[b] = chkAt[b] /\ ChkAskHonest(b)
    BY <1>2 DEF ChkInv, ChkShapeInv
  <2> QED BY <2>1 DEF ChkAskHonest, ChkTrue
<1> QED BY <1>1, <1>2 DEF ChkInv

\* What is true of the shape of an ask and of what is kept.
LEMMA ChkOne ==
    ASSUME ChkInv, NEW a \in ChkAsks
    PROVE  /\ chkAt \in [ChkAsks -> ChkAskType] /\ chkAt[a] \in ChkAskType /\ ChkAskHonest(a)
           /\ chkCache \in ChkResultType /\ chkCache.says # "error" /\ ChkKeptTrue
           /\ chkSource \in {"manifest", "github"} /\ chkClock \in Nat
           /\ chkTroubles \in 0..ChkMaxTroubles
           /\ chkPublished \in [tag : ChkLatest, release : ChkLatest, manifest : ChkLatest]
           /\ chkPublished.release <= chkPublished.tag /\ chkPublished.manifest <= chkPublished.tag
           /\ chkRunning \in DOMAIN ChkVersions
BY ChkConstants DEF ChkInv, ChkShapeInv

LEMMA ChkAskInv ==
    ASSUME ChkInv, NEW a \in ChkAsks, NEW force \in BOOLEAN, ChkAsk(a, force)
    PROVE  ChkInv'
<1> DEFINE ask == IF ~force /\ ChkKept
          THEN [at |-> "answered", from |-> chkSource, asked |-> chkClock, result |-> chkCache]
          ELSE [at |-> chkSource, from |-> chkSource, asked |-> chkClock, result |-> ChkNoResult]
<1>1. chkAt' = [chkAt EXCEPT ![a] = ask]
  BY DEF ChkAsk
<1>2. ask \in ChkAskType
  BY ChkOne DEF ChkAskType, ChkNoResult, ChkResultType, ChkLatest
<1>3. ChkAskHonest(a)'
  <2>1. chkAt'[a] = ask /\ UNCHANGED <<chkClock, chkRunning, chkPublished>>
    BY <1>1, ChkOne DEF ChkAsk
  <2>2. CASE ~force /\ ChkKept
    BY <2>1, <2>2, ChkOne DEF ChkAskHonest, ChkKept, ChkKeptTrue, ChkTrue
  <2>3. CASE ~(~force /\ ChkKept)
    BY <2>1, <2>3, ChkOne DEF ChkAskHonest
  <2> QED BY <2>2, <2>3
<1>4. ChkKeptTrue'
  BY ChkOne DEF ChkAsk, ChkKeptTrue, ChkTrue
<1> HIDE DEF ask
<1> QED BY <1>1, <1>2, <1>3, <1>4, ChkOne, ChkStepOf DEF ChkAsk

\* An answer that is kept is true of what runs.
LEMMA ChkConcludesInv ==
    ASSUME ChkInv, NEW a \in ChkAsks,
           NEW says \in {"checked", "limited", "unknown"}, NEW latest \in 0..chkPublished.tag,
           ChkConcludes(a, says, latest),
           chkAt[a].at \in {"manifest", "github", "tags"},
           UNCHANGED <<chkSource, chkPublished, chkLimited, chkRunning, chkClock, chkTroubles>>
    PROVE  ChkInv'
<1> DEFINE newer == latest # 0 /\ ChkGreater(ChkVersions[latest], ChkVersions[chkRunning])
           result == [says |-> says, latest |-> latest, asked |-> chkClock, from |-> chkAt[a].from,
                      newer |-> newer]
           ask == [chkAt[a] EXCEPT !.at = "answered", !.result = result]
<1>0. /\ chkPublished.tag \in ChkLatest /\ Len(ChkVersions) \in Nat
      /\ DOMAIN ChkVersions = 1..Len(ChkVersions) /\ chkRunning \in 1..Len(ChkVersions)
      /\ latest \in ChkLatest /\ chkClock \in Nat /\ ChkTtl \in Nat \ {0}
  BY ChkOne, ChkConstants DEF ChkLatest
<1>1. newer <=> latest > chkRunning
  <2>1. CASE latest = 0
    BY <1>0, <2>1
  <2>2. CASE latest # 0
    BY <1>0, <2>2, ChkGreaterIsLater DEF ChkLatest
  <2> QED BY <2>1, <2>2
<1>2. newer \in BOOLEAN
  BY DEF ChkGreater
<1>3. chkCache' = result /\ chkAt' = [chkAt EXCEPT ![a] = ask]
  BY ChkOne DEF ChkConcludes, ChkAnswers
<1> HIDE DEF newer
<1>4. result \in ChkResultType /\ result.says # "error"
  BY <1>0, <1>2, ChkOne DEF ChkResultType, ChkAskType
<1>5. ask \in ChkAskType /\ ask.at = "answered" /\ ask.result = result /\ ask.asked = chkClock
  BY <1>4, ChkOne DEF ChkAskType, ChkAskHonest
<1>6. ChkKeptTrue'
  BY <1>0, <1>1, <1>3 DEF ChkKeptTrue, ChkTrue, ChkLatest
<1>7. ChkAskHonest(a)'
  <2>1. chkAt'[a] = ask /\ chkAt'[a].result = chkCache'
    BY <1>3, <1>5, ChkOne
  <2>2. ChkTrue(chkAt[a].result)'
    BY <1>6, <2>1 DEF ChkKeptTrue, ChkTrue
  <2>3. result.asked = chkClock
    OBVIOUS
  <2> QED BY <1>0, <1>5, <2>1, <2>2, <2>3 DEF ChkAskHonest
<1> HIDE DEF ask, result
<1> QED BY <1>3, <1>4, <1>5, <1>6, <1>7, ChkOne, ChkStepOf

\* The ends that keep nothing, and the way to the tags.
LEMMA ChkLeavesInv ==
    ASSUME ChkInv, NEW a \in ChkAsks,
           \/ ChkFails(a) \/ ChkRead(a)
           \/ /\ chkAt[a].at = "github" /\ chkAt' = [chkAt EXCEPT ![a].at = "tags"]
              /\ UNCHANGED <<chkSource, chkPublished, chkLimited, chkRunning, chkCache,
                             chkClock, chkTroubles>>
    PROVE  ChkInv'
<1> DEFINE ask == chkAt'[a]
<1>0. UNCHANGED <<chkSource, chkPublished, chkLimited, chkRunning, chkClock, chkCache>>
  BY DEF ChkFails, ChkRead
<1>1a. ChkKeptTrue'
  BY <1>0, ChkOne DEF ChkKeptTrue, ChkTrue
<1>1. chkTroubles' \in 0..ChkMaxTroubles
  <2>1. chkTroubles' = chkTroubles \/ (chkTroubles < ChkMaxTroubles /\ chkTroubles' = chkTroubles + 1)
    BY DEF ChkFails, ChkRead, ChkTrouble
  <2> QED BY <2>1, ChkOne, ChkConstants
<1>2. CASE ChkFails(a)
  <2>1. /\ ask = [chkAt[a] EXCEPT !.at = "answered", !.result = [ChkNoResult EXCEPT !.says = "error"]]
        /\ chkAt' = [chkAt EXCEPT ![a] = ask]
    BY <1>2, ChkOne DEF ChkFails, ChkAnswers
  <2>2. ask \in ChkAskType
    <3>1. [ChkNoResult EXCEPT !.says = "error"] \in ChkResultType
      BY ChkNoResultTyped
    <3> QED BY <2>1, <3>1, ChkOne DEF ChkAskType
  <2>3. ChkAskHonest(a)'
    <3>1. /\ ask.at = "answered" /\ ask.result.says = "error"
          /\ ask.result.latest = 0 /\ ask.result.newer = FALSE
      BY <2>1, ChkOne DEF ChkAskType, ChkNoResult
    <3>2. chkPublished.tag \in Nat /\ chkRunning \in Nat
      BY ChkOne, ChkConstants DEF ChkLatest
    <3> HIDE DEF ask
    <3> QED BY <1>0, <3>1, <3>2 DEF ChkAskHonest, ChkTrue, ask
  <2> QED BY <1>0, <1>1, <1>1a, <2>1, <2>2, <2>3, ChkOne, ChkStepOf
<1>3. CASE ChkRead(a)
  <2>1. ask = [ChkFresh EXCEPT !.at = "gone"] /\ chkAt' = [chkAt EXCEPT ![a] = ask]
    BY <1>3, ChkOne DEF ChkRead
  <2>2. ask \in ChkAskType /\ ask.at = "gone"
    BY <2>1, ChkNoResultTyped
  <2>3. ChkAskHonest(a)'
    BY <2>2 DEF ChkAskHonest
  <2> QED BY <1>0, <1>1, <1>1a, <2>1, <2>2, <2>3, ChkOne, ChkStepOf
<1>4. CASE chkAt[a].at = "github" /\ chkAt' = [chkAt EXCEPT ![a].at = "tags"]
  <2>1. ask = [chkAt[a] EXCEPT !.at = "tags"] /\ chkAt' = [chkAt EXCEPT ![a] = ask]
    BY <1>4, ChkOne
  <2>2. ask \in ChkAskType /\ ask.at = "tags" /\ ask.asked = chkClock
    BY <1>4, <2>1, ChkOne DEF ChkAskType, ChkAskHonest
  <2>3. ChkAskHonest(a)'
    BY <1>0, <2>2 DEF ChkAskHonest
  <2> QED BY <1>0, <1>1, <1>1a, <2>1, <2>2, <2>3, ChkOne, ChkStepOf
<1> QED BY <1>2, <1>3, <1>4

\* What happens in the world: a version appears, a limit, another source, a
\* start, a moment.
LEMMA ChkWorldInv ==
    ASSUME ChkInv, ChkPublish \/ ChkLimit \/ ChkSave \/ UNCHANGED chkVars
    PROVE  ChkInv'
<1>0. /\ UNCHANGED <<chkRunning, chkClock, chkCache, chkAt>>
      /\ chkPublished \in [tag : ChkLatest, release : ChkLatest, manifest : ChkLatest]
      /\ chkPublished.release <= chkPublished.tag /\ chkPublished.manifest <= chkPublished.tag
      /\ chkTroubles \in 0..ChkMaxTroubles /\ Len(ChkVersions) \in Nat
  BY ChkConstants DEF ChkInv, ChkShapeInv, ChkPublish, ChkLimit, ChkSave, chkVars
<1>1. /\ chkPublished' \in [tag : ChkLatest, release : ChkLatest, manifest : ChkLatest]
      /\ chkPublished'.release <= chkPublished'.tag /\ chkPublished'.manifest <= chkPublished'.tag
      /\ chkPublished.tag <= chkPublished'.tag
  <2>1. CASE ChkPublish
    BY <1>0, <2>1 DEF ChkPublish, ChkLatest
  <2>2. CASE UNCHANGED chkPublished
    BY <1>0, <2>2 DEF ChkLatest
  <2> QED BY <2>1, <2>2 DEF ChkLimit, ChkSave, chkVars
<1>2. /\ chkTroubles' \in 0..ChkMaxTroubles /\ chkSource' \in {"manifest", "github"}
      /\ chkLimited' \in BOOLEAN
  <2>1. chkTroubles' = chkTroubles \/ (chkTroubles < ChkMaxTroubles /\ chkTroubles' = chkTroubles + 1)
    BY DEF ChkPublish, ChkLimit, ChkSave, chkVars, ChkTrouble
  <2>2. chkTroubles' \in 0..ChkMaxTroubles
    BY <1>0, <2>1, ChkConstants
  <2>3. chkSource' \in {"manifest", "github"} /\ chkLimited' \in BOOLEAN
    BY DEF ChkInv, ChkShapeInv, ChkPublish, ChkLimit, ChkSave, chkVars
  <2> QED BY <2>2, <2>3
<1>3. ChkShapeInv'
  BY <1>0, <1>1, <1>2 DEF ChkInv, ChkShapeInv
<1>4. ASSUME NEW result \in ChkResultType, ChkTrue(result) PROVE ChkTrue(result)'
  BY <1>0, <1>1, <1>4 DEF ChkTrue, ChkResultType, ChkLatest
<1>5. ASSUME NEW a \in ChkAsks PROVE ChkAskHonest(a)'
  <2>1. chkAt[a].result \in ChkResultType /\ chkAt'[a] = chkAt[a] /\ ChkAskHonest(a)
    BY <1>0 DEF ChkInv, ChkShapeInv, ChkAskType
  <2>2. ChkTrue(chkAt[a].result) => ChkTrue(chkAt[a].result)'
    BY <1>0, <1>1, <2>1 DEF ChkTrue, ChkResultType, ChkLatest
  <2> QED BY <1>0, <2>1, <2>2 DEF ChkAskHonest
<1>6. ChkKeptTrue'
  BY <1>0, <1>1 DEF ChkInv, ChkShapeInv, ChkKeptTrue, ChkTrue, ChkResultType, ChkLatest
<1> QED BY <1>3, <1>5, <1>6 DEF ChkInv

LEMMA ChkStartInv == ASSUME ChkInv, ChkStart PROVE ChkInv'
<1>1. /\ ChkNoResult \in ChkResultType /\ ChkNoResult.says # "error"
      /\ [ChkFresh EXCEPT !.at = "gone"] \in ChkAskType
  BY ChkNoResultTyped
<1>2. chkRunning' \in DOMAIN ChkVersions
  <2>1. /\ chkRunning \in 1..Len(ChkVersions) /\ chkPublished.tag \in 0..Len(ChkVersions)
        /\ Len(ChkVersions) \in Nat /\ DOMAIN ChkVersions = 1..Len(ChkVersions)
    BY ChkConstants DEF ChkInv, ChkShapeInv, ChkLatest
  <2> QED BY <2>1 DEF ChkStart
<1>3. chkTroubles' \in 0..ChkMaxTroubles
  BY ChkConstants DEF ChkInv, ChkShapeInv, ChkStart, ChkTrouble
<1>4. /\ chkAt' \in [ChkAsks -> ChkAskType]
      /\ \A a \in ChkAsks : chkAt'[a].at \in {"new", "gone"}
  BY <1>1 DEF ChkInv, ChkShapeInv, ChkStart
<1>5. ChkShapeInv'
  BY <1>1, <1>2, <1>3, <1>4 DEF ChkInv, ChkShapeInv, ChkStart
<1>6. \A a \in ChkAsks : ChkAskHonest(a)'
  BY <1>4 DEF ChkAskHonest
<1>7. ChkKeptTrue'
  <2>1. /\ chkCache'.newer = FALSE /\ chkCache'.latest = 0 /\ chkPublished' = chkPublished
        /\ chkPublished.tag \in Nat /\ chkRunning' \in Nat
    BY <1>2, ChkConstants DEF ChkInv, ChkShapeInv, ChkStart, ChkNoResult, ChkLatest
  <2> QED BY <2>1 DEF ChkKeptTrue, ChkTrue
<1> QED BY <1>5, <1>6, <1>7 DEF ChkInv

LEMMA ChkTimeInv == ASSUME ChkInv, ChkTimePasses PROVE ChkInv'
<1>1. chkClock' \in 0..ChkHorizon
  BY ChkConstants DEF ChkInv, ChkShapeInv, ChkTimePasses
<1>2. ChkShapeInv' /\ ChkKeptTrue'
  BY <1>1 DEF ChkInv, ChkShapeInv, ChkTimePasses, ChkKeptTrue, ChkTrue
<1>3. \A a \in ChkAsks : ChkAskHonest(a)'
  BY DEF ChkTimePasses, ChkAskHonest
<1> QED BY <1>2, <1>3 DEF ChkInv

LEMMA ChkStepInv == ASSUME ChkInv, [ChkNextStep]_chkVars PROVE ChkInv'
<1>1. ASSUME NEW a \in ChkAsks, ChkManifest(a) PROVE ChkInv'
  <2>1. chkPublished.manifest \in 0..chkPublished.tag
    BY ChkOne, ChkConstants DEF ChkLatest
  <2> QED BY <1>1, <2>1, ChkConcludesInv DEF ChkManifest
<1>2. ASSUME NEW a \in ChkAsks, ChkRelease(a) PROVE ChkInv'
  <2>1. chkPublished.release \in 0..chkPublished.tag /\ 0 \in 0..chkPublished.tag
    BY ChkOne, ChkConstants DEF ChkLatest
  <2>2. CASE chkLimited
    BY <1>2, <2>1, <2>2, ChkConcludesInv DEF ChkRelease
  <2>3. CASE ~chkLimited /\ chkPublished.release # 0
    BY <1>2, <2>1, <2>3, ChkConcludesInv DEF ChkRelease
  <2>4. CASE ~chkLimited /\ chkPublished.release = 0
    BY <1>2, <2>4, ChkLeavesInv DEF ChkRelease
  <2> QED BY <2>2, <2>3, <2>4
<1>3. ASSUME NEW a \in ChkAsks, ChkTag(a) PROVE ChkInv'
  <2>1. chkPublished.tag \in 0..chkPublished.tag /\ 0 \in 0..chkPublished.tag
    BY ChkOne, ChkConstants DEF ChkLatest
  <2>2. CASE chkLimited
    BY <1>3, <2>1, <2>2, ChkConcludesInv DEF ChkTag
  <2>3. CASE ~chkLimited /\ chkPublished.tag # 0
    BY <1>3, <2>1, <2>3, ChkConcludesInv DEF ChkTag
  <2>4. CASE ~chkLimited /\ chkPublished.tag = 0
    BY <1>3, <2>1, <2>4, ChkConcludesInv DEF ChkTag
  <2> QED BY <2>2, <2>3, <2>4
<1> QED BY <1>1, <1>2, <1>3, ChkAskInv, ChkLeavesInv, ChkWorldInv, ChkStartInv, ChkTimeInv
        DEF ChkNextStep


-----------------------------------------------------------------------------
(* Imports. *)

ImpContent == Nat \union {ImpGone}
ImpShapeInv ==
    /\ impConf \in [ImpModules -> Nat] /\ impTarget \in [ImpModules -> Nat]
    /\ impDir \in [ImpDirs -> ImpContent] /\ impOld \in [ImpDirs -> Seq(Nat)]
    /\ impAt \in ImpSteps /\ impGen \in Nat
    /\ impTx \in SUBSET ImpDirs /\ impSaved \in SUBSET ImpDirs
    /\ impCut \in BOOLEAN /\ impCleared \in BOOLEAN /\ impStuck \in SUBSET ImpDirs

\* What has been exchanged at each step; only what is in scope is moved.
ImpOrderInv ==
    /\ impAt \in {"move certs", "put certs"} => impTx = {}
    /\ impAt = "index" => impTx = {"certs"}
    /\ impAt \in {"put certs", "index"} => ImpNeeds("certs")
    /\ impAt = "put uploads" => ImpNeeds("uploads")
    /\ impAt \in {"move uploads", "put uploads"} =>
          impTx = {d \in {"certs"} : ImpNeeds(d)}
    /\ impAt \in {"replace", "commit"} => impTx = {d \in ImpDirs : ImpNeeds(d)}
    /\ impAt \in {"undo uploads", "back uploads"} => "uploads" \in impTx
    /\ impAt \in {"undo certs", "back certs"} => impTx = {"certs"}
    /\ impAt # "idle" => \A d \in impSaved : ImpNeeds(d)

\* The merged configuration takes from the archive what the scope names.
ImpMergeInv ==
    /\ ImpRefsHold(impConf) /\ ImpRefsHold(impTarget)
    /\ impAt \notin {"idle", "commit"} =>
          \A d \in ImpDirs :
             impTarget[ImpOwner[d]] = IF ImpNeeds(d) THEN impGen ELSE impConf[ImpOwner[d]]

\* Where directory d is: out of its place between two renames; exchanged, with
\* the one it replaced beside it; or the one of the configuration.
ImpBackOf(d) == IF d = "certs" THEN "back certs" ELSE "back uploads"
ImpUndoOf(d) == IF d = "certs" THEN "undo certs" ELSE "undo uploads"
ImpAway(d) == impAt \in {ImpPutOf(d), ImpBackOf(d)}
ImpExchanged(d) == impAt # "idle" /\ d \in impTx
ImpPlaced(d) ==
    /\ impDir[d] = ImpGone <=> ImpAway(d)
    /\ ImpAway(d) \/ ImpExchanged(d) => d \in impSaved /\ impOld[d] # <<>>
    /\ ImpExchanged(d) /\ ~ImpAway(d) => impDir[d] = impGen
    /\ ~impCut => IF ImpAway(d) \/ (ImpExchanged(d) /\ impAt # "commit")
                  THEN Last(impOld[d]) = impConf[ImpOwner[d]]
                  ELSE impDir[d] = impConf[ImpOwner[d]]

\* What is true of every directory, whatever has become of a rollback: what is
\* not in its place, or has been exchanged, stands beside it.
ImpStands(d) ==
    /\ impDir[d] = ImpGone \/ ImpExchanged(d) => impOld[d] # <<>>
    /\ ImpExchanged(d) /\ ~ImpAway(d) => impDir[d] = impGen
    /\ ImpAway(d) => impDir[d] = ImpGone
ImpPlacedAll ==
    impCleared \/ \A d \in ImpDirs : ImpStands(d) /\ (d \in impStuck \/ ImpPlaced(d))

ImpInv == ImpShapeInv /\ ImpOrderInv /\ ImpMergeInv /\ ImpPlacedAll

LEMMA ImpDirFacts ==
    /\ ImpDirs = {"certs", "uploads"} /\ ImpGone \notin Nat
    /\ \A d \in ImpDirs : ImpOwner[d] \in ImpModules
BY DEF ImpDirs, ImpGone, ImpOwner, ImpModules

LEMMA ImpSequences ==
    ASSUME NEW s \in Seq(Nat), NEW n \in Nat
    PROVE  /\ Append(s, n) \in Seq(Nat) /\ Append(s, n) # <<>> /\ Last(Append(s, n)) = n
           /\ s # <<>> => Front(s) \in Seq(Nat) /\ Last(s) \in Nat
<1>1. Append(s, n) \in Seq(Nat) /\ Append(s, n) # <<>> /\ Last(Append(s, n)) = n
  BY DEF Last
<1>2. ASSUME s # <<>> PROVE Front(s) \in Seq(Nat) /\ Last(s) \in Nat
  <2>1. Len(s) \in Nat /\ Len(s) # 0
    BY <1>2
  <2> QED BY <2>1 DEF Front, Last
<1> QED BY <1>1, <1>2

\* Only one directory is out of its place.
LEMMA ImpOneAway ==
    ASSUME NEW d \in ImpDirs, NEW e \in ImpDirs, e # d, ImpAway(d)
    PROVE  ~ImpAway(e)
<1>1. CASE d = "certs"
  <2>1. e = "uploads" /\ impAt \in {"put certs", "back certs"}
    BY <1>1 DEF ImpAway, ImpPutOf, ImpBackOf, ImpDirs
  <2> QED BY <2>1 DEF ImpAway, ImpPutOf, ImpBackOf
<1>2. CASE d = "uploads"
  <2>1. e = "certs" /\ impAt \in {"put uploads", "back uploads"}
    BY <1>2 DEF ImpAway, ImpPutOf, ImpBackOf, ImpDirs
  <2> QED BY <2>1 DEF ImpAway, ImpPutOf, ImpBackOf
<1> QED BY <1>1, <1>2, ImpDirFacts

LEMMA ImpOneAwayNext ==
    ASSUME NEW d \in ImpDirs, NEW e \in ImpDirs, e # d, ImpAway(d)'
    PROVE  ~ImpAway(e)'
<1>1. CASE d = "certs"
  <2>1. e = "uploads" /\ impAt' \in {"put certs", "back certs"}
    BY <1>1 DEF ImpAway, ImpPutOf, ImpBackOf, ImpDirs
  <2> QED BY <2>1 DEF ImpAway, ImpPutOf, ImpBackOf
<1>2. CASE d = "uploads"
  <2>1. e = "certs" /\ impAt' \in {"put uploads", "back uploads"}
    BY <1>2 DEF ImpAway, ImpPutOf, ImpBackOf, ImpDirs
  <2> QED BY <2>1 DEF ImpAway, ImpPutOf, ImpBackOf
<1> QED BY <1>1, <1>2, ImpDirFacts

\* Each directory is followed on its own.
LEMMA ImpFollowed ==
    ASSUME ImpPlacedAll, impCleared => impCleared', impStuck \subseteq impStuck',
           \A d \in ImpDirs : ~impCleared' /\ ImpStands(d) => ImpStands(d)',
           \A d \in ImpDirs \ impStuck' : ~impCleared' /\ ImpPlaced(d) => ImpPlaced(d)'
    PROVE  ImpPlacedAll'
BY DEF ImpPlacedAll

LEMMA ImpInitInv == ASSUME ImpInit PROVE ImpInv
<1>1. impConf \in [ImpModules -> Nat] /\ impTarget = impConf
  BY DEF ImpInit
<1>2. ImpRefsHold(impConf)
  <2>1. \A m \in ImpHttps : m \in ImpModules
    BY ImpAssumption DEF ImpModules
  <2>2. "cert" \in ImpModules
    BY DEF ImpModules
  <2> QED BY <2>1, <2>2 DEF ImpInit, ImpRefsHold
<1>3. ImpShapeInv
  <2>1. impDir \in [ImpDirs -> ImpContent] /\ impOld \in [ImpDirs -> Seq(Nat)]
    BY DEF ImpInit, ImpContent
  <2>2. impAt \in ImpSteps
    BY DEF ImpInit, ImpSteps
  <2>3. impGen \in Nat /\ impTx \in SUBSET ImpDirs /\ impSaved \in SUBSET ImpDirs
        /\ impCut \in BOOLEAN /\ impCleared \in BOOLEAN /\ impStuck \in SUBSET ImpDirs
    BY DEF ImpInit
  <2> QED BY <1>1, <2>1, <2>2, <2>3 DEF ImpShapeInv
<1>4. ImpOrderInv
  BY DEF ImpInit, ImpOrderInv
<1>5. \A d \in ImpDirs : ImpPlaced(d) /\ ImpStands(d)
  BY ImpDirFacts DEF ImpInit, ImpPlaced, ImpStands, ImpAway, ImpExchanged, ImpPutOf, ImpBackOf,
     ImpGone
<1> QED BY <1>1, <1>2, <1>3, <1>4, <1>5 DEF ImpInit, ImpInv, ImpMergeInv, ImpPlacedAll

LEMMA ImpBeginInv == ASSUME ImpInv, ImpBegin PROVE ImpInv'
<1> USE DEF ImpInv
<1>1. PICK ticked \in ImpScopes :
        /\ ImpRefsHold(ImpMerged(ImpClosure(ticked), impGen + 1))
        /\ impScope' = ImpClosure(ticked)
        /\ impTarget' = ImpMerged(ImpClosure(ticked), impGen + 1)
  BY DEF ImpBegin
<1>2. /\ impAt = "idle" /\ impAt' = "move certs" /\ impGen' = impGen + 1
      /\ impTx' = {} /\ impSaved' = {}
      /\ UNCHANGED <<impConf, impDir, impOld, impCut, impCleared, impStuck>>
  BY DEF ImpBegin
<1>3. ImpShapeInv'
  <2>1. impTarget' \in [ImpModules -> Nat]
    BY <1>1 DEF ImpShapeInv, ImpMerged
  <2>2. impAt' \in ImpSteps
    BY <1>2 DEF ImpSteps
  <2>3. impGen' \in Nat
    <3>1. impGen \in Nat
      BY DEF ImpShapeInv
    <3>2. impGen' = impGen + 1
      BY <1>2
    <3> HIDE DEF ImpInv
    <3> QED BY ONLY <3>1, <3>2
  <2>4. impTx' \in SUBSET ImpDirs /\ impSaved' \in SUBSET ImpDirs
    BY <1>2
  <2> QED BY <1>2, <2>1, <2>2, <2>3, <2>4 DEF ImpShapeInv
<1>4. ImpOrderInv'
  BY <1>2 DEF ImpOrderInv
<1>5. ImpMergeInv'
  <2>1. \A d \in ImpDirs : impTarget'[ImpOwner[d]] =
           IF ImpOwner[d] \in impScope' THEN impGen' ELSE impConf[ImpOwner[d]]
    BY <1>1, <1>2, ImpDirFacts DEF ImpMerged
  <2> QED BY <1>1, <1>2, <2>1 DEF ImpMergeInv, ImpRefsHold, ImpNeeds
<1>6. ASSUME NEW d \in ImpDirs, ImpPlaced(d) PROVE ImpPlaced(d)'
  BY <1>2, <1>6 DEF ImpPlaced, ImpAway, ImpExchanged, ImpPutOf, ImpBackOf
<1>7. ASSUME NEW d \in ImpDirs, ImpStands(d) PROVE ImpStands(d)'
  BY <1>2, <1>7 DEF ImpStands, ImpAway, ImpExchanged, ImpPutOf, ImpBackOf
<1>8. ImpPlacedAll'
  BY <1>2, <1>6, <1>7, ImpFollowed
<1> QED BY <1>3, <1>4, <1>5, <1>8

LEMMA ImpMoveInv == ASSUME ImpInv, NEW d \in ImpDirs, ImpMove(d) PROVE ImpInv'
<1> USE DEF ImpInv
<1>1. /\ UNCHANGED <<impGen, impTarget, impScope, impCut, impCleared, impConf, impTx, impStuck>>
      /\ impAt = ImpMoveOf(d)
      /\ impAt' = IF ImpNeeds(d) THEN ImpPutOf(d) ELSE ImpNextDir(d)
  BY DEF ImpMove, ImpKeep
<1>2. \/ /\ ImpNeeds(d) /\ impDir[d] # ImpGone
         /\ impOld' = [impOld EXCEPT ![d] = Append(impOld[d], impDir[d])]
         /\ impDir' = [impDir EXCEPT ![d] = ImpGone]
         /\ impSaved' = impSaved \union {d}
      \/ /\ ~(ImpNeeds(d) /\ impDir[d] # ImpGone)
         /\ UNCHANGED <<impOld, impDir, impSaved>>
  BY DEF ImpMove
<1>3. ImpShapeInv'
  <2>1. impDir[d] # ImpGone => impDir[d] \in Nat
    BY DEF ImpShapeInv, ImpContent
  <2>2. impDir[d] # ImpGone => Append(impOld[d], impDir[d]) \in Seq(Nat)
    BY <2>1, ImpSequences DEF ImpShapeInv
  <2>3. impOld' \in [ImpDirs -> Seq(Nat)] /\ impDir' \in [ImpDirs -> ImpContent]
        /\ impSaved' \in SUBSET ImpDirs
    BY <1>2, <2>2 DEF ImpShapeInv, ImpContent
  <2>4. impAt' \in ImpSteps
    BY <1>1, ImpDirFacts DEF ImpPutOf, ImpNextDir, ImpSteps
  <2> QED BY <1>1, <2>3, <2>4 DEF ImpShapeInv
<1>4. ImpOrderInv'
  <2>1. \A e \in impSaved' : ImpNeeds(e)'
    <3>1. \A e \in impSaved : ImpNeeds(e)
      BY <1>1 DEF ImpOrderInv, ImpMoveOf
    <3>2. \A e \in impSaved' : ImpNeeds(e)
      BY <1>2, <3>1
    <3> QED BY <1>1, <3>2 DEF ImpNeeds
  <2> QED BY <1>1, <2>1, ImpDirFacts DEF ImpOrderInv, ImpMoveOf, ImpPutOf, ImpNextDir, ImpNeeds
<1>5. ImpMergeInv'
  BY <1>1, ImpDirFacts DEF ImpMergeInv, ImpRefsHold, ImpNeeds, ImpMoveOf, ImpPutOf, ImpNextDir
<1>6. ~ImpAway(d) /\ d \notin impTx
  BY <1>1, ImpDirFacts DEF ImpOrderInv, ImpMoveOf, ImpPutOf, ImpBackOf, ImpAway
<1>7. impDir[d] # ImpGone => impDir[d] \in Nat
  BY DEF ImpShapeInv, ImpContent
<1>8. (ImpStands(d) => ImpStands(d)') /\ (ImpPlaced(d) => ImpPlaced(d)')
  <2>1. CASE ImpNeeds(d) /\ impDir[d] # ImpGone
    <3>1. impOld'[d] = Append(impOld[d], impDir[d]) /\ impDir'[d] = ImpGone /\ d \in impSaved'
      BY <1>2, <2>1 DEF ImpShapeInv
    <3>2. impOld'[d] # <<>> /\ Last(impOld'[d]) = impDir[d]
      BY <1>7, <2>1, <3>1, ImpSequences DEF ImpShapeInv
    <3>3. ImpAway(d)'
      BY <1>1, <2>1 DEF ImpAway
    <3>4. ImpStands(d)'
      BY <3>1, <3>2, <3>3 DEF ImpStands
    <3>5. ASSUME ImpPlaced(d) PROVE ImpPlaced(d)'
      <4>1. ~impCut => impDir[d] = impConf[ImpOwner[d]]
        BY <1>6, <3>5 DEF ImpPlaced, ImpExchanged
      <4> QED BY <1>1, <3>1, <3>2, <3>3, <4>1 DEF ImpPlaced
    <3> QED BY <3>4, <3>5
  <2>2. CASE ImpNeeds(d) /\ impDir[d] = ImpGone
    <3>1. UNCHANGED <<impOld, impDir>> /\ ImpAway(d)'
      BY <1>1, <1>2, <2>2 DEF ImpAway
    <3>2. ~ImpPlaced(d)
      BY <1>6, <2>2 DEF ImpPlaced
    <3>3. ImpStands(d) => ImpStands(d)'
      BY <2>2, <3>1 DEF ImpStands
    <3> QED BY <3>2, <3>3
  <2>3. CASE ~ImpNeeds(d)
    <3>1. UNCHANGED <<impOld, impDir, impSaved>> /\ ~ImpAway(d)'
      BY <1>1, <1>2, <2>3, ImpDirFacts DEF ImpAway, ImpNextDir, ImpPutOf, ImpBackOf
    <3> QED BY <1>1, <1>6, <3>1 DEF ImpPlaced, ImpStands, ImpExchanged
  <2> QED BY <2>1, <2>2, <2>3
<1>9. ASSUME NEW e \in ImpDirs, e # d
      PROVE  (ImpStands(e) => ImpStands(e)') /\ (ImpPlaced(e) => ImpPlaced(e)')
  <2>1. impOld'[e] = impOld[e] /\ impDir'[e] = impDir[e] /\ (e \in impSaved' <=> e \in impSaved)
    BY <1>2, <1>9 DEF ImpShapeInv
  <2>2. /\ \/ d = "certs" /\ e = "uploads"
           \/ d = "uploads" /\ e = "certs"
        /\ impAt = ImpMoveOf(d) /\ impAt' \in {ImpPutOf(d), ImpNextDir(d)}
    BY <1>1, <1>9 DEF ImpDirs
  <2>3. ~ImpAway(e) /\ impAt \notin {"idle", "commit"}
    BY <2>2 DEF ImpAway, ImpPutOf, ImpBackOf, ImpMoveOf
  <2>4. ~ImpAway(e)' /\ impAt' \notin {"idle", "commit"}
    BY <2>2 DEF ImpAway, ImpNextDir, ImpPutOf, ImpBackOf
  <2> QED BY <1>1, <2>1, <2>3, <2>4 DEF ImpPlaced, ImpStands, ImpExchanged
<1>10. ImpPlacedAll'
  BY <1>1, <1>8, <1>9, ImpFollowed
<1> QED BY <1>3, <1>4, <1>5, <1>10

\* A step that only goes on, or gives up: the directories stay where they are.
\* It goes on from where none is away, to where none is.
LEMMA ImpGoesOn ==
    ASSUME ImpInv, impAt' \in ImpSteps, impAt \notin {"idle", "commit"}, impAt' # "commit",
           UNCHANGED <<impDir, impOld, impGen, impTx, impSaved, impCut, impCleared, impConf,
                       impStuck>>,
           \A d \in ImpDirs : ~ImpAway(d) /\ ~ImpAway(d)',
           impAt' = "idle" => impTx = {}
    PROVE  ImpPlacedAll'
<1>1. ASSUME NEW d \in ImpDirs
      PROVE  (ImpStands(d) => ImpStands(d)') /\ (ImpPlaced(d) => ImpPlaced(d)')
  BY DEF ImpPlaced, ImpStands, ImpExchanged
<1> QED BY <1>1, ImpFollowed DEF ImpInv

\* To give up is to put back what was exchanged.
LEMMA ImpUndoes ==
    ASSUME NEW tx \in SUBSET ImpDirs
    PROVE  /\ ImpUndoFrom(tx) \in ImpSteps \ {"commit"}
           /\ ImpUndoFrom(tx) \in {"idle", "undo uploads", "undo certs"}
           /\ ImpUndoFrom(tx) = "idle" <=> tx = {}
           /\ ImpUndoFrom(tx) = "undo uploads" => "uploads" \in tx
           /\ ImpUndoFrom(tx) = "undo certs" => tx = {"certs"}
BY DEF ImpUndoFrom, ImpSteps, ImpDirs

LEMMA ImpMoveFailsInv ==
    ASSUME ImpInv, NEW d \in ImpDirs, ImpMoveFails(d)
    PROVE  ImpInv'
<1> USE DEF ImpInv
<1>1. /\ UNCHANGED <<impGen, impTarget, impScope, impCut, impCleared, impConf, impTx,
                     impSaved, impDir, impOld, impStuck>>
      /\ impAt = ImpMoveOf(d) /\ impAt' = ImpUndoFrom(impTx)
  BY DEF ImpMoveFails, ImpStay, ImpKeep
<1>2. /\ impAt' \in {"idle", "undo uploads", "undo certs"} /\ impAt' \in ImpSteps
      /\ impAt' = "idle" => impTx = {}
      /\ impAt' = "undo uploads" => "uploads" \in impTx
      /\ impAt' = "undo certs" => impTx = {"certs"}
  BY <1>1, ImpUndoes DEF ImpShapeInv
<1>3. impAt \in {"move certs", "move uploads"}
  BY <1>1 DEF ImpMoveOf
<1>4. ImpShapeInv'
  BY <1>1, <1>2 DEF ImpShapeInv
<1>5. ImpOrderInv'
  BY <1>1, <1>2, <1>3 DEF ImpOrderInv, ImpNeeds
<1>6. ImpMergeInv'
  BY <1>1, <1>3 DEF ImpMergeInv, ImpRefsHold, ImpNeeds
<1>7. \A e \in ImpDirs : ~ImpAway(e) /\ ~ImpAway(e)'
  BY <1>2, <1>3 DEF ImpAway, ImpPutOf, ImpBackOf
<1>8. ImpPlacedAll'
  BY <1>1, <1>2, <1>3, <1>7, ImpGoesOn
<1> QED BY <1>4, <1>5, <1>6, <1>8

LEMMA ImpIndexInv == ASSUME ImpInv, ImpIndex PROVE ImpInv'
<1> USE DEF ImpInv
<1>1. /\ UNCHANGED <<impGen, impTarget, impScope, impCut, impCleared, impConf, impTx,
                     impSaved, impDir, impOld, impStuck>>
      /\ impAt = "index" /\ impAt' \in {"move uploads", "undo certs"}
  BY DEF ImpIndex, ImpStay, ImpKeep
<1>2. impAt' \in ImpSteps
  BY <1>1 DEF ImpSteps
<1>3. ImpShapeInv'
  BY <1>1, <1>2 DEF ImpShapeInv
<1>4. ImpOrderInv'
  BY <1>1 DEF ImpOrderInv, ImpNeeds
<1>5. ImpMergeInv'
  BY <1>1 DEF ImpMergeInv, ImpRefsHold, ImpNeeds
<1>6. \A e \in ImpDirs : ~ImpAway(e) /\ ~ImpAway(e)'
  BY <1>1 DEF ImpAway, ImpPutOf, ImpBackOf
<1>7. ImpPlacedAll'
  BY <1>1, <1>2, <1>6, ImpGoesOn
<1> QED BY <1>3, <1>4, <1>5, <1>7

LEMMA ImpPutInv == ASSUME ImpInv, NEW d \in ImpDirs, ImpPut(d) PROVE ImpInv'
<1> USE DEF ImpInv
<1>1. /\ UNCHANGED <<impGen, impTarget, impScope, impCut, impCleared, impConf, impSaved, impOld,
                     impStuck>>
      /\ impDir' = [impDir EXCEPT ![d] = impGen] /\ impTx' = impTx \union {d}
      /\ impAt = ImpPutOf(d) /\ impAt' = IF d = "certs" THEN "index" ELSE "replace"
  BY DEF ImpPut, ImpStay, ImpKeep
<1>2. \/ /\ d = "certs" /\ impAt = "put certs" /\ impAt' = "index"
      \/ /\ d = "uploads" /\ impAt = "put uploads" /\ impAt' = "replace"
  BY <1>1 DEF ImpDirs, ImpPutOf
<1>3. impGen \in Nat /\ impAt' \in ImpSteps
  BY <1>2 DEF ImpShapeInv, ImpSteps
<1>4. ImpShapeInv'
  BY <1>1, <1>3 DEF ImpShapeInv, ImpContent
<1>5. ImpOrderInv'
  BY <1>1, <1>2 DEF ImpOrderInv, ImpNeeds, ImpDirs
<1>6. ImpMergeInv'
  BY <1>1, <1>2 DEF ImpMergeInv, ImpRefsHold, ImpNeeds
<1>7. impDir'[d] = impGen /\ \A e \in ImpDirs \ {d} : impDir'[e] = impDir[e]
  BY <1>1 DEF ImpShapeInv
<1>8. ImpAway(d) /\ \A e \in ImpDirs : ~ImpAway(e)'
  BY <1>1, <1>2 DEF ImpAway, ImpPutOf, ImpBackOf
<1>9. \A e \in ImpDirs \ {d} : ~ImpAway(e)
  BY <1>8, ImpOneAway
<1>10. (ImpStands(d) => ImpStands(d)') /\ (ImpPlaced(d) => ImpPlaced(d)')
  <2>1. impGen # ImpGone /\ impAt' # "commit"
    BY <1>2, <1>3, ImpDirFacts
  <2>2. ImpStands(d) => ImpStands(d)'
    BY <1>1, <1>7, <1>8, <2>1 DEF ImpStands
  <2>3. ImpPlaced(d) => ImpPlaced(d)'
    BY <1>1, <1>2, <1>7, <1>8, <2>1 DEF ImpPlaced, ImpExchanged
  <2> QED BY <2>2, <2>3
<1>11. ASSUME NEW e \in ImpDirs, e # d
       PROVE  (ImpStands(e) => ImpStands(e)') /\ (ImpPlaced(e) => ImpPlaced(e)')
  BY <1>1, <1>2, <1>7, <1>8, <1>9, <1>11 DEF ImpPlaced, ImpStands, ImpExchanged
<1>12. ImpPlacedAll'
  BY <1>1, <1>10, <1>11, ImpFollowed
<1> QED BY <1>4, <1>5, <1>6, <1>12

LEMMA ImpPutFailsInv == ASSUME ImpInv, NEW d \in ImpDirs, ImpPutFails(d) PROVE ImpInv'
<1> USE DEF ImpInv
<1>1. /\ UNCHANGED <<impGen, impTarget, impScope, impCut, impCleared, impConf, impSaved, impTx>>
      /\ impAt = ImpPutOf(d) /\ impAt' = ImpUndoFrom(impTx)
  BY DEF ImpPutFails, ImpKeep
<1>2. \/ /\ d \in impSaved /\ impOld[d] # <<>>
         /\ impDir' = [impDir EXCEPT ![d] = Last(impOld[d])]
         /\ impOld' = [impOld EXCEPT ![d] = Front(impOld[d])]
         /\ UNCHANGED impStuck
      \/ /\ impStuck' = IF d \in impSaved THEN impStuck \union {d} ELSE impStuck
         /\ UNCHANGED <<impDir, impOld>>
  BY DEF ImpPutFails
<1>3. /\ impAt' \in {"idle", "undo uploads", "undo certs"} /\ impAt' \in ImpSteps
      /\ impAt' = "idle" => impTx = {}
      /\ impAt' = "undo uploads" => "uploads" \in impTx
      /\ impAt' = "undo certs" => impTx = {"certs"}
  BY <1>1, ImpUndoes DEF ImpShapeInv
<1>4. impAt \in {"put certs", "put uploads"} /\ d \notin impTx
  BY <1>1 DEF ImpPutOf, ImpOrderInv, ImpDirs
<1>5. impOld[d] # <<>> => Front(impOld[d]) \in Seq(Nat) /\ Last(impOld[d]) \in Nat
  <2>1. impOld[d] \in Seq(Nat) /\ 0 \in Nat
    BY DEF ImpShapeInv
  <2> QED BY <2>1, ImpSequences
<1>6. ImpShapeInv'
  <2>1. impOld' \in [ImpDirs -> Seq(Nat)] /\ impDir' \in [ImpDirs -> ImpContent]
    BY <1>2, <1>5 DEF ImpShapeInv, ImpContent
  <2>2. impStuck' \in SUBSET ImpDirs
    BY <1>2 DEF ImpShapeInv
  <2> QED BY <1>1, <1>3, <2>1, <2>2 DEF ImpShapeInv
<1>7. ImpOrderInv'
  BY <1>1, <1>3, <1>4 DEF ImpOrderInv, ImpNeeds
<1>8. ImpMergeInv'
  BY <1>1, <1>4 DEF ImpMergeInv, ImpRefsHold, ImpNeeds
<1>9. ImpAway(d) /\ \A e \in ImpDirs : ~ImpAway(e)'
  BY <1>1, <1>3 DEF ImpAway, ImpPutOf, ImpBackOf
<1>10. \A e \in ImpDirs \ {d} : ~ImpAway(e)
  BY <1>9, ImpOneAway
<1>11. ImpStands(d) => ImpStands(d)'
  <2>1. CASE impDir' = [impDir EXCEPT ![d] = Last(impOld[d])] /\ impOld[d] # <<>>
    <3>1. impDir'[d] # ImpGone
      BY <1>5, <2>1, ImpDirFacts DEF ImpShapeInv
    <3> QED BY <1>1, <1>4, <1>9, <3>1 DEF ImpStands, ImpExchanged
  <2>2. CASE UNCHANGED <<impDir, impOld>>
    BY <1>1, <1>4, <1>9, <2>2 DEF ImpStands, ImpExchanged
  <2> QED BY <1>2, <2>1, <2>2
<1>12. ASSUME d \notin impStuck', ImpPlaced(d) PROVE ImpPlaced(d)'
  <2>1. d \in impSaved /\ impOld[d] # <<>> /\ (~impCut => Last(impOld[d]) = impConf[ImpOwner[d]])
    BY <1>9, <1>12 DEF ImpPlaced
  <2>2. impDir'[d] = Last(impOld[d]) /\ impDir'[d] # ImpGone
    BY <1>2, <1>5, <1>12, <2>1, ImpDirFacts DEF ImpShapeInv
  <2> QED BY <1>1, <1>4, <1>9, <2>1, <2>2 DEF ImpPlaced, ImpExchanged
<1>13. ASSUME NEW e \in ImpDirs, e # d
       PROVE  (ImpStands(e) => ImpStands(e)') /\ (ImpPlaced(e) => ImpPlaced(e)')
  <2>1. impDir'[e] = impDir[e] /\ impOld'[e] = impOld[e]
    BY <1>2, <1>13 DEF ImpShapeInv
  <2> QED BY <1>1, <1>3, <1>4, <1>9, <1>10, <1>13, <2>1 DEF ImpPlaced, ImpStands, ImpExchanged
<1>14. impStuck \subseteq impStuck'
  BY <1>2
<1>15. ImpPlacedAll'
  BY <1>1, <1>11, <1>12, <1>13, <1>14, ImpFollowed
<1> QED BY <1>6, <1>7, <1>8, <1>15

LEMMA ImpReplaceInv == ASSUME ImpInv, ImpReplace PROVE ImpInv'
<1> USE DEF ImpInv
<1>1. /\ UNCHANGED <<impGen, impTarget, impScope, impCut, impCleared, impTx, impSaved, impDir,
                     impOld, impStuck>>
      /\ impAt = "replace"
  BY DEF ImpReplace, ImpStay, ImpKeep
<1>2. CASE impConf' = impTarget /\ impAt' = "commit"
  <2>1. impAt' \in ImpSteps
    BY <1>2 DEF ImpSteps
  <2>2. ImpShapeInv' /\ ImpMergeInv'
    BY <1>1, <1>2, <2>1 DEF ImpShapeInv, ImpMergeInv, ImpRefsHold
  <2>3. ImpOrderInv'
    BY <1>1, <1>2 DEF ImpOrderInv, ImpNeeds
  <2>4. ASSUME NEW d \in ImpDirs, ImpPlaced(d) PROVE ImpPlaced(d)'
    <3>1. ~ImpAway(d) /\ ~ImpAway(d)'
      BY <1>1, <1>2 DEF ImpAway, ImpPutOf, ImpBackOf
    <3>2. d \in impTx <=> ImpNeeds(d)
      BY <1>1, <2>4 DEF ImpOrderInv
    <3>3. impConf'[ImpOwner[d]] = IF ImpNeeds(d) THEN impGen ELSE impConf[ImpOwner[d]]
      BY <1>1, <1>2, <2>4 DEF ImpMergeInv
    <3> QED BY <1>1, <1>2, <2>4, <3>1, <3>2, <3>3 DEF ImpPlaced, ImpExchanged
  <2>5. ASSUME NEW d \in ImpDirs, ImpStands(d) PROVE ImpStands(d)'
    BY <1>1, <1>2, <2>5 DEF ImpStands, ImpExchanged, ImpAway, ImpPutOf, ImpBackOf
  <2>6. ImpPlacedAll'
    BY <1>1, <2>4, <2>5, ImpFollowed
  <2> QED BY <2>2, <2>3, <2>6
<1>3. CASE UNCHANGED impConf /\ impAt' = ImpUndoFrom(impTx)
  <2>1. /\ impAt' \in {"idle", "undo uploads", "undo certs"} /\ impAt' \in ImpSteps
        /\ impAt' = "idle" => impTx = {}
        /\ impAt' = "undo uploads" => "uploads" \in impTx
        /\ impAt' = "undo certs" => impTx = {"certs"}
    BY <1>3, ImpUndoes DEF ImpShapeInv
  <2>2. ImpShapeInv' /\ ImpMergeInv'
    BY <1>1, <1>3, <2>1 DEF ImpShapeInv, ImpMergeInv, ImpRefsHold, ImpNeeds
  <2>3. ImpOrderInv'
    BY <1>1, <2>1 DEF ImpOrderInv, ImpNeeds
  <2>4. \A e \in ImpDirs : ~ImpAway(e) /\ ~ImpAway(e)'
    BY <1>1, <2>1 DEF ImpAway, ImpPutOf, ImpBackOf
  <2>5. ImpPlacedAll'
    BY <1>1, <1>3, <2>1, <2>4, ImpGoesOn
  <2> QED BY <2>2, <2>3, <2>5
<1> QED BY <1>2, <1>3 DEF ImpReplace

LEMMA ImpCommitInv == ASSUME ImpInv, ImpCommit PROVE ImpInv'
<1> USE DEF ImpInv
<1>1. /\ UNCHANGED <<impGen, impTarget, impScope, impCut, impCleared, impTx, impSaved, impDir,
                     impConf, impStuck>>
      /\ impAt = "commit" /\ impAt' = "idle"
  BY DEF ImpCommit, ImpStay, ImpKeep
<1>2. PICK kept \in SUBSET impSaved :
        impOld' = [d \in ImpDirs |-> IF d \in impSaved \ kept /\ impOld[d] # <<>>
                                     THEN Front(impOld[d]) ELSE impOld[d]]
  BY DEF ImpCommit
<1>3. impOld' \in [ImpDirs -> Seq(Nat)] /\ impAt' \in ImpSteps
  <2>1. \A d \in ImpDirs : impOld[d] \in Seq(Nat) /\ (impOld[d] # <<>> => Front(impOld[d]) \in Seq(Nat))
    BY ImpSequences DEF ImpShapeInv
  <2> QED BY <1>1, <1>2, <2>1 DEF ImpSteps
<1>4. ImpShapeInv'
  BY <1>1, <1>3 DEF ImpShapeInv
<1>5. ImpOrderInv' /\ ImpMergeInv'
  BY <1>1 DEF ImpOrderInv, ImpMergeInv, ImpRefsHold
<1>6. ASSUME NEW d \in ImpDirs, ImpPlaced(d) PROVE ImpPlaced(d)'
  <2>1. ~ImpAway(d) /\ ~ImpAway(d)'
    BY <1>1 DEF ImpAway, ImpPutOf, ImpBackOf
  <2> QED BY <1>1, <1>6, <2>1 DEF ImpPlaced, ImpExchanged
<1>7. ASSUME NEW d \in ImpDirs, ImpStands(d) PROVE ImpStands(d)'
  <2>1. ~ImpAway(d) /\ ~ImpAway(d)' /\ ~ImpExchanged(d)'
    BY <1>1 DEF ImpAway, ImpExchanged, ImpPutOf, ImpBackOf
  <2>2. ASSUME impDir[d] = ImpGone PROVE impOld'[d] = impOld[d]
    <3>1. impGen # ImpGone
      BY ImpDirFacts DEF ImpShapeInv
    <3>2. d \notin impTx
      BY <1>1, <1>7, <2>1, <2>2, <3>1 DEF ImpStands, ImpExchanged
    <3>3. d \notin impSaved
      BY <1>1, <3>2 DEF ImpOrderInv
    <3> QED BY <1>2, <3>3
  <2> QED BY <1>1, <1>7, <2>1, <2>2 DEF ImpStands
<1>8. ImpPlacedAll'
  BY <1>1, <1>6, <1>7, ImpFollowed
<1> QED BY <1>4, <1>5, <1>8

LEMMA ImpUndoInv == ASSUME ImpInv, NEW d \in ImpDirs, ImpUndo(d) PROVE ImpInv'
<1> USE DEF ImpInv
<1>1. /\ UNCHANGED <<impGen, impTarget, impScope, impCut, impCleared, impTx, impSaved, impConf,
                     impOld, impStuck>>
      /\ impDir' = [impDir EXCEPT ![d] = ImpGone]
      /\ impAt = ImpUndoOf(d) /\ impAt' = ImpBackOf(d)
  BY DEF ImpUndo, ImpStay, ImpKeep, ImpUndoOf, ImpBackOf
<1>2. impAt \in {"undo certs", "undo uploads"} /\ impAt' \in {"back certs", "back uploads"}
  BY <1>1 DEF ImpUndoOf, ImpBackOf
<1>3. impAt' \in ImpSteps
  BY <1>2 DEF ImpSteps
<1>4. ImpShapeInv'
  BY <1>1, <1>3 DEF ImpShapeInv, ImpContent
<1>5. d \in impTx /\ ImpOrderInv'
  BY <1>1 DEF ImpOrderInv, ImpUndoOf, ImpBackOf, ImpDirs, ImpNeeds
<1>6. ImpMergeInv'
  BY <1>1, <1>2 DEF ImpMergeInv, ImpRefsHold, ImpNeeds
<1>7. impDir'[d] = ImpGone /\ \A e \in ImpDirs \ {d} : impDir'[e] = impDir[e]
  BY <1>1 DEF ImpShapeInv
<1>8. ImpAway(d)' /\ \A e \in ImpDirs : ~ImpAway(e)
  BY <1>1, <1>2 DEF ImpAway, ImpPutOf, ImpBackOf
<1>9. \A e \in ImpDirs \ {d} : ~ImpAway(e)'
  BY <1>8, ImpOneAwayNext
<1>10. (ImpStands(d) => ImpStands(d)') /\ (ImpPlaced(d) => ImpPlaced(d)')
  BY <1>1, <1>2, <1>5, <1>7, <1>8 DEF ImpPlaced, ImpStands, ImpExchanged
<1>11. ASSUME NEW e \in ImpDirs, e # d
       PROVE  (ImpStands(e) => ImpStands(e)') /\ (ImpPlaced(e) => ImpPlaced(e)')
  BY <1>1, <1>2, <1>7, <1>8, <1>9, <1>11 DEF ImpPlaced, ImpStands, ImpExchanged
<1>12. ImpPlacedAll'
  BY <1>1, <1>10, <1>11, ImpFollowed
<1> QED BY <1>4, <1>5, <1>6, <1>12

LEMMA ImpBackInv == ASSUME ImpInv, NEW d \in ImpDirs, ImpBack(d) PROVE ImpInv'
<1> USE DEF ImpInv
<1>1. /\ UNCHANGED <<impGen, impTarget, impScope, impCut, impCleared, impSaved, impConf, impStuck>>
      /\ impTx' = impTx \ {d}
      /\ impAt = ImpBackOf(d) /\ impAt' = ImpUndoFrom(impTx')
  BY DEF ImpBack, ImpStay, ImpKeep, ImpBackOf
<1>2. \/ /\ d \in impSaved /\ impOld[d] # <<>>
         /\ impDir' = [impDir EXCEPT ![d] = Last(impOld[d])]
         /\ impOld' = [impOld EXCEPT ![d] = Front(impOld[d])]
      \/ /\ ~(d \in impSaved /\ impOld[d] # <<>>)
         /\ impDir' = [impDir EXCEPT ![d] = IF d \in impSaved THEN impGen ELSE ImpGone]
         /\ UNCHANGED impOld
  BY DEF ImpBack
<1>3. /\ impTx' \in SUBSET ImpDirs
      /\ impAt' \in {"idle", "undo uploads", "undo certs"} /\ impAt' \in ImpSteps
      /\ impAt' = "idle" => impTx' = {}
      /\ impAt' = "undo uploads" => "uploads" \in impTx'
      /\ impAt' = "undo certs" => impTx' = {"certs"}
  <2>1. impTx' \in SUBSET ImpDirs
    BY <1>1 DEF ImpShapeInv
  <2> HIDE DEF ImpInv
  <2> QED BY <1>1, <2>1, ImpUndoes
<1>4. impAt \in {"back certs", "back uploads"} /\ d \in impTx
  BY <1>1 DEF ImpBackOf, ImpOrderInv, ImpDirs
<1>5. impOld[d] # <<>> => Front(impOld[d]) \in Seq(Nat) /\ Last(impOld[d]) \in Nat
  <2>1. impOld[d] \in Seq(Nat) /\ 0 \in Nat
    BY DEF ImpShapeInv
  <2> QED BY <2>1, ImpSequences
<1>6. ImpShapeInv'
  <2>1. impOld' \in [ImpDirs -> Seq(Nat)] /\ impDir' \in [ImpDirs -> ImpContent]
    BY <1>2, <1>5 DEF ImpShapeInv, ImpContent
  <2> QED BY <1>1, <1>3, <2>1 DEF ImpShapeInv
<1>7. ImpOrderInv'
  BY <1>1, <1>3, <1>4 DEF ImpOrderInv, ImpNeeds
<1>8. ImpMergeInv'
  BY <1>1, <1>4 DEF ImpMergeInv, ImpRefsHold, ImpNeeds
<1>9. ImpAway(d) /\ d \notin impTx' /\ \A e \in ImpDirs : ~ImpAway(e)'
  BY <1>1, <1>3 DEF ImpAway, ImpPutOf, ImpBackOf
<1>10. \A e \in ImpDirs \ {d} : ~ImpAway(e)
  BY <1>9, ImpOneAway
<1>11. ASSUME ImpStands(d) PROVE ImpStands(d)'
  <2>1. impOld[d] # <<>> /\ ~ImpExchanged(d)'
    BY <1>4, <1>9, <1>11 DEF ImpStands, ImpExchanged
  <2>2. CASE d \in impSaved
    <3>1. impDir'[d] # ImpGone
      BY <1>2, <1>5, <2>1, <2>2, ImpDirFacts DEF ImpShapeInv
    <3> QED BY <1>9, <2>1, <3>1 DEF ImpStands
  <2>3. CASE d \notin impSaved
    BY <1>2, <1>9, <2>1, <2>3 DEF ImpStands
  <2> QED BY <2>2, <2>3
<1>12. ASSUME ImpPlaced(d) PROVE ImpPlaced(d)'
  <2>1. d \in impSaved /\ impOld[d] # <<>> /\ (~impCut => Last(impOld[d]) = impConf[ImpOwner[d]])
    BY <1>9, <1>12 DEF ImpPlaced
  <2>2. impDir'[d] = Last(impOld[d]) /\ impDir'[d] # ImpGone
    BY <1>2, <1>5, <2>1, ImpDirFacts DEF ImpShapeInv
  <2> QED BY <1>1, <1>9, <2>1, <2>2 DEF ImpPlaced, ImpExchanged
<1>13. ASSUME NEW e \in ImpDirs, e # d
       PROVE  (ImpStands(e) => ImpStands(e)') /\ (ImpPlaced(e) => ImpPlaced(e)')
  <2>1. impDir'[e] = impDir[e] /\ impOld'[e] = impOld[e]
    BY <1>2, <1>13 DEF ImpShapeInv
  <2>2. (e \in impTx' <=> e \in impTx) /\ impAt \notin {"idle", "commit"} /\ impAt' # "commit"
        /\ (impAt' = "idle" => e \notin impTx)
    BY <1>1, <1>3, <1>4, <1>13
  <2> QED BY <1>1, <1>9, <1>10, <1>13, <2>1, <2>2 DEF ImpPlaced, ImpStands, ImpExchanged
<1>14. ImpPlacedAll'
  BY <1>1, <1>11, <1>12, <1>13, ImpFollowed
<1> QED BY <1>6, <1>7, <1>8, <1>14

\* A directory given up leaves the transaction; the other is where it was.
LEMMA ImpGivenUpInv ==
    ASSUME ImpInv, NEW d \in ImpDirs, ImpGivenUp(d),
           impAt \in {ImpUndoOf(d), ImpBackOf(d)},
           impDir' \in [ImpDirs -> ImpContent],
           \A e \in ImpDirs \ {d} : impDir'[e] = impDir[e]
    PROVE  ImpInv'
<1> USE DEF ImpInv
<1>1. /\ UNCHANGED <<impGen, impTarget, impScope, impCut, impCleared, impSaved, impConf, impOld>>
      /\ impTx' = impTx \ {d} /\ impAt' = ImpUndoFrom(impTx')
      /\ impStuck' = impStuck \union {d}
  BY DEF ImpGivenUp, ImpKeep
<1>2. /\ impTx' \in SUBSET ImpDirs
      /\ impAt' \in {"idle", "undo uploads", "undo certs"} /\ impAt' \in ImpSteps
      /\ impAt' = "idle" => impTx' = {}
      /\ impAt' = "undo uploads" => "uploads" \in impTx'
      /\ impAt' = "undo certs" => impTx' = {"certs"}
  <2>1. impTx' \in SUBSET ImpDirs
    BY <1>1 DEF ImpShapeInv
  <2> HIDE DEF ImpInv
  <2> QED BY <1>1, <2>1, ImpUndoes
<1>3. /\ impAt \in {"undo certs", "undo uploads", "back certs", "back uploads"}
      /\ d \in impTx /\ \A e \in ImpDirs \ {d} : ~ImpAway(e)
  BY DEF ImpUndoOf, ImpBackOf, ImpPutOf, ImpAway, ImpOrderInv, ImpDirs
<1>4. ImpShapeInv'
  BY <1>1, <1>2 DEF ImpShapeInv
<1>5. ImpOrderInv'
  BY <1>1, <1>2, <1>3 DEF ImpOrderInv, ImpNeeds
<1>6. ImpMergeInv'
  BY <1>1, <1>3 DEF ImpMergeInv, ImpRefsHold, ImpNeeds
<1>7. \A e \in ImpDirs : ~ImpAway(e)'
  BY <1>2 DEF ImpAway, ImpPutOf, ImpBackOf
<1>8. ImpStands(d) => ImpStands(d)'
  BY <1>1, <1>3, <1>7 DEF ImpStands, ImpExchanged
<1>9. ASSUME NEW e \in ImpDirs, e # d
      PROVE  (ImpStands(e) => ImpStands(e)') /\ (ImpPlaced(e) => ImpPlaced(e)')
  <2>1. (e \in impTx' <=> e \in impTx) /\ impAt \notin {"idle", "commit"} /\ impAt' # "commit"
        /\ (impAt' = "idle" => e \notin impTx)
    BY <1>1, <1>2, <1>3, <1>9
  <2> QED BY <1>1, <1>3, <1>7, <1>9, <2>1 DEF ImpPlaced, ImpStands, ImpExchanged
<1>10. ImpPlacedAll'
  BY <1>1, <1>8, <1>9, ImpFollowed
<1> QED BY <1>4, <1>5, <1>6, <1>10

LEMMA ImpUndoFailsInv == ASSUME ImpInv, NEW d \in ImpDirs, ImpUndoFails(d) PROVE ImpInv'
<1>1. ImpGivenUp(d) /\ UNCHANGED impDir /\ impAt = ImpUndoOf(d)
  BY DEF ImpUndoFails, ImpUndoOf
<1>2. impDir' \in [ImpDirs -> ImpContent]
  BY <1>1 DEF ImpInv, ImpShapeInv
<1> QED BY <1>1, <1>2, ImpGivenUpInv

LEMMA ImpBackFailsInv == ASSUME ImpInv, NEW d \in ImpDirs, ImpBackFails(d) PROVE ImpInv'
<1>1. PICK left \in {impGen, ImpGone} :
        ImpGivenUp(d) /\ impDir' = [impDir EXCEPT ![d] = left] /\ impAt = ImpBackOf(d)
  BY DEF ImpBackFails, ImpBackOf
<1>2. impDir \in [ImpDirs -> ImpContent] /\ left \in ImpContent
  BY DEF ImpInv, ImpShapeInv, ImpContent
<1>3. impDir' \in [ImpDirs -> ImpContent] /\ \A e \in ImpDirs \ {d} : impDir'[e] = impDir[e]
  BY <1>1, <1>2
<1> QED BY <1>1, <1>3, ImpGivenUpInv

LEMMA ImpCleanupInv == ASSUME ImpInv, NEW d \in ImpDirs, ImpCleanup(d) PROVE ImpInv'
<1> USE DEF ImpInv
<1>1. /\ impOld' = [impOld EXCEPT ![d] = <<>>]
      /\ impCleared' = (impCleared \/ impAt # "idle" \/ impDir[d] = ImpGone)
      /\ UNCHANGED <<impConf, impDir, impAt, impGen, impTarget, impScope, impTx, impSaved, impCut,
                     impStuck>>
  BY DEF ImpCleanup
<1>2. impOld' \in [ImpDirs -> Seq(Nat)] /\ impCleared' \in BOOLEAN
  BY <1>1 DEF ImpShapeInv
<1>3. ImpShapeInv'
  BY <1>1, <1>2 DEF ImpShapeInv
<1>4. ImpOrderInv' /\ ImpMergeInv'
  BY <1>1 DEF ImpOrderInv, ImpMergeInv, ImpRefsHold, ImpNeeds
<1>5. ASSUME ~impCleared', NEW e \in ImpDirs
      PROVE  (ImpStands(e) => ImpStands(e)') /\ (ImpPlaced(e) => ImpPlaced(e)')
  <2>1. impAt = "idle" /\ ~ImpAway(e) /\ ~ImpExchanged(e) /\ (e = d => impDir[e] # ImpGone)
    BY <1>1, <1>5 DEF ImpAway, ImpExchanged, ImpPutOf, ImpBackOf
  <2>2. e # d => impOld'[e] = impOld[e]
    BY <1>1 DEF ImpShapeInv
  <2> QED BY <1>1, <1>5, <2>1, <2>2 DEF ImpPlaced, ImpStands, ImpExchanged, ImpAway
<1>6. ImpPlacedAll'
  BY <1>1, <1>5, ImpFollowed
<1> QED BY <1>3, <1>4, <1>6

LEMMA ImpCrashInv == ASSUME ImpInv, ImpCrash PROVE ImpInv'
<1> USE DEF ImpInv
<1>1. /\ impDir' = [d \in ImpDirs |-> ImpReclaimed(d).dir]
      /\ impOld' = [d \in ImpDirs |-> ImpReclaimed(d).old]
      /\ impAt' = "idle"
      /\ impCut' = (impCut \/ (impTx # {} /\ impAt \notin {"idle", "commit"}))
      /\ UNCHANGED <<impConf, impGen, impTarget, impScope, impTx, impSaved, impCleared, impStuck>>
  BY DEF ImpCrash
<1>2. ASSUME NEW d \in ImpDirs
      PROVE  /\ ImpReclaimed(d).dir \in ImpContent /\ ImpReclaimed(d).old \in Seq(Nat)
             /\ impDir[d] = ImpGone /\ impOld[d] # <<>> =>
                   ImpReclaimed(d).dir = Last(impOld[d]) /\ ImpReclaimed(d).dir # ImpGone
             /\ impDir[d] # ImpGone => ImpReclaimed(d).dir = impDir[d]
  <2>1. impDir[d] \in ImpContent /\ impOld[d] \in Seq(Nat)
    BY DEF ImpShapeInv
  <2>2. impOld[d] # <<>> => Front(impOld[d]) \in Seq(Nat) /\ Last(impOld[d]) \in Nat
    BY <2>1, ImpSequences
  <2> QED BY <2>1, <2>2, ImpDirFacts DEF ImpReclaimed, ImpContent
<1>3. ImpShapeInv'
  <2>1. impAt' \in ImpSteps /\ impCut' \in BOOLEAN
    BY <1>1 DEF ImpSteps
  <2>2. impDir' \in [ImpDirs -> ImpContent] /\ impOld' \in [ImpDirs -> Seq(Nat)]
    BY <1>1, <1>2
  <2> QED BY <1>1, <2>1, <2>2 DEF ImpShapeInv
<1>4. ImpOrderInv' /\ ImpMergeInv'
  BY <1>1 DEF ImpOrderInv, ImpMergeInv, ImpRefsHold
<1>5. ASSUME NEW d \in ImpDirs, ImpPlaced(d) PROVE ImpPlaced(d)'
  <2>1. ~ImpAway(d)' /\ impDir'[d] = ImpReclaimed(d).dir
    BY <1>1, <1>5 DEF ImpAway, ImpPutOf, ImpBackOf
  <2>2. CASE ImpAway(d)
    <3>1. impDir'[d] = Last(impOld[d]) /\ impDir'[d] # ImpGone
          /\ (~impCut => Last(impOld[d]) = impConf[ImpOwner[d]])
      BY <1>2, <1>5, <2>1, <2>2 DEF ImpPlaced
    <3> QED BY <1>1, <2>1, <3>1 DEF ImpPlaced, ImpExchanged
  <2>3. CASE ~ImpAway(d)
    <3>1. impDir'[d] = impDir[d] /\ impDir'[d] # ImpGone
      BY <1>2, <1>5, <2>1, <2>3 DEF ImpPlaced
    <3>2. ~impCut' => impDir[d] = impConf[ImpOwner[d]]
      BY <1>1, <1>5, <2>3 DEF ImpPlaced, ImpExchanged
    <3> QED BY <1>1, <2>1, <3>1, <3>2 DEF ImpPlaced, ImpExchanged
  <2> QED BY <2>2, <2>3
<1>6. ASSUME NEW d \in ImpDirs, ImpStands(d) PROVE ImpStands(d)'
  <2>1. ~ImpAway(d)' /\ ~ImpExchanged(d)' /\ impDir'[d] = ImpReclaimed(d).dir
    BY <1>1, <1>6 DEF ImpAway, ImpExchanged, ImpPutOf, ImpBackOf
  <2>2. ImpReclaimed(d).dir # ImpGone
    BY <1>2, <1>6 DEF ImpStands
  <2> QED BY <2>1, <2>2 DEF ImpStands
<1>7. ImpPlacedAll'
  BY <1>1, <1>5, <1>6, ImpFollowed
<1> QED BY <1>3, <1>4, <1>7

LEMMA ImpStepInv == ASSUME ImpInv, [ImpNext]_impVars PROVE ImpInv'
<1>1. CASE UNCHANGED impVars
  <2>1. ImpShapeInv' /\ ImpOrderInv' /\ ImpMergeInv'
    BY <1>1 DEF impVars, ImpInv, ImpShapeInv, ImpOrderInv, ImpMergeInv, ImpNeeds, ImpRefsHold
  <2>2. ImpPlacedAll'
    BY <1>1 DEF impVars, ImpInv, ImpPlacedAll, ImpPlaced, ImpStands, ImpAway, ImpExchanged
  <2> QED BY <2>1, <2>2 DEF ImpInv
<1>2. CASE ImpNext
  BY <1>2, ImpBeginInv, ImpIndexInv, ImpReplaceInv, ImpCommitInv, ImpCrashInv, ImpMoveInv,
     ImpMoveFailsInv, ImpPutInv, ImpPutFailsInv, ImpUndoInv, ImpBackInv, ImpUndoFailsInv,
     ImpBackFailsInv, ImpCleanupInv
     DEF ImpNext
<1> QED BY <1>1, <1>2

LEMMA ImpShows == ASSUME ImpInv PROVE ImportIsWhole
<1>1. impAt = "idle" => \A d \in ImpDirs : ~ImpAway(d) /\ ~ImpExchanged(d)
  BY DEF ImpAway, ImpPutOf, ImpBackOf, ImpExchanged
<1>2. ImpNothingLost /\ ImpAllOrNothing
  BY <1>1 DEF ImpInv, ImpPlacedAll, ImpPlaced, ImpStands, ImpNothingLost, ImpAllOrNothing
<1> QED BY <1>2 DEF ImpInv, ImpMergeInv, ImpCertHolds, ImportIsWhole


-----------------------------------------------------------------------------
(* Archives and images.                                                     *)

BkpNames == BkpImages \union {BkpNoImage}
BkpConfs == [image : BkpNames, certs : SUBSET BkpCerts, gen : Nat]
BkpPairLists == Seq([cert : BkpCerts, of : Nat])
BkpMade == [key : BkpKeys, conf : BkpConfs, pairs : BkpPairLists, files : SUBSET BkpImages,
            whole : BOOLEAN, mixed : BOOLEAN]
BkpJobSet == [at : {"idle", "save", "delete", "clean", "old", "reset"},
              kind : {"save", "delete", "clean"}, old : BkpNames, new : BkpNames,
              gone : SUBSET BkpImages]

BkpShape ==
    /\ bkpConf \in BkpConfs
    /\ bkpFiles \in [BkpImages -> {"unused", "part", "whole", "absent"}]
    /\ bkpPairs \in [BkpCerts -> Nat]
    /\ bkpExport \in [at : {"idle", "certs"}, conf : BkpConfs, pairs : BkpPairLists, mixed : BOOLEAN]
    /\ bkpImport \in [at : {"idle", "certs", "uploads", "replace"}, archive : Nat,
                      scope : SUBSET {"certs", "uploads"}]
    /\ bkpJob \in [BkpJobs -> BkpJobSet]
    /\ bkpArchives \in Seq(BkpMade)
    /\ bkpCounts \in [imports : Nat, starts : Nat, troubles : Nat, changes : Nat]
    /\ bkpLoose \in BOOLEAN

\* A name that was given has been written to its end; it is never written again.
BkpSettled(name) == name # BkpNoImage => bkpFiles[name] \in {"whole", "absent"}
BkpStanding(name) == name # BkpNoImage => bkpFiles[name] = "whole"

BkpNamesInv ==
    /\ BkpSettled(bkpConf.image) /\ BkpSettled(bkpExport.conf.image)
    /\ \A j \in BkpJobs : BkpSettled(bkpJob[j].new)
    /\ \A a \in DOMAIN bkpArchives : BkpSettled(bkpArchives[a].conf.image)

\* One export or one import; a pair is of the import whose turn it is.
BkpTurnInv ==
    /\ bkpExport.at = "idle" \/ bkpImport.at = "idle"
    /\ bkpImport.at # "idle" => bkpImport.archive \in DOMAIN bkpArchives
    /\ bkpImport.at = "uploads" => "uploads" \in bkpImport.scope
    /\ \A c \in BkpCerts :
          bkpPairs[c] \in {0, IF bkpImport.at \in {"idle", "certs"} THEN bkpConf.gen
                             ELSE bkpCounts.imports + 1}
    /\ bkpExport.at = "certs" =>
          /\ bkpExport.conf.gen = bkpConf.gen
          /\ \A n \in DOMAIN bkpExport.pairs : bkpExport.pairs[n].of = bkpConf.gen
          /\ ~bkpExport.mixed => /\ \A j \in BkpJobs : bkpJob[j].at = "idle"
                                 /\ BkpStanding(bkpExport.conf.image)

\* One change of the image at a time, while nothing is loose.
BkpAloneInv ==
    /\ \A j, k \in BkpJobs : bkpJob[j].at # "idle" /\ bkpJob[k].at # "idle" => j = k
    /\ \A j \in BkpJobs : bkpJob[j].at # "idle" => bkpImport.at = "idle"
    /\ \A j \in BkpJobs :
          /\ bkpJob[j].at \in {"save", "old"} => BkpStanding(bkpJob[j].new)
          /\ bkpJob[j].at = "old" => bkpConf.image = bkpJob[j].new
          /\ bkpJob[j].at = "clean" => bkpConf.image \notin bkpJob[j].gone
    /\ \/ \E j \in BkpJobs : bkpJob[j].at \in {"delete", "reset", "old"}
       \/ bkpImport.at = "replace" /\ "uploads" \in bkpImport.scope
       \/ BkpStanding(bkpConf.image)
    /\ bkpImport.at # "idle" /\ "uploads" \in bkpImport.scope =>
          /\ ~bkpArchives[bkpImport.archive].mixed
          /\ bkpImport.at = "replace" =>
                BkpStanding(bkpArchives[bkpImport.archive].conf.image)

BkpInv == BkpShape /\ BkpNamesInv /\ BkpTurnInv /\ BkpArchivesAreWhole
          /\ (bkpLoose \/ BkpAloneInv)

LEMMA BkpConstants ==
    /\ BkpNoImage \notin BkpImages /\ BkpNoImage \in BkpNames
    /\ BkpNobody.at = "idle" /\ BkpNobody.conf.image = BkpNoImage
    /\ BkpNobody \in [at : {"idle", "certs"}, conf : BkpConfs, pairs : BkpPairLists, mixed : BOOLEAN]
    /\ BkpNoJob \in BkpJobSet /\ BkpNoJob.at = "idle" /\ BkpNoJob.new = BkpNoImage
    /\ BkpNoImport.at = "idle"
    /\ BkpNoImport \in [at : {"idle", "certs", "uploads", "replace"}, archive : Nat,
                        scope : SUBSET {"certs", "uploads"}]
<1>1. <<>> \in BkpPairLists
  BY DEF BkpPairLists
<1>2. BkpNoImage \notin BkpImages /\ BkpNoImage \in BkpNames
  BY BkpAssumption DEF BkpNames
<1>3. BkpNobody \in [at : {"idle", "certs"}, conf : BkpConfs, pairs : BkpPairLists, mixed : BOOLEAN]
      /\ BkpNobody.at = "idle" /\ BkpNobody.conf.image = BkpNoImage
  BY <1>1, <1>2 DEF BkpNobody, BkpConfs
<1>4. BkpNoJob \in BkpJobSet /\ BkpNoJob.at = "idle" /\ BkpNoJob.new = BkpNoImage
  BY <1>2 DEF BkpNoJob, BkpJobSet
<1>5. BkpNoImport \in [at : {"idle", "certs", "uploads", "replace"}, archive : Nat,
                       scope : SUBSET {"certs", "uploads"}] /\ BkpNoImport.at = "idle"
  BY DEF BkpNoImport
<1> QED BY <1>2, <1>3, <1>4, <1>5

LEMMA BkpCounted ==
    ASSUME bkpCounts \in [imports : Nat, starts : Nat, troubles : Nat, changes : Nat],
           NEW what \in {"imports", "starts", "troubles", "changes"}, BkpCount(what)
    PROVE  /\ bkpCounts' \in [imports : Nat, starts : Nat, troubles : Nat, changes : Nat]
           /\ bkpCounts'.imports = bkpCounts.imports + (IF what = "imports" THEN 1 ELSE 0)
BY DEF BkpCount

LEMMA BkpInitInv == ASSUME BkpInit PROVE BkpInv
<1>1. BkpShape
  <2>1. bkpConf \in BkpConfs
    BY BkpConstants DEF BkpInit, BkpConfs
  <2>2. bkpExport \in [at : {"idle", "certs"}, conf : BkpConfs, pairs : BkpPairLists, mixed : BOOLEAN]
        /\ bkpImport \in [at : {"idle", "certs", "uploads", "replace"}, archive : Nat,
                          scope : SUBSET {"certs", "uploads"}]
    BY BkpConstants DEF BkpInit
  <2>3. bkpJob \in [BkpJobs -> BkpJobSet] /\ bkpArchives \in Seq(BkpMade)
    BY BkpConstants DEF BkpInit
  <2>4. /\ bkpFiles \in [BkpImages -> {"unused", "part", "whole", "absent"}]
        /\ bkpPairs \in [BkpCerts -> Nat] /\ bkpLoose \in BOOLEAN
        /\ bkpCounts \in [imports : Nat, starts : Nat, troubles : Nat, changes : Nat]
    BY DEF BkpInit
  <2> QED BY <2>1, <2>2, <2>3, <2>4 DEF BkpShape
<1>2. /\ bkpConf.image = BkpNoImage /\ bkpExport.conf.image = BkpNoImage
      /\ \A j \in BkpJobs : bkpJob[j].at = "idle" /\ bkpJob[j].new = BkpNoImage
      /\ DOMAIN bkpArchives = {} /\ bkpExport.at = "idle" /\ bkpImport.at = "idle"
      /\ \A c \in BkpCerts : bkpPairs[c] = 0
  BY BkpConstants DEF BkpInit
<1>3. BkpNamesInv /\ BkpArchivesAreWhole
  BY <1>2 DEF BkpNamesInv, BkpArchivesAreWhole, BkpSettled
<1>4. BkpTurnInv
  BY <1>2 DEF BkpTurnInv
<1>5. BkpAloneInv
  BY <1>2 DEF BkpAloneInv, BkpStanding
<1> QED BY <1>1, <1>3, <1>4, <1>5 DEF BkpInv

\* What becomes of the files: a name that was written to its end stays one,
\* and a file that is whole stays where it is.
BkpFilesTyped == bkpFiles' \in [BkpImages -> {"unused", "part", "whole", "absent"}]
BkpSettledStay ==
    \A i \in BkpImages : bkpFiles[i] \in {"whole", "absent"} => bkpFiles'[i] \in {"whole", "absent"}
BkpWholeStay == \A i \in BkpImages : bkpFiles[i] = "whole" => bkpFiles'[i] = "whole"

LEMMA BkpNamesKept ==
    ASSUME BkpShape, BkpNamesInv, BkpSettledStay, bkpConf' = bkpConf, bkpExport'.conf = bkpExport.conf,
           UNCHANGED bkpArchives, \A j \in BkpJobs : bkpJob'[j].new \in {bkpJob[j].new, BkpNoImage}
    PROVE  BkpNamesInv'
<1>1. /\ bkpConf.image \in BkpNames /\ bkpExport.conf.image \in BkpNames
      /\ \A j \in BkpJobs : bkpJob[j].new \in BkpNames
  BY DEF BkpShape, BkpConfs, BkpJobSet
<1>2. ASSUME NEW a \in DOMAIN bkpArchives PROVE bkpArchives[a].conf.image \in BkpNames
  <2>1. bkpArchives[a] \in BkpMade
    BY DEF BkpShape
  <2> QED BY <2>1 DEF BkpMade, BkpConfs
<1>3. ASSUME NEW name \in BkpNames, BkpSettled(name)
      PROVE  name # BkpNoImage => bkpFiles'[name] \in {"whole", "absent"}
  BY <1>3 DEF BkpNames, BkpSettled, BkpSettledStay
<1>4. BkpSettled(bkpConf.image)' /\ BkpSettled(bkpExport.conf.image)'
  BY <1>1, <1>3 DEF BkpNamesInv, BkpSettled
<1>5. \A j \in BkpJobs : BkpSettled(bkpJob[j].new)'
  BY <1>1, <1>3 DEF BkpNamesInv, BkpSettled
<1>6. \A a \in DOMAIN bkpArchives' : BkpSettled(bkpArchives[a].conf.image)'
  BY <1>2, <1>3 DEF BkpNamesInv, BkpSettled
<1> QED BY <1>4, <1>5, <1>6 DEF BkpNamesInv

LEMMA BkpStandingStays ==
    ASSUME BkpWholeStay, NEW name \in BkpNames, BkpStanding(name)
    PROVE  name # BkpNoImage => bkpFiles'[name] = "whole"
BY DEF BkpWholeStay, BkpStanding, BkpNames

\* Uploads: only files that nothing names yet.
BkpFilesOnly == UNCHANGED <<bkpConf, bkpPairs, bkpExport, bkpImport, bkpJob, bkpArchives, bkpCounts, bkpLoose>>

LEMMA BkpFilesInv ==
    ASSUME BkpInv, BkpFilesOnly, BkpFilesTyped, BkpSettledStay, BkpWholeStay
    PROVE  BkpInv'
<1> USE DEF BkpInv, BkpFilesOnly
<1>1. BkpShape'
  BY DEF BkpShape, BkpFilesTyped
<1>2. BkpNamesInv'
  BY BkpNamesKept
<1>3. /\ bkpConf.image \in BkpNames /\ bkpExport.conf.image \in BkpNames
      /\ \A j \in BkpJobs : bkpJob[j].new \in BkpNames
  BY DEF BkpShape, BkpConfs, BkpJobSet
<1>4. BkpTurnInv'
  <2>1. BkpStanding(bkpExport.conf.image) => BkpStanding(bkpExport.conf.image)'
    BY <1>3, BkpStandingStays DEF BkpStanding
  <2> QED BY <2>1 DEF BkpTurnInv
<1>5. BkpArchivesAreWhole'
  BY DEF BkpArchivesAreWhole
<1>6. BkpAloneInv => BkpAloneInv'
  <2> SUFFICES ASSUME BkpAloneInv PROVE BkpAloneInv'
    OBVIOUS
  <2>1. \A j \in BkpJobs : BkpStanding(bkpJob[j].new) => BkpStanding(bkpJob[j].new)'
    BY <1>3, BkpStandingStays DEF BkpStanding
  <2>2. BkpStanding(bkpConf.image) => BkpStanding(bkpConf.image)'
    BY <1>3, BkpStandingStays DEF BkpStanding
  <2>3. ASSUME bkpImport.at # "idle", BkpStanding(bkpArchives[bkpImport.archive].conf.image)
        PROVE  BkpStanding(bkpArchives[bkpImport.archive].conf.image)'
    <3>1. bkpArchives[bkpImport.archive] \in BkpMade
      BY <2>3 DEF BkpTurnInv, BkpShape
    <3>2. bkpArchives[bkpImport.archive].conf.image \in BkpNames
      BY <3>1 DEF BkpMade, BkpConfs
    <3> QED BY <2>3, <3>2, BkpStandingStays DEF BkpStanding
  <2> QED BY <2>1, <2>2, <2>3 DEF BkpAloneInv
<1> QED BY <1>1, <1>2, <1>4, <1>5, <1>6

LEMMA BkpUploadInv ==
    ASSUME BkpInv, NEW i \in BkpImages, BkpUploadBegins(i) \/ BkpUploadEnds(i)
    PROVE  BkpInv'
<1>1. bkpFiles \in [BkpImages -> {"unused", "part", "whole", "absent"}]
  BY DEF BkpInv, BkpShape
<1>2. CASE BkpUploadBegins(i)
  <2>1. BkpFilesOnly /\ bkpFiles[i] = "unused" /\ bkpFiles' = [bkpFiles EXCEPT ![i] = "part"]
    BY <1>2 DEF BkpUploadBegins, BkpFilesOnly
  <2>2. BkpFilesTyped /\ BkpSettledStay /\ BkpWholeStay
    BY <1>1, <2>1 DEF BkpFilesTyped, BkpSettledStay, BkpWholeStay
  <2> QED BY <2>1, <2>2, BkpFilesInv
<1>3. CASE BkpUploadEnds(i)
  <2>1. BkpFilesOnly
    BY <1>3 DEF BkpUploadEnds, BkpFilesOnly
  <2>2. PICK end \in {"whole", "absent"} :
           bkpFiles' = [bkpFiles EXCEPT ![i] = IF @ = "part" THEN end ELSE @]
    BY <1>3 DEF BkpUploadEnds
  <2>3. BkpFilesTyped /\ BkpSettledStay /\ BkpWholeStay
    BY <1>1, <2>2 DEF BkpFilesTyped, BkpSettledStay, BkpWholeStay
  <2> QED BY <2>1, <2>3, BkpFilesInv
<1> QED BY <1>2, <1>3

\* While an export keeps count of the image no job is under way.
LEMMA BkpTurnOfJob ==
    ASSUME BkpShape, BkpTurnInv, NEW j \in BkpJobs, bkpJob[j].at # "idle",
           UNCHANGED <<bkpPairs, bkpExport, bkpImport, bkpArchives>>,
           bkpConf'.gen = bkpConf.gen, bkpCounts'.imports = bkpCounts.imports
    PROVE  BkpTurnInv'
BY DEF BkpTurnInv

\* A step of one job, when nothing is loose: the others are idle, no import runs.
LEMMA BkpAloneJob ==
    ASSUME BkpAloneInv, NEW j \in BkpJobs, bkpJob[j].at # "idle"
    PROVE  bkpImport.at = "idle" /\ \A k \in BkpJobs \ {j} : bkpJob[k].at = "idle"
BY DEF BkpAloneInv

BkpJobStep(j) ==
    /\ bkpJob[j].at # "idle"
    /\ \A k \in BkpJobs \ {j} : bkpJob'[k] = bkpJob[k]
    /\ UNCHANGED <<bkpPairs, bkpExport, bkpImport, bkpArchives>>

\* What is left to show of such a step.
LEMMA BkpAloneKept ==
    ASSUME BkpAloneInv, NEW j \in BkpJobs, BkpJobStep(j),
           bkpJob'[j].at \in {"idle", "old", "reset"},
           bkpJob'[j].at = "old" =>
              /\ bkpConf'.image = bkpJob'[j].new
              /\ bkpJob'[j].new # BkpNoImage => bkpFiles'[bkpJob'[j].new] = "whole",
           bkpJob'[j].at = "idle" => (bkpConf'.image # BkpNoImage => bkpFiles'[bkpConf'.image] = "whole")
    PROVE  BkpAloneInv'
<1>1. bkpImport.at = "idle" /\ \A k \in BkpJobs \ {j} : bkpJob[k].at = "idle"
  BY BkpAloneJob DEF BkpJobStep
<1>2. bkpImport'.at = "idle" /\ \A k \in BkpJobs \ {j} : bkpJob'[k].at = "idle"
  BY <1>1 DEF BkpJobStep
<1>3. \/ \E k \in BkpJobs : bkpJob'[k].at \in {"delete", "reset", "old"}
      \/ bkpConf'.image # BkpNoImage => bkpFiles'[bkpConf'.image] = "whole"
  OBVIOUS
<1> QED BY <1>2, <1>3 DEF BkpAloneInv, BkpStanding

LEMMA BkpJobRecords ==
    ASSUME BkpShape, NEW j \in BkpJobs
    PROVE  /\ bkpJob[j] \in BkpJobSet /\ bkpJob[j].old \in BkpNames /\ bkpJob[j].new \in BkpNames
           /\ bkpJob[j].gone \subseteq BkpImages /\ bkpConf \in BkpConfs /\ bkpConf.image \in BkpNames
           /\ \A at \in {"old", "reset"} :
                 /\ [bkpJob[j] EXCEPT !.at = at] \in BkpJobSet
                 /\ [bkpJob[j] EXCEPT !.at = at].at = at
                 /\ [bkpJob[j] EXCEPT !.at = at].new = bkpJob[j].new
<1>1. bkpJob[j] \in BkpJobSet /\ bkpConf \in BkpConfs
  BY DEF BkpShape
<1>2. bkpJob[j].old \in BkpNames /\ bkpJob[j].new \in BkpNames /\ bkpJob[j].gone \subseteq BkpImages
  BY <1>1 DEF BkpJobSet
<1>3. bkpConf.image \in BkpNames
  BY <1>1 DEF BkpConfs
<1>4. ASSUME NEW rec \in BkpJobSet, NEW at \in {"old", "reset"}
      PROVE  /\ [rec EXCEPT !.at = at] \in BkpJobSet
             /\ [rec EXCEPT !.at = at].at = at /\ [rec EXCEPT !.at = at].new = rec.new
  BY DEF BkpJobSet
<1> QED BY <1>1, <1>2, <1>3, <1>4

\* Removing files: what is not named stays.
LEMMA BkpRemoves ==
    ASSUME BkpShape, NEW gone, bkpFiles' = BkpRemoved(gone)
    PROVE  /\ BkpFilesTyped /\ BkpSettledStay
           /\ \A i \in BkpImages : bkpFiles[i] = "whole" /\ i \notin gone => bkpFiles'[i] = "whole"
BY DEF BkpShape, BkpRemoved, BkpThere, BkpFilesTyped, BkpSettledStay

LEMMA BkpSaveInv == ASSUME BkpInv, NEW j \in BkpJobs, BkpSave(j) PROVE BkpInv'
<1> USE DEF BkpInv
<1>1. /\ bkpJob[j].at = "save"
      /\ UNCHANGED <<bkpFiles, bkpPairs, bkpUploads, bkpExport, bkpImport, bkpArchives, bkpLoose>>
  BY DEF BkpSave
<1>2. CASE /\ bkpConf' = [bkpConf EXCEPT !.image = bkpJob[j].new]
           /\ bkpJob' = [bkpJob EXCEPT ![j].at = "old"] /\ UNCHANGED bkpCounts
  <2>1. bkpJob'[j] \in BkpJobSet /\ bkpJob'[j].at = "old" /\ bkpJob'[j].new = bkpJob[j].new
        /\ BkpJobStep(j) /\ bkpJob' \in [BkpJobs -> BkpJobSet]
    <3>1. bkpJob' = [bkpJob EXCEPT ![j] = [bkpJob[j] EXCEPT !.at = "old"]]
      BY <1>2
    <3> QED BY <1>1, <3>1, BkpJobRecords DEF BkpShape, BkpJobStep
  <2>2. bkpConf' \in BkpConfs /\ bkpConf'.image = bkpJob[j].new /\ bkpConf'.gen = bkpConf.gen
    BY <1>2, BkpJobRecords DEF BkpConfs
  <2>3. BkpShape'
    BY <1>1, <1>2, <2>1, <2>2 DEF BkpShape
  <2>4. BkpNamesInv'
    BY <1>1, <2>1, <2>2 DEF BkpNamesInv, BkpSettled, BkpJobStep
  <2>5. BkpTurnInv'
    BY <1>1, <1>2, <2>2, BkpTurnOfJob
  <2>6. BkpArchivesAreWhole'
    BY <1>1 DEF BkpArchivesAreWhole
  <2>7. BkpAloneInv => BkpAloneInv'
    <3>1. BkpAloneInv => BkpStanding(bkpJob[j].new)
      BY <1>1 DEF BkpAloneInv
    <3> QED BY <1>1, <2>1, <2>2, <3>1, BkpAloneKept DEF BkpStanding
  <2> QED BY <1>1, <2>3, <2>4, <2>5, <2>6, <2>7
<1>3. CASE /\ BkpCount("troubles") /\ bkpJob' = [bkpJob EXCEPT ![j] = BkpNoJob]
           /\ UNCHANGED bkpConf
  <2>1. bkpJob'[j] = BkpNoJob /\ BkpJobStep(j) /\ bkpJob' \in [BkpJobs -> BkpJobSet]
    BY <1>1, <1>3, BkpConstants DEF BkpShape, BkpJobStep
  <2>2. bkpCounts' \in [imports : Nat, starts : Nat, troubles : Nat, changes : Nat]
        /\ bkpCounts'.imports = bkpCounts.imports
    BY <1>3, BkpCounted DEF BkpShape
  <2>3. BkpShape'
    BY <1>1, <1>3, <2>1, <2>2 DEF BkpShape
  <2>4. BkpNamesInv'
    BY <1>1, <1>3, <2>1, BkpConstants DEF BkpNamesInv, BkpSettled, BkpJobStep
  <2>5. BkpTurnInv'
    BY <1>1, <1>3, <2>2, BkpTurnOfJob
  <2>6. BkpArchivesAreWhole'
    BY <1>1 DEF BkpArchivesAreWhole
  <2>7. BkpAloneInv => BkpAloneInv'
    <3>1. BkpAloneInv => BkpStanding(bkpConf.image)
      BY <1>1, BkpAloneJob DEF BkpAloneInv
    <3> QED BY <1>1, <1>3, <2>1, <3>1, BkpConstants, BkpAloneKept DEF BkpStanding
  <2> QED BY <1>1, <2>3, <2>4, <2>5, <2>6, <2>7
<1> QED BY <1>2, <1>3 DEF BkpSave

\* A job that removes files and is over, or resets the configuration next.
LEMMA BkpRemovalInv ==
    ASSUME BkpInv, NEW j \in BkpJobs, NEW gone, bkpFiles' = BkpRemoved(gone),
           BkpJobStep(j), UNCHANGED <<bkpConf, bkpCounts, bkpLoose>>,
           bkpJob' \in [BkpJobs -> BkpJobSet],
           bkpJob'[j].new \in {bkpJob[j].new, BkpNoImage}, bkpJob'[j].at \in {"idle", "reset"},
           bkpJob'[j].at = "idle" /\ BkpAloneInv =>
               BkpStanding(bkpConf.image) /\ bkpConf.image \notin gone
    PROVE  BkpInv'
<1> USE DEF BkpInv
<1>1. BkpFilesTyped /\ BkpSettledStay
  BY BkpRemoves
<1>2. BkpShape'
  BY <1>1 DEF BkpShape, BkpJobStep, BkpFilesTyped
<1>3. BkpNamesInv'
  BY <1>1, BkpNamesKept DEF BkpJobStep
<1>4. BkpTurnInv'
  BY BkpTurnOfJob DEF BkpJobStep
<1>5. BkpArchivesAreWhole'
  BY DEF BkpArchivesAreWhole, BkpJobStep
<1>6. BkpAloneInv => BkpAloneInv'
  <2>1. ASSUME BkpAloneInv, bkpJob'[j].at = "idle", bkpConf'.image # BkpNoImage
        PROVE  bkpFiles'[bkpConf'.image] = "whole"
    <3>1. bkpConf.image \in BkpImages
      BY <2>1, BkpJobRecords DEF BkpNames
    <3> QED BY <2>1, <3>1, BkpRemoves DEF BkpStanding
  <2> QED BY <2>1, BkpAloneKept
<1> QED BY <1>2, <1>3, <1>4, <1>5, <1>6

LEMMA BkpRemoveOldInv == ASSUME BkpInv, NEW j \in BkpJobs, BkpRemoveOld(j) PROVE BkpInv'
<1> DEFINE gone == {bkpJob[j].old} \ {bkpJob[j].new}
<1>1. /\ bkpJob[j].at = "old" /\ bkpFiles' = BkpRemoved(gone)
      /\ bkpJob' = [bkpJob EXCEPT ![j] = BkpNoJob]
      /\ UNCHANGED <<bkpConf, bkpPairs, bkpExport, bkpImport, bkpArchives, bkpCounts, bkpLoose>>
  BY DEF BkpRemoveOld
<1>2. bkpJob'[j] = BkpNoJob /\ BkpJobStep(j) /\ bkpJob' \in [BkpJobs -> BkpJobSet]
  BY <1>1, BkpConstants DEF BkpInv, BkpShape, BkpJobStep
<1>3. BkpAloneInv => BkpStanding(bkpConf.image) /\ bkpConf.image \notin gone
  BY <1>1 DEF BkpAloneInv
<1> HIDE DEF gone
<1> QED BY <1>1, <1>2, <1>3, BkpConstants, BkpRemovalInv

LEMMA BkpDeleteInv == ASSUME BkpInv, NEW j \in BkpJobs, BkpDelete(j) PROVE BkpInv'
<1> DEFINE gone == {bkpJob[j].old}
<1>1. /\ bkpJob[j].at = "delete" /\ bkpFiles' = BkpRemoved(gone)
      /\ bkpJob' = [bkpJob EXCEPT ![j] = [bkpJob[j] EXCEPT !.at = "reset"]]
      /\ UNCHANGED <<bkpConf, bkpPairs, bkpExport, bkpImport, bkpArchives, bkpCounts, bkpLoose>>
  BY DEF BkpDelete
<1>2. /\ bkpJob'[j].at = "reset" /\ bkpJob'[j].new = bkpJob[j].new
      /\ BkpJobStep(j) /\ bkpJob' \in [BkpJobs -> BkpJobSet]
  BY <1>1, BkpJobRecords DEF BkpInv, BkpShape, BkpJobStep
<1> HIDE DEF gone
<1> QED BY <1>1, <1>2, BkpRemovalInv

LEMMA BkpCleanInv == ASSUME BkpInv, NEW j \in BkpJobs, BkpClean(j) PROVE BkpInv'
<1>1. PICK chosen \in SUBSET bkpJob[j].gone : bkpFiles' = BkpRemoved(chosen)
  BY DEF BkpClean
<1>2. /\ bkpJob[j].at = "clean" /\ bkpJob' = [bkpJob EXCEPT ![j] = BkpNoJob]
      /\ UNCHANGED <<bkpConf, bkpPairs, bkpExport, bkpImport, bkpArchives, bkpCounts, bkpLoose>>
  BY DEF BkpClean
<1>3. bkpJob'[j] = BkpNoJob /\ BkpJobStep(j) /\ bkpJob' \in [BkpJobs -> BkpJobSet]
  BY <1>2, BkpConstants DEF BkpInv, BkpShape, BkpJobStep
<1>4. BkpAloneInv => BkpStanding(bkpConf.image) /\ bkpConf.image \notin chosen
  BY <1>1, <1>2, BkpAloneJob DEF BkpAloneInv
<1> QED BY <1>1, <1>2, <1>3, <1>4, BkpConstants, BkpRemovalInv

LEMMA BkpResetInv == ASSUME BkpInv, NEW j \in BkpJobs, BkpReset(j) PROVE BkpInv'
<1> USE DEF BkpInv
<1>1. /\ bkpJob[j].at = "reset" /\ bkpJob' = [bkpJob EXCEPT ![j] = BkpNoJob]
      /\ UNCHANGED <<bkpFiles, bkpPairs, bkpExport, bkpImport, bkpArchives>>
  BY DEF BkpReset
<1>2. bkpJob'[j] = BkpNoJob /\ BkpJobStep(j) /\ bkpJob' \in [BkpJobs -> BkpJobSet]
  BY <1>1, BkpConstants DEF BkpShape, BkpJobStep
<1>3. \/ /\ bkpConf' = [bkpConf EXCEPT !.image = BkpNoImage] /\ UNCHANGED <<bkpCounts, bkpLoose>>
      \/ /\ BkpCount("troubles") /\ UNCHANGED bkpConf /\ bkpLoose' = TRUE
  BY DEF BkpReset
<1>4. /\ bkpConf' \in BkpConfs /\ bkpConf'.gen = bkpConf.gen /\ bkpConf'.image \in {bkpConf.image, BkpNoImage}
      /\ bkpLoose' \/ (bkpConf'.image = BkpNoImage /\ bkpLoose' = bkpLoose)
      /\ bkpCounts' \in [imports : Nat, starts : Nat, troubles : Nat, changes : Nat]
      /\ bkpCounts'.imports = bkpCounts.imports /\ bkpLoose' \in BOOLEAN
  <2>1. bkpConf \in BkpConfs
    BY DEF BkpShape
  <2>2. CASE bkpConf' = [bkpConf EXCEPT !.image = BkpNoImage] /\ UNCHANGED <<bkpCounts, bkpLoose>>
    BY <2>1, <2>2, BkpConstants DEF BkpShape, BkpConfs
  <2>3. CASE BkpCount("troubles") /\ UNCHANGED bkpConf /\ bkpLoose' = TRUE
    BY <2>1, <2>3, BkpCounted DEF BkpShape
  <2> QED BY <1>3, <2>2, <2>3
<1>5. BkpShape'
  BY <1>1, <1>2, <1>4 DEF BkpShape
<1>6. BkpNamesInv'
  BY <1>1, <1>2, <1>4, BkpConstants DEF BkpNamesInv, BkpSettled, BkpJobStep
<1>7. BkpTurnInv'
  BY <1>1, <1>4, BkpTurnOfJob
<1>8. BkpArchivesAreWhole'
  BY <1>1 DEF BkpArchivesAreWhole
<1>9. bkpLoose \/ BkpAloneInv => bkpLoose' \/ BkpAloneInv'
  BY <1>2, <1>3, <1>4, BkpConstants, BkpAloneKept
<1> QED BY <1>5, <1>6, <1>7, <1>8, <1>9

LEMMA BkpJobBeginsInv == ASSUME BkpInv, NEW j \in BkpJobs, BkpJobBegins(j) PROVE BkpInv'
<1> USE DEF BkpInv
<1>1. /\ bkpJob[j].at = "idle" /\ BkpCount("starts") /\ bkpLoose' = (bkpLoose \/ BkpBusy)
      /\ bkpExport' = [bkpExport EXCEPT !.mixed = @ \/ bkpExport.at # "idle"]
      /\ UNCHANGED <<bkpConf, bkpFiles, bkpPairs, bkpUploads, bkpImport, bkpArchives>>
  BY DEF BkpJobBegins, BkpMeets
<1>2. PICK kind \in {"save", "delete", "clean"},
           new \in {BkpNoImage} \union {i \in BkpImages : bkpFiles[i] = "whole"} :
         bkpJob' = [bkpJob EXCEPT ![j] =
            [at |-> kind, kind |-> kind, old |-> bkpConf.image, new |-> new,
             gone |-> IF kind # "clean" THEN {} ELSE BkpThere \ {bkpConf.image}]]
  BY DEF BkpJobBegins
<1> DEFINE rec == [at |-> kind, kind |-> kind, old |-> bkpConf.image, new |-> new,
                   gone |-> IF kind # "clean" THEN {} ELSE BkpThere \ {bkpConf.image}]
<1>3. /\ rec \in BkpJobSet /\ rec.at = kind /\ rec.new = new
      /\ rec.at = "clean" => bkpConf.image \notin rec.gone
  BY <1>2, BkpConstants, BkpJobRecords DEF BkpJobSet, BkpNames, BkpThere
<1> HIDE DEF rec
<1>4. bkpJob'[j] = rec /\ bkpJob' \in [BkpJobs -> BkpJobSet]
      /\ \A k \in BkpJobs \ {j} : bkpJob'[k] = bkpJob[k]
  BY <1>2, <1>3 DEF BkpShape, rec
<1>5. /\ bkpExport'.at = bkpExport.at /\ bkpExport'.conf = bkpExport.conf
      /\ bkpExport'.pairs = bkpExport.pairs /\ bkpExport.at = "certs" => bkpExport'.mixed
      /\ bkpExport' \in [at : {"idle", "certs"}, conf : BkpConfs, pairs : BkpPairLists, mixed : BOOLEAN]
  <2>1. (bkpExport.mixed \/ bkpExport.at # "idle") \in BOOLEAN
    OBVIOUS
  <2> QED BY <1>1, <2>1 DEF BkpShape
<1>6. bkpLoose' \in BOOLEAN /\ bkpCounts' \in [imports : Nat, starts : Nat, troubles : Nat, changes : Nat]
      /\ bkpCounts'.imports = bkpCounts.imports
  BY <1>1, BkpCounted DEF BkpShape
<1>7. BkpShape'
  BY <1>1, <1>4, <1>5, <1>6 DEF BkpShape
<1>8. new # BkpNoImage => bkpFiles[new] = "whole"
  BY <1>2
<1>9. BkpNamesInv'
  BY <1>1, <1>3, <1>4, <1>5, <1>8 DEF BkpNamesInv, BkpSettled
<1>10. BkpTurnInv'
  BY <1>1, <1>5, <1>6 DEF BkpTurnInv
<1>11. BkpArchivesAreWhole'
  BY <1>1 DEF BkpArchivesAreWhole
<1>12. ASSUME ~bkpLoose' PROVE BkpAloneInv'
  <2>1. /\ BkpAloneInv /\ bkpImport.at = "idle" /\ \A k \in BkpJobs : bkpJob[k].at = "idle"
    BY <1>1, <1>12 DEF BkpBusy
  <2>2. BkpStanding(bkpConf.image)
    BY <2>1 DEF BkpAloneInv
  <2> QED BY <1>1, <1>2, <1>3, <1>4, <1>8, <2>1, <2>2 DEF BkpAloneInv, BkpStanding
<1> QED BY <1>7, <1>9, <1>10, <1>11, <1>12

\* What only moves an export or the certificates leaves the image's part alone.
LEMMA BkpAloneSame ==
    ASSUME BkpAloneInv, bkpConf'.image = bkpConf.image, UNCHANGED <<bkpFiles, bkpJob, bkpImport>>,
           bkpImport.at # "idle" => UNCHANGED bkpArchives
    PROVE  BkpAloneInv'
BY DEF BkpAloneInv, BkpStanding

LEMMA BkpCertChangesInv == ASSUME BkpInv, NEW c \in BkpCerts, BkpCertChanges(c) PROVE BkpInv'
<1> USE DEF BkpInv
<1>1. /\ BkpCount("changes") /\ bkpImport.at = "idle"
      /\ UNCHANGED <<bkpFiles, bkpUploads, bkpExport, bkpImport, bkpJob, bkpArchives, bkpLoose>>
  BY DEF BkpCertChanges
<1>2. /\ bkpConf' \in BkpConfs /\ bkpConf'.image = bkpConf.image /\ bkpConf'.gen = bkpConf.gen
      /\ bkpPairs' \in [BkpCerts -> Nat]
      /\ \A d \in BkpCerts : bkpPairs'[d] \in {bkpPairs[d], bkpConf.gen}
  <2>1. bkpConf \in BkpConfs /\ bkpConf.gen \in Nat /\ bkpPairs \in [BkpCerts -> Nat]
    BY DEF BkpShape, BkpConfs
  <2>2. CASE bkpConf' = [bkpConf EXCEPT !.certs = IF c \in @ THEN @ \ {c} ELSE @ \union {c}]
             /\ UNCHANGED bkpPairs
    BY <2>1, <2>2 DEF BkpConfs
  <2>3. CASE bkpPairs' = [bkpPairs EXCEPT ![c] = bkpConf.gen] /\ UNCHANGED bkpConf
    BY <2>1, <2>3
  <2> QED BY <2>2, <2>3 DEF BkpCertChanges
<1>3. bkpCounts' \in [imports : Nat, starts : Nat, troubles : Nat, changes : Nat]
  BY <1>1, BkpCounted DEF BkpShape
<1>4. BkpShape'
  BY <1>1, <1>2, <1>3 DEF BkpShape
<1>5. BkpNamesInv'
  BY <1>1, <1>2 DEF BkpNamesInv, BkpSettled
<1>6. BkpTurnInv'
  BY <1>1, <1>2 DEF BkpTurnInv, BkpStanding
<1>7. BkpArchivesAreWhole'
  BY <1>1 DEF BkpArchivesAreWhole
<1>8. BkpAloneInv => BkpAloneInv'
  BY <1>1, <1>2, BkpAloneSame
<1> QED BY <1>1, <1>4, <1>5, <1>6, <1>7, <1>8

LEMMA BkpExportBeginsInv == ASSUME BkpInv, BkpExportBegins PROVE BkpInv'
<1> USE DEF BkpInv
<1>1. /\ bkpExport.at = "idle" /\ bkpImport.at = "idle"
      /\ bkpExport' = [at |-> "certs", conf |-> bkpConf, pairs |-> <<>>,
                       mixed |-> BkpBusy \/ bkpLoose]
      /\ UNCHANGED <<bkpConf, bkpFiles, bkpPairs, bkpUploads, bkpImport, bkpJob, bkpArchives,
                     bkpCounts, bkpLoose>>
  BY DEF BkpExportBegins, BkpLockFree
<1>2. bkpExport' \in [at : {"idle", "certs"}, conf : BkpConfs, pairs : BkpPairLists, mixed : BOOLEAN]
  <2>1. (BkpBusy \/ bkpLoose) \in BOOLEAN /\ <<>> \in BkpPairLists
    BY DEF BkpPairLists
  <2> QED BY <1>1, <2>1 DEF BkpShape
<1>3. BkpShape'
  BY <1>1, <1>2 DEF BkpShape
<1>4. BkpNamesInv'
  BY <1>1 DEF BkpNamesInv, BkpSettled
<1>5. BkpTurnInv'
  <2>1. ASSUME ~bkpExport'.mixed
        PROVE  BkpStanding(bkpConf.image) /\ \A j \in BkpJobs : bkpJob[j].at = "idle"
    BY <1>1, <2>1 DEF BkpBusy, BkpAloneInv
  <2>2. \A n \in DOMAIN bkpExport'.pairs : FALSE
    BY <1>1
  <2> QED BY <1>1, <2>1, <2>2 DEF BkpTurnInv, BkpStanding
<1>6. BkpArchivesAreWhole'
  BY <1>1 DEF BkpArchivesAreWhole
<1>7. BkpAloneInv => BkpAloneInv'
  BY <1>1, BkpAloneSame
<1> QED BY <1>1, <1>3, <1>4, <1>5, <1>6, <1>7

LEMMA BkpExportCertInv == ASSUME BkpInv, BkpExportCert PROVE BkpInv'
<1> USE DEF BkpInv
<1>1. /\ bkpExport.at = "certs" /\ bkpImport.at = "idle"
      /\ UNCHANGED <<bkpConf, bkpFiles, bkpPairs, bkpUploads, bkpImport, bkpJob, bkpArchives,
                     bkpCounts, bkpLoose>>
  BY DEF BkpExportCert, BkpTurnInv
<1>2. PICK c \in bkpExport.conf.certs :
         bkpExport' = IF bkpPairs[c] = 0 THEN BkpNobody
                      ELSE [bkpExport EXCEPT !.pairs = Append(@, [cert |-> c, of |-> bkpPairs[c]])]
  BY DEF BkpExportCert
<1>3. c \in BkpCerts /\ bkpExport.pairs \in Seq([cert : BkpCerts, of : Nat])
      /\ bkpPairs[c] \in Nat
  <2>1. bkpExport.conf \in BkpConfs /\ bkpExport.pairs \in Seq([cert : BkpCerts, of : Nat])
    BY DEF BkpShape, BkpPairLists
  <2>2. c \in BkpCerts
    BY <2>1 DEF BkpConfs
  <2> QED BY <2>1, <2>2 DEF BkpShape
<1>4. CASE bkpPairs[c] = 0
  <2>1. bkpExport' = BkpNobody
    BY <1>2, <1>4
  <2>2. BkpShape'
    BY <1>1, <2>1, BkpConstants DEF BkpShape
  <2>3. BkpNamesInv'
    BY <1>1, <2>1, BkpConstants DEF BkpNamesInv, BkpSettled
  <2>4. BkpTurnInv'
    BY <1>1, <2>1, BkpConstants DEF BkpTurnInv
  <2>5. BkpArchivesAreWhole' /\ (BkpAloneInv => BkpAloneInv')
    BY <1>1, BkpAloneSame DEF BkpArchivesAreWhole
  <2> QED BY <1>1, <2>2, <2>3, <2>4, <2>5
<1>5. CASE bkpPairs[c] # 0
  <2> DEFINE pair == [cert |-> c, of |-> bkpPairs[c]]
             pairs == Append(bkpExport.pairs, pair)
  <2>1. bkpExport' = [bkpExport EXCEPT !.pairs = pairs]
    BY <1>2, <1>5
  <2>2. /\ pairs \in BkpPairLists
        /\ \A n \in DOMAIN pairs :
              \/ n \in DOMAIN bkpExport.pairs /\ pairs[n] = bkpExport.pairs[n]
              \/ pairs[n] = pair
    <3>1. pair \in [cert : BkpCerts, of : Nat]
      BY <1>3
    <3> HIDE DEF pair
    <3> QED BY <1>3, <3>1 DEF BkpPairLists
  <2>3. pair.of = bkpConf.gen
    BY <1>1, <1>3, <1>5 DEF BkpTurnInv
  <2> HIDE DEF pair, pairs
  <2>4. /\ bkpExport' \in [at : {"idle", "certs"}, conf : BkpConfs, pairs : BkpPairLists, mixed : BOOLEAN]
        /\ bkpExport'.at = bkpExport.at /\ bkpExport'.conf = bkpExport.conf
        /\ bkpExport'.mixed = bkpExport.mixed /\ bkpExport'.pairs = pairs
    BY <2>1, <2>2 DEF BkpShape
  <2>5. BkpShape'
    BY <1>1, <2>4 DEF BkpShape
  <2>6. BkpNamesInv'
    BY <1>1, <2>4 DEF BkpNamesInv, BkpSettled
  <2>7. BkpTurnInv'
    <3>1. \A n \in DOMAIN bkpExport'.pairs : bkpExport'.pairs[n].of = bkpConf.gen
      BY <1>1, <2>2, <2>3, <2>4 DEF BkpTurnInv
    <3> QED BY <1>1, <2>4, <3>1 DEF BkpTurnInv, BkpStanding
  <2>8. BkpArchivesAreWhole' /\ (BkpAloneInv => BkpAloneInv')
    BY <1>1, BkpAloneSame DEF BkpArchivesAreWhole
  <2> QED BY <1>1, <2>5, <2>6, <2>7, <2>8
<1> QED BY <1>4, <1>5

\* What ArchivesAreWhole asks of one archive.
BkpArchiveIsWhole(archive) ==
    /\ \A n \in DOMAIN archive.pairs : archive.pairs[n].of = archive.conf.gen
    /\ {archive.pairs[n].cert : n \in DOMAIN archive.pairs} = archive.conf.certs
    /\ archive.whole /\ archive.files \subseteq BkpReferenced(archive.conf)
    /\ ~archive.mixed => BkpReferenced(archive.conf) \subseteq archive.files

LEMMA BkpExportEndsInv == ASSUME BkpInv, NEW key \in BkpKeys, BkpExportEnds(key) PROVE BkpInv'
<1> USE DEF BkpInv
<1> DEFINE conf == bkpExport.conf
           files == BkpThere \intersect BkpReferenced(conf)
           archive == BkpSealed(key, conf, bkpExport.pairs, files, bkpExport.mixed)
<1>1. /\ bkpExport.at = "certs" /\ BkpComplete(conf, bkpExport.pairs) /\ bkpExport' = BkpNobody
      /\ bkpArchives' = Append(bkpArchives, archive)
      /\ UNCHANGED <<bkpConf, bkpFiles, bkpPairs, bkpUploads, bkpImport, bkpJob, bkpCounts, bkpLoose>>
  BY DEF BkpExportEnds
<1>2. /\ conf \in BkpConfs /\ conf.image \in BkpNames /\ bkpExport.pairs \in BkpPairLists
      /\ bkpExport.mixed \in BOOLEAN /\ files \subseteq BkpImages
  BY DEF BkpShape, BkpConfs, BkpThere
<1>3. /\ archive.conf = conf /\ archive.pairs = bkpExport.pairs /\ archive.files = files
      /\ archive.mixed = bkpExport.mixed
      /\ archive.whole = \A i \in files : bkpFiles[i] = "whole"
      /\ archive \in BkpMade
  <2>1. (\A i \in files : bkpFiles[i] = "whole") \in BOOLEAN
    OBVIOUS
  <2> QED BY <1>2, <2>1 DEF BkpSealed, BkpMade
<1>4. bkpImport.at = "idle"
  BY <1>1 DEF BkpTurnInv
<1>5. BkpArchiveIsWhole(archive)
  <2>1. \A n \in DOMAIN bkpExport.pairs : bkpExport.pairs[n].of = conf.gen
    BY <1>1 DEF BkpTurnInv
  <2>2. {bkpExport.pairs[n].cert : n \in DOMAIN bkpExport.pairs} = conf.certs
    BY <1>1 DEF BkpComplete
  <2>3. \A i \in files : bkpFiles[i] = "whole"
    <3>1. \A i \in files : i = conf.image /\ i # BkpNoImage /\ bkpFiles[i] \in {"part", "whole"}
      BY DEF BkpReferenced, BkpThere
    <3>2. BkpSettled(conf.image)
      BY DEF BkpNamesInv
    <3> QED BY <3>1, <3>2 DEF BkpSettled
  <2>4. ASSUME ~bkpExport.mixed PROVE BkpReferenced(conf) \subseteq files
    <3>1. BkpStanding(conf.image)
      BY <1>1, <2>4 DEF BkpTurnInv
    <3>2. \A i \in BkpReferenced(conf) : i \in BkpImages /\ bkpFiles[i] = "whole"
      BY <1>2, <3>1 DEF BkpReferenced, BkpStanding, BkpNames
    <3> QED BY <3>2 DEF BkpThere
  <2> HIDE DEF archive, files
  <2>5. archive.whole
    BY <1>3, <2>3
  <2>6. files \subseteq BkpReferenced(conf)
    BY DEF files
  <2> QED BY <1>3, <2>1, <2>2, <2>4, <2>5, <2>6 DEF BkpArchiveIsWhole
<1> HIDE DEF archive
<1>6. /\ bkpArchives' \in Seq(BkpMade)
      /\ \A a \in DOMAIN bkpArchives' : \/ a \in DOMAIN bkpArchives /\ bkpArchives'[a] = bkpArchives[a]
                                        \/ bkpArchives'[a] = archive
  BY <1>1, <1>3 DEF BkpShape
<1>7. BkpShape'
  BY <1>1, <1>6, BkpConstants DEF BkpShape
<1>8. BkpNamesInv'
  <2>1. ASSUME NEW a \in DOMAIN bkpArchives' PROVE BkpSettled(bkpArchives[a].conf.image)'
    BY <1>1, <1>3, <1>6, <2>1 DEF BkpNamesInv, BkpSettled
  <2> QED BY <1>1, <2>1, BkpConstants DEF BkpNamesInv, BkpSettled
<1>9. BkpTurnInv'
  BY <1>1, <1>4, BkpConstants DEF BkpTurnInv
<1>10. BkpArchivesAreWhole'
  <2>1. \A a \in DOMAIN bkpArchives : BkpArchiveIsWhole(bkpArchives[a])
    BY DEF BkpArchivesAreWhole, BkpArchiveIsWhole
  <2>2. ASSUME NEW a \in DOMAIN bkpArchives' PROVE BkpArchiveIsWhole(bkpArchives'[a])
    BY <1>5, <1>6, <2>1
  <2> QED BY <2>2 DEF BkpArchivesAreWhole, BkpArchiveIsWhole
<1>11. BkpAloneInv => BkpAloneInv'
  BY <1>1, <1>4, BkpAloneSame
<1> QED BY <1>1, <1>7, <1>8, <1>9, <1>10, <1>11

LEMMA BkpImportBeginsInv == ASSUME BkpInv, BkpImportBegins PROVE BkpInv'
<1> USE DEF BkpInv
<1>1. /\ bkpExport.at = "idle" /\ bkpImport.at = "idle" /\ BkpCount("imports")
      /\ UNCHANGED <<bkpConf, bkpFiles, bkpPairs, bkpUploads, bkpExport, bkpJob, bkpArchives>>
  BY DEF BkpImportBegins, BkpLockFree
<1>2. PICK a \in DOMAIN bkpArchives, scope \in {{"certs"}, {"certs", "uploads"}} :
         /\ bkpImport' = [at |-> "certs", archive |-> a, scope |-> scope]
         /\ bkpLoose' = (bkpLoose \/ BkpBusy \/ ("uploads" \in scope /\ bkpArchives[a].mixed))
  BY DEF BkpImportBegins
<1>3. /\ bkpImport' \in [at : {"idle", "certs", "uploads", "replace"}, archive : Nat,
                          scope : SUBSET {"certs", "uploads"}]
      /\ bkpLoose' \in BOOLEAN
  <2>1. a \in Nat
    BY DEF BkpShape
  <2> QED BY <1>2, <2>1
<1>4. bkpCounts' \in [imports : Nat, starts : Nat, troubles : Nat, changes : Nat]
  BY <1>1, BkpCounted DEF BkpShape
<1>5. BkpShape'
  BY <1>1, <1>3, <1>4 DEF BkpShape
<1>6. BkpNamesInv'
  BY <1>1 DEF BkpNamesInv, BkpSettled
<1>7. BkpTurnInv'
  BY <1>1, <1>2 DEF BkpTurnInv
<1>8. BkpArchivesAreWhole'
  BY <1>1 DEF BkpArchivesAreWhole
<1>9. ASSUME ~bkpLoose' PROVE BkpAloneInv'
  <2>1. /\ BkpAloneInv /\ \A k \in BkpJobs : bkpJob[k].at = "idle"
        /\ "uploads" \in scope => ~bkpArchives[a].mixed
    BY <1>2, <1>9 DEF BkpBusy
  <2>2. BkpStanding(bkpConf.image)
    BY <1>1, <2>1 DEF BkpAloneInv
  <2> QED BY <1>1, <1>2, <2>1, <2>2 DEF BkpAloneInv, BkpStanding
<1> QED BY <1>5, <1>6, <1>7, <1>8, <1>9

LEMMA BkpImportCertsInv == ASSUME BkpInv, BkpImportCerts PROVE BkpInv'
<1> USE DEF BkpInv
<1> DEFINE at == IF "uploads" \in bkpImport.scope THEN "uploads" ELSE "replace"
           pairs == bkpArchives[bkpImport.archive].pairs
<1>1. /\ bkpImport.at = "certs" /\ bkpImport' = [bkpImport EXCEPT !.at = at]
      /\ bkpPairs' = [c \in BkpCerts |-> IF \E n \in DOMAIN pairs : pairs[n].cert = c
                                         THEN bkpCounts.imports + 1 ELSE 0]
      /\ UNCHANGED <<bkpConf, bkpFiles, bkpUploads, bkpExport, bkpJob, bkpArchives, bkpCounts, bkpLoose>>
  BY DEF BkpImportCerts
<1>2. /\ bkpImport' \in [at : {"idle", "certs", "uploads", "replace"}, archive : Nat,
                          scope : SUBSET {"certs", "uploads"}]
      /\ bkpImport'.at = at /\ bkpImport'.archive = bkpImport.archive
      /\ bkpImport'.scope = bkpImport.scope
  BY <1>1 DEF BkpShape
<1>3. bkpPairs' \in [BkpCerts -> Nat] /\ \A c \in BkpCerts : bkpPairs'[c] \in {0, bkpCounts.imports + 1}
  <2>1. bkpCounts.imports + 1 \in Nat
    BY DEF BkpShape
  <2> QED BY <1>1, <2>1
<1>4. BkpShape'
  BY <1>1, <1>2, <1>3 DEF BkpShape
<1>5. BkpNamesInv'
  BY <1>1 DEF BkpNamesInv, BkpSettled
<1>6. BkpTurnInv'
  BY <1>1, <1>2, <1>3 DEF BkpTurnInv
<1>7. BkpArchivesAreWhole'
  BY <1>1 DEF BkpArchivesAreWhole
<1>8. ASSUME BkpAloneInv PROVE BkpAloneInv'
  <2>1. \A k \in BkpJobs : bkpJob[k].at = "idle"
    BY <1>1, <1>8 DEF BkpAloneInv
  <2>2. BkpStanding(bkpConf.image)
    BY <1>1, <1>8, <2>1 DEF BkpAloneInv
  <2> QED BY <1>1, <1>2, <1>8, <2>1, <2>2 DEF BkpAloneInv, BkpStanding
<1> QED BY <1>1, <1>4, <1>5, <1>6, <1>7, <1>8

LEMMA BkpImportUploadsInv == ASSUME BkpInv, BkpImportUploads PROVE BkpInv'
<1> USE DEF BkpInv
<1> DEFINE archive == bkpArchives[bkpImport.archive]
<1>1. /\ bkpImport.at = "uploads" /\ bkpImport' = [bkpImport EXCEPT !.at = "replace"]
      /\ bkpFiles' = [i \in BkpImages |->
             IF BkpReferenced(archive.conf) = {} THEN bkpFiles[i]
             ELSE IF i \in archive.files THEN "whole"
             ELSE IF bkpFiles[i] = "unused" THEN "unused" ELSE "absent"]
      /\ UNCHANGED <<bkpConf, bkpPairs, bkpUploads, bkpExport, bkpJob, bkpArchives, bkpCounts, bkpLoose>>
  BY DEF BkpImportUploads
<1>2. archive \in BkpMade /\ bkpExport.at = "idle" /\ "uploads" \in bkpImport.scope
      /\ bkpImport.archive \in DOMAIN bkpArchives
  BY <1>1 DEF BkpTurnInv, BkpShape
<1>3. /\ bkpImport' \in [at : {"idle", "certs", "uploads", "replace"}, archive : Nat,
                          scope : SUBSET {"certs", "uploads"}]
      /\ bkpImport'.at = "replace" /\ bkpImport'.archive = bkpImport.archive
      /\ bkpImport'.scope = bkpImport.scope
  BY <1>1 DEF BkpShape
<1>4. BkpFilesTyped /\ BkpSettledStay
  BY <1>1 DEF BkpShape, BkpFilesTyped, BkpSettledStay
<1>5. BkpShape'
  BY <1>1, <1>3, <1>4 DEF BkpShape, BkpFilesTyped
<1>6. BkpNamesInv'
  BY <1>1, <1>4, BkpNamesKept
<1>7. BkpTurnInv'
  BY <1>1, <1>2, <1>3 DEF BkpTurnInv
<1>8. BkpArchivesAreWhole'
  BY <1>1 DEF BkpArchivesAreWhole
<1>9. ASSUME BkpAloneInv PROVE BkpAloneInv'
  <2>1. (\A k \in BkpJobs : bkpJob[k].at = "idle") /\ ~archive.mixed
    BY <1>1, <1>2, <1>9 DEF BkpAloneInv
  <2>2. BkpReferenced(archive.conf) \subseteq archive.files
    BY <1>2, <2>1 DEF BkpArchivesAreWhole
  <2>3. ASSUME archive.conf.image # BkpNoImage PROVE bkpFiles'[archive.conf.image] = "whole"
    <3>1. archive.conf.image \in BkpReferenced(archive.conf)
      BY <2>3 DEF BkpReferenced
    <3>2. archive.conf.image \in BkpImages
      BY <1>2, <2>3 DEF BkpMade, BkpConfs, BkpNames
    <3> QED BY <1>1, <2>2, <3>1, <3>2
  <2> HIDE DEF archive
  <2>4. bkpArchives'[bkpImport'.archive] = archive
    BY <1>1, <1>3 DEF archive
  <2> QED BY <1>1, <1>2, <1>3, <1>9, <2>1, <2>3, <2>4 DEF BkpAloneInv, BkpStanding
<1> QED BY <1>1, <1>5, <1>6, <1>7, <1>8, <1>9

LEMMA BkpImportReplacesInv == ASSUME BkpInv, BkpImportReplaces PROVE BkpInv'
<1> USE DEF BkpInv
<1> DEFINE archive == bkpArchives[bkpImport.archive]
           image == IF "uploads" \in bkpImport.scope THEN archive.conf.image ELSE bkpConf.image
<1>1. /\ bkpImport.at = "replace" /\ bkpImport' = BkpNoImport
      /\ bkpConf' = [image |-> image, certs |-> archive.conf.certs, gen |-> bkpCounts.imports + 1]
      /\ UNCHANGED <<bkpFiles, bkpPairs, bkpUploads, bkpExport, bkpJob, bkpArchives, bkpCounts, bkpLoose>>
  BY DEF BkpImportReplaces
<1>2. archive \in BkpMade /\ bkpExport.at = "idle" /\ bkpImport.archive \in DOMAIN bkpArchives
  BY <1>1 DEF BkpTurnInv, BkpShape
<1>3. /\ bkpConf' \in BkpConfs /\ bkpConf'.image = image /\ bkpConf'.gen = bkpCounts.imports + 1
      /\ BkpSettled(image)
  <2>1. archive.conf \in BkpConfs /\ bkpConf \in BkpConfs /\ bkpCounts.imports + 1 \in Nat
    BY <1>2 DEF BkpMade, BkpShape
  <2>2. image \in BkpNames /\ archive.conf.certs \subseteq BkpCerts
    BY <2>1 DEF BkpConfs
  <2>3. BkpSettled(image)
    BY <1>2 DEF BkpNamesInv
  <2> HIDE DEF image, archive
  <2> QED BY <1>1, <2>1, <2>2, <2>3 DEF BkpConfs
<1> HIDE DEF image
<1>4. BkpShape'
  BY <1>1, <1>3, BkpConstants DEF BkpShape
<1>5. BkpNamesInv'
  BY <1>1, <1>3 DEF BkpNamesInv, BkpSettled
<1>6. BkpTurnInv'
  BY <1>1, <1>2, <1>3, BkpConstants DEF BkpTurnInv
<1>7. BkpArchivesAreWhole'
  BY <1>1 DEF BkpArchivesAreWhole
<1>8. ASSUME BkpAloneInv PROVE BkpAloneInv'
  <2>1. \A k \in BkpJobs : bkpJob[k].at = "idle"
    BY <1>1, <1>8 DEF BkpAloneInv
  <2>2. BkpStanding(image)
    BY <1>1, <1>8, <2>1 DEF BkpAloneInv, image
  <2> QED BY <1>1, <1>3, <2>1, <2>2, BkpConstants DEF BkpAloneInv, BkpStanding
<1> QED BY <1>1, <1>4, <1>5, <1>6, <1>7, <1>8

LEMMA BkpStepInv == ASSUME BkpInv, [BkpNext]_bkpVars PROVE BkpInv'
<1>1. CASE BkpNext
  BY <1>1, BkpUploadInv, BkpJobBeginsInv, BkpSaveInv, BkpRemoveOldInv, BkpDeleteInv, BkpResetInv,
     BkpCleanInv, BkpCertChangesInv, BkpExportBeginsInv, BkpExportCertInv, BkpExportEndsInv,
     BkpImportBeginsInv, BkpImportCertsInv, BkpImportUploadsInv, BkpImportReplacesInv DEF BkpNext
<1>2. CASE UNCHANGED bkpVars
  <2>1. BkpFilesOnly /\ UNCHANGED bkpFiles
    BY <1>2 DEF bkpVars, BkpFilesOnly
  <2>2. BkpFilesTyped /\ BkpSettledStay /\ BkpWholeStay
    BY <2>1 DEF BkpFilesTyped, BkpSettledStay, BkpWholeStay, BkpInv, BkpShape
  <2> QED BY <2>1, <2>2, BkpFilesInv
<1> QED BY <1>1, <1>2

LEMMA BkpShows == BkpInv => BackupsHold
<1> SUFFICES ASSUME BkpInv PROVE BackupsHold
  OBVIOUS
<1>1. ASSUME ~bkpLoose, ~BkpBusy PROVE \A i \in BkpReferenced(bkpConf) : bkpFiles[i] = "whole"
  <2>1. BkpStanding(bkpConf.image)
    BY <1>1 DEF BkpInv, BkpAloneInv, BkpBusy
  <2> QED BY <2>1 DEF BkpReferenced, BkpStanding
<1> QED BY <1>1 DEF BkpInv, BackupsHold, BkpImageStands


-----------------------------------------------------------------------------
(* Saving the settings.                                                     *)

StgConfs == [port : Nat, https : BOOLEAN, cert : BOOLEAN, log : Nat, auth : Nat,
             mode : Nat, lists : Nat]
StgAnyRequests ==
    [kind : {"port", "log", "auth"}, value : Nat]
    \union [kind : {"https", "cert"}, value : BOOLEAN]
    \union [kind : {"wall"}, value : {"lists", "mode"}]
StgPlaces == {"new", "checked", "saved", "ring", "web", "file", "limiter", "answer", "done"}

StgShape ==
    /\ stgCfg \in StgConfs
    /\ stgLive \in [ring : Nat, web : Nat, file : Nat, limiter : Nat, listener : Nat \X BOOLEAN]
    /\ stgRestart \in BOOLEAN
    /\ stgAt \in [StgSaves -> [at : StgPlaces, req : StgAnyRequests,
                               before : StgConfs, after : StgConfs]]

\* The saves that have brought a list.
StgListed == {s \in StgSaves : stgAt[s].req = StgLists /\ stgAt[s].at \notin {"new", "checked"}}

\* A save that has changed the configuration and is not answered yet, and one
\* that has taken its second look.
StgOpen(s, kind) == stgAt[s].at \notin {"new", "done", "checked"} /\ stgAt[s].req.kind = kind
StgLooked(s, kind) == StgOpen(s, kind) /\ stgAt[s].at # "saved"

StgListsInv ==
    /\ IsFiniteSet(StgListed)
    /\ "wall" \in stgStale \/ stgCfg.lists = Cardinality(StgListed)

\* Where a limit is in force already, by the place of the save that puts it there.
StgPut(at) ==
    CASE at = "web" -> {"ring"}
      [] at = "file" -> {"ring", "web"}
      [] at = "answer" -> {"ring", "web", "file"}
      [] OTHER -> {}

StgPathInv ==
    \A s \in StgSaves :
        /\ stgAt[s].at = "new" => stgAt[s].req # StgLists
        /\ stgAt[s].at \in {"ring", "web", "file"} => stgAt[s].req.kind = "log"
        /\ stgAt[s].at = "limiter" => stgAt[s].req.kind = "auth"
        /\ StgOpen(s, "log") => stgAt[s].at # "limiter"
        /\ stgAt[s].at \notin {"new", "done", "checked"} => stgAt[s].req.kind # "cert"

\* One save of the section at a time is past its second look; while none is
\* before it the limit of that one is the saved one, and in force in the
\* places it has been to.
StgLogInv ==
    /\ \A s, o \in StgSaves : StgLooked(s, "log") /\ StgLooked(o, "log") => s = o
    /\ (\A s \in StgSaves : StgOpen(s, "log") => StgLooked(s, "log")) =>
          /\ \A s \in StgSaves : StgLooked(s, "log") =>
                /\ stgAt[s].after.log = stgCfg.log
                /\ \A place \in StgPut(stgAt[s].at) : stgLive[place] = stgCfg.log
          /\ (\A s \in StgSaves : ~StgOpen(s, "log")) =>
                \A place \in {"ring", "web", "file"} : stgLive[place] = stgCfg.log

StgAuthInv ==
    /\ \A s, o \in StgSaves : StgLooked(s, "auth") /\ StgLooked(o, "auth") => s = o
    /\ (\A s \in StgSaves : StgOpen(s, "auth") => StgLooked(s, "auth")) =>
          /\ \A s \in StgSaves : StgLooked(s, "auth") =>
                /\ stgAt[s].after.auth = stgCfg.auth
                /\ stgAt[s].at = "answer" => stgLive.limiter = stgCfg.auth
          /\ (\A s \in StgSaves : ~StgOpen(s, "auth")) => stgLive.limiter = stgCfg.auth

\* A listener's setting that differs from the one in force, here or in what a
\* save began with, was changed by a save that is still to answer and began
\* with the one in force.
StgBusy == {s \in StgSaves : stgAt[s].at \notin {"new", "done"}}
StgWitness(kind, live) ==
    \E s \in StgSaves : StgOpen(s, kind) /\ stgAt[s].before[kind] = live
                        /\ stgAt[s].req.value # live
StgListenerInv ==
    /\ stgCfg.port # stgLive.listener[1]
          \/ (\E s \in StgBusy : stgAt[s].before.port # stgLive.listener[1])
       => StgWitness("port", stgLive.listener[1])
    /\ stgCfg.https # stgLive.listener[2]
          \/ (\E s \in StgBusy : stgAt[s].before.https # stgLive.listener[2])
       => StgWitness("https", stgLive.listener[2])

StgInv ==
    /\ StgShape /\ StgPathInv /\ StgListsInv
    /\ "cert" \in stgStale \/ ~stgCfg.https \/ stgCfg.cert
    /\ "log" \in stgStale \/ StgLogInv
    /\ "auth" \in stgStale \/ StgAuthInv
    /\ "listener" \in stgStale \/ stgRestart \/ StgListenerInv

LEMMA StgConstants ==
    /\ StgSaves \subseteq Nat /\ StgRequests \subseteq StgAnyRequests
    /\ StgStart \in StgConfs /\ [kind |-> "port", value |-> 1] \in StgAnyRequests
    /\ [kind |-> "port", value |-> 1] # StgLists
<1>1. StgRequests \subseteq StgAnyRequests
  BY StgAssumption DEF StgRequests, StgAnyRequests
<1>2. StgStart \in StgConfs
  BY DEF StgStart, StgConfs
<1>3. [kind |-> "port", value |-> 1] \in StgAnyRequests
  BY DEF StgAnyRequests
<1>4. [kind |-> "port", value |-> 1].kind # StgLists.kind
  BY DEF StgLists
<1> QED BY StgAssumption, <1>1, <1>2, <1>3, <1>4

\* What a request changes of the settings, field by field.
LEMMA StgMadeFields ==
    ASSUME NEW req \in StgAnyRequests, NEW before \in StgConfs, NEW cfg \in StgConfs
    PROVE  /\ StgMade(req, before, cfg) \in StgConfs
           /\ StgMade(req, before, cfg).port = IF req.kind = "port" THEN req.value ELSE cfg.port
           /\ StgMade(req, before, cfg).https = IF req.kind = "https" THEN req.value ELSE cfg.https
           /\ StgMade(req, before, cfg).cert = IF req.kind = "cert" THEN req.value ELSE cfg.cert
           /\ StgMade(req, before, cfg).log = IF req.kind = "log" THEN req.value ELSE cfg.log
           /\ StgMade(req, before, cfg).auth = IF req.kind = "auth" THEN req.value ELSE cfg.auth
           /\ StgMade(req, before, cfg).lists =
                  IF req = StgLists THEN cfg.lists + 1
                  ELSE IF req.kind = "wall" THEN before.lists ELSE cfg.lists
<1> DEFINE made == StgMade(req, before, cfg)
<1>1. CASE req.kind = "wall"
  <2>1. req \in [kind : {"wall"}, value : {"lists", "mode"}]
    BY <1>1 DEF StgAnyRequests
  <2>2. CASE req.value = "lists"
    <3>1. made = [cfg EXCEPT !.lists = @ + 1]
      BY <1>1, <2>2 DEF StgMade
    <3>2. req = StgLists
      BY <2>1, <2>2 DEF StgLists
    <3> QED BY <1>1, <3>1, <3>2 DEF StgConfs
  <2>3. CASE req.value = "mode"
    <3>1. made = [cfg EXCEPT !.mode = @ + 1, !.lists = before.lists]
      BY <1>1, <2>3 DEF StgMade
    <3>2. req # StgLists
      BY <2>3 DEF StgLists
    <3>3. made = [port |-> cfg.port, https |-> cfg.https, cert |-> cfg.cert, log |-> cfg.log,
                  auth |-> cfg.auth, mode |-> cfg.mode + 1, lists |-> before.lists]
      BY <3>1 DEF StgConfs
    <3> HIDE DEF made
    <3>4. made \in StgConfs
      BY <3>3 DEF StgConfs
    <3>5. made.port = cfg.port /\ made.https = cfg.https /\ made.cert = cfg.cert
          /\ made.log = cfg.log /\ made.auth = cfg.auth /\ made.lists = before.lists
      BY <3>3
    <3> QED BY <1>1, <3>2, <3>4, <3>5 DEF made
  <2> QED BY <2>1, <2>2, <2>3
<1>2. CASE req.kind # "wall"
  <2>1. made = [cfg EXCEPT ![req.kind] = req.value]
    BY <1>2 DEF StgMade
  <2>2. req # StgLists
    BY <1>2 DEF StgLists
  <2>3. CASE req \in [kind : {"port", "log", "auth"}, value : Nat]
    BY <1>2, <2>1, <2>2, <2>3 DEF StgConfs
  <2>4. CASE req \in [kind : {"https", "cert"}, value : BOOLEAN]
    BY <1>2, <2>1, <2>2, <2>4 DEF StgConfs
  <2> QED BY <1>2, <2>3, <2>4 DEF StgAnyRequests
<1> QED BY <1>1, <1>2

StgRecords == [at : StgPlaces, req : StgAnyRequests, before : StgConfs, after : StgConfs]

LEMMA StgEndFields ==
    ASSUME NEW rec \in StgRecords
    PROVE  /\ StgEnd(rec) \in StgRecords /\ StgEnd(rec).at = "done"
           /\ StgEnd(rec).req = StgLists <=> rec.req = StgLists
BY StgConstants DEF StgEnd, StgRecords, StgPlaces

LEMMA StgGoes ==
    ASSUME StgShape, NEW s \in StgSaves, NEW at \in StgPlaces, StgGo(s, at)
    PROVE  /\ stgAt' \in [StgSaves -> StgRecords]
           /\ \A o \in StgSaves \ {s} : stgAt'[o] = stgAt[o]
           /\ stgAt'[s].at = at
           /\ at # "done" => /\ stgAt'[s].req = stgAt[s].req
                             /\ stgAt'[s].before = stgAt[s].before
                             /\ stgAt'[s].after = stgAt[s].after
           /\ stgAt'[s].req = StgLists <=> stgAt[s].req = StgLists
<1>1. stgAt \in [StgSaves -> StgRecords]
  BY DEF StgShape, StgRecords
<1>2. CASE at = "done"
  <2>1. stgAt' = [stgAt EXCEPT ![s] = StgEnd(stgAt[s])]
    BY <1>2 DEF StgGo
  <2> QED BY <1>1, <1>2, <2>1, StgEndFields
<1>3. CASE at # "done"
  <2>1. stgAt' = [stgAt EXCEPT ![s] = [stgAt[s] EXCEPT !.at = at]]
    BY <1>3 DEF StgGo
  <2> QED BY <1>1, <1>3, <2>1 DEF StgRecords
<1> QED BY <1>2, <1>3

\* A step of a save that has nothing to do with the section leaves what is
\* known of the section.
StgOthersStay(s) == \A o \in StgSaves \ {s} : stgAt'[o] = stgAt[o]

LEMMA StgLogKept ==
    ASSUME StgLogInv, NEW s \in StgSaves, StgOthersStay(s),
           ~StgOpen(s, "log"), ~StgOpen(s, "log")', stgCfg'.log = stgCfg.log,
           \A place \in {"ring", "web", "file"} : stgLive'[place] = stgLive[place]
    PROVE  StgLogInv'
<1>1. \A o \in StgSaves : StgOpen(o, "log")' <=> StgOpen(o, "log")
  BY DEF StgOpen, StgOthersStay
<1>2. \A o \in StgSaves : StgLooked(o, "log")' <=> StgLooked(o, "log")
  BY DEF StgOpen, StgLooked, StgOthersStay
<1>3. \A o \in StgSaves : StgLooked(o, "log") => stgAt'[o] = stgAt[o]
  BY DEF StgLooked, StgOthersStay
<1>4. \A at : StgPut(at) \subseteq {"ring", "web", "file"}
  BY DEF StgPut
<1> QED BY <1>1, <1>2, <1>3, <1>4 DEF StgLogInv

LEMMA StgAuthKept ==
    ASSUME StgAuthInv, NEW s \in StgSaves, StgOthersStay(s),
           ~StgOpen(s, "auth"), ~StgOpen(s, "auth")', stgCfg'.auth = stgCfg.auth,
           stgLive'.limiter = stgLive.limiter
    PROVE  StgAuthInv'
<1>1. \A o \in StgSaves : StgOpen(o, "auth")' <=> StgOpen(o, "auth")
  BY DEF StgOpen, StgOthersStay
<1>2. \A o \in StgSaves : StgLooked(o, "auth")' <=> StgLooked(o, "auth")
  BY DEF StgOpen, StgLooked, StgOthersStay
<1>3. \A o \in StgSaves : StgLooked(o, "auth") => stgAt'[o] = stgAt[o]
  BY DEF StgLooked, StgOthersStay
<1> QED BY <1>1, <1>2, <1>3 DEF StgAuthInv

\* A witness is the save that steps, or stays one.
LEMMA StgWitnessKept ==
    ASSUME NEW s \in StgSaves, StgOthersStay(s), NEW kind \in {"port", "https"}, NEW live,
           StgWitness(kind, live),
           StgOpen(s, kind) => StgOpen(s, kind)' /\ stgAt'[s].req = stgAt[s].req
                                 /\ stgAt'[s].before = stgAt[s].before
    PROVE  \E o \in StgSaves : StgOpen(o, kind)' /\ stgAt'[o].before[kind] = live
                               /\ stgAt'[o].req.value # live
<1>1. PICK o \in StgSaves : StgOpen(o, kind) /\ stgAt[o].before[kind] = live
                             /\ stgAt[o].req.value # live
  BY DEF StgWitness
<1>2. StgOpen(o, kind)' /\ stgAt'[o].before[kind] = live /\ stgAt'[o].req.value # live
  BY <1>1 DEF StgOthersStay, StgOpen
<1> QED BY <1>2

\* What a step does to the listener's part when the settings of the listener stay.
LEMMA StgListenerKept ==
    ASSUME StgListenerInv, NEW s \in StgSaves, StgOthersStay(s),
           stgCfg'.port = stgCfg.port, stgCfg'.https = stgCfg.https,
           stgLive'.listener = stgLive.listener,
           \A kind \in {"port", "https"} : StgOpen(s, kind) =>
                StgOpen(s, kind)' /\ stgAt'[s].req = stgAt[s].req
                  /\ stgAt'[s].before = stgAt[s].before,
           stgAt'[s].at # "done" =>
                stgAt'[s].before = stgCfg \/ (stgAt'[s].before = stgAt[s].before /\ s \in StgBusy)
    PROVE  StgListenerInv'
<1>1. ASSUME NEW kind \in {"port", "https"}, NEW live, StgWitness(kind, live)
      PROVE  StgWitness(kind, live)'
  BY <1>1, StgWitnessKept DEF StgWitness
<1>2. \A o \in StgBusy' : o # s => o \in StgBusy /\ stgAt'[o] = stgAt[o]
  BY DEF StgBusy, StgOthersStay
<1>3. s \in StgBusy' => stgAt'[s].before = stgCfg
                          \/ (stgAt'[s].before = stgAt[s].before /\ s \in StgBusy)
  BY DEF StgBusy
<1>4. ASSUME stgCfg'.port # stgLive'.listener[1]
                \/ (\E o \in StgBusy' : stgAt'[o].before.port # stgLive'.listener[1])
      PROVE  StgWitness("port", stgLive.listener[1])
  BY <1>2, <1>3, <1>4 DEF StgListenerInv
<1>5. ASSUME stgCfg'.https # stgLive'.listener[2]
                \/ (\E o \in StgBusy' : stgAt'[o].before.https # stgLive'.listener[2])
      PROVE  StgWitness("https", stgLive.listener[2])
  BY <1>2, <1>3, <1>5 DEF StgListenerInv
<1> QED BY <1>1, <1>4, <1>5 DEF StgListenerInv, StgWitness

LEMMA StgInitInv == ASSUME StgInit PROVE StgInv
<1>1. StgShape
  BY StgConstants DEF StgInit, StgShape, StgStart, StgPlaces
<1>2. \A s \in StgSaves : /\ stgAt[s].at = "new" /\ stgAt[s].req # StgLists
                          /\ stgAt[s].before = stgCfg
  BY StgConstants DEF StgInit
<1>3. StgListsInv
  <2>1. StgListed = {}
    BY <1>2 DEF StgListed
  <2> QED BY <2>1, FS_EmptySet DEF StgListsInv, StgInit, StgStart
<1>4. StgPathInv /\ StgLogInv /\ StgAuthInv
  BY <1>2 DEF StgInit, StgStart, StgPathInv, StgLogInv, StgAuthInv, StgOpen, StgLooked
<1>5. StgListenerInv
  BY <1>2 DEF StgInit, StgStart, StgListenerInv, StgBusy
<1> QED BY <1>1, <1>3, <1>4, <1>5 DEF StgInv, StgInit, StgStart

\* The saves that have brought a list, when none does so in the step.
LEMMA StgListsKept ==
    ASSUME StgListsInv, StgListed' = StgListed, stgCfg'.lists = stgCfg.lists,
           stgStale \subseteq stgStale'
    PROVE  StgListsInv'
BY DEF StgListsInv

LEMMA StgBeginInv ==
    ASSUME StgInv, NEW s \in StgSaves, NEW req \in StgRequests, StgBegin(s, req)
    PROVE  StgInv'
<1> USE DEF StgInv
<1>1. stgAt \in [StgSaves -> StgRecords] /\ stgCfg \in StgConfs
  BY DEF StgShape, StgRecords
<1>2. /\ stgAt' \in [StgSaves -> StgRecords] /\ StgOthersStay(s)
      /\ stgAt'[s].at \in {"checked", "done"}
      /\ stgAt'[s].at # "done" => stgAt'[s].before = stgCfg
      /\ stgAt'[s].at = "done" => (stgAt'[s].req = StgLists <=> stgAt[s].req = StgLists)
  <2>1. CASE StgRefuses(req, stgCfg)
    <3>1. stgAt' = [stgAt EXCEPT ![s] = StgEnd(stgAt[s])]
      BY <2>1 DEF StgBegin
    <3> QED BY <1>1, <3>1, StgEndFields DEF StgOthersStay
  <2>2. CASE ~StgRefuses(req, stgCfg)
    <3> DEFINE rec == [at |-> "checked", req |-> req, before |-> stgCfg, after |-> StgStart]
    <3>1. stgAt' = [stgAt EXCEPT ![s] = rec]
      BY <2>2 DEF StgBegin
    <3>2. rec \in StgRecords
      BY <1>1, StgConstants DEF StgRecords, StgPlaces
    <3> QED BY <1>1, <3>1, <3>2 DEF StgOthersStay
  <2> QED BY <2>1, <2>2
<1>3. stgAt[s].at = "new" /\ UNCHANGED <<stgCfg, stgLive, stgRestart, stgStale>>
  BY DEF StgBegin
<1>4. StgShape'
  BY <1>2, <1>3 DEF StgShape, StgRecords
<1>5. \A kind : ~StgOpen(s, kind) /\ ~StgOpen(s, kind)'
  BY <1>2, <1>3 DEF StgOpen
<1>6. StgPathInv'
  BY <1>2, <1>3, <1>5 DEF StgPathInv, StgOpen, StgOthersStay
<1>7. StgListsInv'
  <2>2. CASE stgAt'[s].at = "checked"
    <3>1. StgListed' = StgListed
      BY <1>2, <1>3, <2>2 DEF StgListed, StgOthersStay
    <3> QED BY <1>3, <3>1, StgListsKept
  <2>3. CASE stgAt'[s].at = "done"
    <3>1. stgAt[s].req # StgLists
      BY <1>3 DEF StgPathInv
    <3>2. StgListed' = StgListed
      BY <1>2, <1>3, <2>3, <3>1 DEF StgListed, StgOthersStay
    <3> QED BY <1>3, <3>2, StgListsKept
  <2> QED BY <1>2, <2>2, <2>3
<1>8. ("log" \in stgStale \/ StgLogInv) => ("log" \in stgStale' \/ StgLogInv')
  BY <1>2, <1>3, <1>5, StgLogKept
<1>9. ("auth" \in stgStale \/ StgAuthInv) => ("auth" \in stgStale' \/ StgAuthInv')
  BY <1>2, <1>3, <1>5, StgAuthKept
<1>10. StgListenerInv => StgListenerInv'
  BY <1>2, <1>3, <1>5, StgListenerKept
<1> QED BY <1>3, <1>4, <1>6, <1>7, <1>8, <1>9, <1>10

LEMMA StgUpdateInv == ASSUME StgInv, NEW s \in StgSaves, StgUpdate(s) PROVE StgInv'
<1> USE DEF StgInv
<1> DEFINE req == stgAt[s].req
           before == stgAt[s].before
           next == IF req.kind = "cert" THEN "done" ELSE "saved"
<1>1. req \in StgAnyRequests /\ before \in StgConfs /\ stgCfg \in StgConfs
  BY DEF StgShape
<1>2. /\ stgAt[s].at = "checked" /\ stgCfg' = StgMade(req, before, stgCfg) /\ StgGo(s, next)
      /\ stgStale' = stgStale \union StgOverlooked(s) /\ UNCHANGED <<stgLive, stgRestart>>
  BY DEF StgUpdate
<1>3. /\ stgAt' \in [StgSaves -> StgRecords] /\ StgOthersStay(s)
      /\ stgAt'[s].at = next
      /\ next # "done" => stgAt'[s].req = req /\ stgAt'[s].before = before
      /\ stgAt'[s].req = StgLists <=> req = StgLists
  BY <1>2, StgGoes DEF StgPlaces, StgOthersStay
<1>4. /\ stgCfg' \in StgConfs
      /\ stgCfg'.port = IF req.kind = "port" THEN req.value ELSE stgCfg.port
      /\ stgCfg'.https = IF req.kind = "https" THEN req.value ELSE stgCfg.https
      /\ stgCfg'.cert = IF req.kind = "cert" THEN req.value ELSE stgCfg.cert
      /\ stgCfg'.log = IF req.kind = "log" THEN req.value ELSE stgCfg.log
      /\ stgCfg'.auth = IF req.kind = "auth" THEN req.value ELSE stgCfg.auth
      /\ stgCfg'.lists = IF req = StgLists THEN stgCfg.lists + 1
                         ELSE IF req.kind = "wall" THEN before.lists ELSE stgCfg.lists
  BY <1>1, <1>2, StgMadeFields
<1>5. /\ StgRefuses(req, stgCfg) => "cert" \in stgStale'
      /\ req.kind = "wall" /\ before.lists # stgCfg.lists => "wall" \in stgStale'
      /\ stgStale \subseteq stgStale'
  BY <1>2 DEF StgOverlooked
<1> HIDE DEF req, before
<1>6. StgShape'
  BY <1>2, <1>3, <1>4 DEF StgShape, StgRecords
<1>7. StgPathInv'
  BY <1>2, <1>3 DEF StgPathInv, StgOpen, StgOthersStay
<1>8. "cert" \in stgStale' \/ ~stgCfg'.https \/ stgCfg'.cert
  <2>1. CASE StgRefuses(req, stgCfg)
    BY <1>5, <2>1
  <2>2. CASE ~StgRefuses(req, stgCfg)
    BY <1>1, <1>4, <1>5, <2>2 DEF StgRefuses, StgConfs
  <2> QED BY <2>1, <2>2
<1>9. StgListsInv'
  <2>1. CASE req = StgLists
    <3>1. s \notin StgListed /\ IsFiniteSet(StgListed)
      BY <1>2 DEF StgListed, StgListsInv
    <3>2. StgListed' = StgListed \union {s}
      <4>1. next = "saved"
        BY <2>1 DEF StgLists
      <4>2. s \in StgListed'
        BY <1>3, <2>1, <4>1 DEF StgListed
      <4>3. \A o \in StgSaves \ {s} : o \in StgListed' <=> o \in StgListed
        BY <1>3 DEF StgListed, StgOthersStay
      <4> QED BY <4>2, <4>3 DEF StgListed
    <3>3. IsFiniteSet(StgListed') /\ Cardinality(StgListed') = Cardinality(StgListed) + 1
      BY <3>1, <3>2, FS_AddElement
    <3>4. stgCfg'.lists = stgCfg.lists + 1
      BY <1>4, <2>1
    <3> QED BY <1>5, <3>3, <3>4 DEF StgListsInv
  <2>2. CASE req # StgLists
    <3>1. StgListed' = StgListed
      BY <1>2, <1>3, <2>2 DEF StgListed, StgOthersStay, req
    <3>2. "wall" \in stgStale' \/ stgCfg'.lists = stgCfg.lists
      BY <1>4, <1>5, <2>2
    <3> QED BY <1>5, <3>1, <3>2 DEF StgListsInv
  <2> QED BY <2>1, <2>2
<1>10. \A kind \in {"port", "https", "log", "auth"} :
          ~StgOpen(s, kind) /\ (StgOpen(s, kind)' <=> req.kind = kind)
  BY <1>2, <1>3 DEF StgOpen
<1>11. ("log" \in stgStale \/ StgLogInv) => ("log" \in stgStale' \/ StgLogInv')
  <2>1. CASE req.kind # "log"
    <3>1. stgCfg'.log = stgCfg.log /\ ~StgOpen(s, "log") /\ ~StgOpen(s, "log")'
      BY <1>4, <1>10, <2>1
    <3> QED BY <1>2, <1>3, <1>5, <3>1, StgLogKept
  <2>2. CASE req.kind = "log"
    <3>1. StgOpen(s, "log")' /\ ~StgLooked(s, "log")' /\ ~StgLooked(s, "log")
      BY <1>2, <1>3, <1>10, <2>2 DEF StgLooked
    <3>2. \A o \in StgSaves \ {s} : StgLooked(o, "log")' <=> StgLooked(o, "log")
      BY <1>3 DEF StgLooked, StgOpen, StgOthersStay
    <3> QED BY <1>5, <3>1, <3>2 DEF StgLogInv
  <2> QED BY <2>1, <2>2
<1>12. ("auth" \in stgStale \/ StgAuthInv) => ("auth" \in stgStale' \/ StgAuthInv')
  <2>1. CASE req.kind # "auth"
    <3>1. stgCfg'.auth = stgCfg.auth /\ ~StgOpen(s, "auth") /\ ~StgOpen(s, "auth")'
      BY <1>4, <1>10, <2>1
    <3> QED BY <1>2, <1>3, <1>5, <3>1, StgAuthKept
  <2>2. CASE req.kind = "auth"
    <3>1. StgOpen(s, "auth")' /\ ~StgLooked(s, "auth")' /\ ~StgLooked(s, "auth")
      BY <1>2, <1>3, <1>10, <2>2 DEF StgLooked
    <3>2. \A o \in StgSaves \ {s} : StgLooked(o, "auth")' <=> StgLooked(o, "auth")
      BY <1>3 DEF StgLooked, StgOpen, StgOthersStay
    <3> QED BY <1>5, <3>1, <3>2 DEF StgAuthInv
  <2> QED BY <2>1, <2>2
<1>13. StgListenerInv => StgListenerInv'
  <2> SUFFICES ASSUME StgListenerInv PROVE StgListenerInv'
    OBVIOUS
  <2>1. ASSUME NEW kind \in {"port", "https"}, NEW live, StgWitness(kind, live)
        PROVE  StgWitness(kind, live)'
    BY <1>3, <1>10, <2>1, StgWitnessKept DEF StgWitness
  <2>2. \A o \in StgBusy' : o \in StgBusy /\ stgAt'[o].before = stgAt[o].before
    BY <1>2, <1>3 DEF StgBusy, StgOthersStay, before
  <2>3. ASSUME stgCfg'.port # stgLive'.listener[1]
                  \/ (\E o \in StgBusy' : stgAt'[o].before.port # stgLive'.listener[1])
        PROVE  StgWitness("port", stgLive.listener[1])'
    <3>1. CASE stgCfg.port # stgLive.listener[1]
                  \/ (\E o \in StgBusy : stgAt[o].before.port # stgLive.listener[1])
      BY <1>2, <2>1, <3>1 DEF StgListenerInv, StgWitness
    <3>2. CASE ~(stgCfg.port # stgLive.listener[1]
                  \/ (\E o \in StgBusy : stgAt[o].before.port # stgLive.listener[1]))
      <4>1. req.kind = "port" /\ req.value # stgLive.listener[1]
        BY <1>2, <1>4, <2>2, <2>3, <3>2
      <4>2. before.port = stgLive.listener[1]
        BY <1>2, <3>2 DEF StgBusy, before
      <4>3. StgOpen(s, "port")' /\ stgAt'[s].before = before /\ stgAt'[s].req = req
        BY <1>3, <1>10, <4>1
      <4> QED BY <1>2, <4>1, <4>2, <4>3 DEF StgWitness
    <3> QED BY <3>1, <3>2
  <2>4. ASSUME stgCfg'.https # stgLive'.listener[2]
                  \/ (\E o \in StgBusy' : stgAt'[o].before.https # stgLive'.listener[2])
        PROVE  StgWitness("https", stgLive.listener[2])'
    <3>1. CASE stgCfg.https # stgLive.listener[2]
                  \/ (\E o \in StgBusy : stgAt[o].before.https # stgLive.listener[2])
      BY <1>2, <2>1, <3>1 DEF StgListenerInv, StgWitness
    <3>2. CASE ~(stgCfg.https # stgLive.listener[2]
                  \/ (\E o \in StgBusy : stgAt[o].before.https # stgLive.listener[2]))
      <4>1. req.kind = "https" /\ req.value # stgLive.listener[2]
        BY <1>2, <1>4, <2>2, <2>4, <3>2
      <4>2. before.https = stgLive.listener[2]
        BY <1>2, <3>2 DEF StgBusy, before
      <4>3. StgOpen(s, "https")' /\ stgAt'[s].before = before /\ stgAt'[s].req = req
        BY <1>3, <1>10, <4>1
      <4> QED BY <1>2, <4>1, <4>2, <4>3 DEF StgWitness
    <3> QED BY <3>1, <3>2
  <2> QED BY <2>3, <2>4 DEF StgListenerInv
<1> QED BY <1>2, <1>5, <1>6, <1>7, <1>8, <1>9, <1>11, <1>12, <1>13

LEMMA StgLookRecord ==
    ASSUME NEW rec \in StgRecords, NEW after \in StgConfs, NEW at \in StgPlaces
    PROVE  [rec EXCEPT !.after = after, !.at = at] =
              [at |-> at, req |-> rec.req, before |-> rec.before, after |-> after]
<1> DEFINE looked == [rec EXCEPT !.after = after]
<1>1. looked = [at |-> rec.at, req |-> rec.req, before |-> rec.before, after |-> after]
  BY DEF StgRecords
<1>2. [rec EXCEPT !.after = after, !.at = at] = [looked EXCEPT !.at = at]
  OBVIOUS
<1> HIDE DEF looked
<1>3. [looked EXCEPT !.at = at] =
         [at |-> at, req |-> rec.req, before |-> rec.before, after |-> after]
  BY <1>1
<1> QED BY <1>2, <1>3

LEMMA StgLookInv == ASSUME StgInv, NEW s \in StgSaves, StgLook(s) PROVE StgInv'
<1> USE DEF StgInv
<1> DEFINE kind == stgAt[s].req.kind
           next == IF kind = "log" THEN "ring" ELSE IF kind = "auth" THEN "limiter" ELSE "answer"
<1>1. stgAt \in [StgSaves -> StgRecords] /\ stgCfg \in StgConfs
  BY DEF StgShape, StgRecords
<1>2. /\ stgAt[s].at = "saved"
      /\ stgAt' = [stgAt EXCEPT ![s] = [stgAt[s] EXCEPT !.after = stgCfg, !.at = next]]
      /\ UNCHANGED <<stgCfg, stgLive, stgRestart>>
  BY <1>1 DEF StgLook, StgRecords
<1>3. /\ stgAt' \in [StgSaves -> StgRecords] /\ StgOthersStay(s)
      /\ stgAt'[s].at = next /\ stgAt'[s].req = stgAt[s].req
      /\ stgAt'[s].before = stgAt[s].before /\ stgAt'[s].after = stgCfg
  <2> DEFINE rec == [stgAt[s] EXCEPT !.after = stgCfg, !.at = next]
  <2>0. stgAt[s] \in StgRecords
    BY <1>1
  <2> HIDE DEF next
  <2>5. next \in StgPlaces
    BY DEF StgPlaces, next
  <2>1. rec = [at |-> next, req |-> stgAt[s].req, before |-> stgAt[s].before, after |-> stgCfg]
    BY <1>1, <2>0, <2>5, StgLookRecord
  <2> USE DEF next
  <2>2. rec \in StgRecords
    BY <1>1, <2>1 DEF StgRecords, StgPlaces
  <2>3. stgAt' = [stgAt EXCEPT ![s] = rec]
    BY <1>2
  <2> HIDE DEF rec
  <2>4. stgAt'[s] = rec /\ StgOthersStay(s) /\ stgAt' \in [StgSaves -> StgRecords]
    BY <1>1, <2>2, <2>3 DEF StgOthersStay
  <2> QED BY <2>1, <2>4
<1>4. /\ stgStale \subseteq stgStale'
      /\ kind \in {"log", "auth"} =>
            \A o \in StgSaves \ {s} : StgOpen(o, kind) => kind \in stgStale'
  BY <1>2 DEF StgLook, StgOpen
<1>5. next \in {"ring", "limiter", "answer"}
  OBVIOUS
<1>6. StgShape'
  BY <1>2, <1>3 DEF StgShape, StgRecords
<1>7. StgPathInv'
  BY <1>2, <1>3 DEF StgPathInv, StgOpen, StgOthersStay
<1>8. StgListsInv'
  <2>1. StgListed' = StgListed
    BY <1>2, <1>3, <1>5 DEF StgListed, StgOthersStay
  <2> QED BY <1>2, <1>4, <2>1, StgListsKept
<1>9. ("log" \in stgStale \/ StgLogInv) => ("log" \in stgStale' \/ StgLogInv')
  <2>1. CASE kind # "log"
    <3>1. ~StgOpen(s, "log") /\ ~StgOpen(s, "log")'
      BY <1>3, <2>1 DEF StgOpen
    <3> QED BY <1>2, <1>3, <1>4, <3>1, StgLogKept
  <2>2. CASE kind = "log" /\ "log" \notin stgStale'
    <3>1. \A o \in StgSaves \ {s} : ~StgOpen(o, "log")
      BY <1>4, <2>2
    <3>2. \A o \in StgSaves \ {s} : ~StgOpen(o, "log")'
      BY <1>3, <3>1 DEF StgOpen, StgOthersStay
    <3>3. StgLooked(s, "log")' /\ StgOpen(s, "log")' /\ stgAt'[s].after.log = stgCfg'.log
      BY <1>2, <1>3, <2>2 DEF StgLooked, StgOpen
    <3>4. StgPut(stgAt'[s].at) = {}
      BY <1>3, <2>2 DEF StgPut
    <3> QED BY <3>2, <3>3, <3>4 DEF StgLogInv, StgLooked
  <2> QED BY <2>1, <2>2
<1>10. ("auth" \in stgStale \/ StgAuthInv) => ("auth" \in stgStale' \/ StgAuthInv')
  <2>1. CASE kind # "auth"
    <3>1. ~StgOpen(s, "auth") /\ ~StgOpen(s, "auth")'
      BY <1>3, <2>1 DEF StgOpen
    <3> QED BY <1>2, <1>3, <1>4, <3>1, StgAuthKept
  <2>2. CASE kind = "auth" /\ "auth" \notin stgStale'
    <3>1. \A o \in StgSaves \ {s} : ~StgOpen(o, "auth")
      BY <1>4, <2>2
    <3>2. \A o \in StgSaves \ {s} : ~StgOpen(o, "auth")'
      BY <1>3, <3>1 DEF StgOpen, StgOthersStay
    <3>3. /\ StgLooked(s, "auth")' /\ StgOpen(s, "auth")' /\ stgAt'[s].after.auth = stgCfg'.auth
          /\ stgAt'[s].at = "limiter"
      BY <1>2, <1>3, <2>2 DEF StgLooked, StgOpen
    <3> QED BY <3>2, <3>3 DEF StgAuthInv, StgLooked
  <2> QED BY <2>1, <2>2
<1>11. StgListenerInv => StgListenerInv'
  <2>1. \A k \in {"port", "https"} : StgOpen(s, k) => StgOpen(s, k)'
    BY <1>3, <1>5 DEF StgOpen
  <2>2. s \in StgBusy
    BY <1>2 DEF StgBusy
  <2> QED BY <1>2, <1>3, <2>1, <2>2, StgListenerKept
<1> QED BY <1>2, <1>4, <1>6, <1>7, <1>8, <1>9, <1>10, <1>11

LEMMA StgApplyInv == ASSUME StgInv, NEW s \in StgSaves, StgApply(s) PROVE StgInv'
<1> USE DEF StgInv
<1> DEFINE at == stgAt[s].at
           limit == IF at = "limiter" THEN stgAt[s].after.auth ELSE stgAt[s].after.log
<1>1. stgAt \in [StgSaves -> StgRecords] /\ limit \in Nat
  BY DEF StgShape, StgRecords, StgConfs
<1>2. /\ at \in {"ring", "web", "file", "limiter"} /\ StgGo(s, StgThen(at))
      /\ stgLive' = [stgLive EXCEPT ![at] = limit]
      /\ UNCHANGED <<stgCfg, stgRestart, stgStale>>
  BY DEF StgApply
<1>3. /\ at = "ring" => StgThen(at) = "web"
      /\ at = "web" => StgThen(at) = "file"
      /\ at \in {"file", "limiter"} => StgThen(at) = "answer"
  BY DEF StgThen
<1>4. StgThen(at) \in {"web", "file", "answer"}
  BY <1>2, <1>3
<1>5. /\ stgAt' \in [StgSaves -> StgRecords] /\ StgOthersStay(s)
      /\ stgAt'[s].at = StgThen(at) /\ stgAt'[s].req = stgAt[s].req
      /\ stgAt'[s].before = stgAt[s].before /\ stgAt'[s].after = stgAt[s].after
  BY <1>2, <1>4, StgGoes DEF StgPlaces, StgOthersStay
<1> HIDE DEF limit
<1>6. /\ stgLive'[at] = limit /\ \A p \in {"ring", "web", "file", "limiter"} \ {at} :
                                    stgLive'[p] = stgLive[p]
      /\ stgLive'.listener = stgLive.listener
      /\ stgLive' \in [ring : Nat, web : Nat, file : Nat, limiter : Nat, listener : Nat \X BOOLEAN]
  BY <1>1, <1>2 DEF StgShape
<1>7. StgShape'
  BY <1>2, <1>5, <1>6 DEF StgShape, StgRecords
<1>8. StgPathInv'
  BY <1>2, <1>3, <1>4, <1>5 DEF StgPathInv, StgOpen, StgOthersStay
<1>9. StgListsInv'
  <2>1. StgListed' = StgListed
    BY <1>2, <1>4, <1>5 DEF StgListed, StgOthersStay
  <2> QED BY <1>2, <2>1, StgListsKept
<1>10. \A kind \in {"port", "https", "log", "auth"} :
          /\ StgOpen(s, kind)' <=> StgOpen(s, kind)
          /\ StgLooked(s, kind) <=> StgOpen(s, kind)
          /\ StgLooked(s, kind)' <=> StgOpen(s, kind)
  BY <1>2, <1>4, <1>5 DEF StgOpen, StgLooked
<1>11. \A o \in StgSaves \ {s} : \A kind \in {"log", "auth"} :
          (StgOpen(o, kind)' <=> StgOpen(o, kind)) /\ (StgLooked(o, kind)' <=> StgLooked(o, kind))
  BY <1>5 DEF StgOpen, StgLooked, StgOthersStay
<1>12. ("log" \in stgStale \/ StgLogInv) => ("log" \in stgStale' \/ StgLogInv')
  <2>1. CASE at = "limiter"
    <3>1. ~StgOpen(s, "log") /\ ~StgOpen(s, "log")'
      BY <1>10, <2>1 DEF StgPathInv, StgOpen
    <3> QED BY <1>2, <1>5, <1>6, <2>1, <3>1, StgLogKept
  <2>2. CASE at # "limiter" /\ StgLogInv
    <3>1. StgOpen(s, "log") /\ limit = stgAt[s].after.log
      BY <1>2, <2>2 DEF StgPathInv, StgOpen, limit
    <3>2. \A o \in StgSaves \ {s} : ~StgLooked(o, "log")
      BY <1>10, <2>2, <3>1 DEF StgLogInv
    <3>3. \A o \in StgSaves \ {s} : ~StgLooked(o, "log")'
      BY <1>11, <3>2
    <3>4. ASSUME \A o \in StgSaves : StgOpen(o, "log") => StgLooked(o, "log")
          PROVE  /\ stgAt'[s].after.log = stgCfg'.log
                 /\ \A place \in StgPut(stgAt'[s].at) : stgLive'[place] = stgCfg'.log
      <4>1. stgAt[s].after.log = stgCfg.log
            /\ \A place \in StgPut(at) : stgLive[place] = stgCfg.log
        BY <1>10, <2>2, <3>1, <3>4 DEF StgLogInv
      <4>2. StgPut(StgThen(at)) = StgPut(at) \union {at}
        BY <1>2, <1>3, <2>2 DEF StgPut
      <4>3. StgPut(at) \subseteq {"ring", "web", "file", "limiter"}
        BY DEF StgPut
      <4> QED BY <1>2, <1>5, <1>6, <3>1, <4>1, <4>2, <4>3
    <3> QED BY <1>10, <1>11, <3>1, <3>3, <3>4 DEF StgLogInv
  <2> QED BY <1>2, <2>1, <2>2
<1>13. ("auth" \in stgStale \/ StgAuthInv) => ("auth" \in stgStale' \/ StgAuthInv')
  <2>1. CASE at # "limiter"
    <3>1. ~StgOpen(s, "auth") /\ ~StgOpen(s, "auth")'
      BY <1>2, <1>10, <2>1 DEF StgPathInv, StgOpen
    <3> QED BY <1>2, <1>5, <1>6, <2>1, <3>1, StgAuthKept
  <2>2. CASE at = "limiter" /\ StgAuthInv
    <3>1. StgOpen(s, "auth") /\ limit = stgAt[s].after.auth
      BY <1>2, <2>2 DEF StgPathInv, StgOpen, limit
    <3>2. \A o \in StgSaves \ {s} : ~StgLooked(o, "auth")
      BY <1>10, <2>2, <3>1 DEF StgAuthInv
    <3>3. \A o \in StgSaves \ {s} : ~StgLooked(o, "auth")'
      BY <1>11, <3>2
    <3>4. ASSUME \A o \in StgSaves : StgOpen(o, "auth") => StgLooked(o, "auth")
          PROVE  stgAt'[s].after.auth = stgCfg'.auth /\ stgLive'.limiter = stgCfg'.auth
      BY <1>2, <1>5, <1>6, <1>10, <2>2, <3>1, <3>4 DEF StgAuthInv
    <3> QED BY <1>10, <1>11, <3>1, <3>3, <3>4 DEF StgAuthInv
  <2> QED BY <1>2, <2>1, <2>2
<1>14. StgListenerInv => StgListenerInv'
  <2>1. s \in StgBusy
    BY <1>2 DEF StgBusy
  <2> QED BY <1>2, <1>5, <1>6, <1>10, <2>1, StgListenerKept
<1> QED BY <1>2, <1>7, <1>8, <1>9, <1>12, <1>13, <1>14

LEMMA StgAnswerInv == ASSUME StgInv, NEW s \in StgSaves, StgAnswer(s) PROVE StgInv'
<1> USE DEF StgInv
<1> DEFINE kind == stgAt[s].req.kind
           before == stgAt[s].before
           after == stgAt[s].after
<1>1. stgAt[s] \in StgRecords
  BY DEF StgShape, StgRecords
<1>2. /\ stgAt[s].at = "answer" /\ StgGo(s, "done") /\ UNCHANGED <<stgCfg, stgLive>>
      /\ stgRestart' = (stgRestart \/ StgMoved(before, after))
      /\ stgStale \subseteq stgStale'
      /\ kind \in {"port", "https"} /\ after[kind] # stgAt[s].req.value => "listener" \in stgStale'
  BY DEF StgAnswer
<1>3. /\ stgAt' \in [StgSaves -> StgRecords] /\ StgOthersStay(s) /\ stgAt'[s].at = "done"
      /\ stgAt'[s].req = StgLists <=> stgAt[s].req = StgLists
  BY <1>2, StgGoes DEF StgPlaces, StgOthersStay
<1>4. StgShape'
  <2>1. stgRestart' \in BOOLEAN
    BY <1>2 DEF StgShape
  <2> QED BY <1>2, <1>3, <2>1 DEF StgShape, StgRecords
<1>5. StgPathInv'
  BY <1>3 DEF StgPathInv, StgOpen, StgOthersStay
<1>6. StgListsInv'
  <2>1. StgListed' = StgListed
    BY <1>2, <1>3 DEF StgListed, StgOthersStay
  <2> QED BY <1>2, <2>1, StgListsKept
<1>7. \A k \in {"port", "https", "log", "auth"} :
         /\ ~StgOpen(s, k)' /\ ~StgLooked(s, k)'
         /\ StgOpen(s, k) <=> k = kind
         /\ StgLooked(s, k) <=> k = kind
  BY <1>2, <1>3 DEF StgOpen, StgLooked
<1>8. \A o \in StgSaves \ {s} : \A k \in {"port", "https", "log", "auth"} :
         (StgOpen(o, k)' <=> StgOpen(o, k)) /\ (StgLooked(o, k)' <=> StgLooked(o, k))
  BY <1>3 DEF StgOpen, StgLooked, StgOthersStay
<1>9. ("log" \in stgStale \/ StgLogInv) => ("log" \in stgStale' \/ StgLogInv')
  <2>1. CASE kind # "log"
    <3>1. ~StgOpen(s, "log") /\ ~StgOpen(s, "log")'
      BY <1>7, <2>1
    <3> QED BY <1>2, <1>3, <3>1, StgLogKept
  <2>2. CASE kind = "log" /\ StgLogInv
    <3>1. \A o \in StgSaves : ~StgLooked(o, "log")'
      BY <1>7, <1>8, <2>2 DEF StgLogInv
    <3>2. ASSUME \A o \in StgSaves : ~StgOpen(o, "log")'
          PROVE  \A place \in {"ring", "web", "file"} : stgLive'[place] = stgCfg'.log
      <4>1. \A o \in StgSaves : StgOpen(o, "log") => StgLooked(o, "log")
        BY <1>7, <1>8, <2>2, <3>2
      <4>2. \A place \in StgPut("answer") : stgLive[place] = stgCfg.log
        BY <1>2, <1>7, <2>2, <4>1 DEF StgLogInv
      <4> QED BY <1>2, <4>2 DEF StgPut
    <3> QED BY <3>1, <3>2 DEF StgLogInv
  <2> QED BY <1>2, <2>1, <2>2
<1>10. ("auth" \in stgStale \/ StgAuthInv) => ("auth" \in stgStale' \/ StgAuthInv')
  <2>1. CASE kind # "auth"
    <3>1. ~StgOpen(s, "auth") /\ ~StgOpen(s, "auth")'
      BY <1>7, <2>1
    <3> QED BY <1>2, <1>3, <3>1, StgAuthKept
  <2>2. CASE kind = "auth" /\ StgAuthInv
    <3>1. \A o \in StgSaves : ~StgLooked(o, "auth")'
      BY <1>7, <1>8, <2>2 DEF StgAuthInv
    <3>2. ASSUME \A o \in StgSaves : ~StgOpen(o, "auth")'
          PROVE  stgLive'.limiter = stgCfg'.auth
      <4>1. \A o \in StgSaves : StgOpen(o, "auth") => StgLooked(o, "auth")
        BY <1>7, <1>8, <2>2, <3>2
      <4> QED BY <1>2, <1>7, <2>2, <4>1 DEF StgAuthInv
    <3> QED BY <3>1, <3>2 DEF StgAuthInv
  <2> QED BY <1>2, <2>1, <2>2
<1>11. StgListenerInv => "listener" \in stgStale' \/ stgRestart' \/ StgListenerInv'
  <2> SUFFICES ASSUME StgListenerInv, "listener" \notin stgStale', ~stgRestart'
               PROVE  StgListenerInv'
    OBVIOUS
  <2>1. before.port = after.port /\ before.https = after.https
    BY <1>2 DEF StgMoved, StgListener
  <2>2. ASSUME NEW k \in {"port", "https"}, kind = k
        PROVE  before[k] = stgAt[s].req.value
    BY <1>2, <2>1, <2>2
  <2>3. ASSUME NEW k \in {"port", "https"}, NEW live, StgWitness(k, live)
        PROVE  StgWitness(k, live)'
    <3>1. PICK o \in StgSaves : StgOpen(o, k) /\ stgAt[o].before[k] = live
                                 /\ stgAt[o].req.value # live
      BY <2>3 DEF StgWitness
    <3>2. o # s
      BY <1>7, <2>2, <3>1
    <3>3. StgOpen(o, k)' /\ stgAt'[o] = stgAt[o]
      BY <1>3, <1>8, <3>1, <3>2 DEF StgOthersStay
    <3> QED BY <3>1, <3>3 DEF StgWitness
  <2>4. \A o \in StgBusy' : o \in StgBusy /\ stgAt'[o] = stgAt[o]
    BY <1>3 DEF StgBusy, StgOthersStay
  <2>5. stgCfg'.port # stgLive'.listener[1]
           \/ (\E o \in StgBusy' : stgAt'[o].before.port # stgLive'.listener[1])
        => StgWitness("port", stgLive.listener[1])
    BY <1>2, <2>4 DEF StgListenerInv
  <2>6. stgCfg'.https # stgLive'.listener[2]
           \/ (\E o \in StgBusy' : stgAt'[o].before.https # stgLive'.listener[2])
        => StgWitness("https", stgLive.listener[2])
    BY <1>2, <2>4 DEF StgListenerInv
  <2> QED BY <1>2, <2>3, <2>5, <2>6 DEF StgListenerInv, StgWitness
<1> QED BY <1>2, <1>4, <1>5, <1>6, <1>9, <1>10, <1>11

LEMMA StgRestartsInv == ASSUME StgInv, StgRestarts PROVE StgInv'
<1> USE DEF StgInv
<1>1. /\ \A s \in StgSaves : stgAt[s].at \in {"new", "done"}
      /\ stgLive' = [stgLive EXCEPT !.listener = StgListener(stgCfg), !.limiter = stgCfg.auth]
      /\ stgRestart' = FALSE /\ UNCHANGED <<stgCfg, stgAt, stgStale>>
  BY DEF StgRestarts, StgIdle
<1>2. stgCfg \in StgConfs /\ StgListener(stgCfg) \in Nat \X BOOLEAN
      /\ StgListener(stgCfg)[1] = stgCfg.port /\ StgListener(stgCfg)[2] = stgCfg.https
  BY DEF StgShape, StgConfs, StgListener
<1>3. stgLive' = [ring |-> stgLive.ring, web |-> stgLive.web, file |-> stgLive.file,
                  limiter |-> stgCfg.auth, listener |-> StgListener(stgCfg)]
  BY <1>1 DEF StgShape
<1>4. StgShape'
  BY <1>1, <1>2, <1>3 DEF StgShape, StgConfs
<1>5. StgPathInv' /\ StgListsInv'
  BY <1>1 DEF StgPathInv, StgListsInv, StgListed, StgOpen
<1>6. \A s \in StgSaves : \A k \in {"port", "https", "log", "auth"} :
         ~StgOpen(s, k) /\ ~StgOpen(s, k)' /\ ~StgLooked(s, k)'
  BY <1>1 DEF StgOpen, StgLooked
<1>7. StgLogInv => StgLogInv'
  BY <1>1, <1>3, <1>6 DEF StgLogInv
<1>8. StgAuthInv'
  BY <1>1, <1>3, <1>6 DEF StgAuthInv
<1>9. StgListenerInv'
  BY <1>1, <1>2, <1>3 DEF StgListenerInv, StgBusy
<1> QED BY <1>1, <1>4, <1>5, <1>7, <1>8, <1>9

LEMMA StgStepInv == ASSUME StgInv, [StgNext]_stgVars PROVE StgInv'
<1>1. CASE StgNext
  BY <1>1, StgBeginInv, StgUpdateInv, StgLookInv, StgApplyInv, StgAnswerInv, StgRestartsInv
     DEF StgNext
<1>2. CASE UNCHANGED stgVars
  <2>1. UNCHANGED <<stgCfg, stgLive, stgRestart, stgAt, stgStale>>
    BY <1>2 DEF stgVars
  <2>2. (StgShape <=> StgShape') /\ (StgPathInv <=> StgPathInv') /\ (StgListsInv <=> StgListsInv')
    BY <2>1 DEF StgShape, StgPathInv, StgListsInv, StgListed, StgOpen
  <2>3. StgLogInv <=> StgLogInv'
    BY <2>1 DEF StgLogInv, StgOpen, StgLooked
  <2>4. StgAuthInv <=> StgAuthInv'
    BY <2>1 DEF StgAuthInv, StgOpen, StgLooked
  <2>5. StgListenerInv <=> StgListenerInv'
    BY <2>1 DEF StgListenerInv, StgBusy, StgWitness, StgOpen
  <2> QED BY <2>1, <2>2, <2>3, <2>4, <2>5 DEF StgInv
<1> QED BY <1>1, <1>2

\* The property in force.
LEMMA StgShows == StgInv => SettingsAreInForce
<1> SUFFICES ASSUME StgInv PROVE SettingsAreInForce
  OBVIOUS
<1> USE DEF StgInv
<1>1. "wall" \in stgStale \/ stgCfg.lists = StgListsSaved
  BY DEF StgListsInv, StgListsSaved, StgListed
<1>2. ASSUME StgIdle = StgSaves
      PROVE  /\ "log" \in stgStale
                   \/ \A place \in {"ring", "web", "file"} : stgLive[place] = stgCfg.log
             /\ "auth" \in stgStale \/ stgLive.limiter = stgCfg.auth
             /\ "listener" \in stgStale \/ stgRestart
                   \/ stgLive.listener = StgListener(stgCfg)
  <2>1. \A s \in StgSaves : stgAt[s].at \in {"new", "done"}
    BY <1>2 DEF StgIdle
  <2>2. \A s \in StgSaves : \A k : ~StgOpen(s, k) /\ ~StgLooked(s, k)
    BY <2>1 DEF StgOpen, StgLooked
  <2>3. "log" \in stgStale
           \/ \A place \in {"ring", "web", "file"} : stgLive[place] = stgCfg.log
    BY <2>2 DEF StgLogInv
  <2>4. "auth" \in stgStale \/ stgLive.limiter = stgCfg.auth
    BY <2>2 DEF StgAuthInv
  <2>5. ASSUME StgListenerInv PROVE stgLive.listener = StgListener(stgCfg)
    <3>1. stgCfg.port = stgLive.listener[1] /\ stgCfg.https = stgLive.listener[2]
      BY <2>2, <2>5 DEF StgListenerInv, StgWitness
    <3>2. stgLive.listener \in Nat \X BOOLEAN
      BY DEF StgShape
    <3> QED BY <3>1, <3>2 DEF StgListener
  <2> QED BY <2>3, <2>4, <2>5
<1> QED BY <1>1, <1>2 DEF SettingsAreInForce
=============================================================================
