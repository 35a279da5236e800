------------------------------- MODULE Journal -------------------------------
(***************************************************************************)
(* What the program remembers of itself: the log, in memory and in a file  *)
(* (internal/logx/logx.go, rotate.go), the access events of the web        *)
(* services (internal/modules/webservice/accesslog.go) and the metrics     *)
(* with the series a page keeps of them (internal/metrics/metrics.go).     *)
(*                                                                         *)
(* The three share no state: JrnNext moves the log, AccNext the access     *)
(* events, MtrNext the metrics.  An entry is its serial number.            *)
(***************************************************************************)
EXTENDS Integers, Sequences, FiniteSets, SequencesExt, FiniteSetsExt

CONSTANTS
    JrnWriters, JrnSizes,     \* who logs; the sizes the ring may be given
    JrnLimits, JrnMaxBytes,   \* line limits of the file; its size limit
    JrnMaxLines, JrnMaxTroubles, JrnMaxAsks,   \* bounds
    AccInitial, AccCaps, AccMaxEvents, AccMaxSaves,
    MtrSize, MtrHorizon, MtrMaxTroubles, MtrWireMax

ASSUME JrnAssumption ==
    /\ JrnSizes \subseteq Nat \ {0} /\ JrnLimits \subseteq Nat \ {0} /\ AccCaps \subseteq Nat \ {0}
    /\ \A S \in {JrnSizes, JrnLimits, AccCaps} : IsFiniteSet(S) /\ S # {}
    /\ {AccInitial, MtrSize, JrnMaxBytes} \subseteq Nat \ {0}
    /\ JrnMaxBytes >= 2   \* no line is larger than the file may be
    /\ {JrnMaxLines, JrnMaxTroubles, JrnMaxAsks, AccMaxEvents, AccMaxSaves, MtrHorizon,
        MtrMaxTroubles, MtrWireMax} \subseteq Nat

VARIABLES
    jrnRing,     \* the ring: buf, next, filled
    jrnKept,     \* what the ring stands for: the latest entries, oldest first
    jrnLevels,   \* the levels that are recorded
    jrnLimit,    \* the file's line limit
    jrnFile,     \* its handle, and the counters kept with it
    jrnDisk,     \* the lines in it, and their bytes
    jrnWriter,   \* every writer: idle, or on its way with an entry
    jrnCount,    \* entries, troubles, requests so far
    jrnGap,      \* what happened to the handle since it was lost
    jrnWrong     \* lines that went wrong although the disk did not
jrnVars == <<jrnRing, jrnKept, jrnLevels, jrnLimit, jrnFile, jrnDisk, jrnWriter, jrnCount,
             jrnGap, jrnWrong>>

VARIABLES
    accRing, accLen, accAt, accCap,   \* access, accessLen, accessNext, accessCap
    accKept, accCount
accVars == <<accRing, accLen, accAt, accCap, accKept, accCount>>

VARIABLES
    mtrRing, mtrAt, mtrFilled,   \* buf, next, filled: times of samples
    mtrLast, mtrTotal,           \* lastNetRecv, recvTotal
    mtrWire,                     \* the interface's counter
    mtrClock, mtrPage,           \* the clock; the series a page holds
    mtrSeen, mtrCount, mtrExcuse
mtrVars == <<mtrRing, mtrAt, mtrFilled, mtrLast, mtrTotal, mtrWire, mtrClock, mtrPage,
             mtrSeen, mtrCount, mtrExcuse>>

\* The last n of s, and s written round from position next on.
JrnLatest(s, n) == SubSeq(s, Len(s) - Min({n, Len(s)}) + 1, Len(s))
JrnFrom(s, next) == SubSeq(s, next + 1, Len(s)) \o SubSeq(s, 1, next)

-----------------------------------------------------------------------------
(* The ring.                                                                *)

JrnSnapshot(r) == IF r.filled THEN JrnFrom(r.buf, r.next) ELSE SubSeq(r.buf, 1, r.next)

JrnPushed(r, e) ==
    LET next == (r.next + 1) % Len(r.buf)
    IN  [buf |-> [r.buf EXCEPT ![r.next + 1] = e], next |-> next,
         filled |-> r.filled \/ next = 0]

\* Mutant of JrnResized: a ring that is exactly full is taken for one that is not.
JrnResizedUnfilled(r, n) ==
    LET cur == JrnLatest(JrnSnapshot(r), n)
    IN  [buf |-> [i \in 1..n |-> IF i <= Len(cur) THEN cur[i] ELSE 0],
         next |-> Len(cur) % n, filled |-> FALSE]

JrnResized(r, n) ==
    LET cur == JrnLatest(JrnSnapshot(r), n)
    IN  [buf |-> [i \in 1..n |-> IF i <= Len(cur) THEN cur[i] ELSE 0],
         next |-> Len(cur) % n, filled |-> Len(cur) = n]

JrnEmpty(n) == [buf |-> [i \in 1..n |-> 0], next |-> 0, filled |-> FALSE]

-----------------------------------------------------------------------------
(* The file.                                                                *)

JrnManyLines == jrnFile.count + 1 > jrnLimit
JrnOver(bytes) == JrnManyLines \/ jrnFile.bytes + bytes > JrnMaxBytes

JrnLine(w) == [id |-> jrnWriter[w].id, bytes |-> jrnWriter[w].bytes]
JrnBytes(lines) == SumFunction([i \in DOMAIN lines |-> lines[i].bytes])

\* openExisting: the counters are taken from what is there.
JrnOpened(lines) == [open |-> TRUE, count |-> Len(lines), bytes |-> JrnBytes(lines)]
JrnClosed == [jrnFile EXCEPT !.open = FALSE]

\* What a rotation leaves: [file, disk, and what failed].
JrnRotations ==
    LET lost == [file |-> JrnClosed, disk |-> jrnDisk, failed |-> "open"]
    IN  {[file |-> JrnOpened(<<>>), disk |-> <<>>, failed |-> "no"]}
        \union (IF jrnCount.troubles = JrnMaxTroubles THEN {}
                ELSE {[lost EXCEPT !.disk = <<>>], lost,
                      [file |-> JrnOpened(jrnDisk), disk |-> jrnDisk, failed |-> "rename"]})

JrnTrouble(failed) ==
    jrnCount' = IF failed = "no" THEN jrnCount ELSE [jrnCount EXCEPT !.troubles = @ + 1]

\* One line is written: the lock is held throughout.  A file that is not
\* open refuses it.
JrnWritten(line, file, disk) ==
    /\ jrnFile' = IF file.open
                  THEN [open |-> TRUE, count |-> file.count + 1, bytes |-> file.bytes + line.bytes]
                  ELSE file
    /\ jrnDisk' = IF file.open THEN Append(disk, line) ELSE disk

\* Mutant of JrnDue: the line to be written is not counted.
JrnDueLate(bytes) == jrnFile.count > jrnLimit \/ jrnFile.bytes + bytes > JrnMaxBytes

JrnDue(bytes) == JrnOver(bytes)

JrnPut(w) ==
    /\ jrnWriter[w].at = "file"
    /\ jrnWriter' = [jrnWriter EXCEPT ![w].at = "idle"]
    /\ IF jrnWriter[w].level \notin jrnLevels
       THEN UNCHANGED <<jrnFile, jrnDisk, jrnCount, jrnGap, jrnWrong>>
       ELSE \E r \in IF JrnDue(jrnWriter[w].bytes) THEN JrnRotations
                     ELSE {[file |-> jrnFile, disk |-> jrnDisk, failed |-> "no"]} :
              /\ IF r.failed = "open" THEN jrnFile' = r.file /\ jrnDisk' = r.disk
                 ELSE JrnWritten(JrnLine(w), r.file, r.disk)
              /\ JrnTrouble(r.failed)
              /\ jrnGap' = IF r.failed = "open" THEN (IF JrnManyLines THEN "lost" ELSE "stuck")
                           ELSE IF jrnFile'.open THEN "none" ELSE jrnGap
              /\ jrnWrong' = jrnWrong
                   \union (IF r.failed = "no" /\ jrnGap = "lost" /\ ~jrnFile'.open
                           THEN {"dropped"} ELSE {})
                   \union (IF r.failed = "no" /\ jrnFile'.open
                              /\ (Len(jrnDisk') > jrnLimit \/ JrnBytes(jrnDisk') > JrnMaxBytes)
                           THEN {"over"} ELSE {})
    /\ UNCHANGED <<jrnRing, jrnKept, jrnLevels, jrnLimit>>

-----------------------------------------------------------------------------
(* Entries are written to the ring, then to the file; the level is asked    *)
(* for before the first, and again before each.                             *)

JrnLog(w, level, bytes) ==
    /\ jrnWriter[w].at = "idle" /\ level \in jrnLevels /\ jrnCount.lines < JrnMaxLines
    /\ jrnCount' = [jrnCount EXCEPT !.lines = @ + 1]
    /\ jrnWriter' = [jrnWriter EXCEPT ![w] =
          [at |-> "ring", id |-> jrnCount.lines + 1, level |-> level, bytes |-> bytes]]
    /\ UNCHANGED <<jrnRing, jrnKept, jrnLevels, jrnLimit, jrnFile, jrnDisk, jrnGap, jrnWrong>>

JrnHandle(w) ==
    /\ jrnWriter[w].at = "ring"
    /\ jrnWriter' = [jrnWriter EXCEPT ![w].at = "file"]
    /\ IF jrnWriter[w].level \in jrnLevels
       THEN /\ jrnRing' = JrnPushed(jrnRing, jrnWriter[w].id)
            /\ jrnKept' = JrnLatest(Append(jrnKept, jrnWriter[w].id), Len(jrnRing.buf))
       ELSE UNCHANGED <<jrnRing, jrnKept>>
    /\ UNCHANGED <<jrnLevels, jrnLimit, jrnFile, jrnDisk, jrnCount, jrnGap, jrnWrong>>

JrnAsk == jrnCount.asks < JrnMaxAsks /\ jrnCount' = [jrnCount EXCEPT !.asks = @ + 1]

JrnSetLevels(levels) ==
    /\ JrnAsk /\ levels # jrnLevels /\ jrnLevels' = levels
    /\ UNCHANGED <<jrnRing, jrnKept, jrnLimit, jrnFile, jrnDisk, jrnWriter, jrnGap, jrnWrong>>

JrnSetMaxEntries(n) ==
    /\ JrnAsk /\ n # Len(jrnRing.buf)
    /\ jrnRing' = JrnResized(jrnRing, n) /\ jrnKept' = JrnLatest(jrnKept, n)
    /\ UNCHANGED <<jrnLevels, jrnLimit, jrnFile, jrnDisk, jrnWriter, jrnGap, jrnWrong>>

JrnSetLimit(n) ==
    /\ JrnAsk /\ n # jrnLimit /\ jrnLimit' = n
    /\ jrnGap' = IF jrnGap = "lost" /\ n > jrnLimit THEN "stuck" ELSE jrnGap
    /\ UNCHANGED <<jrnRing, jrnKept, jrnLevels, jrnFile, jrnDisk, jrnWriter, jrnWrong>>

\* handleClearLogs: the file is removed and created again, then the ring is
\* emptied.  The lines may be there still when the file could not be removed.
JrnReset ==
    /\ JrnAsk
    /\ \/ /\ jrnFile' = JrnOpened(<<>>) /\ jrnDisk' = <<>> /\ jrnGap' = "none"
          /\ jrnRing' = JrnEmpty(Len(jrnRing.buf)) /\ jrnKept' = <<>>
       \/ /\ jrnCount.troubles < JrnMaxTroubles
          /\ jrnFile' = JrnClosed /\ jrnDisk' \in {<<>>, jrnDisk} /\ jrnGap' = "cleared"
          /\ UNCHANGED <<jrnRing, jrnKept>>
    /\ UNCHANGED <<jrnLevels, jrnLimit, jrnWriter, jrnWrong>>

JrnInit ==
    /\ jrnRing = JrnEmpty(Max(JrnSizes)) /\ jrnKept = <<>>
    /\ jrnLevels = {"info", "debug"} /\ jrnLimit = Min(JrnLimits)
    /\ jrnDisk = <<>> /\ jrnFile = [open |-> TRUE, count |-> 0, bytes |-> 0]
    /\ jrnWriter = [w \in JrnWriters |-> [at |-> "idle", id |-> 0, level |-> "info", bytes |-> 1]]
    /\ jrnCount = [lines |-> 0, troubles |-> 0, asks |-> 0]
    /\ jrnGap = "none" /\ jrnWrong = {}

JrnNext ==
    \/ \E w \in JrnWriters :
          \/ \E bytes \in {1, 2} : JrnLog(w, "info", bytes)
          \/ JrnLog(w, "debug", 1)
          \/ JrnHandle(w) \/ JrnPut(w)
    \/ \E levels \in {{"info"}, {"info", "debug"}} : JrnSetLevels(levels)
    \/ \E n \in JrnSizes : JrnSetMaxEntries(n)
    \/ \E n \in JrnLimits : JrnSetLimit(n)
    \/ JrnReset

-----------------------------------------------------------------------------
(* Access events: a ring that grows when it is full.                        *)

\* The latest k events, oldest first.
AccLatest(k) == [i \in 1..k |-> accRing[((accAt - k + i - 1 + Len(accRing)) % Len(accRing)) + 1]]

\* ChildLogs, newest first.
AccLogs == IF accLen = 0 THEN <<>> ELSE Reverse(AccLatest(accLen))

\* resizeAccessRingLocked.
AccResized(c) ==
    LET keep == Min({accLen, c})
        old == IF keep = 0 THEN <<>> ELSE AccLatest(keep)
    IN  [ring |-> [i \in 1..c |-> IF i <= keep THEN old[i] ELSE 0], len |-> keep, at |-> keep % c]

AccNow == [ring |-> accRing, len |-> accLen, at |-> accAt]
AccSet(r) == accRing' = r.ring /\ accLen' = r.len /\ accAt' = r.at

AccGrown == LET n == Len(accRing)
            IN  IF accLen = n /\ n < accCap
                THEN AccResized(Min({Max({2 * n, AccInitial}), accCap})) ELSE AccNow

AccRecord ==
    /\ accCount.events < AccMaxEvents
    /\ accCount' = [accCount EXCEPT !.events = @ + 1]
    /\ LET r == AccGrown
       IN  AccSet([ring |-> [r.ring EXCEPT ![r.at + 1] = accCount.events + 1],
                   at |-> IF r.at + 1 = Len(r.ring) THEN 0 ELSE r.at + 1,
                   len |-> Min({r.len + 1, Len(r.ring)})])
    /\ accKept' = JrnLatest(Append(accKept, accCount.events + 1), accCap)
    /\ UNCHANGED accCap

\* Mutant of AccShrinks: only a ring that is full is rebuilt.
AccShrinksFull(c) == accLen > c

AccShrinks(c) == Len(accRing) > c

AccSetCap(c) ==
    /\ accCount.saves < AccMaxSaves /\ accCount' = [accCount EXCEPT !.saves = @ + 1]
    /\ accCap' = c
    /\ AccSet(IF AccShrinks(c) THEN AccResized(c) ELSE AccNow)
    /\ accKept' = JrnLatest(accKept, c)

AccInit ==
    /\ accRing = <<>> /\ accLen = 0 /\ accAt = 0 /\ accCap = Max(AccCaps)
    /\ accKept = <<>> /\ accCount = [events |-> 0, saves |-> 0]

AccNext == AccRecord \/ \E c \in AccCaps : AccSetCap(c)

-----------------------------------------------------------------------------
(* Metrics.                                                                 *)

MtrNumber == IF mtrFilled THEN MtrSize ELSE mtrAt
MtrAt(i) == IF mtrFilled THEN mtrRing[((mtrAt + i) % MtrSize) + 1] ELSE mtrRing[i + 1]
MtrSnapshot == [i \in 1..MtrNumber |-> MtrAt(i - 1)]

\* SeriesSince: everything, or the samples at the end that are newer.
MtrSince(since) ==
    IF MtrNumber = 0 \/ since <= 0 \/ since < MtrAt(0)
    THEN [full |-> TRUE, series |-> MtrSnapshot]
    ELSE LET newer == {i \in 0..(MtrNumber - 1) : \A j \in i..(MtrNumber - 1) : MtrAt(j) > since}
         IN  [full |-> FALSE,
              series |-> [i \in 1..Cardinality(newer) |->
                             MtrAt(MtrNumber - Cardinality(newer) + i - 1)]]

\* Counters that cannot be read count as 0; one that went back counts nothing.
MtrDelta(recv) == IF recv >= mtrLast THEN recv - mtrLast ELSE 0

MtrSample(read) ==
    /\ read \/ mtrCount.troubles < MtrMaxTroubles
    /\ LET recv == IF read THEN mtrWire ELSE 0
       IN  mtrTotal' = mtrTotal + MtrDelta(recv) /\ mtrLast' = recv
    /\ mtrRing' = [mtrRing EXCEPT ![mtrAt + 1] = mtrClock]
    /\ mtrAt' = IF mtrAt + 1 = MtrSize THEN 0 ELSE mtrAt + 1
    /\ mtrFilled' = (mtrFilled \/ mtrAt + 1 = MtrSize)
    /\ mtrSeen' = JrnLatest(Append(mtrSeen, mtrClock), MtrSize)
    /\ mtrClock' = mtrClock + 1 /\ mtrClock < MtrHorizon
    /\ mtrCount' = IF read THEN mtrCount ELSE [mtrCount EXCEPT !.troubles = @ + 1]
    /\ mtrExcuse' = IF read THEN mtrExcuse ELSE mtrExcuse \union {"unread"}
    /\ UNCHANGED <<mtrWire, mtrPage>>

MtrTraffic ==
    /\ mtrCount.wire < MtrWireMax
    /\ mtrWire' = mtrWire + 1 /\ mtrCount' = [mtrCount EXCEPT !.wire = @ + 1]
    /\ UNCHANGED <<mtrRing, mtrAt, mtrFilled, mtrLast, mtrTotal, mtrClock, mtrPage, mtrSeen,
                   mtrExcuse>>

\* An interface goes, and its counter with it.
MtrReplug ==
    /\ mtrWire > 0 /\ mtrCount.troubles < MtrMaxTroubles
    /\ mtrWire' = 0 /\ mtrCount' = [mtrCount EXCEPT !.troubles = @ + 1]
    /\ UNCHANGED <<mtrRing, mtrAt, mtrFilled, mtrLast, mtrTotal, mtrClock, mtrPage, mtrSeen,
                   mtrExcuse>>

MtrClockBack ==
    /\ mtrClock > 1 /\ mtrCount.troubles < MtrMaxTroubles
    /\ mtrClock' = mtrClock - 1 /\ mtrCount' = [mtrCount EXCEPT !.troubles = @ + 1]
    /\ mtrExcuse' = mtrExcuse \union {"clock"}
    /\ UNCHANGED <<mtrRing, mtrAt, mtrFilled, mtrLast, mtrTotal, mtrWire, mtrPage, mtrSeen>>

\* A page asks for what is newer than the last sample it has, and keeps as
\* many as the ring holds.
MtrPoll ==
    /\ LET since == IF mtrPage = <<>> THEN 0 ELSE Last(mtrPage)
           answer == MtrSince(since)
       IN  mtrPage' = IF answer.full THEN answer.series
                      ELSE JrnLatest(mtrPage \o answer.series, MtrSize)
    /\ mtrPage' # mtrPage
    /\ UNCHANGED <<mtrRing, mtrAt, mtrFilled, mtrLast, mtrTotal, mtrWire, mtrClock, mtrSeen,
                   mtrCount, mtrExcuse>>

MtrInit ==
    /\ mtrRing = [i \in 1..MtrSize |-> 0] /\ mtrAt = 0 /\ mtrFilled = FALSE
    /\ mtrLast = 0 /\ mtrTotal = 0 /\ mtrWire = 0 /\ mtrClock = 1 /\ mtrPage = <<>>
    /\ mtrSeen = <<>> /\ mtrCount = [troubles |-> 0, wire |-> 0] /\ mtrExcuse = {}

MtrNext == MtrSample(TRUE) \/ MtrSample(FALSE) \/ MtrTraffic \/ MtrReplug \/ MtrClockBack \/ MtrPoll

-----------------------------------------------------------------------------
\* Every variable has its type.
JrnTypeOK ==
    /\ jrnRing.next \in 0..(Len(jrnRing.buf) - 1) /\ Len(jrnRing.buf) \in JrnSizes
    /\ jrnLevels \subseteq {"info", "debug"} /\ jrnLimit \in JrnLimits
    /\ jrnFile.open \in BOOLEAN /\ jrnGap \in {"none", "lost", "stuck", "cleared"}
    /\ accCap \in AccCaps /\ accLen \in 0..accCap /\ Len(accRing) <= accCap
    /\ mtrAt \in 0..(MtrSize - 1) /\ mtrFilled \in BOOLEAN /\ mtrTotal \in Nat

\* The ring shows the latest entries in their order, however it was filled,
\* resized and cleared; so do the ring of access events, which grows and
\* shrinks, and that of the metrics.
JrnRingsShowTheLatest ==
    /\ JrnSnapshot(jrnRing) = jrnKept
    /\ AccLogs = Reverse(accKept)
    /\ MtrSnapshot = mtrSeen

\* The counters of the file that is open are those of its lines; no line
\* goes beyond a limit unless the file could not be renamed; and after a
\* rotation for too many lines that lost the file the next line has it again,
\* unless the limit was raised in between.  (After one for the file's size a
\* shorter line does not: it goes to the closed file.)
JrnFileIsTrue ==
    /\ jrnFile.open => jrnFile.count = Len(jrnDisk) /\ jrnFile.bytes = JrnBytes(jrnDisk)
    /\ jrnWrong = {}

\* A page that has asked has the whole series, although it is only sent what
\* is new; and the traffic counted is not more than there was.  (Both hold
\* while the clock does not step back and the counters can be read.)
MtrIsComplete ==
    /\ "clock" \notin mtrExcuse /\ mtrPage # <<>> => MtrSince(Last(mtrPage)).full \/
          JrnLatest(mtrPage \o MtrSince(Last(mtrPage)).series, MtrSize) = MtrSnapshot
    /\ "unread" \notin mtrExcuse => mtrTotal <= mtrCount.wire

RecordsAreTrue == JrnRingsShowTheLatest /\ JrnFileIsTrue /\ MtrIsComplete
=============================================================================
