---------------------------- MODULE WebhookIntake ----------------------------
(***************************************************************************)
(* The way of a message into internal/modules/webhook: serve, dispatch and *)
(* reject of handler.go with the test run of the receiver (testrun.go), the*)
(* gate of requests in flight, the quotas of recorded rejections           *)
(* (anonlimit.go), the execution history and its file writer (history.go)  *)
(* and the kept originals (source.go).                                     *)
(*                                                                         *)
(* One receiver.  What its rules make of a message is a choice: nothing    *)
(* sent, or one message, enqueued or failed.                               *)
(***************************************************************************)
EXTENDS Integers, Sequences, SequencesExt, FiniteSets

CONSTANTS
    WhkRequests,     \* requests, each with the size of its original
    WhkSize,
    WhkGateMax,      \* maxInflight
    WhkBurst,        \* rejections recorded before a quota refuses
    WhkQueueMax,     \* historyQueueDepth
    WhkBudget,       \* budgets the originals may be given; 0 keeps none
    WhkMaxSwitches   \* bound: configuration changes, test runs begun, clearings

ASSUME WhkAssumption ==
    /\ IsFiniteSet(WhkRequests) /\ WhkSize \in [WhkRequests -> Nat \ {0}]
    /\ {WhkGateMax, WhkBurst, WhkQueueMax} \subseteq Nat \ {0}
    /\ WhkBudget \subseteq Nat /\ \E b \in WhkBudget : \A c \in WhkBudget : c <= b
    /\ WhkMaxSwitches \in Nat

VARIABLES
    whkEnabled,   \* the receiver is enabled in the configuration
    whkReq,       \* every request
    whkTest,      \* the test run of the receiver
    whkGate,      \* requests in flight
    whkQuota,     \* quota of recorded rejections: without a receiver, and its own
    whkHist,      \* the history: queue of the writer (a length), entries it lost
    whkFile,      \* the history's file: entries written, entries noted as lost
    whkSrc,       \* the originals: kept ids, budget, last id
    whkCount,     \* counters: received, rejected; captures kept (history)
    whkAdds,      \* entries given to the history while it was open (history)
    whkSwitches

whkVars == <<whkEnabled, whkReq, whkTest, whkGate, whkQuota, whkHist, whkFile,
             whkSrc, whkCount, whkAdds, whkSwitches>>

WhkKeys == {"anon", "receiver"}
WhkFresh == [at |-> "idle", on |-> FALSE, testing |-> FALSE, cut |-> FALSE,
             fate |-> "none", src |-> 0]

WhkAt(r, step) == whkReq[r].at = step
WhkInside == {r \in WhkRequests : whkReq[r].at \in {"inside", "sending"}}
WhkSame == UNCHANGED <<whkEnabled, whkSwitches>>

-----------------------------------------------------------------------------
(* The stores.                                                              *)

WhkSum(seq) == FoldSeq(LAMBDA x, y : x + y, 0, seq)
\* The oldest originals make room until the rest fits; the newest stays.
WhkWeight(ids) == WhkSum([i \in 1..Len(ids) |-> WhkSize[ids[i].of]])
WhkFit(ids, budget) ==
    LET left(n) == SubSeq(ids, n + 1, Len(ids))
        goes == {n \in 0..Len(ids) : Len(ids) - n <= 1 \/ WhkWeight(left(n)) <= budget}
    IN  left(CHOOSE n \in goes : \A m \in goes : n <= m)
\* sourceStore.add.
WhkStored(r) ==
    IF whkSrc.budget = 0 THEN whkSrc
    ELSE [whkSrc EXCEPT !.seq = @ + 1,
                        !.ids = WhkFit(Append(whkSrc.ids, [id |-> whkSrc.seq + 1, of |-> r]),
                                       whkSrc.budget)]
WhkSourceOf(r) == IF whkSrc.budget = 0 THEN 0 ELSE whkSrc.seq + 1

\* Mutant of WhkAdded: an entry that finds the queue full is lost unseen.
WhkAddedUnseen(hist) ==
    [hist EXCEPT !.queue = IF ~hist.closed /\ @ < WhkQueueMax THEN @ + 1 ELSE @]

\* history.add: to the writer unless its queue is full.  The ring in memory,
\* which always holds the newest entries, is left out.
WhkAdded(hist) ==
    [hist EXCEPT !.queue = IF ~hist.closed /\ @ < WhkQueueMax THEN @ + 1 ELSE @,
                 !.lost = IF ~hist.closed /\ hist.queue = WhkQueueMax THEN @ + 1 ELSE @]
WhkRecord ==
    /\ whkHist' = WhkAdded(whkHist)
    /\ whkAdds' = whkAdds + IF whkHist.closed THEN 0 ELSE 1

-----------------------------------------------------------------------------
(* serve.                                                                   *)

\* activeLocked: a test run past its time is stopped by the one who looks.
WhkActive == whkTest.running /\ ~whkTest.expired
WhkLooked == IF whkTest.expired THEN [whkTest EXCEPT !.running = FALSE] ELSE whkTest

\* The table and the test run are looked at once.  A disabled receiver is
\* there only for its test run.
WhkArrive(r) ==
    /\ WhkAt(r, "idle")
    /\ whkTest' = WhkLooked
    /\ whkReq' = [whkReq EXCEPT ![r] = [WhkFresh EXCEPT
           !.at = IF whkEnabled \/ WhkActive THEN "found" ELSE "lost",
           !.on = whkEnabled, !.testing = WhkActive]]
    /\ WhkSame /\ UNCHANGED <<whkGate, whkQuota, whkHist, whkFile, whkSrc, whkCount, whkAdds>>

\* The domain does not match, or the path is nobody's.
WhkStray(r) ==
    /\ WhkAt(r, "idle")
    /\ whkReq' = [whkReq EXCEPT ![r] = [WhkFresh EXCEPT !.at = "lost"]]
    /\ WhkSame
    /\ UNCHANGED <<whkTest, whkGate, whkQuota, whkHist, whkFile, whkSrc, whkCount, whkAdds>>

WhkEnds(r, fate, src) ==
    whkReq' = [whkReq EXCEPT ![r].at = "over", ![r].fate = fate, ![r].src = src]

\* testRunStore.add, where it is not refused because the test run is over.
WhkCaptures(r) == whkReq[r].testing /\ whkTest.running
WhkCapture(r) ==
    /\ WhkEnds(r, "captured", 0)
    /\ whkTest' = [whkTest EXCEPT !.total = @ + 1, !.capture = "held"]
    /\ whkCount' = [whkCount EXCEPT !.tested = @ + 1]

\* anonRecorder.take, then the counters, then the record with its original.
WhkTake(r, key, kept) ==
    /\ whkCount' = [whkCount EXCEPT !.rejected = @ + 1]
    /\ IF whkQuota[key].tokens = 0
       THEN /\ whkQuota' = [whkQuota EXCEPT ![key].merged = @ + 1]
            /\ WhkEnds(r, "merged", 0)
            /\ UNCHANGED <<whkHist, whkSrc, whkAdds>>
       ELSE /\ whkQuota' = [whkQuota EXCEPT ![key].tokens = @ - 1, ![key].merged = 0,
                ![key].told = @ + whkQuota[key].merged + 1]
            /\ WhkRecord
            /\ WhkEnds(r, "recorded", IF kept THEN WhkSourceOf(r) ELSE 0)
            /\ whkSrc' = IF kept THEN WhkStored(r) ELSE whkSrc

\* reject of a request whose receiver is known.
WhkReject(r, kept) ==
    IF WhkCaptures(r)
    THEN WhkCapture(r) /\ UNCHANGED <<whkQuota, whkHist, whkSrc, whkAdds>>
    ELSE WhkTake(r, "receiver", kept) /\ UNCHANGED whkTest

\* The answer to a stray request is one of 404 and 421.
WhkLost(r) ==
    /\ WhkAt(r, "lost") /\ WhkTake(r, "anon", TRUE)
    /\ WhkSame /\ UNCHANGED <<whkTest, whkGate, whkFile>>

\* Method, address, rate and token; 429 keeps no original.
WhkRefuse(r) ==
    /\ WhkAt(r, "found") /\ \E kept \in BOOLEAN : WhkReject(r, kept)
    /\ WhkSame /\ UNCHANGED <<whkGate, whkFile>>

\* inflightGate.enter, or 503.
WhkEnter(r) ==
    /\ WhkAt(r, "found") /\ whkGate < WhkGateMax
    /\ whkGate' = whkGate + 1
    /\ whkReq' = [whkReq EXCEPT ![r].at = "inside"]
    /\ WhkSame
    /\ UNCHANGED <<whkTest, whkQuota, whkHist, whkFile, whkSrc, whkCount, whkAdds>>
WhkFull(r) ==
    /\ WhkAt(r, "found") /\ whkGate = WhkGateMax /\ WhkReject(r, TRUE)
    /\ WhkSame /\ UNCHANGED <<whkGate, whkFile>>

\* The body cannot be read, is too large, or holds none of the keywords.
WhkBadBody(r) ==
    /\ WhkAt(r, "inside") /\ WhkReject(r, TRUE)
    /\ whkGate' = whkGate - 1
    /\ WhkSame /\ UNCHANGED whkFile

\* A visit with a browser is answered and leaves nothing behind.
WhkBlank(r) ==
    /\ WhkAt(r, "inside") /\ WhkEnds(r, "visit", 0)
    /\ whkGate' = whkGate - 1
    /\ WhkSame /\ UNCHANGED <<whkTest, whkQuota, whkHist, whkFile, whkSrc, whkCount, whkAdds>>

\* process, then the test run takes the message if it is still running.
WhkProcess(r) ==
    /\ WhkAt(r, "inside")
    /\ IF WhkCaptures(r)
       THEN WhkCapture(r) /\ whkGate' = whkGate - 1
       ELSE /\ whkCount' = [whkCount EXCEPT !.received = @ + 1]
            /\ whkReq' = [whkReq EXCEPT ![r].at = "sending"]
            /\ UNCHANGED <<whkTest, whkGate>>
    /\ WhkSame /\ UNCHANGED <<whkQuota, whkHist, whkFile, whkSrc, whkAdds>>

\* dispatch: nothing to send keeps the original, a message is enqueued or not.
WhkDispatch(r) ==
    /\ WhkAt(r, "sending")
    /\ \E fate \in {"dropped", "sent", "failed"} :
          LET src == IF fate = "dropped" THEN WhkSourceOf(r) ELSE 0 IN
          /\ WhkEnds(r, fate, src)
          /\ whkSrc' = IF fate = "dropped" THEN WhkStored(r) ELSE whkSrc
    /\ WhkRecord
    /\ whkGate' = whkGate - 1
    /\ WhkSame /\ UNCHANGED <<whkTest, whkQuota, whkFile, whkCount>>

-----------------------------------------------------------------------------
(* The panel, the clock, the writer.                                        *)

WhkSwitch == whkSwitches < WhkMaxSwitches /\ whkSwitches' = whkSwitches + 1
\* Requests that began under the test run see its end.
WhkCut == [r \in WhkRequests |->
    IF whkReq[r].at \in {"found", "inside"} /\ whkReq[r].testing
    THEN [whkReq[r] EXCEPT !.cut = TRUE] ELSE whkReq[r]]

WhkToggle ==
    /\ WhkSwitch /\ whkEnabled' = ~whkEnabled
    /\ UNCHANGED <<whkReq, whkTest, whkGate, whkQuota, whkHist, whkFile, whkSrc,
                   whkCount, whkAdds>>
WhkTestStart ==
    /\ WhkSwitch
    /\ whkTest' = [running |-> TRUE, expired |-> FALSE, capture |-> "none", total |-> 0]
    /\ UNCHANGED <<whkEnabled, whkReq, whkGate, whkQuota, whkHist, whkFile, whkSrc,
                   whkCount, whkAdds>>
WhkTestStop ==
    /\ whkTest.running
    /\ whkTest' = [whkTest EXCEPT !.running = FALSE]
    /\ whkReq' = WhkCut
    /\ WhkSame
    /\ UNCHANGED <<whkGate, whkQuota, whkHist, whkFile, whkSrc, whkCount, whkAdds>>
\* TestRunTTL, seen by the next who looks; a request inside may still be cut.
WhkTestExpires ==
    /\ whkTest.running /\ ~whkTest.expired
    /\ whkTest' = [whkTest EXCEPT !.expired = TRUE]
    /\ whkReq' = WhkCut
    /\ WhkSame
    /\ UNCHANGED <<whkGate, whkQuota, whkHist, whkFile, whkSrc, whkCount, whkAdds>>
\* CaptureTTL.
WhkCaptureExpires ==
    /\ whkTest.capture = "held"
    /\ whkTest' = [whkTest EXCEPT !.capture = "gone"]
    /\ WhkSame
    /\ UNCHANGED <<whkReq, whkGate, whkQuota, whkHist, whkFile, whkSrc, whkCount, whkAdds>>
\* The bucket fills up with time.
WhkRefill(key) ==
    /\ whkQuota[key].tokens < WhkBurst
    /\ whkQuota' = [whkQuota EXCEPT ![key].tokens = @ + 1]
    /\ WhkSame /\ UNCHANGED <<whkReq, whkTest, whkGate, whkHist, whkFile, whkSrc,
                              whkCount, whkAdds>>
\* sourceStore.setBudget: 0 lets go of the buffer too.
WhkSetBudget(n) ==
    /\ WhkSwitch /\ n # whkSrc.budget
    /\ whkSrc' = [whkSrc EXCEPT !.budget = n,
                                !.ids = IF n = 0 THEN <<>> ELSE WhkFit(whkSrc.ids, n)]
    /\ UNCHANGED <<whkEnabled, whkReq, whkTest, whkGate, whkQuota, whkHist, whkFile,
                   whkCount, whkAdds>>

\* Mutant of WhkCleared: ids begin anew.
WhkClearedAnew == [whkSrc EXCEPT !.ids = <<>>, !.seq = 0]

WhkCleared == [whkSrc EXCEPT !.ids = <<>>]
WhkClearSources ==
    /\ WhkSwitch /\ whkSrc' = WhkCleared
    /\ UNCHANGED <<whkEnabled, whkReq, whkTest, whkGate, whkQuota, whkHist, whkFile,
                   whkCount, whkAdds>>

\* writeLoop takes an entry; writeOne notes the entries lost, then writes it.
WhkWriterTakes ==
    /\ whkHist.hand = "free" /\ whkHist.queue > 0
    /\ whkHist' = [whkHist EXCEPT !.hand = "full", !.queue = @ - 1]
    /\ WhkSame /\ UNCHANGED <<whkReq, whkTest, whkGate, whkQuota, whkFile, whkSrc,
                              whkCount, whkAdds>>
WhkWriterWrites ==
    /\ whkHist.hand = "full"
    /\ whkHist' = [whkHist EXCEPT !.hand = "free", !.lost = 0]
    /\ whkFile' = [written |-> whkFile.written + 1, noted |-> whkFile.noted + whkHist.lost]
    /\ WhkSame /\ UNCHANGED <<whkReq, whkTest, whkGate, whkQuota, whkSrc, whkCount, whkAdds>>
\* Close: test runs go, the history takes no more, the writer finishes.
WhkClose ==
    /\ ~whkHist.closed
    /\ whkHist' = [whkHist EXCEPT !.closed = TRUE]
    /\ whkTest' = [running |-> FALSE, expired |-> FALSE, capture |-> "none", total |-> 0]
    /\ whkReq' = WhkCut
    /\ WhkSame /\ UNCHANGED <<whkGate, whkQuota, whkFile, whkSrc, whkCount, whkAdds>>

WhkInit ==
    /\ whkEnabled = TRUE
    /\ whkReq = [r \in WhkRequests |-> WhkFresh]
    /\ whkTest = [running |-> FALSE, expired |-> FALSE, capture |-> "none", total |-> 0]
    /\ whkGate = 0
    /\ whkQuota = [k \in WhkKeys |-> [tokens |-> WhkBurst, merged |-> 0, told |-> 0]]
    /\ whkHist = [queue |-> 0, hand |-> "free", lost |-> 0, closed |-> FALSE]
    /\ whkFile = [written |-> 0, noted |-> 0]
    /\ whkSrc = [ids |-> <<>>, seq |-> 0,
                 budget |-> CHOOSE b \in WhkBudget : \A c \in WhkBudget : c <= b]
    /\ whkCount = [received |-> 0, rejected |-> 0, tested |-> 0]
    /\ whkAdds = 0 /\ whkSwitches = 0

WhkNext ==
    \/ \E r \in WhkRequests :
          \/ WhkArrive(r) \/ WhkStray(r) \/ WhkLost(r) \/ WhkRefuse(r) \/ WhkEnter(r)
          \/ WhkFull(r) \/ WhkBadBody(r) \/ WhkBlank(r) \/ WhkProcess(r) \/ WhkDispatch(r)
    \/ WhkToggle \/ WhkTestStart \/ WhkTestStop \/ WhkTestExpires \/ WhkCaptureExpires
    \/ \E k \in WhkKeys : WhkRefill(k)
    \/ \E n \in WhkBudget : WhkSetBudget(n)
    \/ WhkClearSources \/ WhkWriterTakes \/ WhkWriterWrites \/ WhkClose

WhkSpec == WhkInit /\ [][WhkNext]_whkVars

-----------------------------------------------------------------------------
WhkTypeOK ==
    /\ whkEnabled \in BOOLEAN
    /\ whkReq \in [WhkRequests ->
          [at : {"idle", "lost", "found", "inside", "sending", "over"}, on : BOOLEAN,
           testing : BOOLEAN, cut : BOOLEAN, src : Nat,
           fate : {"none", "captured", "merged", "recorded", "visit", "dropped",
                   "sent", "failed"}]]
    /\ whkTest \in [running : BOOLEAN, expired : BOOLEAN, total : Nat,
                    capture : {"none", "held", "gone"}]
    /\ whkGate \in 0..WhkGateMax
    /\ whkQuota \in [WhkKeys -> [tokens : 0..WhkBurst, merged : Nat, told : Nat]]
    /\ whkHist \in [queue : 0..WhkQueueMax, hand : {"free", "full"}, lost : Nat,
                    closed : BOOLEAN]
    /\ whkFile \in [written : Nat, noted : Nat]
    /\ whkSrc.budget \in WhkBudget /\ whkSwitches \in 0..WhkMaxSwitches

WhkFate(fates) == {r \in WhkRequests : whkReq[r].fate \in fates}

(* No answered message is unaccounted for: it was taken by the test run,   *)
(* or counted and recorded; a rejection is on record by itself or as a     *)
(* number that the next record mentions.                                    *)
WhkAllCounted ==
    /\ whkCount.rejected = Cardinality(WhkFate({"merged", "recorded"}))
    /\ whkCount.rejected = whkQuota["anon"].told + whkQuota["anon"].merged
                           + whkQuota["receiver"].told + whkQuota["receiver"].merged
    /\ whkCount.tested = Cardinality(WhkFate({"captured"}))
    /\ whkCount.received = Cardinality(WhkFate({"dropped", "sent", "failed"}))
                           + Cardinality({r \in WhkRequests : WhkAt(r, "sending")})

(* Every entry the history took is in its file, on the way there, or in    *)
(* the number of entries the file says are missing.                         *)
WhkHistoryWhole ==
    whkAdds = whkFile.written + whkFile.noted + whkHist.queue + whkHist.lost
              + IF whkHist.hand = "full" THEN 1 ELSE 0

(* A record's original is that of its request, or is gone.                 *)
WhkOriginalsMatch ==
    \A r \in WhkRequests : \A i \in 1..Len(whkSrc.ids) :
        whkReq[r].src # 0 /\ whkSrc.ids[i].id = whkReq[r].src => whkSrc.ids[i].of = r

(* A message that came in while the receiver was tested is sent for real   *)
(* only if the test run ended before the message was done; of a disabled   *)
(* receiver nothing else is ever sent.                                      *)
WhkTestsAreQuiet ==
    \A r \in WhkRequests : whkReq[r].fate \in {"dropped", "sent", "failed"} =>
        /\ whkReq[r].testing => whkReq[r].cut
        /\ ~whkReq[r].on => whkReq[r].testing

(* A place at the gate is held by the requests inside, and by nobody else. *)
WhkGateHeld == whkGate = Cardinality(WhkInside)

(* Whatever a test run, a change of settings, a full queue or the end of   *)
(* the process do to a message on its way, it is accounted for.             *)
MessagesAreAccounted == WhkAllCounted /\ WhkHistoryWhole /\ WhkOriginalsMatch
                        /\ WhkTestsAreQuiet /\ WhkGateHeld
=============================================================================
