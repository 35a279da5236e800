--------------------------------- MODULE Ddns ---------------------------------
(***************************************************************************)
(* Dynamic DNS (internal/modules/ddns, internal/dnsprovider): one rule, the *)
(* runner that keeps its records at the address of the host, the button     *)
(* and the cron task that run it at once, saves of the rule, failing calls  *)
(* to the provider, and a crash that loses the last runtime state.          *)
(*                                                                         *)
(* A round takes the address, compares it with the one last written, and    *)
(* writes every record of the rule; a failing call may have been carried    *)
(* out.  Rounds of the button share the runner with its loop.               *)
(***************************************************************************)
EXTENDS Integers, FiniteSets, SequencesExt

CONSTANTS
    DdnsNames,       \* the records a rule may have, in their order
    DdnsProvider,    \* the DNS provider of each record's account
    DdnsAddresses,   \* addresses the host's interface may get
    DdnsMaxRunners,  \* bound: runners that are made
    DdnsMaxEvents    \* bound: changes of the host's addresses, rounds of the button,
                     \* calls that fail, saves of the rule and crashes

ASSUME DdnsAssumption ==
    /\ DdnsNames \subseteq Nat \ {0} /\ DdnsNames # {}
    /\ DdnsProvider \in [DdnsNames -> {"aliyun", "tencent", "baidu", "cloudflare", "godaddy"}]
    /\ DdnsAddresses \subseteq Nat \ {0} /\ DdnsAddresses # {} /\ DdnsMaxRunners \in Nat \ {0}
    /\ DdnsMaxEvents \in Nat

VARIABLES
    ddnsRule,     \* the saved rule: on, and its records
    ddnsSaved,    \* its runtime state: last address (0: none), last status
    ddnsDisk,     \* the runtime state in state.json
    ddnsRunners,  \* every runner made
    ddnsCurrent,  \* the one the module holds, 0 if none
    ddnsRound,    \* the round of every loop, and of the button (0)
    ddnsHost,     \* the addresses of the interface
    ddnsZone,     \* what the provider has: every record's values
    ddnsCount,    \* what the bound counts, by kind
    ddnsWritten,  \* addresses some write of which was acknowledged
    ddnsExcuses   \* why the records may differ from what the rule believes

ddnsVars == <<ddnsRule, ddnsSaved, ddnsDisk, ddnsRunners, ddnsCurrent, ddnsRound,
              ddnsHost, ddnsZone, ddnsCount, ddnsWritten, ddnsExcuses>>

DdnsSlots == 0..DdnsMaxRunners
DdnsRest == [pc |-> "rest", on |-> 0, names |-> {}, prev |-> 0, ip |-> 0, todo |-> {},
             found |-> 0, wrote |-> FALSE, failed |-> FALSE, noted |-> 0]
DdnsGoing(x) == ddnsRound[x].pc # "rest"
DdnsRunnerOf(x) == ddnsRunners[ddnsRound[x].on]
DdnsGo(x, r) == ddnsRound' = [ddnsRound EXCEPT ![x] = r]
DdnsEvents == ddnsCount.moves + ddnsCount.presses + ddnsCount.troubles + ddnsCount.edits
DdnsTrouble == /\ DdnsEvents < DdnsMaxEvents
               /\ ddnsCount' = [ddnsCount EXCEPT !.troubles = @ + 1]
\* newRuleRunner: the address last written comes from the saved state.
DdnsNewRunner(names, loop) ==
    [names |-> names, ip |-> ddnsSaved.ip, loop |-> loop, stopped |-> FALSE]

-----------------------------------------------------------------------------
(* A round: execute.                                                        *)

\* The first round of a loop, one of its ticks, or the button.
DdnsBegins(x) ==
    /\ ~DdnsGoing(x)
    /\ \/ x # 0 /\ x <= Len(ddnsRunners) /\ ddnsRunners[x].loop /\ ~ddnsRunners[x].stopped
          /\ DdnsGo(x, [DdnsRest EXCEPT !.pc = "detect", !.on = x,
                           !.names = ddnsRunners[x].names, !.prev = ddnsRunners[x].ip])
          /\ UNCHANGED ddnsRunners
       \/ x = 0 /\ ddnsCurrent # 0
          /\ DdnsGo(x, [DdnsRest EXCEPT !.pc = "detect", !.on = ddnsCurrent,
                           !.names = ddnsRunners[ddnsCurrent].names,
                           !.prev = ddnsRunners[ddnsCurrent].ip])
          /\ UNCHANGED ddnsRunners
       \/ x = 0 /\ ddnsCurrent = 0 /\ Len(ddnsRunners) < DdnsMaxRunners
          /\ ddnsRunners' = Append(ddnsRunners, DdnsNewRunner(ddnsRule.names, FALSE))
          /\ DdnsGo(x, [DdnsRest EXCEPT !.pc = "detect", !.on = Len(ddnsRunners) + 1,
                           !.names = ddnsRule.names, !.prev = ddnsSaved.ip])
    /\ x = 0 => DdnsEvents < DdnsMaxEvents
    /\ ddnsCount' = [ddnsCount EXCEPT !.presses = IF x = 0 THEN @ + 1 ELSE @]
    /\ UNCHANGED <<ddnsRule, ddnsSaved, ddnsDisk, ddnsCurrent, ddnsHost, ddnsZone,
                   ddnsWritten, ddnsExcuses>>

\* The button's round has no context that a stop of the runner would end.
DdnsCut(x) == x # 0 /\ DdnsRunnerOf(x).stopped

\* stableIP: of several addresses always the same one.
DdnsStable(ips) == Min(ips)

\* What is to be reported: a status, and the address last written at that moment.
DdnsReports(x, r, ok) == DdnsGo(x, [DdnsRest EXCEPT !.pc = "note", !.on = r.on, !.failed = ~ok])

DdnsDetects(x) ==
    /\ ddnsRound[x].pc = "detect" /\ ddnsHost # {}
    /\ LET ip == DdnsStable(ddnsHost)
           r == [ddnsRound[x] EXCEPT !.ip = ip] IN
       IF r.prev # 0 /\ ip = r.prev
       THEN DdnsReports(x, r, TRUE)
       ELSE DdnsGo(x, [r EXCEPT !.pc = "find", !.todo = r.names, !.prev = 0])
    /\ UNCHANGED <<ddnsRule, ddnsSaved, ddnsDisk, ddnsRunners, ddnsCurrent, ddnsHost,
                   ddnsZone, ddnsCount, ddnsWritten, ddnsExcuses>>

\* Mutant of DdnsFails: the failure of a round that was cut off is reported.
DdnsFailsLoudly(x, r) == DdnsReports(x, r, FALSE)

\* A round that was cut off reports nothing.
DdnsFails(x, r) == IF DdnsCut(x) THEN DdnsGo(x, DdnsRest) ELSE DdnsReports(x, r, FALSE)

\* No address: no interface has one, no endpoint answers with one of the stack.
DdnsDetectFails(x) ==
    /\ ddnsRound[x].pc = "detect"
    /\ IF DdnsCut(x) \/ ddnsHost = {} THEN UNCHANGED ddnsCount ELSE DdnsTrouble
    /\ DdnsFails(x, ddnsRound[x])
    /\ UNCHANGED <<ddnsRule, ddnsSaved, ddnsDisk, ddnsRunners, ddnsCurrent, ddnsHost,
                   ddnsZone, ddnsWritten, ddnsExcuses>>

\* What the provider answers for a name: the value of its first record, 0 for none
\* (Tencent answers with an error of its own then; of Baidu's answer only the records of the
\* name count; Cloudflare is asked for the zone first).
DdnsHead(values) == IF values = <<>> THEN 0 ELSE Head(values)
DdnsFirst(n) == DdnsHead(ddnsZone[n])
DdnsFirstTencent(n) ==
    LET answer == [error |-> IF ddnsZone[n] = <<>> THEN "NoDataOfRecord" ELSE "none",
                   values |-> ddnsZone[n]] IN
    IF answer.error = "NoDataOfRecord" THEN 0 ELSE DdnsHead(answer.values)
DdnsFirstBaidu(n) ==
    LET answer == UNION {{m} \X DOMAIN ddnsZone[m] : m \in DdnsNames}
        own == {r[2] : r \in {a \in answer : a[1] = n}} IN
    IF own = {} THEN 0 ELSE ddnsZone[n][Min(own)]
DdnsFirstCloudflare(n) == DdnsHead(ddnsZone[n])
DdnsSeen(n) ==
    CASE DdnsProvider[n] = "aliyun" -> DdnsFirst(n)
      [] DdnsProvider[n] = "tencent" -> DdnsFirstTencent(n)
      [] DdnsProvider[n] = "baidu" -> DdnsFirstBaidu(n)
      [] DdnsProvider[n] = "cloudflare" -> DdnsFirstCloudflare(n)
      [] OTHER -> 0

\* EnsureRecord looks for the record, where the provider needs its id.
DdnsFind(x) ==
    /\ ddnsRound[x].pc = "find" /\ ddnsRound[x].todo # {} /\ ~DdnsCut(x)
    /\ DdnsGo(x, [ddnsRound[x] EXCEPT !.pc = "write", !.found = DdnsSeen(Min(ddnsRound[x].todo))])
    /\ UNCHANGED <<ddnsRule, ddnsSaved, ddnsDisk, ddnsRunners, ddnsCurrent, ddnsHost,
                   ddnsZone, ddnsCount, ddnsWritten, ddnsExcuses>>

\* The values of a name once it was ensured: added if none was seen, left alone if
\* the one seen is right, else put in its place.
DdnsAdded(n, ip) == IF ip \in ToSet(ddnsZone[n]) THEN ddnsZone[n] ELSE Append(ddnsZone[n], ip)
DdnsPut(n, ip) == [ddnsZone[n] EXCEPT ![1] = ip]
DdnsByAliyun(n, seen, ip) ==
    CASE seen = 0 -> DdnsAdded(n, ip) [] seen = ip -> ddnsZone[n] [] OTHER -> DdnsPut(n, ip)
DdnsByTencent(n, seen, ip) ==
    CASE seen = ip -> ddnsZone[n] [] seen = 0 -> DdnsAdded(n, ip) [] OTHER -> DdnsPut(n, ip)
DdnsByBaidu(n, seen, ip) ==
    IF seen = ip THEN ddnsZone[n] ELSE IF seen = 0 THEN DdnsAdded(n, ip) ELSE DdnsPut(n, ip)
\* Cloudflare is told the value whatever was seen, GoDaddy all values of the name.
DdnsByCloudflare(n, seen, ip) == IF seen = 0 THEN DdnsAdded(n, ip) ELSE DdnsPut(n, ip)
DdnsByGodaddy(ip) == <<ip>>
DdnsEnsured(n, seen, ip) ==
    CASE DdnsProvider[n] = "aliyun" -> DdnsByAliyun(n, seen, ip)
      [] DdnsProvider[n] = "tencent" -> DdnsByTencent(n, seen, ip)
      [] DdnsProvider[n] = "baidu" -> DdnsByBaidu(n, seen, ip)
      [] DdnsProvider[n] = "cloudflare" -> DdnsByCloudflare(n, seen, ip)
      [] OTHER -> DdnsByGodaddy(ip)

\* A provider refuses a second record of one value; Cloudflare's refusal counts as done.
DdnsRefused(n, seen, ip) ==
    DdnsProvider[n] \notin {"cloudflare", "godaddy"} /\ seen = 0 /\ ip \in ToSet(ddnsZone[n])

\* Another round is about to write another address, or the rule has got another
\* runner meanwhile.
DdnsRival(x) ==
    \/ \E y \in DdnsSlots \ {x} :
           DdnsGoing(y) /\ ddnsRound[y].ip \notin {0, ddnsRound[x].ip}
    \/ ddnsRound[x].on # Len(ddnsRunners)

DdnsNext1(x, ok) == [ddnsRound[x] EXCEPT !.pc = "find", !.todo = @ \ {Min(@)}, !.found = 0,
    !.wrote = @ \/ ok, !.failed = @ \/ ~ok]

DdnsWrite(x) ==
    /\ ddnsRound[x].pc = "write" /\ ~DdnsCut(x)
    /\ LET r == ddnsRound[x]
           n == Min(r.todo) IN
       /\ r.found = 0 => Len(ddnsZone[n]) < 2
       /\ ddnsZone' = [ddnsZone EXCEPT ![n] = DdnsEnsured(n, r.found, r.ip)]
       /\ DdnsGo(x, DdnsNext1(x, ~DdnsRefused(n, r.found, r.ip)))
       /\ ddnsWritten' = ddnsWritten \union {r.ip}
    /\ ddnsExcuses' = ddnsExcuses \union (IF DdnsRival(x) THEN {"overlap"} ELSE {})
    /\ UNCHANGED <<ddnsRule, ddnsSaved, ddnsDisk, ddnsRunners, ddnsCurrent, ddnsHost, ddnsCount>>

\* The call fails, carried out or not; one that was cut off is not made.
DdnsWriteFails(x) ==
    /\ \/ ddnsRound[x].pc = "write"
       \/ ddnsRound[x].pc = "find" /\ ddnsRound[x].todo # {} /\ DdnsCut(x)
    /\ IF DdnsCut(x) THEN UNCHANGED ddnsCount ELSE DdnsTrouble
    /\ LET r == ddnsRound[x]
           n == Min(r.todo) IN
       \/ UNCHANGED ddnsZone
       \/ /\ r.pc = "write" /\ Len(ddnsZone[n]) < 2
          /\ ddnsZone' = [ddnsZone EXCEPT ![n] = DdnsEnsured(n, r.found, r.ip)]
    /\ DdnsGo(x, DdnsNext1(x, FALSE))
    /\ ddnsExcuses' = ddnsExcuses \union {"failed"}
                                  \union (IF DdnsRival(x) THEN {"overlap"} ELSE {})
    /\ UNCHANGED <<ddnsRule, ddnsSaved, ddnsDisk, ddnsRunners, ddnsCurrent, ddnsHost, ddnsWritten>>

\* Mutant of DdnsAdvanced: the address counts as written whatever failed.
DdnsAdvancedAlways(r, ip) == r.ip

\* The address last written, once a round has gone through the records.
DdnsAdvanced(r, ip) == IF r.wrote THEN r.ip ELSE ip

DdnsConcludes(x) ==
    /\ ddnsRound[x].pc = "find" /\ ddnsRound[x].todo = {}
    /\ LET r == ddnsRound[x] IN
       /\ ddnsRunners' = [ddnsRunners EXCEPT ![r.on].ip = DdnsAdvanced(r, @)]
       /\ IF r.failed THEN DdnsFails(x, r) ELSE DdnsReports(x, r, TRUE)
       /\ ddnsExcuses' =
            CASE r.wrote /\ r.failed -> ddnsExcuses \union {"partial"}
              [] r.wrote /\ ~r.failed /\ r.names # DdnsRunnerOf(x).names -> ddnsExcuses \union {"edited"}
              [] ~r.failed /\ r.on = ddnsCurrent /\ r.names = DdnsRunnerOf(x).names ->
                     ddnsExcuses \intersect {"overlap"}
              [] OTHER -> ddnsExcuses
    /\ UNCHANGED <<ddnsRule, ddnsSaved, ddnsDisk, ddnsCurrent, ddnsHost, ddnsZone,
                   ddnsCount, ddnsWritten>>

\* setStatus reads the address, then saves it with the status, whether or not
\* the runner was stopped meanwhile: it may put an address in the place of a newer one.
DdnsNotes(x) ==
    /\ ddnsRound[x].pc = "note"
    /\ DdnsGo(x, [ddnsRound[x] EXCEPT !.pc = "save", !.noted = DdnsRunnerOf(x).ip])
    /\ UNCHANGED <<ddnsRule, ddnsSaved, ddnsDisk, ddnsRunners, ddnsCurrent, ddnsHost,
                   ddnsZone, ddnsCount, ddnsWritten, ddnsExcuses>>

DdnsSaves(x) ==
    /\ ddnsRound[x].pc = "save"
    /\ ddnsSaved' = [ip |-> ddnsRound[x].noted,
                     status |-> IF ddnsRound[x].failed THEN "failed" ELSE "ok"]
    /\ DdnsGo(x, DdnsRest)
    /\ ddnsExcuses' = ddnsExcuses \union
         (IF \E i \in {ddnsRound[x].on, Len(ddnsRunners)} : ddnsRound[x].noted # ddnsRunners[i].ip
          THEN {"lost"} ELSE {})
    /\ UNCHANGED <<ddnsRule, ddnsDisk, ddnsRunners, ddnsCurrent, ddnsHost, ddnsZone,
                   ddnsCount, ddnsWritten>>

-----------------------------------------------------------------------------
DdnsEdits == /\ DdnsEvents < DdnsMaxEvents
             /\ ddnsCount' = [ddnsCount EXCEPT !.edits = @ + 1]

\* The rule is saved and reloaded: its runner is stopped, told, or made.
DdnsReload(on, names) ==
    /\ DdnsEdits /\ ddnsRule' = [on |-> on, names |-> names]
    /\ CASE ~on /\ ddnsCurrent # 0 ->
              /\ ddnsRunners' = [ddnsRunners EXCEPT ![ddnsCurrent].stopped = TRUE]
              /\ ddnsCurrent' = 0
         [] on /\ ddnsCurrent # 0 ->
              /\ ddnsRunners' = [ddnsRunners EXCEPT ![ddnsCurrent].names = names]
              /\ UNCHANGED ddnsCurrent
         [] on /\ ddnsCurrent = 0 ->
              /\ Len(ddnsRunners) < DdnsMaxRunners
              /\ ddnsRunners' = Append(ddnsRunners, DdnsNewRunner(names, TRUE))
              /\ ddnsCurrent' = Len(ddnsRunners) + 1
         [] OTHER -> UNCHANGED <<ddnsRunners, ddnsCurrent>>
    /\ ddnsExcuses' = ddnsExcuses \union
         (IF \/ ~(names \subseteq ddnsRule.names)
             \/ on /\ ddnsCurrent = 0 /\ \E x \in DdnsSlots : DdnsGoing(x)
          THEN {"edited"} ELSE {})
    /\ UNCHANGED <<ddnsSaved, ddnsDisk, ddnsRound, ddnsHost, ddnsZone, ddnsWritten>>

DdnsFlush ==
    /\ ddnsDisk # ddnsSaved /\ ddnsDisk' = ddnsSaved
    /\ UNCHANGED <<ddnsRule, ddnsSaved, ddnsRunners, ddnsCurrent, ddnsRound, ddnsHost,
                   ddnsZone, ddnsCount, ddnsWritten, ddnsExcuses>>

\* The process dies and starts again with what state.json holds.
DdnsCrash ==
    /\ DdnsEdits
    /\ ddnsSaved' = ddnsDisk /\ ddnsRound' = [x \in DdnsSlots |-> DdnsRest]
    /\ ddnsRunners' = IF ddnsRule.on
         THEN <<[names |-> ddnsRule.names, ip |-> ddnsDisk.ip, loop |-> TRUE, stopped |-> FALSE]>>
         ELSE <<>>
    /\ ddnsCurrent' = IF ddnsRule.on THEN 1 ELSE 0
    /\ ddnsExcuses' = ddnsExcuses \union
         (IF \/ \E x \in DdnsSlots : DdnsGoing(x) /\ ddnsRound[x].ip # ddnsDisk.ip
             \/ \E i \in 1..Len(ddnsRunners) : ddnsRunners[i].ip # ddnsDisk.ip
          THEN {"lost"} ELSE {})
    /\ UNCHANGED <<ddnsRule, ddnsDisk, ddnsHost, ddnsZone, ddnsWritten>>

DdnsMove(ips) ==
    /\ DdnsEvents < DdnsMaxEvents /\ ips # ddnsHost
    /\ ddnsCount' = [ddnsCount EXCEPT !.moves = @ + 1] /\ ddnsHost' = ips
    /\ UNCHANGED <<ddnsRule, ddnsSaved, ddnsDisk, ddnsRunners, ddnsCurrent, ddnsRound,
                   ddnsZone, ddnsWritten, ddnsExcuses>>

DdnsInit ==
    /\ ddnsRule = [on |-> TRUE, names |-> DdnsNames]
    /\ ddnsSaved = [ip |-> 0, status |-> "none"] /\ ddnsDisk = ddnsSaved
    /\ ddnsRunners = <<[names |-> DdnsNames, ip |-> 0, loop |-> TRUE, stopped |-> FALSE]>>
    /\ ddnsCurrent = 1 /\ ddnsRound = [x \in DdnsSlots |-> DdnsRest]
    /\ ddnsHost = {Min(DdnsAddresses)} /\ ddnsZone = [n \in DdnsNames |-> <<>>]
    /\ ddnsCount = [moves |-> 0, presses |-> 0, troubles |-> 0, edits |-> 0]
    /\ ddnsWritten = {} /\ ddnsExcuses = {}

DdnsRoundStep(x) ==
    \/ DdnsBegins(x) \/ DdnsDetects(x) \/ DdnsDetectFails(x) \/ DdnsFind(x) \/ DdnsWrite(x)
    \/ DdnsWriteFails(x) \/ DdnsConcludes(x) \/ DdnsNotes(x) \/ DdnsSaves(x)
DdnsNext ==
    \/ \E x \in DdnsSlots : DdnsRoundStep(x)
    \/ \E on \in BOOLEAN, names \in (SUBSET DdnsNames) \ {{}} : DdnsReload(on, names)
    \/ DdnsFlush \/ DdnsCrash
    \/ \E ips \in SUBSET DdnsAddresses : DdnsMove(ips)
DdnsSpec == DdnsInit /\ [][DdnsNext]_ddnsVars

-----------------------------------------------------------------------------
DdnsIps == DdnsAddresses \union {0}
DdnsState == [ip : DdnsIps, status : {"none", "ok", "failed"}]
DdnsTypeOK ==
    /\ ddnsRule \in [on : BOOLEAN, names : SUBSET DdnsNames]
    /\ {ddnsSaved, ddnsDisk} \subseteq DdnsState
    /\ Len(ddnsRunners) <= DdnsMaxRunners /\ ddnsCurrent \in 0..Len(ddnsRunners)
    /\ \A i \in 1..Len(ddnsRunners) : ddnsRunners[i] \in
          [names : SUBSET DdnsNames, ip : DdnsIps, loop : BOOLEAN, stopped : BOOLEAN]
    /\ \A x \in DdnsSlots : DdnsGoing(x) => ddnsRound[x].on \in 1..Len(ddnsRunners)
    /\ ddnsHost \subseteq DdnsAddresses
    /\ \A n \in DdnsNames : ddnsZone[n] \in Seq(DdnsAddresses)
    /\ ddnsExcuses \subseteq {"overlap", "failed", "partial", "edited", "lost"}

\* The address a rule takes as written, in memory or saved, was written: a round
\* all of whose calls failed leaves it where it was, to be tried again.
DdnsAddressIsReal ==
    /\ \A i \in 1..Len(ddnsRunners) : ddnsRunners[i].ip \in ddnsWritten \union {0}
    /\ {ddnsSaved.ip, ddnsDisk.ip} \subseteq ddnsWritten \union {0}

\* Between rounds every record of a rule that runs is at the address it takes as
\* written, unless calls failed for some records only, two rounds wrote
\* different addresses, records were added, or a crash, or the late save of a
\* round, lost the address last written.
DdnsRecordsFollow ==
    ddnsExcuses = {} /\ ddnsCurrent # 0 /\ (\A x \in DdnsSlots : ~DdnsGoing(x)) =>
        LET r == ddnsRunners[ddnsCurrent] IN
        r.ip # 0 => \A n \in r.names : ToSet(ddnsZone[n]) = {r.ip}

\* A rule is shown as failed only after something failed, or two rounds added one
\* record, the button's or that of a runner stopped meanwhile: a stop is no failure.
DdnsFailureIsReal ==
    ddnsSaved.status = "failed" =>
        \/ ddnsCount.troubles + ddnsCount.moves + ddnsCount.presses > 0
        \/ "overlap" \in ddnsExcuses

(* What a rule believes and shows of its records is true.                   *)
DdnsIsHonest == DdnsAddressIsReal /\ DdnsRecordsFollow /\ DdnsFailureIsReal
=============================================================================
