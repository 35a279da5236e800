# Mantou: a verification project

Mantou is one Go process with a data directory, a web panel and a set of
modules (dynamic DNS, port forwarding, web services, wake on LAN, cron tasks,
certificates, outgoing notifications, webhooks). This directory holds TLA+
models of its parts, the TLC configurations that check them on small instances,
and proofs checked by TLAPS. File names without a directory are under
`src/internal/`.

## 1. Inventory

| component | state it keeps | operations | interacts with | what makes it correct | modules |
|---|---|---|---|---|---|
| configuration store (`config`) | configuration in memory, write lock, merge window, `config.json`, `master.key`, `state.json` | Load, Get/Snapshot, Update, UpdateState, Replace, FlushState, Close | everybody; the modules report into it | a save is all or nothing; a save loses no report; credentials can be opened after any crash; a report reaches the disk | `ConfigStore`, `DurableSettings` |
| module manager (`module`, `app`) | modules, reload lock, last good configurations, closed flag | ReloadLatest, CloseAll | handlers call it after each save; `main` closes it | modules run the last configuration; never go backwards; stay closed | `Lifecycle` |
| process (`cmd/mantou`) | signal, restart and exec channels | run, servePanels | owns store, modules, lock, scheduler | each way out saves the reports and closes the modules | `Lifecycle`, `Settings` |
| panel restart (`restart`, `server/api_restart.go`) | anchor, fingerprint, LastRunAt in the configuration, restarting flag, exec channel | tick, fire, the button, save of the policy | store, process | a trigger point fires once, and none is missed or invented | `RestartScheduler` |
| notifications (`modules/notify`) | targets, queue, depth, byte budget, retry timers | Enqueue, push, workers, Reload, Close | webhooks, cron, store of statistics | every message ends once; memory is bounded; a drain delivers what was accepted | `NotifyQueue` |
| certificates (`modules/cert`) | issuances in flight, statuses, index and pairs of files, day marks of the renewal | Save, Reload, IssueAsync, RenewDue, recovery, Close, the TXT challenges | store, web services, panel TLS, DNS providers | pair and index agree; one issuance per certificate and its status ends; nothing expires that could be renewed; a challenge is there when it is asked for | `CertStore`, `CertIssue`, `CertRenewal`, `Challenges` |
| sessions and sign-in (`server/session.go`, `ratelimit.go`, `reauth.go`, `auth`) | sessions with three deadlines, attempts per address and name | login, logout, beacon, valid, revoke, Acquire/Release/Fail, setup | every request | no session outlives or falls short of its limits; parallel guesses are bounded; one setup | `Sessions`, `SignIn` |
| settings, import, export (`server/api_settings.go`, `import_scope.go`, `config_crypt.go`, `api_overview.go`, `app/reclaim.go`) | restore directories, archives, what is in force of the settings | export, import, rollback, cleanup, reclaim, save | store, certificates, panel server | an import is whole or nothing; an archive is one moment; what is in force is what was saved | `ConfigImport`, `Backup`, `Settings` |
| self-update (`server/api_update*.go`) | staged file, backup, grants, result of the last look | grant, upload, verify, install, restart, check | process | an executable is always there; only granted, verified and tried packages; a newer version is newer | `SelfUpdate`, `UpdateCheck` |
| resources (`server/api_resources.go`, `api_actions.go`, `api_webhook*.go`) | none of their own: items of the configuration | create, save, switch, delete | store, module manager | overlapping requests leave a configuration the checks allow | `Resources` |
| webhooks (`modules/webhook`) | receivers, listener, gate, test run, history and its file, originals | Reload, ReleasePort, serve, dispatch, reject, Close | notifications, web services (shared port) | one owner of a port; each message counted once | `Listeners`, `WebhookIntake` |
| web services (`modules/webservice`) | listeners, routes, verdicts on passwords, backends' health, access ring, bans | Reload, Close, serve, sweep | certificates, webhooks | one owner of a port; visitors are answered; health shown is health found | `Listeners`, `Probes`, `SiteRequests`, `Bans`, `Journal` |
| forwarding (`modules/forward`) | runners with sockets, connection gate, UDP sessions | Reload, accept, read, Close | store (last error) | a rule that shows as running listens; gate never exceeds its limit, places are given back | `Forward` |
| cron (`modules/cron`) | scheduler, running tasks, next times | Reload, fire, run now, Close | store, notifications, wakes, dynamic DNS | one execution of a task at a time; what is shown is what happened | `Cron` |
| dynamic DNS (`modules/ddns`, `dnsprovider`) | runners, last address, status | Reload, loop, round, Close | store, providers | records follow the address; failures are told | `Ddns` |
| wake on LAN (`modules/wol`, `server/wakelimit.go`) | schedules, next times, cached interfaces, wake limit | Reload, fire, wake by hand, Close | store | each wake that is due is sent, once, none from the past | `Wol` |
| firewalls (`inboundfw`, `server/firewall.go`, `webservice/scanban.go`) | strikes, bans, deny and allow lists | strike, ban, allow, sweep, move to the list | all listeners, store | a ban is earned, given, kept and ends; caps | `Bans` |
| rate limiter (`ipx`) | a table of buckets | Allow, collection, eviction | panel, sites, webhooks | bounded; nobody gets more than his limit; the busy are not evicted | `Limiter` |
| log and metrics (`logx`, `metrics`) | ring, file, counters, samples | log, resize, rotate, sample, series | pages | the latest is shown, in order; the file's counters are true | `Journal` |
| network guard (`netguard`), instance lock (`lockfile`), `runstats`, helpers (`tmplx`, `errpage`, `fsx`, `version`, `httpx`), `web` | none that decides anything | | | | |

How they interact: a handler of the panel calls `Config.Update`, then
`ReloadLatest`, which hands the newest configuration to every module in order of
registration. Modules report last results with `Config.UpdateState`, from
goroutines of their own. Cron tasks and webhooks enqueue notifications; cron
tasks run wakes and dynamic DNS. Web services reload before webhooks and take a
shared port from them by `ReleasePort`. Issuances write TXT records through the
providers that dynamic DNS uses. The scheduler and the button ask `main` through
a channel of capacity one to replace the process; `main` then shuts the panel
down, closes the store and the modules, and execs.

What is hard: the many writers of one file and the window behind which reports
wait; reloads that overlap each other and the way out; requests that check a
snapshot and apply to something newer; accounting that moves between goroutines
(bytes, depth, gates, places); the clock with its suspensions and steps; two
files, or two directories and a configuration, that change together. The list,
line by line, is `hazards` in `PROJECT.json`.

## 2. Plan

Done, in this order: `ConfigStore` with its proofs; `Lifecycle`,
`RestartScheduler`, `NotifyQueue`, and later their proofs; certificates; sessions and sign-in; imports,
archives and settings; listeners, forwarding and self-update; the abstract
specification `DurableSettings` with the refinement checked and proved; then
the other modules of the panel, in the order of the table; proofs about
forwarding, sessions, sign-in and certificates; then about updates, webhooks,
resources, saves, listeners, probes and the records of names; last about web
services, tasks, records and the types of all.

Left:

Liveness of the modules that `Panel` runs (issuances end, a round is tried again,
a waiting visitor is answered) under runs of their own; at present their end is
stated as safety of the states in which nothing is under way.

Every module is written to be proved about: parameters are CONSTANTS with named
assumptions, one action per operation, no RECURSIVE operator.

## 3. Modules

### ConfigStore (`config/store.go`, `config/state.go`, `config/secret.go`)

A configuration is a function from items to what the administrator set
(`memConf`) and one to what the modules reported (`memRt`). A save holds the
write lock through four steps: `EnsureKey` (the key exists on the disk before
the first file sealed with it), `WriteConfig` (atomic replacement, synced),
`Commit`, and for `Replace` the mark. `UpdateState` publishes under the lock and
marks after it (`Mark`), as the code does. The window is `TimerFires`, `Close`,
and the flush in its four steps, `FlushTake`, `FlushShot`, `FlushWrite`,
`FlushRemark`, because the order of taking the mark and reading the
configuration is what the design rests on. `LoadConfig` and `LoadState` are the
start, including the split of an older file. A process may end at any step
(`Crash`), or lose power (`PowerLoss`): `state.json` is written without fsync and
may be unreadable after it; the other two files are synced.

Abstracted: an item's data is a model value; sealing is the key of the file;
the migration of an older version, and the missing JWT secret, are the fact that
the file owes a save (`owes`); the revision counter is left out; the master key
that may come from the environment is left out, so the model has the harder
case. Callers of `UpdateState` change runtime fields of existing items only, as
every caller in `src` does; identifiers of new items are fresh (`genID`).

### Lifecycle (`module/module.go`, `app/app.go`, `cmd/mantou/main.go`, the modules' Reload and Close)

Handlers save a version and call `ReloadLatest`; the reload walks the modules,
each of which succeeds, or fails and is rolled back to its last good version. A
reload of a module is two steps, the look at the module's own closed flag
(`Look`, into `seen`) and what it does then (`Applied`), and a close may fall
between them. `Guarded` are the modules that hold one lock from the look to the
start of their loops or servers, which their Close takes as well (web services,
`webservice.go:481`, and WOL, `wol.go:179`): for them a close waits (`Held`).
`Looking` is the webhook listener: it looks under its lock, gives it back and
starts the server later without a second look (`webhook.go:256-288`), as
`LsnHookInstalls` of `Listeners` does. The others (cron, forwarding, DDNS,
certificates, notifications) have no flag that Reload looks at. `GuardedStayClosed`
speaks of the first kind only; for the other two the run `lifecycle_revival`
shows the reopening. Modules report runtime states, a window saves them.
`Leave`, `Drained`, `CloseStore`, `CloseAllBegin`, `CloseModule` are the way
out, in the order of the defers of `run` ("exit") or of the exec branch of
`servePanels` ("exec"). Shutdown waits ten seconds, so a handler may still be
reloading afterwards. The listeners and the HTTP server itself are not modelled.

### NotifyQueue (`modules/notify`)

A chain is one message for one target with its retries. `push` is four steps
(flag, bytes, send, depth) because other goroutines run in between; a worker is
the two selects of `worker`, `Refresh`, `Deliver`, `ScheduleRetry` and the
deferred `Count`. The bytes move with the task. `Close` is its flag and timers,
the bounded drain, and `wg.Wait`. The channels are one outcome of three. One
target is modelled, since targets share only queue, budget and depth.

### RestartScheduler (`restart`, `server/api_restart.go`, `cmd/mantou/main.go`)

A policy is a set of trigger points on a bounded clock; a tick comes at most
`Lag` after the one before, points older than `Window` are skipped, at most
`MaxSteps` in a tick: a tick that has skipped `MaxSteps` points ends without a
look at the next one. `Record` writes LastRunAt before `Fire` asks for the exec.
The clock may be set (`Jump`), a save may come at any moment, the process may be
killed, and the next one starts later. Calendar arithmetic (weekdays, dates,
intervals, daylight saving) is abstracted to the set; one unit of the clock
stands for half a tick. The window of the code is ten minutes against ticks of
half a minute; the assumption of the model is the weakest under which no tick is
too late, and the runs take it with equality so that the edge of the window is
met.

### DurableSettings and ConfigStoreDurable

`DurableSettings` is what the store promises, without files, keys, locks or
windows: settings change as a whole, a change is kept before it is seen, a stop
at any moment leaves the settings seen last or those of the change under way,
and no change takes back a report about an item that stays.
`ConfigStoreDurable` maps `ConfigStore` to it: what is seen is `memConf` while
the process is up, what is kept is `config.json`. The mapping is checked in the
run `config_store` and proved in `ConfigStoreProofs`.

### CertStore (`modules/cert/store.go`)

A pair is its serial number, so that the two files of a certificate match when
they are equal. `Store.Save` is one step per file operation (the two backups,
the two renames, each undo), with the lock held as in the code; `Reload`
rebuilds an index beside the one that serves and swaps it in. Renames fail,
processes end, certificates are deleted; `prefersCert` decides by expiry and by
whether a name is a SAN or only the CommonName.

### CertIssue (`modules/cert/cert.go`, `acme.go`)

Goroutines of `IssueAsync` and of the renewal with the `issuing` set, the two
statuses (one here, no step reads the one to write the other), the account's
private key, the TXT record and its removal, `recoverInterrupted` in its two
steps (copy, then mark), deletion of a certificate, end and start of the
process, `Close` with its time limit. `Store.Save` is one outcome.

### CertRenewal (`modules/cert/cert.go`)

Days, in halves: a run walks the certificates in configuration order, marks the
day before it orders, fails or is cut. The property counts what went wrong.

### Challenges (`modules/cert/acme.go`, `dnsprovider/*.go`)

Issuances that share a name write values, wait, have them checked, and clean up.
Each provider adds and removes in its own number of requests: under a lock of
the process (cloudflare), by looking a value up (aliyun, tencent, baidu), or by
reading all values and writing the others back (godaddy).

### Sessions (`server/session.go`, `middleware.go`, `api_auth.go`, `api_account.go`)

Entries with the three deadlines (absolute, idle, closing grace), the beacon of
the last tab with its timer, the visit that takes it back, the sweep, the cap
with its eviction, logout, a change of the user name. Deadlines are numbers on
a bounded clock that only `SessTimePasses` moves; a timer may be late.

### SignIn (`server/ratelimit.go`, `api_auth.go`, `reauth.go`)

An attempt takes a place under each of its keys, checks the password outside
every lock, and gives the places back in as many locked steps. Entries are swept
and dropped at the cap; the lock may be switched off and on. The setup requests
are the second state machine of the module.

### SelfUpdate and UpdateCheck (`server/api_update.go`, `api_update_auth.go`, `api_settings.go`)

Uploads under grants: receive, verify, first test, backup, rename, second test,
promise, restart after its delay, with a failure and an end of the process at
each. `UpdateCheck` is the look for a newer version: the cache, the calls that
fail or are limited, the fallback from the release to the tag, and the
comparison of versions part by part, as numbers where they are numbers.

### ConfigImport (`server/api_settings.go`, `import_scope.go`, `api_storage.go`, `app/reclaim.go`)

An import reads a base, expands its scopes by their dependencies, merges, moves
two directories aside and puts the new ones in place one rename at a time,
replaces the configuration, reloads, and rolls back what failed. The cleanup
of the storage page and the reclaim at startup run against it. Contents are
numbers; a reference of one machine never resolves on another. The rollback fails
as well: a directory that can neither be renamed away nor removed
(`ImpUndoFails`), one whose saved copy cannot be renamed back, with the imported
one put back or not (`ImpBackFails`), and one that fails to return when the staged
one could not take its place (`ImpPutFails`). Such a directory is in `impStuck`
from then on: that configuration and directories agree is claimed of the others,
that a missing one still stands beside its place for the next start is claimed of
all.

### Backup (`server/api_settings.go`, `config_crypt.go`, `api_account.go`, `api_appearance.go`)

An export reads the configuration, then each file; uploads, removals and saves
of the appearance change what it reads. An archive is put back as a whole.

### Settings (`server/api_overview.go`, `api_actions.go`, `server.go`, `cmd/mantou/main.go`)

A save checks a snapshot, updates, takes a second snapshot and puts it in force
in several places, one after the other, then may ask for a restart of the
server. `stgStale` names the sections in which another save came in between.

### Listeners (`modules/webservice`, `modules/webhook`, `module/module.go`)

One pass of reloads: web services first, with `ReleasePort` in the middle, then
the webhook, with each listen's failure, other programs' sockets, servers that
stop by themselves, and `CloseAll`. This is the composition of the two modules
over the port they share.

### Probes (`modules/webservice/probe.go`, `accesslog.go`)

The sweep of backends in its three critical sections against reloads; and the
log of refused sources with its window, its table and its rate.

### SiteRequests (`modules/webservice/handler.go`, `basicauth.go`, `middleware.go`)

The requests of one site: route, filter, limit, password, backend. A password is
computed by the first request that carries it, the others wait at its entry; the
budget, a panic, the sweep of the table and the ends of verdicts are steps. The
weighted ring of backends has a counter that wraps.

### Limiter (`ipx/ipx.go`)

The table of token buckets with collection and eviction. A bucket fills with
what elapsed at the limit of the call, which may differ from call to call.

### WebhookIntake (`modules/webhook/handler.go`, `testrun.go`, `history.go`, `source.go`, `anonlimit.go`, `inflight.go`)

A message through the gate, the test run or the rules, its record in the history
and in the writer's queue, and its original under the budget. Switches of the
configuration, of the test run and clearings come at any step.

### Forward (`modules/forward/forward.go`)

`Reload` removes runners from its table, starts their successors and stops the
old ones last, outside the lock; a bind fails while a port is held. The second
state machine is connections and UDP sessions with the gate and the counts.

### Wol (`modules/wol/wol.go`, `server/wakelimit.go`)

The loop of one schedule against a clock that suspensions move and timers do
not follow, with days, a missing hour and reloads. The second state machine is
wakes by hand: the bucket of each device and the cached list of interfaces.

### Cron (`modules/cron/cron.go`)

A scheduler is a generation; a reload stops it, waits for its executions (with a
limit), builds the next and writes the next times. Executions carry the copy of
the task they began with, and report on it.

### Resources (`server/api_resources.go`, `api_actions.go`, `api_webhook.go`, `api_webhook_rules.go`)

A request is checked against a snapshot and applied in a later `Update`, or
checked inside it; the model keeps which is which. What relates two resources is
kept (ports, the certificate HTTPS needs, references between receivers, rules
and templates, masked secrets, limits); what concerns one field is not.

### Ddns (`modules/ddns`, `dnsprovider`)

One rule, its runner, rounds by the loop, the button and the cron task; each
record is found, written or added in the requests its provider makes. A failing
request may have been carried out.

`setStatus` saves the address of its runner whether or not the runner was stopped
meanwhile (`ddns.go:408-429`). A round that is about to save when its rule is
switched off, run once by the button (a runner of its own, which writes another
address) and switched on again puts the older address back, and the next runner
starts from it. `DdnsRecordsFollow` names this as "lost"; the excuse is there
because the invariant could not be proved without it, and TLC found the behaviour
with one record, three runners and four events.

### Bans (`inboundfw`, `server/firewall.go`, `modules/webservice/scanban.go`, `server/api_global_firewall.go`)

A behaviour follows one of the three tables: strikes in a window, which begins
with a strike and not at fixed times, a ban with its end, the sweep, the cap with
its eviction; and the requests that release a ban or move it to the deny list,
each of them two steps. The panel's own firewall spares loopback only
(`server/firewall.go:207`, `:273`): the local network, which is all that its mode
"lan" lets in, is counted and banned like everybody; the allow list lets a banned
source in. The verdict and the count behind it are two steps, as they take two
locks. The webhook's and the web services' tables have their own exemptions.

### Journal (`logx`, `modules/webservice/accesslog.go`, `metrics`)

Three state machines: the log's ring and file (its rotation closes, renames,
opens, and each may fail); the ring of access events, which grows and shrinks;
the samples and the series a page keeps of them.

### Panel

`Panel` runs those components in one specification. They share no state, so
their product says nothing the parts do not, and would be too large to explore:
the variable `focus` picks the one that moves. Components that do share state
are composed where they are modelled: web services with webhooks in
`Listeners`, archives with what changes the files in `Backup`, directories with
the configuration in `ConfigImport`, bans with lists in `Bans`, the store with
the process and its modules in `Lifecycle`.

## 4. Runs

| run | shows | bounds |
|---|---|---|
| `config_store` | the safety of the store, and that it implements `DurableSettings` | two items, one setting and two runtime states each, two writers, one window goroutine besides Close, two keys, one failure, one end of the process. Every hazard of the list needs at most two writers and one flush; symmetric sets are declared in `MCConfigStore` |
| `config_store_live` | a report reaches `state.json` | one item, two writers, two window goroutines, no failing disk, one crash |
| `config_store_retry` | a failed flush is not retried by itself (violation) | the same, one failure |
| `lifecycle` | modules are fresh, monotone, closed, and reports saved on exit | three modules, one of each kind (guarded, looking, without a flag), two handlers, three saves, two failures, one report |
| `lifecycle_revival`, `lifecycle_exec` | the exec path (violations) | the same |
| `notify_queue` | accounting, one result, the right body | two messages of one or two bytes, queue of one, budget of two, two workers, one retry, two reloads, two templates |
| `notify_queue_live` | messages end, Close returns | two messages, two workers |
| `notify_queue_drain` | the drain can end early (violation) | two messages, one worker |
| `restart_scheduler` | once, none missed, none invented, the button comes back | four moments, two policies, two saves, and one each of clock step, crash, failure, click |
| `restart_shown` | the shown next run is skipped (violation) | seven moments, one save |
| `panel` | the properties of the table below | below |

The violations are disagreements between the code and its own comments; each
finding in `PROJECT.json` quotes the comment. They are small: a later report
repairs the first, the others need an exec or a close within a few instructions
or one tick.

The properties of `panel`, each a conjunction over the modules that belong to it
(the parts are stated and explained where they are defined):

| property | parts | bounds in `Panel.cfg` |
|---|---|---|
| `CertificatesHold` | `CertStoreConsistent`: no mixed pair on disk while fewer than three things went wrong, the index is the disk's and by merit. `IssOperationsEnd`: one issuance per certificate, no status left in progress, a Close that waited leaves nothing. `RenewedInTime`: nothing expires while fewer days go wrong than it is renewed ahead, one order a day | three certificates (one by CommonName), three pairs, three troubles; two certificates, two goroutines, two issuances; two certificates, twelve days, three troubles |
| `AccessHolds` | `SessionsAsExpected`: served if and only if the user may expect it. `AttemptsAreCounted`: every place is an attempt under way, a burst is bounded, one setup | three tokens at a cap of two; two attempts at a time under two keys each, a table of two |
| `SessLoginDisplaces` | a login at the cap takes the place of the dead or the one unseen for longest, and is valid | the same |
| `UpdatesHold` | `UpdateIsSafe`: the program file starts whenever the process ends, is what was promised, with a way back, one upload per grant. `UpdatesAreSeen`: newer is newer by its numbers, and no older than results are kept | two uploads, two grants, two failures; two asks, versions 1.9, 1.10 and 1.10.9b |
| `SavesHold` | `ImportIsWhole`: nothing lost, all or nothing, the panel's certificate exists. `BackupsHold`: archives are one moment, the image has its file. `SettingsAreInForce`: what is in force everywhere is what was saved | two imports, two crashes, two failures in an import, those of its rollback included; one archive, one import, two requests; two saves of every section |
| `ServersHold` | `PortsAreServed`: webhook and web server reached, nobody lingers. `ProbesAreTrue`: health shown was found, refusals logged within their rate | two ports, two passes, one trouble; two backends, two reloads; three sources, a table of two |
| `WebhooksHold` | every message counted once as what became of it, the history's file complete or saying what is missing, originals belong to their records, test runs are quiet, the gate is exact | two messages, gate, burst and queue of one, one switch |
| `ForwardsHold` | a rule runs or says why not, no leftover socket, gate and counts exact, a session has its reader | two rules, two ports, three reloads; three connections and two clients at limits of two |
| `TasksHold` | `WakesAreServed`: each tick once and in time, no catching up, the limit by hand, stale interfaces tried anew. `CronIsTrue`: one execution at a time, next times and failures shown are true | two days of four readings with one missing, one suspension, two schedules; one task, three expressions |
| `StoreHolds` | what is stored is what the checks allow, unless a request was applied that its own check would refuse by then (check and apply are two steps in the code, and this race is excused, not caught); nothing a user made is lost but to a save that overlaps; a refusal changes nothing | two tabs, two requests of the whole set of asks |
| `NamesHold` | `DdnsIsHonest`: addresses shown were written, failures are real, records follow but after a round that failed at some of them ("partial", a finding). `ChallengesStand`: no issuance fails because another one cleaned up, but for the provider that writes the whole record back ("raced") | two records at two providers, two runners, two events (the inductive invariant alone also with three runners and five events, for one record); two issuances with three values, three kinds of provider, two failures |
| `SitesHold` | `BansHold`: bans kept, earned, given. `VisitorsAreServed`: one computation per password, nobody stuck, verdicts true and kept, weights kept. `LimitsHold`: bounded, allowance kept, the busy stay | four sources, two of the local network and one of them loopback, tables of one or two, five strikes in four units of time, a limiter's clock to three; three requests, two passwords, a table of one, one panic |
| `LogsHold` | rings show the latest, the file's counters are true, the series is complete | two writers, four lines, files that rotate at two or three, so that lines follow a rotation that failed, one failure; ten events in rings of one to five; seven samples |
| `TypesOK` | the types of all of them | |

The bounds are chosen so that each table, queue or gate is smaller than the
number of those who want a place, each clock reaches the longest deadline that is
compared with it, most run beyond (sessions: a life of two, a clock to three;
sign-in and the look for updates: one and two; verdicts on passwords: two and
three; bans: three and four; the limiter: two and three; certificates: ten days of
twelve; cached interfaces: one and two; health: an interval of two and four; the
refusals' clock ends where the first window of three does), and each sort of
failure can come at least once beside every overlap of two actors. Two interfaces
have a private address, so that a cached list can be stale for a device that is
bound to one. The run visits about two million distinct states. It was also made with baidu and cloudflare
instead of aliyun and godaddy, and with three events, for `Ddns`.

Every property of a passing run has a mutant in `PROJECT.json`, a variant of one
definition with a plausible bug, defined next to the definition it changes, that
violates it. The modules of `panel` hold more of them than its properties need:
each module has at least one, next to the definition it changes (`\* Mutant of`).
To try one alone, replace the definition by it, and to look at one component
alone, give `focus` its value in `PanelInit`.

## 5. Fairness

Only what the Go runtime guarantees: a goroutine that can go on goes on (weak
fairness of its steps), a timer that runs fires, `sync.Mutex` does not starve a
waiter (strong fairness of `Lock` and `FlushTake`). No user action, clock tick,
crash, failure or reload is fair: nobody has to save, click, or send. `Deliver`
is fair because every delivery has a timeout (`timeoutOf`), `CloseDrain` because
the drain has a deadline. The liveness of the store assumes that no file
operation fails; with a failure it does not hold, which is the run
`config_store_retry`.

`panel` checks safety only and assumes no fairness. What must end there is stated
of the states in which nothing is under way: no status in progress, no place
held, nobody waiting without somebody who computes.

## 6. Proofs

`ConfigStoreProofs` proves, for every value of the constants, that each safety
property of `config_store` holds: `TypeCorrect`, `KeyBeforeConfig`,
`NoHalfCommit`, `NoReportForgotten`, `LastWrittenIsFile`, and the action
property `ReportsSurviveSaves`. They rest on the assumptions named in
`ConfigStore` and on the inductive invariant `IInv`, stated there as a
conjunction of named parts: who holds the two locks (`LockInv`, `FlushLockInv`),
where the key may be (`KeyInv`), what the disk has at each step of a save
(`DiskInv`), that the clone of a save agrees with the memory on every item that
stays (`CloneInv`), that an item that was never used has no trace (`FreshInv`,
`UsedInv`) and what a flush in progress has read (`ShotInv`). None of the
properties is inductive by itself: that a completed save loses no report needs
`CloneInv`, and `NothingForgotten` needs `FreshInv`, because an item that comes
back must not meet an old line of `state.json`. There is one lemma per part,
with one step per action; the last steps combine them with PTL.

`ConfigStoreProofs` also proves `ManagerIsDurable`: for every value of the
constants `ConfigStore` implements `DurableSettings`, under the mapping of
`ConfigStoreDurable`. Its invariant is `IInv` with `FirstInv`, which says what is
known of a directory that has no `config.json` yet: there are no settings, and
what Load is about to write is what the mapping already says is kept. There is a
lemma for each kind of step: those that touch neither the configuration nor what
callers see of it stutter; `WriteConfig` is `Keep`; `Commit` is `Show`, for which
`CloneInv` is needed (the reports of the items that stay are those of the
memory); `UpdateState` is `Report`; `LoadState` is `Start`; a crash is `Stop`.

`LifecycleProofs` proves all five safety properties of `Lifecycle`, for any
modules, handlers and bounds: `TypeCorrect`, `SettlesFresh`, `ClosedIsClosed`
(of the guarded modules: the others do reopen, see `lifecycle_revival`),
`OnlyForward`, `SignalSavesReports`. The invariant says who holds `reloadMu` and
how far its reload has come, between the look and what follows it included, where
a guarded module that was seen open is open still (`ReloadInv`), that what the modules before the
cursor were given is the configuration being loaded, which is the newest unless
the handler that saved a newer one is waiting (`FreshInv`), and how far `main`
has come (`ShutdownInv`). `SignalSavesReports` has the hypothesis that the
process only leaves by "exit"; without it the property is false, which is the
run `lifecycle_exec`. The lemma under it, `ExitSaves`, has none: whatever ways
there are, who left by "exit" saved its reports.

`NotifyQueueProofs` proves all five safety properties of the queue
(`TypeCorrect`, `BudgetIsExact`, `ResultIsUnique`, `BodyIsRight`,
`DepthDoesNotDrift`), for any messages, workers, templates and sizes. None of
these sets is assumed finite: that the bytes in use, the pushes to be counted
and the busy workers are finite is part of the invariant, since each step adds
finitely many. Its other parts are where a task is and who holds it
(`HandInv`, `QueueInv`, `LeftInv`), what an ended message has (`ResultInv`),
whether its bytes are counted (`CountedInv`) and whose template its body has
(`BodyInv`). The attempt showed that `OneResult` had been stated too strongly:
with two workers one may still be about to count a task down that the other one
already holds again for its retry. The property now speaks of workers that are
at the task, and the run has two workers.

`RestartSchedulerProofs` proves its four safety properties (`TypeCorrect`,
`PointServedOnce`, `NoPointLeftOut`, `NothingOver`), for any clock, plans and
bounds. The invariant says where a point is between the tick and the new process
(`PointInv`, `OnceInv`), how far the anchor is (`AnchorInv`, `SinceInv`), and,
while the clock has not jumped, that it passed over nothing (`ClockInv`,
`ServedInv`). `NothingOver` needed the moment since when the policy may fire as
a history (`since`) that follows every save, not only those the scheduler saw:
see section 7.

`ServingProofs` proves `ForwardIsHonest` of forwarding, for any rules (finitely
many, since Reload looks at each), ports, connections and clients. `FwdReloadInv`
says of the runners in the table, of those to be started and stopped, and of the
sockets, who has which port; `FwdPlacesInv` that the gate and the counts of a
runner are the connections and sessions that hold a place, including those whose
runner was stopped.

`AdminProofs` holds the invariants of sessions and sign-in, and their lemmas, one
per action. `SessInv` says that an entry has the deadlines of the session as its
user may expect it, or is void because the name changed since; that a session
without an entry is over by one of its limits; and that the table keeps its cap.
`SgnInv` says that what a key counts is under way at it, that what is under way
is counted while the lock is on, but for the slack that switching it left, and
that one setup succeeded at most. The constants need what the code has: the two
keys of an attempt differ (`server/api_auth.go:159`, `:192`), deadlines are not
zero.

`AdminProofs` also holds those of the certificates. `CertInv` says what each
certificate is left with if the Save at work is left out (`CertKept`: the pair
on disk, or what was set aside of it), where the two files and the backups are
at every step of it, and what an index may hold: nothing newer than was
written, the best pair at the name, and for every matching pair that is kept an
entry, unless Reload has still to load it. The attempt showed that "no mixed
pair" holds only while fewer than three things went wrong, which the run had
hidden in its bound; the property now says it. `IssInv` says which goroutine
has which certificate and that the two statuses agree with it but for the marks
of the recovery; `RenInv` bounds the days a certificate has left by the troubles
there were, which is why "renewed in time" needs no bound of its own.

And those of the updates. `UpdInv` says who holds the lock and how far it is,
and which versions are known to start: the one in place, its backup, and the one
an upload set aside, each 0 or a version that passed its test. `ChkInv` says what
a kept or given result may speak of. Its `newer` is exact only where the
published versions ascend (`ChkPublishedAscend`, which TLC evaluates for the
versions of the run): `versionGreater` compares numbers as numbers and the rest
as text, so it is no order in general (9 < 10 < 2b < 9). What is proved of it
for all versions is that no version is greater than one that is greater than it.

`ServingProofs` also holds `WhkInv` of the intake of messages, for any finite set
of requests: what became of a request is said once, when it is over; the counts
are the cardinalities of what they count, the quotas' records included; a request
that began under a test run and did not see its end still finds it running; ids
of originals only grow, so that an entry and its original cannot be mixed up
however the budget trims (`WhkFitKeeps`: what fits is the end of what there was;
the least number of originals that go exists because every set of naturals has a
least element, `LeastNatural`, from the library's well-foundedness of `<`).

`ServingProofs` holds `ResInv` of the resources as well: a rule is in one receiver
from its creation to its deletion unless a save put an older list back, and one
that is being created is new. The rest of what the run checks is inductive by
itself. The constants say what the handlers' decoders leave: a request brings a
well-formed item of its kind (`ResWellFormed`); there is a port that is not the
panel's; and an id that is free while a service is created (ids are random, so
there are as many as the limit of services and the other browsers need).

And those of listeners and probes. `LsnInv` says who has each socket and what is on
record of it, how far a pass is and what a shutdown has taken from it, what the
pass has given each web service so far, and what it leaves to the webhook; it
shows that the one silent gap is a shared port whose only child leads to the
panel. `PrbInv` says that a child due at once has a kick or a sweep coming that
will see it. `DenInv` bounds the lines of each moment by what the bucket held
(`DenLinesInv`: lines of now and tokens left are together no more than the rate),
and keeps for each line its source's time in the table, a window that passed, or
a table that was thrown away since.

`AdminProofs` holds those of the saves. `ImpInv` of the import says where each
directory is at every step: out of its place between two renames, exchanged, with
what it replaced beside it, or the one of the configuration (`ImpPlaced`, of those
no rollback failed at), and of every directory that it is there or stands beside
its place (`ImpStands`). `BkpInv` of archives
and of the panel's image says that a name that was given is of a file written to
its end, that a pair is of the import whose turn it is, and that one change of
the image at a time is under way while nothing is loose; the proof is about any
number of archives and jobs. `StgInv` of the settings says of every save how far
it is: one save of a section is past its second look, and what it puts in force
is what is saved; a listener's setting that differs from the one in force was
changed by a save that began with the one in force and has still to answer (the
witness `StgWitness`, which the flag for the restart needs).

`ServingProofs` also holds those of the records of names. `ChlInv` of the challenges
says which values each issuance has still to write and to clean up; that, while no
read and write of the record crossed another's, a value that was written is in the
zone until it was checked; that, while no answer was lost, what is in the zone is either somebody else's or on
the list of an issuance that will take it away; and that a removal under way has
read what it takes and what it must leave. It assumes that
two issuances never write one value: a value is the digest of a challenge's key.
`DdnsInv` of dynamic DNS says that the runner made last is the only one that may
work for the rule; that while no two rounds overlapped a record has at most one
value, which is what a round at work found, or the address it writes; that what is
saved is the newest runner's address, or one of its rounds is about to save it;
and that each record is at that address unless a round of the newest runner has
written its own and has still to conclude, or a round of an older loop is late and
will be seen to be (`DdnsLate`). The failure that is shown needs one clause more: an
uncut round that found nothing has still nothing before it, so that a refusal of
the provider is an overlap.

`KeepingProofs` holds the invariants of the components that count: limiter, cron,
requests of a site, bans, records, and wakes. What they share is a section on
sums. `SumFunctionOnSet` of the community modules is a fold, and TLAPS has no
instance of an induction rule that takes a predicate; the lemmas are proved with a
set in its place: a set of counterexamples would have a least one, in the order of
the strict subsets of a finite set or in that of the numbers (`WFMin`). A sum is
shown to be the number of elements of a heap, the set of the pairs <<x, i>> with
i \in 1..f[x], and so has the laws of cardinalities (`HeapAdd`).

- `LimInv`: what a source was given and what its bucket holds together are within
  what its limits allow up to the moment it was last filled; so a bucket that is
  collected was full again, and loses nothing. That the source that asked last is
  never evicted follows from the average: it was idle for no time.
- `CronInv`: of two executions of a task one has not begun; while a reload is
  under way and no change waits, each next time that is shown is one it read or
  the one to be.
- `SteInv`: who computes is entered, a kept verdict is its credential's, and
  the shares of the backends are what the counter says (`SteSharesInv`): its whole
  rounds of the ring and the places it went on from there.
- `BanInv`: what an entry counts are strikes since its window began, and all that
  no ban answered; those of the window before are fewer than earn a ban
  (`BanEntryCounts`). It showed that the bound the run had checked was too small:
  `BanIsGiven` says that in any stretch as long as a window a source gets away with
  at most twice the strikes that one window takes, counted from the end of its last
  ban, and the bounds of the run were raised until that many can come.
- `RecordsInv`, of the log (`JrnInv`), the access ring (`AccInv`) and the metrics
  (`MtrInv`): a ring and the place of the next entry stand for the entries kept
  (`JrnRingOK`), which survives a resize; the open file's counters are the sums of
  its lines; samples and page are runs of numbers that end at the last one, unless
  the clock was set back.
- `WolInv`: what the loop has ahead of it, whether or not it is cancelled
  (`WolLoopInv`); what a schedule that runs has served (`WolServedInv`); and that at
  most one tick per suspension is late by more than an interval, with the one that
  is being held up counted in advance (`WolHeldUp`). It showed that the excuse
  for ticks slept through was stated wrongly: the old form named the day a
  suspension ends in and the next one, but a sleep until midnight keeps its length,
  so that after a day shortened by daylight saving one more day may be missed.
- `WolHandInv`: in every span the wakes granted and the tokens left are within a
  burst and one per refill.

`PanelProofs` carries all this to the composition, one theorem for each property
of the run `panel`: `PanelForwards` (`ForwardsHold`), `PanelAccess` (`AccessHolds`),
`PanelCertificates` (`CertificatesHold`), `PanelUpdates` (`UpdatesHold`), `PanelWebhooks`
(`WebhooksHold`), `PanelResources` (`StoreHolds`), `PanelSaves` (`SavesHold`),
`PanelServers` (`ServersHold`), `PanelNames` (`NamesHold`), `PanelSites` (`SitesHold`),
`PanelTasks` (`TasksHold`), `PanelRecords` (`LogsHold`), `PanelTypes` (`TypesOK`), and the
action property `PanelLogins` (`SessLoginDisplaces`). What they need besides is the
frame: nothing moves the focus, and a component that is not in focus stays.

`PanelTypes` puts the inductive invariants of all components together
(`AllKept`), with the bounds that only types speak of. For the import that
includes its scope: the closure of the dependencies, a recursive function over
the number of rounds, is shown to be a set of modules, by a witness for the
function that the recursive definition chooses (`ImpRoundAdds`, `ImpClosureIsScope`).

The assumptions on constants, each named in the module that declares them, are
what the code fixes: sizes, limits and lifetimes are positive; tables, lists,
requests and backends are finite; a line is not larger than its file may be
(`JrnMaxBytes >= 2`, in units of the shorter of two lines; the code's
limit is five megabytes, `logx/rotate.go:32`); a schedule has times of the day; the expression a run of
`Cron` begins with is one of the expressions; somebody connects
(`FwdClients # {}`, only the type of a connection's record needs it).

Model-checked only: liveness (`StateCatchesUp`, `SavesReturn`, `MessagesEnd`,
`CloseReturns`, `ButtonComesBack`), which the prover cannot do under fairness, and the
violations, which are behaviours. Every invariant and action property of a passing run is
proved. What the proofs say is about the models, with their abstractions
(section 8); that the models are the code is read, not proved.

## 7. What the models excuse

The code has corners in which a property would not hold as one would first
write it. Most are accepted there; the models keep them and the properties name
them, so that the rest is still checked.

- Certificates: two first issuances may both make an account key, and the one
  that read its own before the other's was saved fails when it is validated
  (`modules/cert/acme.go:468`). An issuance that begins between the copy and the
  marking of `recoverInterrupted` shows as failed while it runs
  (`modules/cert/cert.go:627`). A day that went wrong is not tried again
  (`cert.go:337`). Godaddy's removal of a challenge writes back the values it
  read (`dnsprovider/godaddy.go:108`): `raced` in `Challenges`.
- Imports: an `Update` committed while an import runs is replaced by it
  (`server/api_settings.go:261`). A crash between the exchange of the directories
  and `Replace` leaves the new directories with the old configuration
  (`impCut`), and so does a rollback that fails at a rename
  (`api_settings.go:604-618`: `impStuck`), until somebody imports again; a cleanup of the storage page during an import takes away what the
  rollback needs (`impCleared`).
- Images: two changes that overlap, or a change during an export, may leave a
  name without its file (`server/api_account.go:351`, `api_settings.go:154`).
- Settings and resources: a check against a snapshot does not see the save that
  overtakes it (`server/api_overview.go:686`, `api_resources.go:1614`,
  `api_actions.go:590`): `stgStale`, `resRaced`, `resOverwrote`. A move of bans
  to the deny list may be undone by a save of the list that overlaps
  (`api_global_firewall.go:105`): `banLost`.
- Forwarding: a rule that takes the port of another one in the same save may
  meet its old socket, and then shows the error until the next save
  (`modules/forward/forward.go:189`).
- Dynamic DNS: a round that wrote some of its records and failed at others
  takes the address as written (`modules/ddns/ddns.go:388`). The next round
  finds the address unchanged, writes nothing and reports success (`:323`), so
  that the failure is no longer shown and the other records stay behind until
  the address changes. The comment above the line says the
  next round goes on with what failed; this is a finding in `PROJECT.json`. The
  model does what the code does, and `DdnsRecordsFollow` excuses it as
  "partial": without that excuse the run `panel` ends with a record that has no
  address under a status of success, after one failing call and two rounds.
- Schedules: after a suspension the ticks slept through are left out, but for
  the one whose timer was running (`modules/wol/wol.go:1013`). An execution of a
  cron task that reports on an outdated copy overwrites the next time
  (`modules/cron/cron.go:338`): `cronLate`.
- Panel restart: the scheduler compares the policy only at its ticks. A policy
  changed and put back between two ticks looks unchanged, its anchor stays, and
  a point between the two ticks fires although it lies before the second save
  (`restart/scheduler.go:199`); `since` is then the moment it was adopted.
- Observers: a rotation for the file's size that cannot reopen the file loses
  lines until one is long enough (`logx/rotate.go:211`); traffic is counted anew
  when the counters could not be read, and a clock set back confuses the series
  (`metrics/metrics.go:360`); a reload between a sweep's copy and its record
  leaves a status of what a child led to before (`webservice/probe.go:222`).

## 8. Not modelled, and limits

Components with status `not_modelled` in `PROJECT.json`, each with its reason:
the network guard (stateless), the instance lock (a model of flock would assume
what it shows), templates, error pages and small helpers (functions of text),
the web front end. Of the modelled components: the data that passes through
forwarding, web services and webhooks; third-party protocols; rendering;
cryptography; calendar arithmetic; the fields of a resource that relate to
nothing else; update sources, signing keys and the numbers of the storage page;
the panel's own deny and allow lists; the status probe of a device; `runstats`.

Cases the bounds leave out, or which are known to go beyond what is claimed:

- `CertStore`: three troubles can leave a mixed pair (a rename fails, the removal
  of the new file fails, the restore fails as well); `CertPairsMatch` says so.
- `CertRenewal`: a run cut by its thirty minutes leaves the certificates behind
  it marked for the day; the property counts it as that day's trouble.
- `ConfigImport`: a rollback that fails leaves directories of different imports
  (`impStuck`); a directory that is removed in part counts as not removed.
  Failures inside an import are in `ConfigImport`, what it changes besides in
  `Backup`.
- `WebhookIntake`: entries still queued when the writer gives up at its close are
  not noted in the file.
- `Bans`: the panel's mode is followed (local network or all), its lists are
  not; a sweep at the very end of a window forgets its strikes; one table, one
  service and one site at a time.
- `SiteRequests`: the counter of the backends wraps at a small number instead of
  2^32; the ring is cut there as it is in the code.
- `SignIn`: `pendingTTL`, which takes back places nobody gives back, is left out:
  there are none.
- `UpdateCheck`: no ask waits longer than a tick of its clock.
- `Backup`: no certificate is issued while an import runs, pages save only the
  images they show, and the names of uploads do not collide.
- `Settings`: `main` ends the process when the panel's server cannot be shut down
  in time; the model does not follow that.
- `ConfigStore`: the first `state.json` split out of an older file is lost if its
  write fails at the first start (`config/state.go:299`); the store logs it and
  goes on.
