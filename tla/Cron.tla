-------------------------------- MODULE Cron --------------------------------
(***************************************************************************)
(* The cron tasks (internal/modules/cron/cron.go): the schedulers that one *)
(* reload after the other builds, the executions they and the page start,  *)
(* and what an execution reports.                                          *)
(*                                                                         *)
(* A reload stops the old scheduler, waits for its executions (with a time *)
(* limit), starts a new one and writes when each task is next due; an      *)
(* execution works on the copy of its task it was started with.  A spec is *)
(* a number: the time it names next is the number itself, and 0 one which  *)
(* the scheduler refuses but the parser takes ("@every" too short).        *)
(***************************************************************************)
EXTENDS Integers, FiniteSets

CONSTANTS CronTasks, CronSpecs,
          CronMaxEdits, CronMaxRuns    \* bounds

\* 1 is the expression of the tasks a run starts with.
ASSUME CronAssumption ==
    CronSpecs \subseteq Nat /\ 1 \in CronSpecs /\ {CronMaxEdits, CronMaxRuns} \subseteq Nat

VARIABLES
    cronCfg,        \* the tasks as they are saved
    cronNext,       \* the next time that is shown
    cronDue,        \* a saved change that no reload has taken yet
    cronFailed,     \* failed
    cronRunning,    \* running
    cronJobs,       \* executions on their way
    cronScheduler,  \* the scheduler that fires, or none: its number and entries
    cronReload,     \* the reload: its place and its snapshot
    cronCount,      \* schedulers, edits, executions
    cronLate        \* tasks on which an outdated execution reported since the last reload
cronVars == <<cronCfg, cronNext, cronDue, cronFailed, cronRunning, cronJobs, cronScheduler,
              cronReload, cronCount, cronLate>>

CronNone == [there |-> FALSE, on |-> FALSE, spec |-> 1]
CronTaskSet == {CronNone} \union [there : {TRUE}, on : BOOLEAN, spec : CronSpecs]

\* The tasks a reload schedules.
CronScheduled(cfg) == {t \in CronTasks : cfg[t].on /\ cfg[t].spec # 0}
CronWant(cfg) == [t \in CronTasks |-> IF t \in CronScheduled(cfg) THEN cfg[t].spec ELSE 0]

CronStopped == [gen |-> 0, cfg |-> [t \in CronTasks |-> CronNone]]
CronNoReload == [at |-> "idle", old |-> 0, cfg |-> [t \in CronTasks |-> CronNone],
                 next |-> [t \in CronTasks |-> 0]]

CronEdit(t, task) ==
    /\ cronCount.edits < CronMaxEdits /\ task # cronCfg[t]
    /\ cronCfg' = [cronCfg EXCEPT ![t] = task] /\ cronDue' = TRUE
    /\ cronNext' = IF task.there THEN cronNext ELSE [cronNext EXCEPT ![t] = 0]
    /\ cronCount' = [cronCount EXCEPT !.edits = @ + 1]
    /\ cronLate' = IF task.there THEN cronLate ELSE cronLate \ {t}
    /\ UNCHANGED <<cronFailed, cronRunning, cronJobs, cronScheduler, cronReload>>

-----------------------------------------------------------------------------
(* A reload.                                                                *)

CronReloadBegins ==
    /\ cronReload.at = "idle" /\ cronDue /\ cronDue' = FALSE
    /\ cronReload' = [at |-> "waits", old |-> cronScheduler.gen, cfg |-> cronCfg, next |-> cronNext]
    /\ cronScheduler' = CronStopped /\ cronLate' = {}
    /\ UNCHANGED <<cronCfg, cronNext, cronFailed, cronRunning, cronJobs, cronCount>>

\* The wait ends with the old scheduler's executions, or with its time
\* limit; a new scheduler starts.
CronReloadStarts(timeout) ==
    /\ cronReload.at = "waits"
    /\ timeout \/ \A j \in cronJobs : j.gen # cronReload.old \/ cronReload.old = 0
    /\ cronScheduler' = [gen |-> cronCount.gens + 1, cfg |-> cronReload.cfg]
    /\ cronCount' = [cronCount EXCEPT !.gens = @ + 1]
    /\ cronReload' = [cronReload EXCEPT !.at = "started"]
    /\ UNCHANGED <<cronCfg, cronNext, cronDue, cronFailed, cronRunning, cronJobs, cronLate>>

\* What is kept of tasks that are gone is dropped.
CronReloadKeeps ==
    /\ cronReload.at = "started"
    /\ cronFailed' = {t \in cronFailed : cronReload.cfg[t].there}
    /\ cronReload' = [cronReload EXCEPT !.at = "kept"]
    /\ UNCHANGED <<cronCfg, cronNext, cronDue, cronRunning, cronJobs, cronScheduler, cronCount,
                   cronLate>>

\* persistNextRuns: nothing is written when the snapshot had it all.
CronPersists ==
    /\ cronReload.at = "kept"
    /\ cronNext' = IF cronReload.next = CronWant(cronReload.cfg) THEN cronNext
                   ELSE [t \in CronTasks |-> IF cronCfg[t].there THEN CronWant(cronReload.cfg)[t]
                                             ELSE cronNext[t]]
    /\ cronReload' = CronNoReload
    /\ UNCHANGED <<cronCfg, cronDue, cronFailed, cronRunning, cronJobs, cronScheduler, cronCount,
                   cronLate>>

-----------------------------------------------------------------------------
(* An execution.                                                            *)

CronBegins(t, task, gen) ==
    /\ cronCount.runs < CronMaxRuns
    /\ cronCount' = [cronCount EXCEPT !.runs = @ + 1]
    /\ cronJobs' = cronJobs \union
          {[id |-> cronCount.runs, task |-> t, copy |-> task, gen |-> gen, at |-> "new"]}
    /\ UNCHANGED <<cronCfg, cronNext, cronDue, cronFailed, cronRunning, cronScheduler, cronReload,
                   cronLate>>

CronFires(t) ==
    /\ t \in CronScheduled(cronScheduler.cfg)
    /\ CronBegins(t, cronScheduler.cfg[t], cronScheduler.gen)

\* "Run now" works on what is saved, whether it is scheduled or not.
CronRunByHand(t) == cronCfg[t].there /\ CronBegins(t, cronCfg[t], 0)

CronStep(j, at) == cronJobs' = (cronJobs \ {j}) \union {[j EXCEPT !.at = at]}

\* Mutant of CronFree: each scheduler looks only after its own.
CronFreeOwn(j) == \A o \in cronJobs : o.task = j.task /\ o.gen = j.gen => o.at = "new"

CronFree(j) == j.task \notin cronRunning

CronClaims(j) ==
    /\ j.at = "new"
    /\ IF CronFree(j) THEN cronRunning' = cronRunning \union {j.task} /\ CronStep(j, "works")
       ELSE cronJobs' = cronJobs \ {j} /\ UNCHANGED cronRunning
    /\ UNCHANGED <<cronCfg, cronNext, cronDue, cronFailed, cronScheduler, cronReload, cronCount,
                   cronLate>>

CronMarks(j, failed) ==
    /\ j.at = "works" /\ CronStep(j, "writes")
    /\ cronFailed' = IF failed THEN cronFailed \union {j.task} ELSE cronFailed \ {j.task}
    /\ cronLate' = IF cronCfg[j.task].there THEN cronLate ELSE cronLate \union {j.task}
    /\ UNCHANGED <<cronCfg, cronNext, cronDue, cronRunning, cronScheduler, cronReload, cronCount>>

\* writeResult: the next time by its own copy, whether the scheduler took
\* the expression or not (spec 0 is shown as -1, a time that never comes).
CronNextOf(task) == IF ~task.on THEN 0 ELSE IF task.spec = 0 THEN -1 ELSE task.spec

CronWrites(j) ==
    /\ j.at = "writes" /\ CronStep(j, "ends")
    /\ cronNext' = IF cronCfg[j.task].there THEN [cronNext EXCEPT ![j.task] = CronNextOf(j.copy)]
                   ELSE cronNext
    /\ cronLate' = IF j.copy # cronCfg[j.task] \/ CronNextOf(j.copy) = -1
                   THEN cronLate \union {j.task} ELSE cronLate
    /\ UNCHANGED <<cronCfg, cronDue, cronFailed, cronRunning, cronScheduler, cronReload, cronCount>>

CronEnds(j) ==
    /\ j.at = "ends" /\ cronJobs' = cronJobs \ {j}
    /\ cronRunning' = cronRunning \ {j.task}
    /\ UNCHANGED <<cronCfg, cronNext, cronDue, cronFailed, cronScheduler, cronReload, cronCount,
                   cronLate>>

CronInit ==
    /\ cronCfg = [t \in CronTasks |-> [there |-> TRUE, on |-> TRUE, spec |-> 1]]
    /\ cronNext = [t \in CronTasks |-> 0] /\ cronDue = TRUE
    /\ cronFailed = {} /\ cronRunning = {} /\ cronJobs = {} /\ cronScheduler = CronStopped
    /\ cronReload = CronNoReload /\ cronCount = [gens |-> 0, edits |-> 0, runs |-> 0]
    /\ cronLate = {}

CronNextStep ==
    \/ \E t \in CronTasks : \/ \E task \in CronTaskSet : CronEdit(t, task)
                            \/ CronFires(t) \/ CronRunByHand(t)
    \/ CronReloadBegins \/ CronReloadStarts(TRUE) \/ CronReloadStarts(FALSE) \/ CronReloadKeeps
    \/ CronPersists
    \/ \E j \in cronJobs : \/ CronClaims(j) \/ CronWrites(j) \/ CronEnds(j)
                           \/ \E failed \in BOOLEAN : CronMarks(j, failed)

-----------------------------------------------------------------------------
\* Every variable has its type.
CronTypeOK ==
    /\ cronCfg \in [CronTasks -> CronTaskSet]
    /\ cronFailed \union cronRunning \union cronLate \subseteq CronTasks
    /\ cronReload.at \in {"idle", "waits", "started", "kept"}
    /\ \A j \in cronJobs : j.at \in {"new", "works", "writes", "ends"}

\* A task is never executed twice at a time, by an old scheduler, a new one
\* and the page together; every execution of an old scheduler is over when a
\* reload has waited for it without giving up (and so the scheduler that
\* fires is the newest); and when all is quiet the page shows of every task
\* the next time of its present expression, and no failure of a task that is
\* gone, unless since the last reload began an execution reported on a copy
\* that was outdated, or by hand on an expression that is not scheduled.
CronIsTrue ==
    /\ \A j, o \in cronJobs : j # o /\ j.task = o.task => "new" \in {j.at, o.at}
    /\ cronRunning = {j.task : j \in {k \in cronJobs : k.at # "new"}}
    /\ cronScheduler.gen \in {0, cronCount.gens}
    /\ cronJobs = {} /\ cronReload.at = "idle" /\ ~cronDue =>
          \A t \in CronTasks \ cronLate :
             /\ cronNext[t] = CronWant(cronCfg)[t]
             /\ t \in cronFailed => cronCfg[t].there
=============================================================================
