---------------------------- MODULE NotifyQueue ----------------------------
(***************************************************************************)
(* The outgoing half of the message routing (internal/modules/notify).     *)
(*                                                                         *)
(* A chain is one message for one target: a first delivery and its         *)
(* retries.  It goes through push (the closed check, the reservation of    *)
(* its bytes, the non-blocking send, the increment of depth), a worker,    *)
(* and between two deliveries a timer.  One target is modelled; its        *)
(* configuration is Gone (removed or disabled), Plain (no body template),  *)
(* or the template of its request body.                                    *)
(***************************************************************************)
EXTENDS Integers, FiniteSets, Sequences

CONSTANTS
    Chains,       \* messages
    Workers,      \* workerCount goroutines
    Templates,    \* request bodies
    Gone, Plain,  \* a target that cannot be delivered to, or has no template
    None,         \* no message, no body
    Sizes,        \* bytes of a message
    Budget,       \* queueMemBudget
    Cap,          \* queueCap
    Retries,      \* the target's Retry
    MaxReloads    \* bound: changes of the target

ASSUME TargetAssumption ==
    Gone # Plain /\ {Gone, Plain, None} \cap Templates = {}
ASSUME WorkerAssumption == None \notin Chains
ASSUME BoundsAssumption ==
    /\ Sizes \subseteq Nat \ {0} /\ Budget \in Nat
    /\ Cap \in Nat \ {0} /\ Retries \in Nat /\ MaxReloads \in Nat

VARIABLES
    target,    \* Module.targets, its only entry
    at,        \* where each chain is
    task,      \* the chain's current task
    queue,     \* Module.queue
    depth,     \* Module.depth
    unadded,   \* sends whose depth.Add(1) is still to come: <<chain, left>>
    bytes,     \* Module.bytes
    wpc, hand, \* where each worker is, and its task
    closed,    \* Module.closed
    stopped,   \* Module.stop is closed
    closing,   \* where Close is
    gaveUp,    \* Close did not wait for depth to come to zero
    owed,      \* chains in the queue when Close began, Enqueue having returned
    finals,    \* final results reported for each chain (history)
    reloads

vars == <<target, at, task, queue, depth, unadded, bytes, wpc, hand, closed,
          stopped, closing, gaveUp, owed, finals, reloads>>

shutdown == <<closed, stopped, closing, gaveUp, owed>>
config == <<target, reloads>>
worker == <<wpc, hand>>

BodyFor(cfg) == IF cfg \in Templates THEN cfg ELSE None

-----------------------------------------------------------------------------
(* The end of a chain. *)

\* release: the bytes go back if this task accounts for them.
Release(t) ==
    /\ bytes' = bytes - (IF task[t].counted THEN task[t].size ELSE 0)
    /\ task' = [task EXCEPT ![t].counted = FALSE]

\* report, for a result that is not going to be retried.
ReportFinal(t) ==
    /\ finals' = [finals EXCEPT ![t] = @ + 1]
    /\ at' = [at EXCEPT ![t] = "ended"]

-----------------------------------------------------------------------------
(* Enqueue and push. *)

\* buildTasks and prepareQueued: the target is looked up and the request body
\* rendered; a target that is gone, or a body that cannot be rendered, is
\* reported at once.
Enqueue(t) ==
    /\ at[t] = "new"
    /\ \/ /\ closed
          /\ at' = [at EXCEPT ![t] = "refused"]
          /\ UNCHANGED <<task, finals>>
       \/ /\ ~closed /\ (target = Gone \/ target \in Templates)
          /\ ReportFinal(t)
          /\ UNCHANGED task
       \/ /\ ~closed /\ target # Gone
          /\ at' = [at EXCEPT ![t] = "check"]
          /\ \E s \in Sizes :
               task' = [task EXCEPT ![t] =
                   [cfg |-> target, body |-> BodyFor(target), left |-> Retries,
                    size |-> s, counted |-> FALSE]]
          /\ UNCHANGED finals
    /\ UNCHANGED <<queue, depth, unadded, bytes, worker, shutdown, config>>

\* push, first the flag.  ErrClosed goes to the caller of Enqueue; nobody is
\* left to hear it when a retry is pushed.
PushCheck(t) ==
    /\ at[t] = "check"
    /\ at' = [at EXCEPT ![t] = IF closed THEN "refused" ELSE "reserve"]
    /\ UNCHANGED <<task, queue, depth, unadded, bytes, worker, shutdown, config,
                   finals>>

\* Mutant of PushReserve: the budget is compared before the message is added.
PushReserveLate(t) ==
    /\ at[t] = "reserve"
    /\ \/ /\ task[t].counted
          /\ at' = [at EXCEPT ![t] = "send"]
          /\ UNCHANGED <<bytes, task, finals>>
       \/ /\ ~task[t].counted /\ bytes <= Budget
          /\ bytes' = bytes + task[t].size
          /\ task' = [task EXCEPT ![t].counted = TRUE]
          /\ at' = [at EXCEPT ![t] = "send"]
          /\ UNCHANGED finals
       \/ /\ ~task[t].counted /\ bytes > Budget
          /\ ReportFinal(t)
          /\ UNCHANGED <<bytes, task>>
    /\ UNCHANGED <<queue, depth, unadded, worker, shutdown, config>>

\* ... then the bytes, which a retry brings with it ...
PushReserve(t) ==
    /\ at[t] = "reserve"
    /\ \/ /\ task[t].counted
          /\ at' = [at EXCEPT ![t] = "send"]
          /\ UNCHANGED <<bytes, task, finals>>
       \/ /\ ~task[t].counted /\ bytes + task[t].size <= Budget
          /\ bytes' = bytes + task[t].size
          /\ task' = [task EXCEPT ![t].counted = TRUE]
          /\ at' = [at EXCEPT ![t] = "send"]
          /\ UNCHANGED finals
       \/ /\ ~task[t].counted /\ bytes + task[t].size > Budget
          /\ ReportFinal(t)
          /\ UNCHANGED <<bytes, task>>
    /\ UNCHANGED <<queue, depth, unadded, worker, shutdown, config>>

\* Mutant of PushSend: a message that does not fit disappears without a result.
PushSendSilent(t) ==
    /\ at[t] = "send"
    /\ \/ /\ Len(queue) < Cap
          /\ queue' = Append(queue, t)
          /\ unadded' = unadded \cup {<<t, task[t].left>>}
          /\ at' = [at EXCEPT ![t] = "queue"]
          /\ UNCHANGED <<task, bytes, finals>>
       \/ /\ Len(queue) = Cap
          /\ Release(t)
          /\ at' = [at EXCEPT ![t] = "ended"]
          /\ UNCHANGED <<queue, unadded, finals>>
    /\ UNCHANGED <<depth, worker, shutdown, config>>

\* ... then the send, which never blocks ...
PushSend(t) ==
    /\ at[t] = "send"
    /\ \/ /\ Len(queue) < Cap
          /\ queue' = Append(queue, t)
          /\ unadded' = unadded \cup {<<t, task[t].left>>}
          /\ at' = [at EXCEPT ![t] = "queue"]
          /\ UNCHANGED <<task, bytes, finals>>
       \/ /\ Len(queue) = Cap
          /\ Release(t)
          /\ ReportFinal(t)
          /\ UNCHANGED <<queue, unadded>>
    /\ UNCHANGED <<depth, worker, shutdown, config>>

\* Mutant of PushDepth: a retry is not counted again.
PushDepthFirst(t) ==
    /\ \E left \in 0..Retries :
         /\ <<t, left>> \in unadded /\ unadded' = unadded \ {<<t, left>>}
         /\ depth' = IF left = Retries THEN depth + 1 ELSE depth
    /\ UNCHANGED <<at, task, queue, bytes, worker, shutdown, config, finals>>

\* ... then the increment of depth, after which push returns nil.
PushDepth(t) ==
    /\ \E left \in 0..Retries :
         <<t, left>> \in unadded /\ unadded' = unadded \ {<<t, left>>}
    /\ depth' = depth + 1
    /\ UNCHANGED <<at, task, queue, bytes, worker, shutdown, config, finals>>

-----------------------------------------------------------------------------
(* The workers. *)

Take(w) ==
    /\ hand' = [hand EXCEPT ![w] = Head(queue)]
    /\ queue' = Tail(queue)
    /\ at' = [at EXCEPT ![Head(queue)] = "worker"]
    /\ wpc' = [wpc EXCEPT ![w] = "run"]

\* The first select of worker: what is in the queue goes before stop.
Poll(w) ==
    /\ wpc[w] = "poll"
    /\ IF queue # <<>> THEN Take(w)
       ELSE wpc' = [wpc EXCEPT ![w] = "wait"] /\ UNCHANGED <<hand, queue, at>>
    /\ UNCHANGED <<task, depth, unadded, bytes, shutdown, config, finals>>

\* The second: whichever is ready, and either of them when both are.
Wait(w) ==
    /\ wpc[w] = "wait"
    /\ \/ queue # <<>> /\ Take(w)
       \/ /\ stopped
          /\ wpc' = [wpc EXCEPT ![w] = "gone"]
          /\ UNCHANGED <<hand, queue, at>>
    /\ UNCHANGED <<task, depth, unadded, bytes, shutdown, config, finals>>

\* The target went away, or asks for a body that was not rendered.
Undeliverable(t) ==
    \/ target = Gone
    \/ target \in Templates /\ task[t].cfg # target

\* Mutant of Refresh: the body of the old template is kept.
RefreshKeepsBody(w) ==
    /\ wpc[w] = "run"
    /\ LET t == hand[w] IN
         \/ /\ target = Gone
            /\ Release(t) /\ ReportFinal(t)
            /\ wpc' = [wpc EXCEPT ![w] = "count"]
         \/ /\ target # Gone
            /\ task' = [task EXCEPT ![t].cfg = target]
            /\ wpc' = [wpc EXCEPT ![w] = "deliver"]
            /\ UNCHANGED <<bytes, finals, at>>
    /\ UNCHANGED <<queue, depth, unadded, hand, shutdown, config>>

\* run, its start: the task takes the target's current configuration.
Refresh(w) ==
    /\ wpc[w] = "run"
    /\ LET t == hand[w] IN
         \/ /\ Undeliverable(t)
            /\ Release(t) /\ ReportFinal(t)
            /\ wpc' = [wpc EXCEPT ![w] = "count"]
         \/ /\ ~Undeliverable(t)
            /\ task' = [task EXCEPT ![t].cfg = target,
                            ![t].body = IF target \in Templates THEN @ ELSE None]
            /\ wpc' = [wpc EXCEPT ![w] = "deliver"]
            /\ UNCHANGED <<bytes, finals, at>>
    /\ UNCHANGED <<queue, depth, unadded, hand, shutdown, config>>

\* The delivery succeeds or fails, within its timeout.
Deliver(w) ==
    /\ wpc[w] = "deliver"
    /\ LET t == hand[w] IN
         \/ /\ Release(t) /\ ReportFinal(t)
            /\ wpc' = [wpc EXCEPT ![w] = "count"]
         \/ /\ task[t].left > 0
            /\ wpc' = [wpc EXCEPT ![w] = "retry"]
            /\ UNCHANGED <<bytes, task, finals, at>>
    /\ UNCHANGED <<queue, depth, unadded, hand, shutdown, config>>

\* Mutant of ScheduleRetry: the next task does not inherit the bytes.
ScheduleRetryUncounted(w) ==
    /\ wpc[w] = "retry"
    /\ LET t == hand[w] IN
         \/ /\ closed
            /\ Release(t)
            /\ at' = [at EXCEPT ![t] = "dropped"]
         \/ /\ ~closed
            /\ task' = [task EXCEPT ![t].left = @ - 1, ![t].counted = FALSE]
            /\ at' = [at EXCEPT ![t] = "timer"]
            /\ UNCHANGED bytes
    /\ wpc' = [wpc EXCEPT ![w] = "count"]
    /\ UNCHANGED <<queue, depth, unadded, hand, shutdown, config, finals>>

\* scheduleRetry: the bytes go to the next task.
ScheduleRetry(w) ==
    /\ wpc[w] = "retry"
    /\ LET t == hand[w] IN
         \/ /\ closed
            /\ Release(t)
            /\ at' = [at EXCEPT ![t] = "dropped"]
         \/ /\ ~closed
            /\ task' = [task EXCEPT ![t].left = @ - 1]
            /\ at' = [at EXCEPT ![t] = "timer"]
            /\ UNCHANGED bytes
    /\ wpc' = [wpc EXCEPT ![w] = "count"]
    /\ UNCHANGED <<queue, depth, unadded, hand, shutdown, config, finals>>

\* Mutant of Count: the worker does not come back for another task.
CountAndLeave(w) ==
    /\ wpc[w] = "count"
    /\ depth' = depth - 1
    /\ hand' = [hand EXCEPT ![w] = None]
    /\ wpc' = [wpc EXCEPT ![w] = "gone"]
    /\ UNCHANGED <<at, task, queue, unadded, bytes, shutdown, config, finals>>

\* The deferred decrement of run.
Count(w) ==
    /\ wpc[w] = "count"
    /\ depth' = depth - 1
    /\ hand' = [hand EXCEPT ![w] = None]
    /\ wpc' = [wpc EXCEPT ![w] = "poll"]
    /\ UNCHANGED <<at, task, queue, unadded, bytes, shutdown, config, finals>>

-----------------------------------------------------------------------------
(* Retries. *)

\* The timer ends: its callback is going to run, and is still in retryTimers.
TimerFires(t) ==
    /\ at[t] = "timer"
    /\ at' = [at EXCEPT ![t] = "callback"]
    /\ UNCHANGED <<task, queue, depth, unadded, bytes, worker, shutdown, config,
                   finals>>

Callback(t) ==
    /\ at[t] = "callback"
    /\ \/ /\ closed
          /\ Release(t)
          /\ at' = [at EXCEPT ![t] = "dropped"]
       \/ /\ ~closed
          /\ at' = [at EXCEPT ![t] = "check"]
          /\ UNCHANGED <<bytes, task>>
    /\ UNCHANGED <<queue, depth, unadded, worker, shutdown, config, finals>>

-----------------------------------------------------------------------------
(* Reload and Close. *)

Reload ==
    /\ reloads < MaxReloads /\ reloads' = reloads + 1
    /\ target' \in (Templates \cup {Gone, Plain}) \ {target}
    /\ UNCHANGED <<at, task, queue, depth, unadded, bytes, worker, shutdown,
                   finals>>

\* No message is accepted any more; the timers are stopped, and their bytes are
\* not given back.
CloseBegin ==
    /\ ~closed
    /\ closed' = TRUE /\ closing' = "drain"
    /\ at' = [t \in Chains |-> IF at[t] = "timer" THEN "dropped" ELSE at[t]]
    /\ owed' = {t \in Chains :
                  at[t] = "queue" /\ <<t, task[t].left>> \notin unadded}
    /\ UNCHANGED <<task, queue, depth, unadded, bytes, worker, stopped, gaveUp,
                   config, finals>>

\* Mutant of CloseDrain: a drain that timed out does not tell the workers.
CloseDrainForgets ==
    /\ closing = "drain"
    /\ closing' = "wait" /\ stopped' = (depth <= 0) /\ gaveUp' = (depth > 0)
    /\ UNCHANGED <<at, task, queue, depth, unadded, bytes, worker, closed,
                   owed, config, finals>>

\* The bounded drain: depth is not positive, or thirty seconds have passed.
CloseDrain ==
    /\ closing = "drain"
    /\ closing' = "wait" /\ stopped' = TRUE /\ gaveUp' = (depth > 0)
    /\ UNCHANGED <<at, task, queue, depth, unadded, bytes, worker, closed,
                   owed, config, finals>>

\* wg.Wait.
CloseEnd ==
    /\ closing = "wait" /\ \A w \in Workers : wpc[w] = "gone"
    /\ closing' = "done"
    /\ UNCHANGED <<at, task, queue, depth, unadded, bytes, worker, closed,
                   stopped, gaveUp, owed, config, finals>>

-----------------------------------------------------------------------------
NoTask == [cfg |-> Gone, body |-> None, left |-> 0, size |-> 0,
           counted |-> FALSE]

Init ==
    /\ target \in Templates \cup {Gone, Plain}
    /\ at = [t \in Chains |-> "new"] /\ task = [t \in Chains |-> NoTask]
    /\ queue = <<>> /\ depth = 0 /\ unadded = {} /\ bytes = 0
    /\ wpc = [w \in Workers |-> "poll"] /\ hand = [w \in Workers |-> None]
    /\ closed = FALSE /\ stopped = FALSE /\ closing = "no" /\ gaveUp = FALSE
    /\ owed = {}
    /\ finals = [t \in Chains |-> 0]
    /\ reloads = 0

Push(t) == PushCheck(t) \/ PushReserve(t) \/ PushSend(t)
Run(w) == \/ Poll(w) \/ Wait(w) \/ Refresh(w) \/ Deliver(w)
          \/ ScheduleRetry(w) \/ Count(w)

Next ==
    \/ \E t \in Chains : \/ Enqueue(t) \/ Push(t) \/ PushDepth(t)
                         \/ TimerFires(t) \/ Callback(t)
    \/ \E w \in Workers : Run(w)
    \/ Reload
    \/ CloseBegin \/ CloseDrain \/ CloseEnd

\* Goroutines and timers go on; nobody has to send a message or to close.
Fairness ==
    /\ \A t \in Chains : /\ WF_vars(Push(t)) /\ WF_vars(PushDepth(t))
                         /\ WF_vars(TimerFires(t)) /\ WF_vars(Callback(t))
    /\ \A w \in Workers : WF_vars(Run(w))
    /\ WF_vars(CloseDrain) /\ WF_vars(CloseEnd)

Spec == Init /\ [][Next]_vars /\ Fairness

-----------------------------------------------------------------------------
Places == {"new", "check", "reserve", "send", "queue", "worker", "timer",
           "callback", "ended", "dropped", "refused"}

\* Types, the capacity of the queue and the budget of its bytes (queueCap,
\* queueMemBudget).
TypeOK ==
    /\ target \in Templates \cup {Gone, Plain}
    /\ at \in [Chains -> Places]
    /\ task \in [Chains -> [cfg : Templates \cup {Gone, Plain},
                            body : Templates \cup {None}, left : 0..Retries,
                            size : Sizes \cup {0}, counted : BOOLEAN]]
    /\ queue \in Seq(Chains) /\ Len(queue) <= Cap
    /\ depth \in Int /\ bytes \in 0..Budget
    /\ unadded \subseteq Chains \X (0..Retries)
    /\ wpc \in [Workers -> {"poll", "wait", "run", "deliver", "retry", "count",
                            "gone"}]
    /\ hand \in [Workers -> Chains \cup {None}]
    /\ closed \in BOOLEAN /\ stopped \in BOOLEAN /\ gaveUp \in BOOLEAN
    /\ closing \in {"no", "drain", "wait", "done"}
    /\ owed \subseteq Chains
    /\ finals \in [Chains -> Nat] /\ reloads \in 0..MaxReloads

\* A chain is under way: from its first push to its last result, retries and
\* their waits included.
Held(t) == \/ at[t] \in {"send", "queue", "worker", "timer", "callback"}
           \/ at[t] \in {"check", "reserve"} /\ task[t].left < Retries

\* Every byte reserved, taken one by one, belongs to a chain that is under way,
\* and is paid for once: the budget neither leaks nor is returned twice.
BytesAreOwned ==
    ~closed => bytes = Cardinality({b \in Chains \X (1..Budget) :
                                       Held(b[1]) /\ b[2] <= task[b[1]].size})

\* The worker is at its task: it may still hold one that it has passed on.
Working(w) == wpc[w] \in {"run", "deliver", "retry"}

\* A chain has one final result, whatever becomes of its target, its retries,
\* the queue and the budget; it is in the queue once, and one worker delivers it.
\* Only Close makes a chain end without a result.
OneResult ==
    /\ \A t \in Chains :
         /\ finals[t] = IF at[t] = "ended" THEN 1 ELSE 0
         /\ at[t] \in {"dropped", "refused"} => closed
         /\ Cardinality({i \in DOMAIN queue : queue[i] = t})
              = IF at[t] = "queue" THEN 1 ELSE 0
    /\ \A v, w \in Workers :
         Working(v) /\ Working(w) /\ hand[v] = hand[w] => v = w

\* A target that has a body template is never sent a body rendered with another
\* one, however often the target changed while the message waited.
BodyFitsTarget ==
    \A w \in Workers : wpc[w] = "deliver" =>
        task[hand[w]].body = BodyFor(task[hand[w]].cfg)

\* depth does not drift: it is the number of tasks in the queue or with a
\* worker, but for the increments still to come.
DepthIsExact ==
    depth + Cardinality(unadded) =
        Len(queue) + Cardinality({w \in Workers : hand[w] # None})

\* While the module is open, every message ends with its result.
MessagesEnd ==
    \A t \in Chains : at[t] # "new" ~> at[t] = "ended" \/ closed

\* Close returns, retries, messages and slow receivers notwithstanding.
CloseReturns == closed ~> closing = "done"

\* The drain of Close is of use: unless it gives up after thirty seconds, no
\* message whose Enqueue had returned is left in the queue.
DrainServesAccepted ==
    closing = "done" /\ ~gaveUp => \A t \in owed : at[t] # "queue"
=============================================================================
