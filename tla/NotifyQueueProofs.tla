-------------------------- MODULE NotifyQueueProofs --------------------------
(***************************************************************************)
(* The outgoing queue, for every number of messages and workers, every size *)
(* of queue, budget and message, and every number of retries: the bytes and *)
(* the depth are counted exactly, a message has one result, and is never    *)
(* sent with the body of another template.                                  *)
(*                                                                         *)
(* Nothing is assumed finite but what the steps make finite: the bytes in   *)
(* use, the increments to come and the busy workers are finite sets because *)
(* each step adds finitely many to them.                                    *)
(***************************************************************************)
EXTENDS NotifyQueue, FiniteSetTheorems, SequenceTheorems, TLAPS

TaskType == [cfg : Templates \cup {Gone, Plain}, body : Templates \cup {None},
             left : 0..Retries, size : Sizes \cup {0}, counted : BOOLEAN]

\* A worker with a task in hand, and the chains that workers are at.
HandInv ==
    /\ \A w \in Workers :
         hand[w] # None <=> wpc[w] \in {"run", "deliver", "retry", "count"}
    /\ \A w \in Workers : Working(w) => at[hand[w]] = "worker"
    /\ \A v, w \in Workers :
         Working(v) /\ Working(w) /\ hand[v] = hand[w] => v = w

\* A worker that is going to schedule a retry has one left.
LeftInv == \A w \in Workers : wpc[w] = "retry" => task[hand[w]].left > 0

\* The queue holds each of the chains that are in it once.
QueueInv ==
    /\ \A i \in 1..Len(queue) : at[queue[i]] = "queue"
    /\ \A t \in Chains : at[t] = "queue" => \E i \in 1..Len(queue) : queue[i] = t
    /\ \A i, j \in 1..Len(queue) : queue[i] = queue[j] => i = j

ResultInv ==
    \A t \in Chains : /\ finals[t] = IF at[t] = "ended" THEN 1 ELSE 0
                      /\ at[t] \in {"dropped", "refused"} => closed

BodyInv == \A t \in Chains : task[t].body = BodyFor(task[t].cfg)

\* Whether a task accounts for bytes: from its reservation until its chain ends,
\* a retry inherits them.
Accounts(t) ==
    /\ at[t] \in {"new", "ended"} => ~task[t].counted
    /\ at[t] \in {"check", "reserve"} =>
          (task[t].counted <=> task[t].left < Retries)
    /\ at[t] \in {"send", "queue", "worker", "timer", "callback"} =>
          task[t].counted
    /\ at[t] \in {"timer", "callback"} => task[t].left < Retries
    /\ task[t].counted => task[t].size <= Budget

CountedInv == \A t \in Chains : Accounts(t)

Reserved == {b \in Chains \X (1..Budget) :
                task[b[1]].counted /\ b[2] <= task[b[1]].size}

\* The bytes taken are those of the tasks that account for some.
BytesInv == IsFiniteSet(Reserved) /\ bytes = Cardinality(Reserved)

\* An increment still to come is that of the current delivery, once it is sent,
\* or of an earlier one.
UnaddedInv ==
    \A u \in unadded :
      /\ u[2] >= task[u[1]].left
      /\ at[u[1]] # "new"
      /\ at[u[1]] \in {"check", "reserve", "send", "timer", "callback"} =>
            u[2] > task[u[1]].left

Busy == {w \in Workers : hand[w] # None}

DepthInv ==
    /\ IsFiniteSet(unadded) /\ IsFiniteSet(Busy)
    /\ depth + Cardinality(unadded) = Len(queue) + Cardinality(Busy)

IInv == /\ TypeOK /\ HandInv /\ LeftInv /\ QueueInv /\ ResultInv /\ BodyInv
        /\ CountedInv /\ BytesInv /\ UnaddedInv /\ DepthInv

-----------------------------------------------------------------------------
\* The assumptions about the constants, in the form the proofs use.
LEMMA Constants ==
    /\ Budget \in Nat /\ Cap \in Nat /\ Cap >= 1 /\ Retries \in Nat /\ MaxReloads \in Nat
    /\ \A s \in Sizes \cup {0} : s \in Nat
    /\ Gone # Plain /\ Gone \notin Templates /\ Plain \notin Templates
    /\ None \notin Templates /\ None \notin Chains
<1>1. \A s \in Sizes \cup {0} : s \in Nat
  BY BoundsAssumption
<1>. QED BY <1>1, BoundsAssumption, TargetAssumption, WorkerAssumption

-----------------------------------------------------------------------------
\* Counting sets.

\* The bytes of one task among those that are taken.
BytesOf(t) == {b \in Chains \X (1..Budget) : b[1] = t /\ b[2] <= task[t].size}

\* There are as many as its size.
LEMMA BytesOfTask ==
    ASSUME NEW t \in Chains, task[t].size \in 0..Budget
    PROVE  IsFiniteSet(BytesOf(t)) /\ Cardinality(BytesOf(t)) = task[t].size
<1>. DEFINE S == 1..task[t].size
            f == [n \in S |-> <<t, n>>]
<1>1. IsFiniteSet(S) /\ Cardinality(S) = task[t].size
  <2>1. task[t].size \in Nat
    BY Constants
  <2>2. /\ IsFiniteSet(1..task[t].size)
        /\ Cardinality(1..task[t].size) =
               IF 1 > task[t].size THEN 0 ELSE task[t].size - 1 + 1
    BY <2>1, FS_Interval
  <2>. QED BY <2>1, <2>2
<1>2. f \in Bijection(S, BytesOf(t))
  <2>1. Budget \in Nat
    BY Constants
  <2>2. \A n \in S : f[n] \in BytesOf(t)
    BY <2>1 DEF BytesOf
  <2>3. \A b \in BytesOf(t) : b[2] \in S /\ f[b[2]] = b
    BY <2>1 DEF BytesOf
  <2>4. f \in Injection(S, BytesOf(t))
    BY <2>2 DEF Injection, IsInjective
  <2>5. f \in Surjection(S, BytesOf(t))
    BY <2>2, <2>3 DEF Surjection
  <2>. QED BY <2>4, <2>5 DEF Bijection
<1>3. ExistsBijection(S, BytesOf(t))
  BY <1>2 DEF ExistsBijection
<1>. HIDE DEF f, S
<1>. QED BY <1>1, <1>3, FS_Bijection

\* A set that changes by one element.
LEMMA AddOne ==
    ASSUME NEW S, NEW x, IsFiniteSet(S), x \notin S
    PROVE  /\ IsFiniteSet(S \cup {x})
           /\ Cardinality(S) \in Nat
           /\ Cardinality(S \cup {x}) = Cardinality(S) + 1
  BY FS_AddElement, FS_CardinalityType

LEMMA RemoveOne ==
    ASSUME NEW S, NEW x, IsFiniteSet(S), x \in S
    PROVE  /\ IsFiniteSet(S \ {x})
           /\ Cardinality(S) \in Nat
           /\ Cardinality(S \ {x}) = Cardinality(S) - 1
  BY FS_RemoveElement, FS_CardinalityType

-----------------------------------------------------------------------------
\* The steps that account for bytes.

\* One task stops accounting for its bytes, and they are given back.
LEMMA ReleaseLemma ==
    ASSUME TypeOK, CountedInv, BytesInv, NEW t \in Chains, Release(t)
    PROVE  /\ task' \in [Chains -> TaskType] /\ bytes' \in 0..Budget
           /\ task'[t] = [task[t] EXCEPT !.counted = FALSE]
           /\ \A u \in Chains : u # t => task'[u] = task[u]
           /\ BytesInv'
<1>. USE Constants
<1>1. task[t] \in TaskType /\ task[t].size \in Nat
  <2>1. task[t] \in TaskType
    BY DEF TypeOK, TaskType
  <2>2. task[t].size \in Sizes \cup {0}
    BY <2>1 DEF TaskType
  <2>. QED BY <2>1, <2>2
<1>2. /\ task' \in [Chains -> TaskType]
      /\ task'[t] = [task[t] EXCEPT !.counted = FALSE] /\ ~task'[t].counted
      /\ \A u \in Chains : u # t => task'[u] = task[u]
  BY <1>1 DEF Release, TypeOK, TaskType
<1>3. CASE ~task[t].counted
  <2>1. Reserved' = Reserved
    BY <1>2, <1>3 DEF Reserved
  <2>2. bytes' = bytes
    BY <1>3 DEF Release, TypeOK
  <2>. QED BY <1>2, <2>1, <2>2 DEF BytesInv, TypeOK
<1>4. CASE task[t].counted
  <2>1. Reserved' = Reserved \ BytesOf(t)
    BY <1>2 DEF Reserved, BytesOf
  <2>2. task[t].size \in 0..Budget /\ Reserved \cap BytesOf(t) = BytesOf(t)
    BY <1>1, <1>4 DEF CountedInv, Accounts, Reserved, BytesOf
  <2>3. /\ IsFiniteSet(Reserved')
        /\ Cardinality(Reserved') = bytes - task[t].size
    <3>1. Cardinality(BytesOf(t)) = task[t].size
      BY <2>2, BytesOfTask
    <3>2. /\ IsFiniteSet(Reserved \ BytesOf(t))
          /\ Cardinality(Reserved \ BytesOf(t))
               = Cardinality(Reserved) - Cardinality(Reserved \cap BytesOf(t))
      BY FS_Difference DEF BytesInv
    <3>. QED BY <2>1, <2>2, <3>1, <3>2 DEF BytesInv
  <2>4. Cardinality(Reserved') \in Nat
    BY <2>3, FS_CardinalityType
  <2>5. bytes' = bytes - task[t].size
    BY <1>4 DEF Release
  <2>. QED BY <1>1, <1>2, <2>3, <2>4, <2>5 DEF BytesInv, TypeOK
<1>. QED BY <1>3, <1>4

\* A task starts to account for its bytes.
LEMMA ReserveLemma ==
    ASSUME TypeOK, BytesInv, NEW t \in Chains, ~task[t].counted,
           bytes + task[t].size <= Budget, bytes' = bytes + task[t].size,
           task' = [task EXCEPT ![t].counted = TRUE]
    PROVE  /\ task' \in [Chains -> TaskType] /\ bytes' \in 0..Budget
           /\ task'[t] = [task[t] EXCEPT !.counted = TRUE]
           /\ task[t].size <= Budget
           /\ \A u \in Chains : u # t => task'[u] = task[u]
           /\ BytesInv'
<1>. USE Constants
<1>1. task[t] \in TaskType /\ task[t].size \in Nat
  <2>1. task[t] \in TaskType
    BY DEF TypeOK, TaskType
  <2>2. task[t].size \in Sizes \cup {0}
    BY <2>1 DEF TaskType
  <2>. QED BY <2>1, <2>2
<1>2. /\ task' \in [Chains -> TaskType]
      /\ task'[t] = [task[t] EXCEPT !.counted = TRUE]
      /\ task'[t].counted /\ task'[t].size = task[t].size
      /\ \A u \in Chains : u # t => task'[u] = task[u]
  BY <1>1 DEF TypeOK, TaskType
<1>3. bytes' \in 0..Budget /\ task[t].size \in 0..Budget
  BY <1>1 DEF TypeOK
<1>4. Reserved' = Reserved \cup BytesOf(t) /\ Reserved \cap BytesOf(t) = {}
  BY <1>2 DEF Reserved, BytesOf
<1>5. IsFiniteSet(BytesOf(t)) /\ Cardinality(BytesOf(t)) = task[t].size
  BY <1>3, BytesOfTask
<1>6. /\ IsFiniteSet(Reserved \cup BytesOf(t))
      /\ Cardinality(Reserved \cup BytesOf(t))
           = Cardinality(Reserved) + Cardinality(BytesOf(t)) - 0
  BY <1>4, <1>5, FS_Union, FS_EmptySet DEF BytesInv
<1>7. BytesInv'
  BY <1>1, <1>4, <1>5, <1>6 DEF BytesInv, TypeOK
<1>. QED BY <1>2, <1>3, <1>7

-----------------------------------------------------------------------------
\* The first task of the queue goes to a worker.
LEMMA TakeLemma ==
    ASSUME TypeOK, QueueInv, NEW w \in Workers, queue # <<>>, Take(w)
    PROVE  /\ Head(queue) \in Chains /\ at[Head(queue)] = "queue"
           /\ queue' \in Seq(Chains) /\ Len(queue') = Len(queue) - 1
           /\ Head(queue) = queue[1]
           /\ \A i \in 1..Len(queue') : queue'[i] = queue[i + 1]
<1>1. /\ Len(queue) >= 1 /\ Head(queue) = queue[1] /\ queue[1] \in Chains
      /\ queue' = Tail(queue)
  BY DEF TypeOK, Take
<1>2. /\ queue' \in Seq(Chains) /\ Len(queue') = Len(queue) - 1
      /\ \A i \in 1..Len(queue') : queue'[i] = queue[i + 1]
  BY <1>1 DEF TypeOK
<1>. QED BY <1>1, <1>2 DEF QueueInv, TypeOK

\* A chain goes from one place to another.
LEMMA PlaceLemma ==
    ASSUME TypeOK, NEW t \in Chains, NEW p \in Places, at' = [at EXCEPT ![t] = p]
    PROVE  /\ at' \in [Chains -> Places] /\ at'[t] = p
           /\ \A u \in Chains : u # t => at'[u] = at[u]
  BY DEF TypeOK

LEMMA ReportLemma ==
    ASSUME TypeOK, NEW t \in Chains, ReportFinal(t)
    PROVE  /\ at' \in [Chains -> Places] /\ at'[t] = "ended"
           /\ finals' \in [Chains -> Nat] /\ finals'[t] = finals[t] + 1
           /\ \A u \in Chains : u # t => at'[u] = at[u] /\ finals'[u] = finals[u]
<1>1. "ended" \in Places
  BY DEF Places
<1>2. finals' \in [Chains -> Nat] /\ finals'[t] = finals[t] + 1
      /\ \A u \in Chains : u # t => finals'[u] = finals[u]
  BY DEF TypeOK, ReportFinal
<1>. QED BY <1>1, <1>2, PlaceLemma DEF ReportFinal

LEMMA InitIInv == Init => IInv
<1>. SUFFICES ASSUME Init PROVE IInv
  OBVIOUS
<1>. USE Constants DEF Init
<1>1. TypeOK
  <2>1. task \in [Chains -> TaskType]
    BY DEF NoTask, TaskType
  <2>2. at \in [Chains -> Places] /\ finals \in [Chains -> Nat]
    BY DEF Places
  <2>3. queue \in Seq(Chains) /\ Len(queue) = 0
    OBVIOUS
  <2>4. bytes \in 0..Budget /\ depth \in Int /\ reloads \in 0..MaxReloads
    OBVIOUS
  <2>5. /\ wpc \in [Workers -> {"poll", "wait", "run", "deliver", "retry", "count",
                                "gone"}]
        /\ hand \in [Workers -> Chains \cup {None}]
    OBVIOUS
  <2>6. /\ target \in Templates \cup {Gone, Plain} /\ unadded \subseteq Chains \X (0..Retries)
        /\ closed \in BOOLEAN /\ stopped \in BOOLEAN /\ gaveUp \in BOOLEAN
        /\ closing \in {"no", "drain", "wait", "done"} /\ owed \subseteq Chains
    OBVIOUS
  <2>. QED BY <2>1, <2>2, <2>3, <2>4, <2>5, <2>6 DEF TypeOK, TaskType
<1>2. HandInv
  BY DEF HandInv, Working
<1>10. LeftInv
  BY DEF LeftInv
<1>3. QueueInv
  BY DEF QueueInv
<1>4. ResultInv
  BY DEF ResultInv
<1>5. BodyInv
  BY DEF BodyInv, BodyFor, NoTask
<1>6. CountedInv
  BY DEF CountedInv, Accounts, NoTask
<1>7. BytesInv
  <2>1. Reserved = {}
    BY DEF Reserved, NoTask
  <2>. QED BY <2>1, FS_EmptySet DEF BytesInv
<1>8. UnaddedInv
  BY DEF UnaddedInv
<1>9. DepthInv
  <2>1. Busy = {}
    BY DEF Busy
  <2>. QED BY <2>1, FS_EmptySet DEF DepthInv
<1>. QED BY <1>1, <1>2, <1>3, <1>4, <1>5, <1>6, <1>7, <1>8, <1>9, <1>10 DEF IInv

\* The task in a worker's hands.
LEMMA WorkingLemma ==
    ASSUME TypeOK, HandInv, NEW w \in Workers, Working(w)
    PROVE  hand[w] \in Chains /\ at[hand[w]] = "worker" /\ task[hand[w]] \in TaskType
  BY Constants DEF TypeOK, HandInv, Working, TaskType

LEMMA TypeStep == IInv /\ [Next]_vars => TypeOK'
<1>. SUFFICES ASSUME IInv, [Next]_vars PROVE TypeOK'
  OBVIOUS
<1>. USE Constants DEF IInv
<1>1. ASSUME NEW t \in Chains, Enqueue(t) PROVE TypeOK'
  <2>1. task' \in [Chains -> TaskType]
    <3>1. CASE UNCHANGED task
      BY <3>1 DEF TypeOK, TaskType
    <3>2. CASE task' # task
      <4>1. PICK s \in Sizes :
               task' = [task EXCEPT ![t] =
                   [cfg |-> target, body |-> BodyFor(target), left |-> Retries,
                    size |-> s, counted |-> FALSE]]
        BY <1>1, <3>2 DEF Enqueue
      <4>2. [cfg |-> target, body |-> BodyFor(target), left |-> Retries,
             size |-> s, counted |-> FALSE] \in TaskType
        BY DEF TaskType, BodyFor, TypeOK
      <4>. QED BY <4>1, <4>2 DEF TypeOK, TaskType
    <3>. QED BY <3>1, <3>2
  <2>2. at' \in [Chains -> Places] /\ finals' \in [Chains -> Nat]
    BY <1>1, ReportLemma, PlaceLemma DEF Enqueue, TypeOK, Places
  <2>. QED BY <1>1, <2>1, <2>2
           DEF Enqueue, TypeOK, TaskType, worker, shutdown, config
<1>2. ASSUME NEW t \in Chains, PushCheck(t) \/ TimerFires(t) PROVE TypeOK'
  BY <1>2 DEF PushCheck, TimerFires, TypeOK, Places, worker, shutdown, config
<1>3. ASSUME NEW t \in Chains, PushReserve(t) PROVE TypeOK'
  <2>1. task' \in [Chains -> TaskType] /\ bytes' \in 0..Budget
    BY <1>3, ReserveLemma DEF PushReserve, TypeOK, TaskType
  <2>2. at' \in [Chains -> Places] /\ finals' \in [Chains -> Nat]
    BY <1>3, ReportLemma, PlaceLemma DEF PushReserve, TypeOK, Places
  <2>. QED BY <1>3, <2>1, <2>2
           DEF PushReserve, TypeOK, TaskType, worker, shutdown, config
<1>4. ASSUME NEW t \in Chains, PushSend(t) PROVE TypeOK'
  <2>1. task' \in [Chains -> TaskType] /\ bytes' \in 0..Budget
    BY <1>4, ReleaseLemma DEF PushSend, TypeOK, TaskType
  <2>2. at' \in [Chains -> Places] /\ finals' \in [Chains -> Nat]
    BY <1>4, ReportLemma, PlaceLemma DEF PushSend, TypeOK, Places
  <2>3. queue' \in Seq(Chains) /\ Len(queue') <= Cap
    <3>1. CASE Len(queue) < Cap /\ queue' = Append(queue, t)
      BY <3>1, AppendProperties DEF TypeOK
    <3>2. CASE queue' = queue
      BY <3>2 DEF TypeOK
    <3>. QED BY <1>4, <3>1, <3>2 DEF PushSend
  <2>4. unadded' \subseteq Chains \X (0..Retries)
    BY <1>4 DEF PushSend, TypeOK
  <2>. QED BY <1>4, <2>1, <2>2, <2>3, <2>4
           DEF PushSend, TypeOK, TaskType, worker, shutdown, config
<1>5. ASSUME NEW t \in Chains, PushDepth(t) PROVE TypeOK'
  BY <1>5 DEF PushDepth, TypeOK, worker, shutdown, config
<1>6. ASSUME NEW t \in Chains, Callback(t) PROVE TypeOK'
  <2>1. task' \in [Chains -> TaskType] /\ bytes' \in 0..Budget
    BY <1>6, ReleaseLemma DEF Callback, TypeOK, TaskType
  <2>2. at' \in [Chains -> Places]
    BY <1>6 DEF Callback, TypeOK, Places
  <2>. QED BY <1>6, <2>1, <2>2
           DEF Callback, TypeOK, TaskType, worker, shutdown, config
<1>7. ASSUME NEW w \in Workers, Poll(w) \/ Wait(w) PROVE TypeOK'
  <2>1. CASE Take(w) /\ queue # <<>>
    <3>1. queue' \in Seq(Chains) /\ Len(queue') <= Cap /\ Head(queue) \in Chains
      BY <2>1, TakeLemma DEF TypeOK
    <3>2. /\ wpc' \in [Workers -> {"poll", "wait", "run", "deliver", "retry", "count",
                                   "gone"}]
          /\ hand' \in [Workers -> Chains \cup {None}] /\ at' \in [Chains -> Places]
      BY <2>1, <3>1 DEF Take, TypeOK, Places
    <3>. QED BY <1>7, <3>1, <3>2 DEF Poll, Wait, TypeOK, shutdown, config
  <2>2. CASE UNCHANGED <<hand, queue, at>>
    BY <1>7, <2>2 DEF Poll, Wait, Take, TypeOK, shutdown, config
  <2>. QED BY <1>7, <2>1, <2>2 DEF Poll, Wait
<1>8. ASSUME NEW w \in Workers, Refresh(w) \/ Deliver(w) \/ ScheduleRetry(w)
      PROVE  TypeOK'
  <2>. DEFINE t == hand[w]
  <2>1. t \in Chains /\ task[t] \in TaskType
    BY <1>8, WorkingLemma DEF Working, Refresh, Deliver, ScheduleRetry
  <2>2. at' \in [Chains -> Places] /\ finals' \in [Chains -> Nat]
    BY <1>8, <2>1, ReportLemma, PlaceLemma DEF Refresh, Deliver, ScheduleRetry, TypeOK, Places
  <2>3. wpc' \in [Workers -> {"poll", "wait", "run", "deliver", "retry", "count",
                              "gone"}]
    BY <1>8 DEF Refresh, Deliver, ScheduleRetry, TypeOK
  <2>4. task' \in [Chains -> TaskType] /\ bytes' \in 0..Budget
    <3>1. CASE Release(t)
      BY <2>1, <3>1, ReleaseLemma
    <3>2. CASE UNCHANGED bytes /\ task' = [task EXCEPT ![t].left = @ - 1]
               /\ ScheduleRetry(w)
      <4>1. task[t].left > 0
        BY <2>1, <3>2 DEF ScheduleRetry, LeftInv
      <4>2. [task[t] EXCEPT !.left = @ - 1] \in TaskType
        BY <2>1, <4>1 DEF TaskType
      <4>. QED BY <2>1, <3>2, <4>2 DEF TypeOK, TaskType
    <3>3. CASE UNCHANGED <<bytes, task>>
      BY <3>3 DEF TypeOK, TaskType
    <3>4. CASE UNCHANGED bytes /\ Refresh(w) /\ ~Release(t)
      <4>1. target \in Templates \cup {Gone, Plain}
        BY DEF TypeOK
      <4>2. [task[t] EXCEPT !.cfg = target,
                            !.body = IF target \in Templates THEN @ ELSE None]
               \in TaskType
        BY <2>1, <4>1 DEF TaskType
      <4>3. task' = [task EXCEPT ![t] = [task[t] EXCEPT !.cfg = target,
                        !.body = IF target \in Templates THEN task[t].body
                                                                          ELSE None]]
        BY <2>1, <3>4 DEF Refresh, TypeOK
      <4>. QED BY <2>1, <3>4, <4>2, <4>3 DEF TypeOK, TaskType
    <3>. QED BY <1>8, <3>1, <3>2, <3>3, <3>4 DEF Refresh, Deliver, ScheduleRetry
  <2>. QED BY <1>8, <2>2, <2>3, <2>4
           DEF Refresh, Deliver, ScheduleRetry, TypeOK, TaskType, shutdown, config
<1>9. ASSUME NEW w \in Workers, Count(w) PROVE TypeOK'
  BY <1>9 DEF Count, TypeOK, shutdown, config
<1>10. CASE Reload
  BY <1>10 DEF Reload, TypeOK, worker, shutdown
<1>11. CASE CloseBegin
  <2>1. at' \in [Chains -> Places]
    BY <1>11 DEF CloseBegin, TypeOK, Places
  <2>. QED BY <1>11, <2>1 DEF CloseBegin, TypeOK, worker, config
<1>12. CASE CloseDrain \/ CloseEnd
  <2>1. /\ gaveUp' \in BOOLEAN /\ stopped' \in BOOLEAN
        /\ closing' \in {"no", "drain", "wait", "done"}
    <3>1. CASE CloseDrain
      <4>1. gaveUp' \in BOOLEAN
        BY <3>1 DEF CloseDrain
      <4>. QED BY <3>1, <4>1 DEF CloseDrain
    <3>2. CASE CloseEnd
      BY <3>2 DEF CloseEnd, TypeOK
    <3>. QED BY <1>12, <3>1, <3>2
  <2>. QED BY <1>12, <2>1 DEF CloseDrain, CloseEnd, TypeOK, worker, config
<1>13. CASE UNCHANGED vars
  BY <1>13 DEF vars, TypeOK
<1>. QED BY <1>1, <1>2, <1>3, <1>4, <1>5, <1>6, <1>7, <1>8, <1>9, <1>10, <1>11, <1>12,
            <1>13 DEF Next, Push, Run

-----------------------------------------------------------------------------
\* What the steps of a chain that no worker is at leave alone.
Pushing(t) == Enqueue(t) \/ Push(t) \/ PushDepth(t) \/ TimerFires(t) \/ Callback(t)

LEMMA PushingLemma ==
    ASSUME TypeOK, NEW t \in Chains, Pushing(t)
    PROVE  /\ UNCHANGED <<worker, shutdown, config>>
           /\ \A u \in Chains : u # t => at'[u] = at[u] /\ finals'[u] = finals[u]
           /\ \/ at' = at /\ finals' = finals
              \/ at[t] \in {"new", "check", "reserve", "send", "timer", "callback"}
                 /\ at'[t] \in {"check", "reserve", "send", "queue", "callback", "ended",
                                "dropped", "refused"}
<1>1. CASE Enqueue(t)
  BY <1>1, ReportLemma DEF Enqueue, TypeOK
<1>2. CASE PushCheck(t) \/ TimerFires(t) \/ PushDepth(t)
  BY <1>2 DEF PushCheck, TimerFires, PushDepth, TypeOK
<1>3. CASE PushReserve(t)
  BY <1>3, ReportLemma DEF PushReserve, TypeOK
<1>4. CASE PushSend(t)
  BY <1>4, ReportLemma DEF PushSend, TypeOK
<1>5. CASE Callback(t)
  BY <1>5 DEF Callback, TypeOK
<1>. QED BY <1>1, <1>2, <1>3, <1>4, <1>5 DEF Pushing, Push

\* What the steps of a worker with a task leave alone.
Serving(w) == Refresh(w) \/ Deliver(w) \/ ScheduleRetry(w)

LEMMA ServingLemma ==
    ASSUME TypeOK, HandInv, NEW w \in Workers, Serving(w)
    PROVE  /\ UNCHANGED <<queue, depth, unadded, hand, shutdown, config>>
           /\ hand[w] \in Chains /\ at[hand[w]] = "worker" /\ Working(w)
           /\ \A v \in Workers : v # w => wpc'[v] = wpc[v]
           /\ \A u \in Chains : u # hand[w] =>
                 at'[u] = at[u] /\ finals'[u] = finals[u] /\ task'[u] = task[u]
           /\ \/ wpc'[w] \in {"deliver", "retry"} /\ UNCHANGED <<at, finals>>
              \/ wpc'[w] = "count" /\ at'[hand[w]] \in {"ended", "dropped", "timer"}
<1>1. Working(w)
  BY DEF Serving, Refresh, Deliver, ScheduleRetry, Working
<1>2. hand[w] \in Chains /\ at[hand[w]] = "worker" /\ task[hand[w]] \in TaskType
  BY <1>1, WorkingLemma
<1>3. CASE Refresh(w)
  BY <1>1, <1>2, <1>3, ReportLemma DEF Refresh, Release, TypeOK
<1>4. CASE Deliver(w)
  BY <1>1, <1>2, <1>4, ReportLemma DEF Deliver, Release, TypeOK
<1>5. CASE ScheduleRetry(w)
  BY <1>1, <1>2, <1>5 DEF ScheduleRetry, Release, TypeOK
<1>. QED BY <1>3, <1>4, <1>5 DEF Serving

\* Close stops the timers and leaves every other chain where it is.
LEMMA CloseLemma ==
    ASSUME TypeOK, CloseBegin
    PROVE  \A t \in Chains : at'[t] = IF at[t] = "timer" THEN "dropped" ELSE at[t]
  BY DEF CloseBegin, TypeOK

LEMMA NextCases ==
    ASSUME [Next]_vars
    PROVE  \/ \E t \in Chains : Pushing(t)
           \/ \E w \in Workers : Poll(w) \/ Wait(w)
           \/ \E w \in Workers : Serving(w)
           \/ \E w \in Workers : Count(w)
           \/ CloseBegin
           \/ Reload \/ CloseDrain \/ CloseEnd \/ UNCHANGED vars
  BY DEF Next, Run, Pushing, Serving

\* A worker takes a task, or goes on to wait, or leaves.
LEMMA TakingLemma ==
    ASSUME TypeOK, QueueInv, NEW w \in Workers, Poll(w) \/ Wait(w)
    PROVE  /\ wpc[w] \in {"poll", "wait"}
           /\ UNCHANGED <<task, depth, unadded, bytes, shutdown, config, finals>>
           /\ \/ queue # <<>> /\ Take(w)
              \/ UNCHANGED <<hand, queue, at>> /\ wpc'[w] \in {"wait", "gone"}
                 /\ \A v \in Workers : v # w => wpc'[v] = wpc[v]
  BY DEF Poll, Wait, TypeOK

LEMMA HandStep == IInv /\ TypeOK' /\ [Next]_vars => HandInv'
<1>. SUFFICES ASSUME IInv, TypeOK', [Next]_vars PROVE HandInv'
  OBVIOUS
<1>. USE Constants DEF IInv
<1>1. ASSUME NEW t \in Chains, Pushing(t) PROVE HandInv'
  <2>1. UNCHANGED <<wpc, hand>>
    BY <1>1, PushingLemma DEF worker
  <2>2. \A u \in Chains : at[u] = "worker" => at'[u] = "worker"
    BY <1>1, PushingLemma
  <2>3. \A w \in Workers : Working(w) => hand[w] \in Chains
    BY WorkingLemma
  <2>. QED BY <2>1, <2>2, <2>3 DEF HandInv, Working
<1>2. ASSUME NEW w \in Workers, Poll(w) \/ Wait(w) PROVE HandInv'
  <2>1. CASE queue # <<>> /\ Take(w)
    <3>1. /\ Head(queue) \in Chains /\ at[Head(queue)] = "queue"
          /\ hand' = [hand EXCEPT ![w] = Head(queue)]
          /\ at' = [at EXCEPT ![Head(queue)] = "worker"]
          /\ wpc' = [wpc EXCEPT ![w] = "run"]
      BY <2>1, TakeLemma DEF Take
    <3>2. \A v \in Workers : Working(v) => hand[v] # Head(queue)
      BY <3>1 DEF HandInv
    <3>. QED BY <3>1, <3>2 DEF HandInv, Working, TypeOK
  <2>2. CASE UNCHANGED <<hand, queue, at>> /\ wpc'[w] \in {"wait", "gone"}
             /\ \A v \in Workers : v # w => wpc'[v] = wpc[v]
    <3>1. hand[w] = None /\ ~Working(w)
      BY <1>2, TakingLemma DEF HandInv, Working
    <3>. QED BY <2>2, <3>1 DEF HandInv, Working
  <2>. QED BY <1>2, <2>1, <2>2, TakingLemma
<1>3. ASSUME NEW w \in Workers, Serving(w) PROVE HandInv'
  <2>1. /\ hand' = hand /\ Working(w) /\ hand[w] \in Chains /\ at[hand[w]] = "worker"
        /\ \A v \in Workers : v # w => wpc'[v] = wpc[v]
        /\ \A u \in Chains : u # hand[w] => at'[u] = at[u]
    BY <1>3, ServingLemma
  <2>2. \A v \in Workers \ {w} : Working(v) => hand[v] \in Chains /\ hand[v] # hand[w]
    BY <2>1, WorkingLemma DEF HandInv
  <2>3. CASE wpc'[w] \in {"deliver", "retry"} /\ at' = at
    BY <2>1, <2>2, <2>3 DEF HandInv, Working
  <2>4. CASE wpc'[w] = "count"
    BY <2>1, <2>2, <2>4 DEF HandInv, Working
  <2>. QED BY <1>3, <2>3, <2>4, ServingLemma
<1>4. ASSUME NEW w \in Workers, Count(w) PROVE HandInv'
  BY <1>4 DEF Count, HandInv, Working, TypeOK
<1>5. CASE CloseBegin
  BY <1>5, CloseLemma DEF CloseBegin, worker, HandInv, Working, TypeOK
<1>6. CASE Reload \/ CloseDrain \/ CloseEnd \/ UNCHANGED vars
  BY <1>6 DEF Reload, CloseDrain, CloseEnd, vars, worker, HandInv, Working
<1>. QED BY <1>1, <1>2, <1>3, <1>4, <1>5, <1>6, NextCases

LEMMA LeftStep == IInv /\ TypeOK' /\ [Next]_vars => LeftInv'
<1>. SUFFICES ASSUME IInv, TypeOK', [Next]_vars, NEW v \in Workers, wpc'[v] = "retry"
              PROVE  task'[hand'[v]].left > 0
  BY DEF LeftInv
<1>. USE Constants DEF IInv
<1>1. ASSUME NEW t \in Chains, Pushing(t) PROVE task'[hand'[v]].left > 0
  <2>1. UNCHANGED <<wpc, hand>> /\ Working(v)
    BY <1>1, PushingLemma DEF worker, Working
  <2>2. hand[v] \in Chains /\ at[hand[v]] = "worker" /\ task[hand[v]].left > 0
    BY <2>1, WorkingLemma DEF LeftInv
  <2>3. task'[hand[v]].left = task[hand[v]].left
    <3>1. CASE hand[v] = t
      BY <1>1, <2>2, <3>1
         DEF Pushing, Push, Enqueue, PushCheck, PushReserve, PushSend, PushDepth,
             TimerFires, Callback
    <3>2. CASE hand[v] # t
      BY <1>1, <2>2, <3>2
         DEF Pushing, Push, Enqueue, PushCheck, PushReserve, PushSend, PushDepth,
             TimerFires, Callback, Release, TypeOK
    <3>. QED BY <3>1, <3>2
  <2>. QED BY <2>1, <2>2, <2>3
<1>2. ASSUME NEW w \in Workers, Poll(w) \/ Wait(w) PROVE task'[hand'[v]].left > 0
  <2>1. v # w /\ wpc'[v] = wpc[v] /\ hand'[v] = hand[v] /\ task' = task
    <3>1. CASE Take(w)
      <4>1. wpc' = [wpc EXCEPT ![w] = "run"] /\ hand' = [hand EXCEPT ![w] = Head(queue)]
        BY <3>1 DEF Take
      <4>. QED BY <1>2, <4>1, TakingLemma DEF TypeOK
    <3>2. CASE ~Take(w)
      BY <1>2, <3>2, TakingLemma
    <3>. QED BY <3>1, <3>2
  <2>. QED BY <2>1 DEF LeftInv
<1>3. ASSUME NEW w \in Workers, Serving(w) PROVE task'[hand'[v]].left > 0
  <2>1. CASE v = w
    BY <1>3, <2>1, ServingLemma DEF Serving, Refresh, Deliver, ScheduleRetry, TypeOK
  <2>2. CASE v # w
    <3>1. /\ hand' = hand /\ wpc[v] = "retry" /\ Working(w) /\ Working(v)
          /\ \A u \in Chains : u # hand[w] => task'[u] = task[u]
      BY <1>3, <2>2, ServingLemma DEF Working
    <3>2. hand[v] \in Chains /\ hand[v] # hand[w]
      BY <2>2, <3>1, WorkingLemma DEF HandInv
    <3>. QED BY <3>1, <3>2 DEF LeftInv
  <2>. QED BY <2>1, <2>2
<1>4. ASSUME NEW w \in Workers, Count(w) PROVE task'[hand'[v]].left > 0
  BY <1>4 DEF Count, LeftInv, TypeOK
<1>5. CASE CloseBegin \/ Reload \/ CloseDrain \/ CloseEnd \/ UNCHANGED vars
  BY <1>5 DEF CloseBegin, Reload, CloseDrain, CloseEnd, vars, worker, LeftInv
<1>. QED BY <1>1, <1>2, <1>3, <1>4, <1>5, NextCases

\* A chain is in the queue where it says it is, and once.
LEMMA QueueStep == IInv /\ TypeOK' /\ [Next]_vars => QueueInv'
<1>. SUFFICES ASSUME IInv, TypeOK', [Next]_vars PROVE QueueInv'
  OBVIOUS
<1>. USE DEF IInv
<1>1. ASSUME NEW t \in Chains, Pushing(t) PROVE QueueInv'
  <2>1. CASE queue' = Append(queue, t) /\ at[t] = "send" /\ at'[t] = "queue"
    <3>1. /\ Len(queue') = Len(queue) + 1 /\ queue'[Len(queue) + 1] = t
          /\ \A i \in 1..Len(queue) : queue'[i] = queue[i] /\ queue[i] \in Chains
      BY <2>1, AppendProperties DEF TypeOK
    <3>2. \A i \in 1..Len(queue) : queue[i] # t
      BY <2>1 DEF QueueInv
    <3>3. \A i \in 1..Len(queue') : i = Len(queue) + 1 \/ i \in 1..Len(queue)
      BY <3>1 DEF TypeOK
    <3>4. Len(queue) + 1 \in 1..Len(queue') /\ 1..Len(queue) \subseteq 1..Len(queue')
      BY <3>1 DEF TypeOK
    <3>5. \A u \in Chains : u # t => at'[u] = at[u]
      BY <1>1, PushingLemma
    <3>. QED BY <2>1, <3>1, <3>2, <3>3, <3>4, <3>5 DEF QueueInv
  <2>2. CASE queue' = queue /\ \A u \in Chains : at'[u] = "queue" <=> at[u] = "queue"
    <3>1. \A i \in 1..Len(queue) : queue[i] \in Chains
      BY DEF TypeOK
    <3>. QED BY <2>2, <3>1 DEF QueueInv
  <2>3. CASE Enqueue(t) \/ PushReserve(t) \/ Callback(t)
    BY <2>2, <2>3 DEF Enqueue, PushReserve, Callback, ReportFinal, TypeOK
  <2>4. CASE PushCheck(t) \/ PushDepth(t) \/ TimerFires(t)
    BY <2>2, <2>4 DEF PushCheck, PushDepth, TimerFires, TypeOK
  <2>5. CASE PushSend(t)
    BY <2>1, <2>2, <2>5 DEF PushSend, ReportFinal, TypeOK
  <2>. QED BY <1>1, <2>3, <2>4, <2>5 DEF Pushing, Push
<1>2. ASSUME NEW w \in Workers, Poll(w) \/ Wait(w) PROVE QueueInv'
  <2>1. CASE queue # <<>> /\ Take(w)
    <3>1. /\ Head(queue) \in Chains /\ queue' \in Seq(Chains)
          /\ Len(queue') = Len(queue) - 1 /\ Head(queue) = queue[1]
          /\ \A i \in 1..Len(queue') : queue'[i] = queue[i + 1]
      BY <2>1, TakeLemma
    <3>2. at' = [at EXCEPT ![Head(queue)] = "worker"]
      BY <2>1 DEF Take
    <3>3. 1 \in 1..Len(queue) /\ \A i \in 1..Len(queue') : i + 1 \in 1..Len(queue)
      BY <2>1, <3>1 DEF TypeOK
    <3>4. \A i \in 1..Len(queue) : i = 1 \/ i - 1 \in 1..Len(queue')
      BY <3>1 DEF TypeOK
    <3>5. \A i \in 1..Len(queue') : queue'[i] # Head(queue) /\ queue'[i] \in Chains
      <4>1. SUFFICES ASSUME NEW i \in 1..Len(queue')
                     PROVE  queue'[i] # Head(queue) /\ queue'[i] \in Chains
        OBVIOUS
      <4>2. i + 1 # 1 /\ queue'[i] = queue[i + 1]
        BY <3>1
      <4>3. i + 1 \in 1..Len(queue) /\ queue[i + 1] \in Chains
        BY <3>3 DEF TypeOK
      <4>. QED BY <3>1, <3>3, <4>2, <4>3 DEF QueueInv
    <3>6. \A i \in 1..Len(queue') : at'[queue'[i]] = "queue"
      <4>1. SUFFICES ASSUME NEW i \in 1..Len(queue')
                     PROVE  at'[queue'[i]] = "queue"
        OBVIOUS
      <4>2. at[queue'[i]] = "queue"
        BY <3>1, <3>3 DEF QueueInv
      <4>. QED BY <3>1, <3>2, <3>5, <4>2 DEF TypeOK
    <3>7. ASSUME NEW u \in Chains, at'[u] = "queue"
          PROVE  \E i \in 1..Len(queue') : queue'[i] = u
      <4>1. at[u] = "queue" /\ u # Head(queue)
        BY <3>1, <3>2, <3>7 DEF TypeOK
      <4>2. PICK i \in 1..Len(queue) : queue[i] = u
        BY <4>1 DEF QueueInv
      <4>3. i - 1 \in 1..Len(queue') /\ queue'[i - 1] = queue[i]
        BY <3>1, <3>4, <4>1, <4>2
      <4>. QED BY <4>2, <4>3
    <3>8. \A i, j \in 1..Len(queue') : queue'[i] = queue'[j] => i = j
      BY <3>1, <3>3 DEF QueueInv
    <3>. QED BY <3>6, <3>7, <3>8 DEF QueueInv
  <2>2. CASE UNCHANGED <<hand, queue, at>>
    BY <2>2 DEF QueueInv
  <2>. QED BY <1>2, <2>1, <2>2, TakingLemma
<1>3. ASSUME UNCHANGED queue, \A u \in Chains : at'[u] = "queue" <=> at[u] = "queue"
      PROVE  QueueInv'
  <2>1. \A i \in 1..Len(queue) : queue[i] \in Chains
    BY DEF TypeOK
  <2>. QED BY <1>3, <2>1 DEF QueueInv
<1>4. ASSUME NEW w \in Workers, Serving(w) PROVE QueueInv'
  BY <1>3, <1>4, ServingLemma
<1>5. ASSUME NEW w \in Workers, Count(w) PROVE QueueInv'
  BY <1>3, <1>5 DEF Count
<1>6. CASE CloseBegin
  BY <1>3, <1>6, CloseLemma DEF CloseBegin
<1>7. CASE Reload \/ CloseDrain \/ CloseEnd \/ UNCHANGED vars
  BY <1>3, <1>7 DEF Reload, CloseDrain, CloseEnd, vars
<1>. QED BY <1>1, <1>2, <1>4, <1>5, <1>6, <1>7, NextCases

LEMMA ResultStep == IInv /\ TypeOK' /\ [Next]_vars => ResultInv'
<1>. SUFFICES ASSUME IInv, TypeOK', [Next]_vars PROVE ResultInv'
  OBVIOUS
<1>. USE DEF IInv
<1>1. ASSUME NEW t \in Chains, ReportFinal(t), at[t] # "ended", closed' = closed
      PROVE  ResultInv'
  <2>1. finals[t] = 0
    BY <1>1 DEF ResultInv
  <2>. QED BY <1>1, <2>1, ReportLemma DEF ResultInv
<1>2. ASSUME NEW t \in Chains, NEW p \in Places \ {"ended"}, at[t] # "ended",
             at' = [at EXCEPT ![t] = p], p \in {"dropped", "refused"} => closed,
             UNCHANGED <<finals, closed>>
      PROVE  ResultInv'
  BY <1>2, PlaceLemma DEF ResultInv
<1>3. ASSUME UNCHANGED <<at, finals, closed>> PROVE ResultInv'
  BY <1>3 DEF ResultInv
<1>. HIDE DEF IInv
<1>4. ASSUME NEW t \in Chains, Pushing(t) PROVE ResultInv'
  <2>1. closed' = closed
    BY <1>4, PushingLemma DEF IInv, shutdown
  <2>2. CASE Enqueue(t)
    BY <2>1, <2>2, <1>1, <1>2 DEF Enqueue, Places
  <2>3. CASE PushReserve(t)
    BY <2>1, <2>3, <1>1, <1>2 DEF PushReserve, Places
  <2>4. CASE PushSend(t)
    BY <2>1, <2>4, <1>1, <1>2 DEF PushSend, Places
  <2>5. CASE PushCheck(t) \/ TimerFires(t)
    BY <2>1, <2>5, <1>2 DEF PushCheck, TimerFires, Places
  <2>6. CASE PushDepth(t)
    BY <2>1, <2>6, <1>3 DEF PushDepth
  <2>7. CASE Callback(t)
    BY <2>1, <2>7, <1>2 DEF Callback, Places
  <2>. QED BY <1>4, <2>2, <2>3, <2>4, <2>5, <2>6, <2>7 DEF Pushing, Push
<1>5. ASSUME NEW w \in Workers, Poll(w) \/ Wait(w) PROVE ResultInv'
  <2>1. finals' = finals /\ closed' = closed
    BY <1>5, TakingLemma DEF IInv, shutdown
  <2>2. CASE queue # <<>> /\ Take(w)
    <3>1. Head(queue) \in Chains /\ at[Head(queue)] = "queue"
          /\ at' = [at EXCEPT ![Head(queue)] = "worker"]
      BY <2>2, TakeLemma DEF IInv, Take
    <3>. QED BY <2>1, <3>1, <1>2 DEF Places
  <2>. QED BY <1>5, <2>1, <2>2, <1>3, TakingLemma DEF IInv
<1>6. ASSUME NEW w \in Workers, Serving(w) PROVE ResultInv'
  <2>1. hand[w] \in Chains /\ at[hand[w]] = "worker" /\ closed' = closed
    BY <1>6, ServingLemma DEF IInv, shutdown
  <2>2. CASE Refresh(w)
    BY <2>1, <2>2, <1>1, <1>3 DEF Refresh
  <2>3. CASE Deliver(w)
    BY <2>1, <2>3, <1>1, <1>3 DEF Deliver
  <2>4. CASE ScheduleRetry(w)
    BY <2>1, <2>4, <1>2 DEF ScheduleRetry, Places
  <2>. QED BY <1>6, <2>2, <2>3, <2>4 DEF Serving
<1>7. ASSUME NEW w \in Workers, Count(w) PROVE ResultInv'
  BY <1>7, <1>3 DEF Count, shutdown
<1>8. CASE CloseBegin
  BY <1>8, CloseLemma DEF IInv, CloseBegin, ResultInv
<1>9. CASE Reload \/ CloseDrain \/ CloseEnd \/ UNCHANGED vars
  BY <1>9, <1>3 DEF Reload, CloseDrain, CloseEnd, vars, shutdown
<1>. QED BY <1>4, <1>5, <1>6, <1>7, <1>8, <1>9, NextCases

LEMMA BodyStep == IInv /\ [Next]_vars => BodyInv'
<1>. SUFFICES ASSUME IInv, [Next]_vars PROVE BodyInv'
  OBVIOUS
<1>. USE Constants DEF IInv
<1>1. ASSUME \A u \in Chains : task'[u].body = task[u].body /\ task'[u].cfg = task[u].cfg
      PROVE  BodyInv'
  BY <1>1 DEF BodyInv
<1>2. ASSUME NEW t \in Chains, Release(t) PROVE BodyInv'
  <2>1. task[t] \in TaskType
    BY DEF TypeOK, TaskType
  <2>. QED BY <1>1, <1>2, <2>1, ReleaseLemma DEF TaskType
<1>3. ASSUME NEW t \in Chains, Enqueue(t) PROVE BodyInv'
  <2>1. CASE UNCHANGED task
    BY <1>1, <2>1
  <2>2. CASE task' # task
    <3>1. PICK s \in Sizes :
             task' = [task EXCEPT ![t] =
                 [cfg |-> target, body |-> BodyFor(target), left |-> Retries,
                  size |-> s, counted |-> FALSE]]
      BY <1>3, <2>2 DEF Enqueue
    <3>. QED BY <3>1 DEF BodyInv, TypeOK
  <2>. QED BY <2>1, <2>2
<1>4. ASSUME NEW t \in Chains, PushReserve(t) PROVE BodyInv'
  <2>1. CASE UNCHANGED task
    BY <1>1, <2>1
  <2>2. CASE task' = [task EXCEPT ![t].counted = TRUE]
    <3>1. task[t] \in TaskType
      BY DEF TypeOK, TaskType
    <3>. QED BY <1>1, <2>2, <3>1 DEF TypeOK, TaskType
  <2>. QED BY <1>4, <2>1, <2>2 DEF PushReserve
<1>5. ASSUME NEW t \in Chains, Pushing(t) PROVE BodyInv'
  BY <1>1, <1>2, <1>3, <1>4, <1>5
     DEF Pushing, Push, PushCheck, PushSend, PushDepth, TimerFires, Callback
<1>6. ASSUME NEW w \in Workers, Serving(w) PROVE BodyInv'
  <2>. DEFINE t == hand[w]
  <2>1. t \in Chains /\ task[t] \in TaskType
    BY <1>6, ServingLemma DEF TypeOK, TaskType
  <2>2. CASE Release(t)
    BY <1>2, <2>1, <2>2
  <2>3. CASE UNCHANGED task
    BY <1>1, <2>3
  <2>4. CASE ScheduleRetry(w) /\ task' = [task EXCEPT ![t].left = @ - 1]
    BY <1>1, <2>1, <2>4 DEF TypeOK, TaskType
  <2>5. CASE Refresh(w) /\ ~Undeliverable(t)
    <3>1. task' = [task EXCEPT ![t] = [task[t] EXCEPT !.cfg = target,
                      !.body = IF target \in Templates THEN task[t].body
                                                                          ELSE None]]
      BY <2>1, <2>5 DEF Refresh, TypeOK
    <3>2. target \in Templates => task[t].cfg = target
      BY <2>5 DEF Undeliverable
    <3>3. task'[t].cfg = target
          /\ task'[t].body = IF target \in Templates THEN task[t].body ELSE None
      BY <2>1, <3>1 DEF TypeOK, TaskType
    <3>4. task'[t].body = BodyFor(task'[t].cfg)
      BY <2>1, <3>2, <3>3 DEF BodyInv, BodyFor
    <3>5. \A u \in Chains : u # t => task'[u] = task[u]
      BY <1>6, ServingLemma
    <3>. QED BY <2>1, <3>4, <3>5 DEF BodyInv
  <2>. QED BY <1>6, <2>2, <2>3, <2>4, <2>5 DEF Serving, Refresh, Deliver, ScheduleRetry
<1>7. ASSUME NEW w \in Workers, Poll(w) \/ Wait(w) \/ Count(w) PROVE BodyInv'
  BY <1>1, <1>7 DEF Poll, Wait, Count
<1>8. CASE CloseBegin \/ Reload \/ CloseDrain \/ CloseEnd \/ UNCHANGED vars
  BY <1>1, <1>8 DEF CloseBegin, Reload, CloseDrain, CloseEnd, vars
<1>. QED BY <1>5, <1>6, <1>7, <1>8, NextCases

LEMMA BytesStep == IInv /\ [Next]_vars => BytesInv'
<1>. SUFFICES ASSUME IInv, [Next]_vars PROVE BytesInv'
  OBVIOUS
<1>. USE Constants DEF IInv
<1>1. ASSUME bytes' = bytes,
             \A u \in Chains : /\ task'[u].counted = task[u].counted
                               /\ task[u].counted => task'[u].size = task[u].size
      PROVE  BytesInv'
  <2>1. Reserved' = Reserved
    BY <1>1 DEF Reserved
  <2>. QED BY <1>1, <2>1 DEF BytesInv
<1>2. ASSUME NEW t \in Chains, Release(t) PROVE BytesInv'
  BY <1>2, ReleaseLemma
<1>3. ASSUME NEW t \in Chains, Enqueue(t) PROVE BytesInv'
  <2>1. CASE UNCHANGED task
    BY <1>1, <1>3, <2>1 DEF Enqueue
  <2>2. CASE task' # task
    <3>1. PICK s \in Sizes :
             task' = [task EXCEPT ![t] =
                 [cfg |-> target, body |-> BodyFor(target), left |-> Retries,
                  size |-> s, counted |-> FALSE]]
      BY <1>3, <2>2 DEF Enqueue
    <3>2. ~task[t].counted /\ task[t].counted \in BOOLEAN /\ bytes' = bytes
      BY <1>3 DEF Enqueue, CountedInv, Accounts, TypeOK
    <3>3. \A u \in Chains : u # t => task'[u] = task[u]
      BY <3>1 DEF TypeOK
    <3>4. task'[t].counted = FALSE
      BY <3>1 DEF TypeOK
    <3>. QED BY <1>1, <3>2, <3>3, <3>4
  <2>. QED BY <2>1, <2>2
<1>4. ASSUME NEW t \in Chains, PushReserve(t) PROVE BytesInv'
  BY <1>1, <1>4, ReserveLemma DEF PushReserve
<1>5. ASSUME NEW t \in Chains, Pushing(t) PROVE BytesInv'
  <2>1. CASE PushSend(t) \/ Callback(t)
    BY <1>1, <1>2, <2>1 DEF PushSend, Callback
  <2>2. CASE PushCheck(t) \/ PushDepth(t) \/ TimerFires(t)
    BY <1>1, <2>2 DEF PushCheck, PushDepth, TimerFires
  <2>. QED BY <1>3, <1>4, <1>5, <2>1, <2>2 DEF Pushing, Push
<1>6. ASSUME NEW w \in Workers, Serving(w) PROVE BytesInv'
  <2>. DEFINE t == hand[w]
  <2>1. t \in Chains /\ task[t] \in TaskType
    BY <1>6, ServingLemma DEF TypeOK, TaskType
  <2>2. CASE Release(t)
    BY <1>2, <2>1, <2>2
  <2>3. CASE ~Release(t)
    <3>1. bytes' = bytes
      BY <1>6, <2>3 DEF Serving, Refresh, Deliver, ScheduleRetry
    <3>2. \A u \in Chains : u # t => task'[u] = task[u]
      BY <1>6, ServingLemma
    <3>3. task'[t].counted = task[t].counted /\ task'[t].size = task[t].size
      <4>1. CASE UNCHANGED task
        BY <4>1
      <4>2. CASE ScheduleRetry(w) /\ task' = [task EXCEPT ![t].left = @ - 1]
        BY <2>1, <4>2 DEF TypeOK, TaskType
      <4>3. CASE Refresh(w)
        <5>1. task' = [task EXCEPT ![t] = [task[t] EXCEPT !.cfg = target,
                          !.body = IF target \in Templates THEN task[t].body
                                                                          ELSE None]]
          BY <2>1, <2>3, <4>3 DEF Refresh, TypeOK
        <5>. QED BY <2>1, <5>1 DEF TypeOK, TaskType
      <4>. QED BY <1>6, <2>3, <4>1, <4>2, <4>3 DEF Serving, Deliver, ScheduleRetry
    <3>. QED BY <1>1, <3>1, <3>2, <3>3
  <2>. QED BY <2>2, <2>3
<1>7. ASSUME NEW w \in Workers, Poll(w) \/ Wait(w) \/ Count(w) PROVE BytesInv'
  BY <1>1, <1>7 DEF Poll, Wait, Count
<1>8. CASE CloseBegin \/ Reload \/ CloseDrain \/ CloseEnd \/ UNCHANGED vars
  BY <1>1, <1>8 DEF CloseBegin, Reload, CloseDrain, CloseEnd, vars
<1>. QED BY <1>5, <1>6, <1>7, <1>8, NextCases

LEMMA CountedStep == IInv /\ [Next]_vars => CountedInv'
<1>. SUFFICES ASSUME IInv, [Next]_vars PROVE CountedInv'
  OBVIOUS
<1>. USE Constants DEF IInv
<1>1. ASSUME NEW t \in Chains, Accounts(t)',
             \A u \in Chains : u # t => at'[u] = at[u] /\ task'[u] = task[u]
      PROVE  CountedInv'
  BY <1>1 DEF CountedInv, Accounts
<1>2. ASSUME NEW t \in Chains, Release(t),
             NEW p \in {"ended", "dropped"}, at' = [at EXCEPT ![t] = p]
      PROVE  CountedInv'
  <2>1. p \in Places /\ task[t] \in TaskType
    BY DEF Places, TypeOK, TaskType
  <2>2. at'[t] = p /\ ~task'[t].counted
        /\ \A u \in Chains : u # t => at'[u] = at[u] /\ task'[u] = task[u]
    <3>1. at'[t] = p /\ \A u \in Chains : u # t => at'[u] = at[u]
      BY <1>2, <2>1, PlaceLemma
    <3>2. task'[t] = [task[t] EXCEPT !.counted = FALSE]
          /\ \A u \in Chains : u # t => task'[u] = task[u]
      BY <1>2, ReleaseLemma
    <3>3. ~task'[t].counted
      BY <2>1, <3>2 DEF TaskType
    <3>. QED BY <3>1, <3>2, <3>3
  <2>. QED BY <1>1, <2>2 DEF Accounts
<1>3. ASSUME NEW t \in Chains, Enqueue(t) PROVE CountedInv'
  <2>1. ~task[t].counted
    BY <1>3 DEF Enqueue, CountedInv, Accounts
  <2>2. CASE UNCHANGED task /\ \E p \in {"refused", "ended"} : at' = [at EXCEPT ![t] = p]
    <3>1. \A p : at' = [at EXCEPT ![t] = p] => at'[t] = p
                  /\ \A u \in Chains : u # t => at'[u] = at[u]
      BY DEF TypeOK
    <3>. QED BY <1>1, <2>1, <2>2, <3>1 DEF Accounts
  <2>3. CASE /\ at' = [at EXCEPT ![t] = "check"]
             /\ \E s \in Sizes :
                  task' = [task EXCEPT ![t] =
                      [cfg |-> target, body |-> BodyFor(target), left |-> Retries,
                       size |-> s, counted |-> FALSE]]
    <3>1. task'[t].counted = FALSE /\ task'[t].left = Retries /\ at'[t] = "check"
          /\ \A u \in Chains : u # t => at'[u] = at[u] /\ task'[u] = task[u]
      BY <2>3 DEF TypeOK
    <3>. QED BY <1>1, <3>1 DEF Accounts
  <2>. QED BY <1>3, <2>2, <2>3 DEF Enqueue, ReportFinal
<1>4. ASSUME NEW t \in Chains, PushReserve(t) PROVE CountedInv'
  <2>1. CASE UNCHANGED task
    <3>1. \/ task[t].counted /\ at' = [at EXCEPT ![t] = "send"]
          \/ ~task[t].counted /\ at' = [at EXCEPT ![t] = "ended"]
          \/ task' = [task EXCEPT ![t].counted = TRUE] /\ ~task[t].counted
      BY <1>4 DEF PushReserve, ReportFinal
    <3>2. CASE task' = [task EXCEPT ![t].counted = TRUE] /\ ~task[t].counted
      BY <2>1, <3>2 DEF TypeOK
    <3>. QED BY <1>1, <1>4, <2>1, <3>1, <3>2 DEF PushReserve, CountedInv, Accounts, TypeOK
  <2>2. CASE task' # task
    <3>1. /\ task[t] \in TaskType /\ task[t].size <= Budget
          /\ task'[t] = [task[t] EXCEPT !.counted = TRUE]
          /\ at' = [at EXCEPT ![t] = "send"]
          /\ \A u \in Chains : u # t => task'[u] = task[u]
      BY <1>4, <2>2, ReserveLemma DEF PushReserve, TypeOK, TaskType
    <3>2. task'[t].counted /\ task'[t].size <= Budget
      BY <3>1 DEF TaskType
    <3>. QED BY <1>1, <3>1, <3>2 DEF Accounts, TypeOK
  <2>. QED BY <2>1, <2>2
<1>5. ASSUME NEW t \in Chains, PushSend(t) PROVE CountedInv'
  <2>1. CASE Release(t) /\ ReportFinal(t)
    BY <1>2, <2>1 DEF ReportFinal
  <2>2. CASE UNCHANGED task /\ at' = [at EXCEPT ![t] = "queue"]
    BY <1>1, <1>5, <2>2 DEF PushSend, CountedInv, Accounts, TypeOK
  <2>. QED BY <1>5, <2>1, <2>2 DEF PushSend
<1>6. ASSUME NEW t \in Chains, Callback(t) PROVE CountedInv'
  <2>1. CASE Release(t) /\ at' = [at EXCEPT ![t] = "dropped"]
    BY <1>2, <2>1
  <2>2. CASE UNCHANGED task /\ at' = [at EXCEPT ![t] = "check"]
    BY <1>1, <1>6, <2>2 DEF Callback, CountedInv, Accounts, TypeOK
  <2>. QED BY <1>6, <2>1, <2>2 DEF Callback
<1>7. ASSUME NEW t \in Chains, PushCheck(t) \/ TimerFires(t) PROVE CountedInv'
  BY <1>1, <1>7 DEF PushCheck, TimerFires, CountedInv, Accounts, TypeOK
<1>8. ASSUME UNCHANGED <<at, task>> PROVE CountedInv'
  BY <1>8 DEF CountedInv, Accounts
<1>9. ASSUME NEW t \in Chains, Pushing(t) PROVE CountedInv'
  BY <1>3, <1>4, <1>5, <1>6, <1>7, <1>8, <1>9 DEF Pushing, Push, PushDepth
<1>10. ASSUME NEW w \in Workers, Poll(w) \/ Wait(w) PROVE CountedInv'
  <2>1. CASE queue # <<>> /\ Take(w)
    <3>1. PICK t \in Chains : /\ at[t] = "queue" /\ task' = task
                              /\ at' = [at EXCEPT ![t] = "worker"]
      BY <1>10, <2>1, TakeLemma, TakingLemma DEF Take
    <3>2. Accounts(t)'
      BY <3>1 DEF CountedInv, Accounts, TypeOK
    <3>. QED BY <1>1, <3>1, <3>2 DEF TypeOK
  <2>. QED BY <1>8, <1>10, <2>1, TakingLemma
<1>11. ASSUME NEW w \in Workers, Serving(w) PROVE CountedInv'
  <2>1. PICK t \in Chains : t = hand[w] /\ task[t] \in TaskType /\ at[t] = "worker"
    BY <1>11, ServingLemma DEF TypeOK, TaskType
  <2>2. task[t].counted /\ task[t].size <= Budget
    BY <2>1 DEF CountedInv, Accounts
  <2>3. \A u \in Chains : u # t => at'[u] = at[u] /\ task'[u] = task[u]
    BY <1>11, <2>1, ServingLemma
  <2>4. CASE Release(t) /\ \E p \in {"ended", "dropped"} : at' = [at EXCEPT ![t] = p]
    BY <1>2, <2>4
  <2>5. CASE UNCHANGED <<at, task>>
    BY <1>8, <2>5
  <2>6. CASE Refresh(w) /\ ~Undeliverable(t)
    <3>1. task' = [task EXCEPT ![t] = [task[t] EXCEPT !.cfg = target,
                      !.body = IF target \in Templates THEN task[t].body
                                                                          ELSE None]]
          /\ at' = at
      BY <2>1, <2>6 DEF Refresh, TypeOK
    <3>2. /\ task'[t].counted = task[t].counted /\ task'[t].size = task[t].size
          /\ task'[t].left = task[t].left
      BY <2>1, <3>1 DEF TypeOK, TaskType
    <3>3. Accounts(t)'
      BY <2>1, <2>2, <3>1, <3>2 DEF CountedInv, Accounts
    <3>. QED BY <1>1, <2>1, <2>3, <3>3
  <2>7. CASE ScheduleRetry(w) /\ ~closed
    <3>1. task' = [task EXCEPT ![t].left = @ - 1] /\ at' = [at EXCEPT ![t] = "timer"]
      BY <2>1, <2>7 DEF ScheduleRetry
    <3>2. /\ task'[t].counted = task[t].counted /\ task'[t].size = task[t].size
          /\ task'[t].left = task[t].left - 1 /\ at'[t] = "timer"
          /\ task[t].left \in 0..Retries
      BY <2>1, <3>1 DEF TypeOK, TaskType
    <3>3. Accounts(t)'
      BY <2>2, <3>2 DEF Accounts
    <3>. QED BY <1>1, <2>1, <2>3, <3>3
  <2>. QED BY <1>11, <2>1, <2>4, <2>5, <2>6, <2>7
           DEF Serving, Deliver, Refresh, ScheduleRetry, ReportFinal
<1>12. CASE CloseBegin
  BY <1>12, CloseLemma DEF CloseBegin, CountedInv, Accounts
<1>13. CASE (\E w \in Workers : Count(w)) \/ Reload \/ CloseDrain \/ CloseEnd \/ UNCHANGED vars
  BY <1>8, <1>13 DEF Count, Reload, CloseDrain, CloseEnd, vars
<1>. QED BY <1>9, <1>10, <1>11, <1>12, <1>13, NextCases

LEMMA UnaddedStep == IInv /\ TypeOK' /\ [Next]_vars => UnaddedInv'
<1>. SUFFICES ASSUME IInv, TypeOK', [Next]_vars PROVE UnaddedInv'
  OBVIOUS
<1>. USE Constants DEF IInv
<1>0. \A u \in unadded : u[1] \in Chains /\ u[2] \in Nat
  BY DEF TypeOK
\* A chain that does not go back to where it is pushed, and keeps its count.
<1>1. ASSUME unadded' \subseteq unadded,
             \A t \in Chains :
               /\ task'[t].left = task[t].left
               /\ at'[t] \in {"new", "check", "reserve", "send", "timer", "callback"} =>
                     at[t] \in {"new", "check", "reserve", "send", "timer", "callback"}
               /\ at'[t] = "new" => at[t] = "new"
      PROVE  UnaddedInv'
  BY <1>0, <1>1 DEF UnaddedInv
<1>2. ASSUME NEW t \in Chains, Release(t)
      PROVE  \A u \in Chains : task'[u].left = task[u].left
  <2>1. task[t] \in TaskType
    BY DEF TypeOK, TaskType
  <2>. QED BY <1>2, <2>1, ReleaseLemma DEF TaskType
<1>3. ASSUME NEW t \in Chains, Enqueue(t) PROVE UnaddedInv'
  <2>1. at[t] = "new" /\ unadded' = unadded /\ at'[t] # "new"
        /\ \A u \in Chains : u # t => at'[u] = at[u] /\ task'[u] = task[u]
    BY <1>3 DEF Enqueue, ReportFinal, TypeOK
  <2>2. \A u \in unadded : u[1] # t
    BY <2>1 DEF UnaddedInv
  <2>. QED BY <1>0, <2>1, <2>2 DEF UnaddedInv
<1>4. ASSUME NEW t \in Chains, PushReserve(t) PROVE UnaddedInv'
  <2>1. \A u \in Chains : task'[u].left = task[u].left
    <3>1. task[t] \in TaskType
      BY DEF TypeOK, TaskType
    <3>2. CASE UNCHANGED task
      BY <3>2
    <3>3. CASE task' = [task EXCEPT ![t].counted = TRUE]
      BY <3>1, <3>3 DEF TypeOK, TaskType
    <3>. QED BY <1>4, <3>2, <3>3 DEF PushReserve
  <2>. QED BY <1>1, <1>4, <2>1 DEF PushReserve, ReportFinal, TypeOK
<1>5. ASSUME NEW t \in Chains, PushSend(t) PROVE UnaddedInv'
  <2>1. CASE Release(t) /\ ReportFinal(t) /\ UNCHANGED unadded
    BY <1>1, <1>2, <2>1, ReportLemma
  <2>2. CASE UNCHANGED task /\ at' = [at EXCEPT ![t] = "queue"]
             /\ unadded' = unadded \cup {<<t, task[t].left>>}
    BY <1>0, <2>2 DEF UnaddedInv, TypeOK
  <2>. QED BY <1>5, <2>1, <2>2 DEF PushSend
<1>6. ASSUME NEW t \in Chains, Callback(t) PROVE UnaddedInv'
  <2>1. CASE Release(t) /\ at' = [at EXCEPT ![t] = "dropped"]
    BY <1>1, <1>2, <1>6, <2>1 DEF Callback, TypeOK
  <2>2. CASE UNCHANGED task /\ at' = [at EXCEPT ![t] = "check"]
    BY <1>1, <1>6, <2>2 DEF Callback, TypeOK
  <2>. QED BY <1>6, <2>1, <2>2 DEF Callback
<1>7. ASSUME NEW t \in Chains, Pushing(t) PROVE UnaddedInv'
  <2>1. CASE PushCheck(t) \/ TimerFires(t)
    BY <1>1, <2>1 DEF PushCheck, TimerFires, TypeOK
  <2>2. CASE PushDepth(t)
    BY <1>1, <2>2 DEF PushDepth
  <2>. QED BY <1>3, <1>4, <1>5, <1>6, <1>7, <2>1, <2>2 DEF Pushing, Push
<1>8. ASSUME NEW w \in Workers, Poll(w) \/ Wait(w) PROVE UnaddedInv'
  <2>1. task' = task /\ unadded' = unadded
    BY <1>8, TakingLemma
  <2>2. CASE queue # <<>> /\ Take(w)
    <3>1. PICK t \in Chains : at' = [at EXCEPT ![t] = "worker"]
      BY <2>2, TakeLemma DEF Take
    <3>. QED BY <1>1, <2>1, <3>1 DEF TypeOK
  <2>. QED BY <1>1, <1>8, <2>1, <2>2, TakingLemma
<1>9. ASSUME NEW w \in Workers, Serving(w) PROVE UnaddedInv'
  <2>1. PICK t \in Chains : t = hand[w] /\ task[t] \in TaskType /\ at[t] = "worker"
    BY <1>9, ServingLemma DEF TypeOK, TaskType
  <2>2. /\ unadded' = unadded
        /\ \A u \in Chains : u # t => at'[u] = at[u] /\ task'[u] = task[u]
    BY <1>9, <2>1, ServingLemma
  <2>3. CASE ScheduleRetry(w) /\ ~closed
    <3>1. task'[t].left = task[t].left - 1 /\ task[t].left \in Nat /\ at'[t] = "timer"
      BY <2>1, <2>3 DEF ScheduleRetry, TypeOK, TaskType
    <3>. QED BY <1>0, <2>2, <3>1 DEF UnaddedInv
  <2>4. CASE ~(ScheduleRetry(w) /\ ~closed)
    <3>1. task'[t].left = task[t].left
      <4>1. CASE Release(t)
        BY <1>2, <4>1
      <4>2. CASE UNCHANGED task
        BY <4>2
      <4>3. CASE Refresh(w) /\ ~Undeliverable(t)
        <5>1. task' = [task EXCEPT ![t] = [task[t] EXCEPT !.cfg = target,
                          !.body = IF target \in Templates THEN task[t].body
                                                                          ELSE None]]
          BY <2>1, <4>3 DEF Refresh, TypeOK
        <5>. QED BY <2>1, <5>1 DEF TypeOK, TaskType
      <4>. QED BY <1>9, <2>1, <2>4, <4>1, <4>2, <4>3
               DEF Serving, Refresh, Deliver, ScheduleRetry
    <3>2. at'[t] \in {"ended", "dropped", "worker"}
      BY <1>9, <2>1, <2>4, ReportLemma
         DEF Serving, Refresh, Deliver, ScheduleRetry, TypeOK
    <3>. QED BY <1>1, <2>2, <3>1, <3>2
  <2>. QED BY <2>3, <2>4
<1>10. CASE CloseBegin
  BY <1>1, <1>10, CloseLemma DEF CloseBegin
<1>11. CASE (\E w \in Workers : Count(w)) \/ Reload \/ CloseDrain \/ CloseEnd \/ UNCHANGED vars
  BY <1>1, <1>11 DEF Count, Reload, CloseDrain, CloseEnd, vars
<1>. QED BY <1>7, <1>8, <1>9, <1>10, <1>11, NextCases

LEMMA DepthStep == IInv /\ [Next]_vars => DepthInv'
<1>. SUFFICES ASSUME IInv, [Next]_vars PROVE DepthInv'
  OBVIOUS
<1>. USE Constants DEF IInv
<1>0. /\ Len(queue) \in Nat /\ Cardinality(unadded) \in Nat /\ Cardinality(Busy) \in Nat
      /\ depth \in Int
  BY FS_CardinalityType DEF DepthInv, TypeOK
<1>1. ASSUME UNCHANGED <<queue, depth, unadded, hand>> PROVE DepthInv'
  <2>1. Busy' = Busy
    BY <1>1 DEF Busy
  <2>. QED BY <1>1, <2>1 DEF DepthInv
<1>2. ASSUME NEW t \in Chains, PushSend(t) PROVE DepthInv'
  <2>1. CASE UNCHANGED <<queue, unadded>>
    BY <1>1, <1>2, <2>1 DEF PushSend, worker
  <2>2. CASE queue' = Append(queue, t) /\ unadded' = unadded \cup {<<t, task[t].left>>}
    <3>1. <<t, task[t].left>> \notin unadded
      <4>1. at[t] = "send" /\ task[t].left \in Nat
        BY <1>2 DEF PushSend, TypeOK
      <4>. QED BY <4>1 DEF UnaddedInv
    <3>2. IsFiniteSet(unadded') /\ Cardinality(unadded') = Cardinality(unadded) + 1
      BY <2>2, <3>1, AddOne DEF DepthInv
    <3>3. Len(queue') = Len(queue) + 1
      BY <2>2, AppendProperties DEF TypeOK
    <3>4. depth' = depth /\ Busy' = Busy
      BY <1>2 DEF PushSend, worker, Busy
    <3>. QED BY <1>0, <3>2, <3>3, <3>4 DEF DepthInv
  <2>. QED BY <1>2, <2>1, <2>2 DEF PushSend
<1>3. ASSUME NEW t \in Chains, PushDepth(t) PROVE DepthInv'
  <2>1. PICK left \in 0..Retries :
           <<t, left>> \in unadded /\ unadded' = unadded \ {<<t, left>>}
    BY <1>3 DEF PushDepth
  <2>2. IsFiniteSet(unadded') /\ Cardinality(unadded') = Cardinality(unadded) - 1
    BY <2>1, RemoveOne DEF DepthInv
  <2>3. depth' = depth + 1 /\ queue' = queue /\ Busy' = Busy
    BY <1>3 DEF PushDepth, worker, Busy
  <2>. QED BY <1>0, <2>2, <2>3 DEF DepthInv
<1>4. ASSUME NEW t \in Chains, Pushing(t) PROVE DepthInv'
  BY <1>1, <1>2, <1>3, <1>4
     DEF Pushing, Push, Enqueue, PushCheck, PushReserve, TimerFires, Callback, worker
<1>5. ASSUME NEW w \in Workers, Poll(w) \/ Wait(w) PROVE DepthInv'
  <2>1. depth' = depth /\ unadded' = unadded /\ hand[w] = None
    BY <1>5, TakingLemma DEF HandInv
  <2>2. CASE queue # <<>> /\ Take(w)
    <3>1. Head(queue) \in Chains /\ Len(queue') = Len(queue) - 1
          /\ hand' = [hand EXCEPT ![w] = Head(queue)]
      BY <2>2, TakeLemma DEF Take
    <3>2. Busy' = Busy \cup {w} /\ w \notin Busy
      BY <2>1, <3>1 DEF Busy, TypeOK
    <3>3. IsFiniteSet(Busy') /\ Cardinality(Busy') = Cardinality(Busy) + 1
      BY <3>2, AddOne DEF DepthInv
    <3>. QED BY <1>0, <2>1, <3>1, <3>3 DEF DepthInv
  <2>. QED BY <1>1, <1>5, <2>1, <2>2, TakingLemma
<1>6. ASSUME NEW w \in Workers, Count(w) PROVE DepthInv'
  <2>1. Busy' = Busy \ {w} /\ w \in Busy
    BY <1>6 DEF Count, HandInv, Busy, TypeOK
  <2>2. IsFiniteSet(Busy') /\ Cardinality(Busy') = Cardinality(Busy) - 1
    BY <2>1, RemoveOne DEF DepthInv
  <2>3. depth' = depth - 1 /\ queue' = queue /\ unadded' = unadded
    BY <1>6 DEF Count
  <2>. QED BY <1>0, <2>2, <2>3 DEF DepthInv
<1>7. ASSUME NEW w \in Workers, Serving(w) PROVE DepthInv'
  BY <1>1, <1>7, ServingLemma
<1>8. CASE CloseBegin \/ Reload \/ CloseDrain \/ CloseEnd \/ UNCHANGED vars
  BY <1>1, <1>8 DEF CloseBegin, Reload, CloseDrain, CloseEnd, vars, worker
<1>. QED BY <1>4, <1>5, <1>6, <1>7, <1>8, NextCases

-----------------------------------------------------------------------------
LEMMA Invariance == Spec => []IInv
<1>1. IInv /\ [Next]_vars => IInv'
  BY TypeStep, HandStep, LeftStep, QueueStep, ResultStep, BodyStep, CountedStep,
     BytesStep, UnaddedStep, DepthStep DEF IInv
<1>. QED BY InitIInv, <1>1, PTL DEF Spec

\* The queue never holds more than its capacity, nor the budget more than its
\* bytes, nor less than none: a release gives back what was taken.
THEOREM TypeCorrect == Spec => []TypeOK
<1>1. IInv => TypeOK
  BY DEF IInv
<1>. QED BY <1>1, Invariance, PTL

\* While the module is open the bytes taken are exactly those of the messages
\* under way: those that account for some are those, and no other.
THEOREM BudgetIsExact == Spec => []BytesAreOwned
<1>1. IInv => BytesAreOwned
  <2>. SUFFICES ASSUME IInv, ~closed
                PROVE  bytes = Cardinality({b \in Chains \X (1..Budget) :
                                              Held(b[1]) /\ b[2] <= task[b[1]].size})
    BY DEF BytesAreOwned
  <2>1. \A t \in Chains : Held(t) <=> task[t].counted
    BY DEF IInv, CountedInv, Accounts, ResultInv, TypeOK, Places, Held
  <2>2. {b \in Chains \X (1..Budget) : Held(b[1]) /\ b[2] <= task[b[1]].size} = Reserved
    BY <2>1 DEF Reserved
  <2>. QED BY <2>2 DEF IInv, BytesInv
<1>. QED BY <1>1, Invariance, PTL

\* A message has its one result when it ends, is in the queue once, and no two
\* workers deliver it.
THEOREM ResultIsUnique == Spec => []OneResult
<1>1. IInv => OneResult
  <2>. SUFFICES ASSUME IInv PROVE OneResult
    OBVIOUS
  <2>1. ASSUME NEW t \in Chains
        PROVE  Cardinality({i \in DOMAIN queue : queue[i] = t})
                 = IF at[t] = "queue" THEN 1 ELSE 0
    <3>1. DOMAIN queue = 1..Len(queue)
      BY DEF IInv, TypeOK
    <3>2. CASE at[t] = "queue"
      <4>1. PICK k \in 1..Len(queue) : queue[k] = t
        BY <3>2 DEF IInv, QueueInv
      <4>2. {i \in DOMAIN queue : queue[i] = t} = {k}
        BY <3>1, <4>1 DEF IInv, QueueInv
      <4>. QED BY <3>2, <4>2, FS_Singleton
    <3>3. CASE at[t] # "queue"
      <4>1. {i \in DOMAIN queue : queue[i] = t} = {}
        BY <3>1, <3>3 DEF IInv, QueueInv
      <4>. QED BY <3>3, <4>1, FS_EmptySet
    <3>. QED BY <3>2, <3>3
  <2>. QED BY <2>1 DEF IInv, ResultInv, HandInv, OneResult
<1>. QED BY <1>1, Invariance, PTL

\* A delivery has the body of the template it is sent with, however often the
\* target changed since the message was rendered.
THEOREM BodyIsRight == Spec => []BodyFitsTarget
<1>1. IInv => BodyFitsTarget
  BY WorkingLemma DEF IInv, BodyInv, BodyFitsTarget, Working
<1>. QED BY <1>1, Invariance, PTL

\* depth counts the tasks in the queue and with the workers: it ends where it
\* began, retries included.
THEOREM DepthDoesNotDrift == Spec => []DepthIsExact
<1>1. IInv => DepthIsExact
  BY DEF IInv, DepthInv, Busy, DepthIsExact
<1>. QED BY <1>1, Invariance, PTL
=============================================================================
