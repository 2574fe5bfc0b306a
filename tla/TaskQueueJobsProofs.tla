------------------------ MODULE TaskQueueJobsProofs ------------------------
(***************************************************************************)
(* TaskQueue implements JobQueue, for any sets of tasks, workers and       *)
(* operators and any limits.  The invariant of TaskQueueProofs bounds the  *)
(* runs of a job from above; that a dead letter has used its attempts up   *)
(* needs the bound from below.                                             *)
(***************************************************************************)
EXTENDS TaskQueueJobs, TaskQueueProofs

\* A task leaves the sorted set once, so its own counter never exceeds one.
CountedOnce ==
  \A t \in Used : status[t].att <= (IF t \in zset THEN 0 ELSE 1)

\* What is on its way to the dead letters has no attempt left.
LastAttempt == \A w \in Workers : pc[w] = "bury" => info[cur[w]].max = 1

\* No attempt of a job is lost between its retries.
NothingLost ==
  \A t \in Used : Live(t) =>
    execs[info[t].root] + info[t].max
      >= info[info[t].root].max + (IF t \in zset THEN 0 ELSE 1)

JobsInv == BudgetInv /\ CountedOnce /\ LastAttempt /\ NothingLost

-----------------------------------------------------------------------------
(* What a step does to the places of jobs *)

\* A poll pops a task it cannot read.
Loses(t) ==
  /\ t \in zset /\ zset' = zset \ {t}
  /\ UNCHANGED <<info, execs, pc, cur, dlq>>

\* A worker is done with its task, or has only its mark to write.
LetsGo(w) ==
  /\ pc[w] # "idle"
  /\ \/ cur' = [cur EXCEPT ![w] = None]
     \/ cur' = cur /\ pc'[w] = "mark_retrying"
  /\ \A v \in Workers : v # w => pc'[v] = pc[v]
  /\ UNCHANGED <<info, execs, zset, dlq>>

Buries(w) ==
  /\ pc[w] = "bury"
  /\ dlq' = dlq \cup {cur[w]}
  /\ cur' = [cur EXCEPT ![w] = None]
  /\ \A v \in Workers : v # w => pc'[v] = pc[v]
  /\ UNCHANGED <<info, execs, zset>>

Discards(t) ==
  /\ dlq' = dlq \ {t}
  /\ UNCHANGED <<info, execs, zset, pc, cur>>

\* No job goes anywhere.
Works ==
  /\ UNCHANGED <<info, execs, zset, dlq, cur>>
  /\ \A w \in Workers : pc'[w] = "mark_retrying" <=> pc[w] = "mark_retrying"

JobMove ==
  \/ \E t \in Fresh : StartsJob(t)
  \/ \E w \in Workers, t \in Fresh : RetriesJob(w, t)
  \/ \E w \in Workers, t \in Tasks : Delivers(w, t)
  \/ \E t \in zset : Loses(t)
  \/ \E w \in Workers : LetsGo(w) \/ Buries(w)
  \/ \E t \in Tasks : Discards(t)
  \/ Works

\* A step that enqueues or delivers is one of the first three.
LEMMA EnqueuesOrDelivers ==
  ASSUME TypeInv, [Next]_vars,
         (\E t \in Fresh : t \in zset') \/ execs' # execs
  PROVE  JobMove
<1>1. JobStep
  BY JobFrame
<1>2. ~ KeepsJobs
  BY DEF KeepsJobs, TypeInv, TypeOK, Fresh
<1>3. QED
  BY <1>1, <1>2 DEF JobStep, JobMove

\* What a worker does with the task it has.
LEMMA WorkerMove ==
  ASSUME TypeInv, NEW w \in Workers,
         \/ HandlerReturns(w) \/ HandlerFails(w) \/ CompleteTask(w)
         \/ HandleTaskFailure(w) \/ FailTaskReadsData(w)
         \/ FailTaskReadsStatus(w) \/ RetryTaskNoData(w)
         \/ MarkRetrying(w) \/ AddDeadLetter(w) \/ WorkerCrash(w)
  PROVE  JobMove
<1>1. UNCHANGED <<info, execs, zset>> /\ pc[w] # "idle"
  BY DEF HandlerReturns, HandlerFails, CompleteTask, HandleTaskFailure,
         FailTaskReadsData, FailTaskReadsStatus, RetryTaskNoData,
         MarkRetrying, AddDeadLetter, WorkerCrash, queueVars
<1>2. \/ cur' = [cur EXCEPT ![w] = None] /\ pc' = [pc EXCEPT ![w] = "idle"]
      \/ /\ cur' = cur /\ dlq' = dlq
         /\ pc[w] # "mark_retrying"
         /\ \E l : pc' = [pc EXCEPT ![w] = l]
  BY DEF HandlerReturns, HandlerFails, CompleteTask, HandleTaskFailure,
         FailTaskReadsData, FailTaskReadsStatus, RetryTaskNoData,
         MarkRetrying, AddDeadLetter, WorkerCrash, GoTo, Release
<1>3. \/ dlq' = dlq
      \/ /\ dlq' = dlq \cup {cur[w]} /\ pc[w] = "bury"
         /\ cur' = [cur EXCEPT ![w] = None]
  BY DEF HandlerReturns, HandlerFails, CompleteTask, HandleTaskFailure,
         FailTaskReadsData, FailTaskReadsStatus, RetryTaskNoData,
         MarkRetrying, AddDeadLetter, WorkerCrash, Release
<1>4. \A v \in Workers : v # w => pc'[v] = pc[v]
  BY <1>2 DEF TypeInv, TypeOK
<1>5. CASE cur' = [cur EXCEPT ![w] = None]
  BY <1>1, <1>3, <1>4, <1>5 DEF JobMove, LetsGo, Buries
<1>6. CASE cur' = cur /\ dlq' = dlq /\ pc[w] # "mark_retrying"
  <2>1. CASE pc'[w] = "mark_retrying"
    BY <1>1, <1>4, <1>6, <2>1 DEF JobMove, LetsGo
  <2>2. CASE pc'[w] # "mark_retrying"
    BY <1>1, <1>4, <1>6, <2>2 DEF JobMove, Works
  <2>3. QED
    BY <2>1, <2>2
<1>7. QED
  BY <1>2, <1>5, <1>6

\* Every step moves one job at most.
LEMMA JobMoves == TypeInv /\ [Next]_vars => JobMove
<1> SUFFICES ASSUME TypeInv, [Next]_vars PROVE JobMove
  OBVIOUS
<1>0. TypeOK
  BY DEF TypeInv
<1>1. CASE (\E t \in Fresh : t \in zset') \/ execs' # execs
  BY <1>1, EnqueuesOrDelivers
<1>2. CASE (\A t \in Fresh : t \notin zset') /\ execs' = execs
  <2>1. ASSUME NEW t \in Tasks, NEW l \in Levels, NEW m \in 1..MaxAttempts,
               NEW s \in {"none", "future"}, EnqueueTask(t, l, m, s)
        PROVE  FALSE
    BY <1>2, <2>1 DEF EnqueueTask, EnqueueScript
  <2>2. ASSUME NEW o \in Operators, RequeueDeadLetter(o)
        PROVE  JobMove
    <3>1. UNCHANGED <<queueVars, status>>
      BY <1>2, <2>2 DEF RequeueDeadLetter, EnqueueScript
    <3>2. Works
      BY <2>2, <3>1 DEF RequeueDeadLetter, Works, queueVars, workerVars
    <3>3. QED
      BY <3>2 DEF JobMove
  <2>3. ASSUME NEW w \in Workers, NEW t \in Tasks, DequeueTask(w, t)
        PROVE  JobMove
    <3>1. t \in zset /\ info[t].root \in Tasks
      BY <1>0, <2>3 DEF DequeueTask, Highest, TypeOK, Used, TaskInfo
    <3>2. ~ Parses(t)
      <4>1. ASSUME execs' = [execs EXCEPT ![info[t].root] = @ + 1] PROVE FALSE
        BY <1>0, <1>2, <3>1, <4>1 DEF TypeOK
      <4>2. QED
        BY <2>3, <4>1 DEF DequeueTask
    <3>3. Loses(t)
      BY <1>2, <2>3, <3>1, <3>2 DEF DequeueTask, Pop, Loses, workerVars
    <3>4. QED
      BY <3>1, <3>3 DEF JobMove
  <2>4. ASSUME NEW w \in Workers, RetryTask(w)
        PROVE  JobMove
    <3>1. Release(w) /\ UNCHANGED <<queueVars, status>>
      BY <1>2, <2>4 DEF RetryTask, EnqueueScript
    <3>2. LetsGo(w)
      BY <1>0, <2>4, <3>1 DEF RetryTask, Release, LetsGo, queueVars, TypeOK
    <3>3. QED
      BY <3>2 DEF JobMove
  <2>5. ASSUME NEW o \in Operators,
               (\E t \in Tasks : ReadDeadLetter(o, t)) \/ OperatorCrash(o)
        PROVE  JobMove
    BY <2>5 DEF ReadDeadLetter, OperatorCrash, Works, JobMove, queueVars, workerVars
  <2>6. ASSUME NEW o \in Operators, RemoveDeadLetter(o)
        PROVE  JobMove
    <3>1. /\ dlq' = dlq \ {op[o].task}
          /\ UNCHANGED <<info, execs, zset, pc, cur>>
      BY <2>6 DEF RemoveDeadLetter, queueVars, workerVars
    <3>2. CASE op[o].task \in Tasks
      BY <3>1, <3>2 DEF Discards, JobMove
    <3>3. CASE op[o].task \notin Tasks
      <4>1. dlq' = dlq
        BY <1>0, <3>1, <3>3 DEF TypeOK, Used
      <4>2. QED
        BY <3>1, <4>1 DEF Works, JobMove
    <3>4. QED
      BY <3>2, <3>3
  <2>7. ASSUME NEW t \in Tasks, DeadLetterExpires(t)
        PROVE  JobMove
    BY <2>7 DEF DeadLetterExpires, Discards, JobMove, queueVars, workerVars
  <2>8. ASSUME \/ \E t \in Tasks : \/ CancelTask(t) \/ DelayElapses(t)
                                    \/ TaskExpires(t) \/ CleanupDeletesTask(t)
               \/ ListExpires \/ CleanupDeletesStatus \/ UNCHANGED vars
        PROVE  JobMove
    BY <2>8
       DEF CancelTask, DelayElapses, TaskExpires, CleanupDeletesTask, ListExpires,
           CleanupDeletesStatus, vars, queueVars, workerVars, Works, JobMove
  <2>9. QED
    BY <2>1, <2>2, <2>3, <2>4, <2>5, <2>6, <2>7, <2>8, WorkerMove
       DEF Next, WorkerStep, OperatorStep, Environment
<1>3. QED
  BY <1>1, <1>2

-----------------------------------------------------------------------------
(* The invariant is inductive *)

\* The enqueue script counts no attempt of the id it adds.
LEMMA NewIdsUncounted ==
  TypeInv /\ [Next]_vars => \A t \in Used' \ Used : t \in zset' /\ status'[t].att = 0
<1> SUFFICES ASSUME TypeInv, [Next]_vars
             PROVE  \A t \in Used' \ Used : t \in zset' /\ status'[t].att = 0
  OBVIOUS
<1>0. TypeOK
  BY DEF TypeInv
<1>1. ASSUME NEW u \in Fresh, NEW i, NEW s, EnqueueScript(u, i, s)
      PROVE  \A t \in Used' \ Used : t \in zset' /\ status'[t].att = 0
  <2>1. u \in Tasks /\ \A t \in Tasks : t # u => info'[t] = info[t]
    BY <1>0, <1>1 DEF EnqueueScript, Fresh, TypeOK
  <2>2. Used' \ Used \subseteq {u}
    BY <2>1 DEF Used
  <2>3. u \in zset' /\ status'[u].att = 0
    BY <1>0, <1>1, <2>1 DEF EnqueueScript, TypeOK
  <2>4. QED
    BY <2>2, <2>3
<1>2. CASE info' = info
  BY <1>2 DEF Used
<1>3. ASSUME NEW t \in Tasks, NEW l \in Levels, NEW m \in 1..MaxAttempts,
             NEW s \in {"none", "future"}, EnqueueTask(t, l, m, s)
      PROVE  \A u \in Used' \ Used : u \in zset' /\ status'[u].att = 0
  BY <1>1, <1>3 DEF EnqueueTask
<1>4. ASSUME NEW w \in Workers, RetryTask(w)
      PROVE  \A t \in Used' \ Used : t \in zset' /\ status'[t].att = 0
  BY <1>1, <1>2, <1>4 DEF RetryTask, queueVars
<1>5. ASSUME NEW o \in Operators, RequeueDeadLetter(o)
      PROVE  \A t \in Used' \ Used : t \in zset' /\ status'[t].att = 0
  BY <1>1, <1>2, <1>5 DEF RequeueDeadLetter, queueVars
<1>6. ASSUME \/ \E w \in Workers : WorkerStep(w) /\ ~ RetryTask(w)
             \/ \E o \in Operators : OperatorStep(o) /\ ~ RequeueDeadLetter(o)
             \/ Environment /\ ~ \E t \in Tasks, l \in Levels, m \in 1..MaxAttempts,
                                    s \in {"none", "future"} : EnqueueTask(t, l, m, s)
             \/ UNCHANGED vars
      PROVE  info' = info
  BY <1>6
     DEF WorkerStep, DequeueTask, HandlerReturns, HandlerFails, CompleteTask,
         HandleTaskFailure, FailTaskReadsData, FailTaskReadsStatus,
         RetryTaskNoData, MarkRetrying, AddDeadLetter, WorkerCrash, OperatorStep,
         ReadDeadLetter, RemoveDeadLetter, OperatorCrash, Environment,
         CancelTask, DelayElapses, TaskExpires, CleanupDeletesTask,
         DeadLetterExpires, ListExpires, CleanupDeletesStatus, vars, queueVars
<1>7. QED
  BY <1>2, <1>3, <1>4, <1>5, <1>6 DEF Next

LEMMA NextCountedOnce ==
  TypeInv /\ CountedOnce /\ [Next]_vars => CountedOnce'
<1> SUFFICES ASSUME TypeInv, CountedOnce, [Next]_vars, NEW t \in Used'
             PROVE  status'[t].att <= (IF t \in zset' THEN 0 ELSE 1)
  BY DEF CountedOnce
<1>1. CASE t \notin Used
  BY <1>1, NewIdsUncounted
<1>2. CASE t \in Used
  <2>1. status[t].att \in Nat
    BY <1>2 DEF TypeInv, TypeOK, Used
  <2>2. status[t].att <= (IF t \in zset THEN 0 ELSE 1)
    BY <1>2 DEF CountedOnce
  <2>3. t \in zset' => t \in zset
    BY <1>2, Handover
  <2>4. /\ t \in zset \ zset' => status'[t].att = status[t].att + 1
        /\ t \notin zset \ zset' => \/ status'[t].att = status[t].att
                                    \/ status'[t].att = 0
    BY <1>2, RecordFrame DEF RecordStep
  <2>5. QED
    BY <2>1, <2>2, <2>3, <2>4
<1>3. QED
  BY <1>1, <1>2

\* A worker buries its task when the counter it reads has reached the limit.
LEMMA BuryFrame ==
  TypeInv /\ [Next]_vars =>
    \A w \in Workers : pc'[w] = "bury" =>
      /\ pc[w] # "idle" /\ cur'[w] = cur[w]
      /\ pc[w] = "bury" \/ ~ WorkerRetries(cur[w])
<1> SUFFICES ASSUME TypeInv, [Next]_vars, NEW w \in Workers, pc'[w] = "bury"
             PROVE  /\ pc[w] # "idle" /\ cur'[w] = cur[w]
                    /\ pc[w] = "bury" \/ ~ WorkerRetries(cur[w])
  OBVIOUS
<1> USE DEF TypeInv, TypeOK
<1>1. CASE pc' = pc /\ cur' = cur
  BY <1>1
<1>2. ASSUME NEW v \in Workers, NEW t \in Tasks, DequeueTask(v, t)
      PROVE  \/ pc' = pc /\ cur' = cur
             \/ pc' = [pc EXCEPT ![v] = "exec"] /\ cur' = [cur EXCEPT ![v] = t]
  BY <1>2 DEF DequeueTask, workerVars
<1>3. ASSUME NEW v \in Workers,
             \/ HandlerReturns(v) \/ HandlerFails(v) \/ CompleteTask(v)
             \/ FailTaskReadsData(v) \/ FailTaskReadsStatus(v)
             \/ RetryTask(v) \/ RetryTaskNoData(v) \/ MarkRetrying(v)
             \/ AddDeadLetter(v) \/ WorkerCrash(v)
      PROVE  \/ /\ pc' = [pc EXCEPT ![v] = "idle"]
                /\ cur' = [cur EXCEPT ![v] = None]
             \/ /\ \E l \in WorkerLabels \ {"bury"} : pc' = [pc EXCEPT ![v] = l]
                /\ cur' = cur
  BY <1>3
     DEF HandlerReturns, HandlerFails, CompleteTask, FailTaskReadsData,
         FailTaskReadsStatus, RetryTask, RetryTaskNoData, MarkRetrying,
         AddDeadLetter, WorkerCrash, GoTo, Release, WorkerLabels
<1>4. ASSUME NEW v \in Workers, HandleTaskFailure(v)
      PROVE  /\ cur' = cur /\ pc[v] = "failed"
             /\ \/ pc' = [pc EXCEPT ![v] = "fail_task"]
                \/ ~ WorkerRetries(cur[v]) /\ pc' = [pc EXCEPT ![v] = "bury"]
  BY <1>4 DEF HandleTaskFailure, GoTo
<1>5. ASSUME \/ \E o \in Operators : OperatorStep(o)
             \/ Environment /\ \A v \in Workers : ~ WorkerCrash(v)
             \/ UNCHANGED vars
      PROVE  pc' = pc /\ cur' = cur
  BY <1>5
     DEF OperatorStep, ReadDeadLetter, RequeueDeadLetter, RemoveDeadLetter,
         OperatorCrash, Environment, EnqueueTask, CancelTask, DelayElapses,
         TaskExpires, CleanupDeletesTask, DeadLetterExpires, ListExpires,
         CleanupDeletesStatus, vars, workerVars
<1>6. ASSUME NEW v \in Workers, WorkerStep(v) \/ WorkerCrash(v)
      PROVE  /\ pc[w] # "idle" /\ cur'[w] = cur[w]
             /\ pc[w] = "bury" \/ ~ WorkerRetries(cur[w])
  <2>1. CASE v = w
    BY <1>1, <1>2, <1>3, <1>4, <1>6, <2>1 DEF WorkerStep
  <2>2. CASE v # w
    <3>1. pc'[w] = pc[w] /\ cur'[w] = cur[w]
      BY <1>2, <1>3, <1>4, <1>6, <2>2 DEF WorkerStep
    <3>2. QED
      BY <3>1
  <2>3. QED
    BY <2>1, <2>2
<1>7. QED
  BY <1>1, <1>5, <1>6 DEF Next

LEMMA NextLastAttempt == JobsInv /\ [Next]_vars => LastAttempt'
<1> SUFFICES ASSUME JobsInv, [Next]_vars, NEW w \in Workers, pc'[w] = "bury"
             PROVE  info'[cur'[w]].max = 1
  BY DEF LastAttempt
<1>1. BudgetInv /\ TypeInv
  BY DEF JobsInv, BudgetInv, CounterInv, OwnerInv
<1>2. /\ pc[w] # "idle" /\ cur'[w] = cur[w]
      /\ pc[w] = "bury" \/ ~ WorkerRetries(cur[w])
  BY <1>1, BuryFrame
<1>3. cur[w] \in Used /\ info[cur[w]].max \in Nat \ {0}
  BY <1>1, <1>2, JobFacts
<1>4. info'[cur[w]] = info[cur[w]]
  BY <1>1, <1>3, RecordFrame DEF RecordStep
<1>5. CASE pc[w] = "bury"
  BY <1>2, <1>4, <1>5 DEF JobsInv, LastAttempt
<1>6. CASE ~ WorkerRetries(cur[w])
  <2>1. status[cur[w]].att \in Nat /\ status[cur[w]].att <= 1
    BY <1>1, <1>3 DEF JobsInv, CountedOnce, TypeInv, TypeOK, Used
  <2>2. ~ (status[cur[w]].att < info[cur[w]].max)
    BY <1>6 DEF WorkerRetries
  <2>3. info[cur[w]].max = 1
    BY <1>3, <2>1, <2>2
  <2>4. QED
    BY <1>2, <1>4, <2>3
<1>7. QED
  BY <1>2, <1>5, <1>6

\* A worker that retries its task uses up one of at least two attempts, and
\* from then on the job is where the new id is.
LEMMA RetryFacts ==
  ASSUME BudgetInv, NEW w \in Workers, NEW t \in Fresh, RetriesJob(w, t)
  PROVE  /\ cur[w] \in Used /\ cur[w] \notin zset /\ Live(cur[w]) /\ cur[w] # None
         /\ info[cur[w]].max >= 2
         /\ info'[t].root = info[cur[w]].root
         /\ info'[t].max = info[cur[w]].max - 1
         /\ t \in Tasks /\ t \notin Used
         /\ \A u \in Used : u # t /\ info'[u] = info[u]
         /\ \A u \in Used : Live(u)' => Live(u) /\ u # cur[w]
<1> DEFINE c == cur[w]
<1>1. /\ t \in Tasks /\ t \notin Used
      /\ \A u \in Used : u # t /\ info'[u] = info[u] /\ u \in Tasks
  BY DEF Fresh, RetriesJob, BudgetInv, CounterInv, OwnerInv, TypeInv, TypeOK, Used
<1>2. c \in Used /\ c \notin zset /\ Live(c) /\ c # None
  BY JobFacts
     DEF RetriesJob, BudgetInv, CounterInv, OwnerInv, SingleOwner, Live
<1>3. info[c].max >= 2
  <2>1. status[c].att >= 1 /\ status[c].att < info[c].max /\ status[c].att \in Nat
    BY <1>1, <1>2
       DEF RetriesJob, BudgetInv, CounterInv, CountedWhenDelivered, RetryAllowed,
           OwnerInv, TypeInv, TypeOK
  <2>2. QED
    BY <1>2, <2>1, JobFacts
<1>4. info'[t].root = info[c].root /\ info'[t].max = info[c].max - 1
  BY <1>2, <1>3, JobFacts DEF RetriesJob, RetryBudget, OrDefault
<1>5. \A u \in Used : Live(u)' => Live(u) /\ u # c
  <2>1. \A v \in Workers : v # w => cur[v] # c
    BY <1>2 DEF BudgetInv, CounterInv, OwnerInv, SingleOwner
  <2>2. pc'[w] = "mark_retrying" /\ \A v \in Workers : v # w => pc'[v] = pc[v]
    BY DEF RetriesJob, BudgetInv, CounterInv, OwnerInv, TypeInv, TypeOK
  <2>3. QED
    BY <1>1, <1>2, <2>1, <2>2 DEF RetriesJob, Live
<1>6. QED
  BY <1>1, <1>2, <1>3, <1>4, <1>5

\* A step that starts or retries nothing leaves every record and revives no id.
LEMMA OtherMoves ==
  ASSUME JobsInv, NEW t,
         \/ t \in zset /\ Loses(t)
         \/ t \in Workers /\ (LetsGo(t) \/ Buries(t))
         \/ Discards(t)
         \/ Works
  PROVE  /\ info' = info /\ execs' = execs
         /\ \A u \in Used : Live(u)' => Live(u) /\ (u \in zset' <=> u \in zset)
<1>1. info' = info /\ execs' = execs /\ zset' \subseteq zset
  BY DEF Loses, LetsGo, Buries, Discards, Works
<1>2. ASSUME NEW u \in Used, Live(u)'
      PROVE  Live(u) /\ (u \in zset' <=> u \in zset)
  <2>1. u # None /\ BudgetInv
    BY JobFacts DEF JobsInv
  <2>2. CASE u \in zset'
    BY <1>1, <2>2 DEF Live
  <2>3. CASE u \notin zset'
    <3>1. PICK v \in Workers : cur'[v] = u /\ pc'[v] # "mark_retrying"
      BY <1>2, <2>3 DEF Live
    <3>2. TypeOK
      BY <2>1 DEF BudgetInv, CounterInv, OwnerInv, TypeInv
    <3>3. cur[v] = u /\ pc[v] # "mark_retrying"
      BY <2>1, <3>1, <3>2 DEF Loses, LetsGo, Buries, Discards, Works, TypeOK
    <3>4. u \notin zset
      BY <2>1, <3>3 DEF BudgetInv, CounterInv, OwnerInv, SingleOwner
    <3>5. QED
      BY <2>3, <3>3, <3>4 DEF Live
  <2>4. QED
    BY <2>2, <2>3
<1>3. QED
  BY <1>1, <1>2

LEMMA NextNothingLost == JobsInv /\ [Next]_vars => NothingLost'
<1> SUFFICES ASSUME JobsInv, [Next]_vars PROVE NothingLost'
  OBVIOUS
<1>1. BudgetInv /\ BudgetInv' /\ TypeInv /\ TypeOK /\ TypeOK'
  BY NextBudgetInv DEF JobsInv, BudgetInv, CounterInv, OwnerInv, TypeInv
<1>2. JobMove
  BY <1>1, JobMoves
<1> USE JobFacts
<1>3. ASSUME NEW t \in Fresh, StartsJob(t)
      PROVE  NothingLost'
  <2>1. /\ t \in Tasks /\ t \notin Used
        /\ \A u \in Used : u # t /\ info'[u] = info[u] /\ u \in Tasks
    BY <1>1, <1>3 DEF Fresh, StartsJob, TypeOK, Used
  <2>2. Used' = Used \cup {t}
    BY <1>1, <1>3, <2>1 DEF StartsJob, Used, TypeOK
  <2>3. /\ info'[t].root = t /\ execs' = execs /\ execs[t] = 0 /\ t \in zset'
        /\ info'[t].max \in Nat
    BY <1>1, <1>3, <2>1, QueueAssumption DEF StartsJob, BudgetInv, RootsUsed, Attempts
  <2>4. \A u \in Used : (Live(u)' <=> Live(u)) /\ (u \in zset' <=> u \in zset)
    BY <1>3, <2>1 DEF StartsJob, Live
  <2>5. QED
    BY <1>1, <2>1, <2>2, <2>3, <2>4 DEF NothingLost, JobsInv
<1>4. ASSUME NEW w \in Workers, NEW t \in Fresh, RetriesJob(w, t)
      PROVE  NothingLost'
  <2> DEFINE c == cur[w]
  <2>1. /\ c \in Used /\ c \notin zset /\ Live(c)
        /\ info[c].max >= 2
        /\ info'[t].root = info[c].root /\ info'[t].max = info[c].max - 1
        /\ t \in Tasks /\ t \notin Used
        /\ \A u \in Used : u # t /\ info'[u] = info[u]
        /\ \A u \in Used : Live(u)' => Live(u)
    BY <1>1, <1>4, RetryFacts
  <2>2. execs' = execs /\ t \in zset' /\ \A u \in Used : u \in zset' <=> u \in zset
    BY <1>4, <2>1 DEF RetriesJob
  <2>3. Used' = Used \cup {t}
    BY <1>1, <1>4, <2>1 DEF RetriesJob, Used, TypeOK
  <2>4. execs[info[c].root] + info[c].max >= info[info[c].root].max + 1
    BY <2>1 DEF NothingLost, JobsInv
  <2>5. execs'[info'[t].root] + info'[t].max >= info'[info'[t].root].max
    BY <1>1, <2>1, <2>2, <2>4
  <2>6. ASSUME NEW u \in Used, Live(u)'
        PROVE  execs'[info'[u].root] + info'[u].max
                 >= info'[info'[u].root].max + (IF u \in zset' THEN 0 ELSE 1)
    BY <1>1, <2>1, <2>2, <2>6 DEF NothingLost, JobsInv
  <2>7. QED
    BY <2>2, <2>3, <2>5, <2>6, <1>1, <2>1 DEF NothingLost
<1>5. ASSUME NEW w \in Workers, NEW t \in Tasks, Delivers(w, t)
      PROVE  NothingLost'
  <2>1. Used' = Used /\ info' = info /\ t \in Used /\ Live(t) /\ t \in zset /\ t \notin zset'
    BY <1>1, <1>5 DEF Delivers, Used, Live
  <2>2. \A v \in Workers : v # w => pc'[v] = pc[v] /\ cur'[v] = cur[v]
    BY <1>1, <1>5 DEF Delivers, TypeOK
  <2>3. \A u \in Used : u # t => (Live(u)' => Live(u)) /\ (u \in zset' <=> u \in zset)
    BY <1>1, <1>5, <2>1, <2>2 DEF Delivers, Live, TypeOK
  <2>4. /\ execs'[info[t].root] = execs[info[t].root] + 1
        /\ \A r \in Tasks : r # info[t].root => execs'[r] = execs[r]
    BY <1>1, <1>5, <2>1 DEF Delivers, TypeOK
  <2>5. ASSUME NEW u \in Used, Live(u)'
        PROVE  execs'[info[u].root] + info[u].max
                 >= info[info[u].root].max + (IF u \in zset' THEN 0 ELSE 1)
    <3>1. CASE u = t
      BY <1>1, <2>1, <2>4, <3>1 DEF NothingLost, JobsInv
    <3>2. CASE u # t
      <4>1. Live(u) /\ info[u].root # info[t].root
        BY <1>1, <2>1, <2>3, <2>5, <3>2 DEF BudgetInv, OneLive
      <4>2. QED
        BY <1>1, <2>3, <2>4, <3>2, <4>1 DEF NothingLost, JobsInv
    <3>3. QED
      BY <3>1, <3>2
  <2>6. QED
    BY <2>1, <2>5 DEF NothingLost
<1>6. ASSUME NEW t,
             \/ t \in zset /\ Loses(t)
             \/ t \in Workers /\ (LetsGo(t) \/ Buries(t))
             \/ Discards(t)
             \/ Works
      PROVE  NothingLost'
  <2>1. /\ info' = info /\ execs' = execs
        /\ \A u \in Used : Live(u)' => Live(u) /\ (u \in zset' <=> u \in zset)
    BY <1>6, OtherMoves
  <2>2. Used' = Used
    BY <2>1 DEF Used
  <2>3. QED
    BY <2>1, <2>2 DEF NothingLost, JobsInv
<1>7. QED
  BY <1>2, <1>3, <1>4, <1>5, <1>6 DEF JobMove

LEMMA InitJobsInv == Init => JobsInv
<1> SUFFICES ASSUME Init PROVE JobsInv
  OBVIOUS
<1>1. BudgetInv
  BY InitBudgetInv
<1>2. Used = {}
  BY DEF Init, Used
<1>3. QED
  BY <1>1, <1>2 DEF Init, JobsInv, CountedOnce, LastAttempt, NothingLost

LEMMA NextJobsInv == JobsInv /\ [Next]_vars => JobsInv'
<1> SUFFICES ASSUME JobsInv, [Next]_vars PROVE JobsInv'
  OBVIOUS
<1>1. BudgetInv /\ TypeInv
  BY DEF JobsInv, BudgetInv, CounterInv, OwnerInv
<1>2. QED
  BY <1>1, NextBudgetInv, NextCountedOnce, NextLastAttempt, NextNothingLost
     DEF JobsInv

-----------------------------------------------------------------------------
(* The places of jobs *)

\* A job waits, is run or is dead, one at a time.
LEMMA OnePlaceEach ==
  ASSUME BudgetInv, NEW r \in Tasks
  PROVE  /\ ~ (Waits(r) /\ IsRun(r))
         /\ IsDead(r) => ~ Waits(r) /\ ~ IsRun(r)
         /\ \A t, u \in zset : info[t].root = r /\ info[u].root = r => t = u
         /\ \A v, w \in Workers :
              /\ Handles(v) /\ info[cur[v]].root = r
              /\ Handles(w) /\ info[cur[w]].root = r
              => v = w
<1> USE JobFacts
<1>1. \A w \in Workers : Handles(w) =>
        cur[w] \in Used /\ Live(cur[w]) /\ cur[w] \notin zset
  BY DEF Handles, Live, BudgetInv, CounterInv, OwnerInv, SingleOwner
<1>2. \A t \in zset : t \in Used /\ Live(t)
  BY DEF Live
<1>3. \A t, u \in Used : Live(t) /\ Live(u) /\ info[t].root = info[u].root => t = u
  BY DEF BudgetInv, OneLive
<1>4. ~ (Waits(r) /\ IsRun(r))
  BY <1>1, <1>2, <1>3 DEF Waits, IsRun
<1>5. IsDead(r) => ~ Waits(r) /\ ~ IsRun(r)
  BY <1>1, <1>2 DEF Waits, IsRun, IsDead
<1>6. \A v, w \in Workers :
        /\ Handles(v) /\ info[cur[v]].root = r
        /\ Handles(w) /\ info[cur[w]].root = r
        => v = w
  <2> SUFFICES ASSUME NEW v \in Workers, NEW w \in Workers,
                      Handles(v), info[cur[v]].root = r,
                      Handles(w), info[cur[w]].root = r
               PROVE  v = w
    OBVIOUS
  <2>1. cur[v] = cur[w] /\ cur[w] # None
    BY <1>1, <1>3 DEF Handles
  <2>2. QED
    BY <2>1 DEF BudgetInv, CounterInv, OwnerInv, SingleOwner
<1>7. QED
  BY <1>2, <1>3, <1>4, <1>5, <1>6

LEMMA SamePlace ==
  ASSUME NEW r \in Tasks, IsRoot(r)' <=> IsRoot(r), Waits(r)' <=> Waits(r),
         IsRun(r)' <=> IsRun(r), IsDead(r)' <=> IsDead(r)
  PROVE  JobPlace'[r] = JobPlace[r]
  BY DEF JobPlace

\* When the other jobs stay, the map of places changes at one job.
LEMMA OnlyOneMoves ==
  ASSUME NEW j \in Tasks, \A r \in Tasks : r # j => JobPlace'[r] = JobPlace[r]
  PROVE  JobPlace' = [JobPlace EXCEPT ![j] = JobPlace'[j]]
<1>1. JobPlace = [r \in Tasks |-> JobPlace[r]]
  BY DEF JobPlace
<1>2. JobPlace' = [r \in Tasks |-> JobPlace'[r]]
  BY DEF JobPlace
<1>3. [JobPlace EXCEPT ![j] = JobPlace'[j]]
        = [r \in Tasks |-> IF r = j THEN JobPlace'[j] ELSE JobPlace[r]]
  BY <1>1
<1>4. [r \in Tasks |-> JobPlace'[r]]
        = [r \in Tasks |-> IF r = j THEN JobPlace'[j] ELSE JobPlace[r]]
  OBVIOUS
<1>5. QED
  BY <1>2, <1>3, <1>4

LEMMA NobodyMoves ==
  ASSUME \A r \in Tasks : JobPlace'[r] = JobPlace[r]
  PROVE  JobPlace' = JobPlace
<1>1. JobPlace = [r \in Tasks |-> JobPlace[r]]
  BY DEF JobPlace
<1>2. JobPlace' = [r \in Tasks |-> JobPlace'[r]]
  BY DEF JobPlace
<1>3. QED
  BY <1>1, <1>2

\* A move of JobQueue is a step of it.
LEMMA MoveIsStep ==
  ASSUME NEW j \in Tasks, Abstract!JobStep(j), JobPlace'[j] # JobPlace[j]
  PROVE  Abstract!JobNext
  BY DEF Abstract!JobNext

\* The budgets stay when no record changes.
LEMMA SameBudget ==
  ASSUME info' = info
  PROVE  JobBudget' = JobBudget /\ \A r \in Tasks : IsRoot(r)' <=> IsRoot(r)
  BY DEF JobBudget, IsRoot

-----------------------------------------------------------------------------
(* Each move of TaskQueue is a step of JobQueue or changes nothing there *)

AbstractStep == Abstract!JobNext \/ UNCHANGED <<JobPlace, JobBudget, execs>>

LEMMA StartsJobRefines ==
  ASSUME BudgetInv, TypeOK', NEW t \in Fresh, StartsJob(t)
  PROVE  AbstractStep
<1> USE JobFacts
<1>1. /\ t \in Tasks /\ t \notin Used /\ info[t] = None
      /\ \A u \in Tasks : u # t => info'[u] = info[u]
  BY DEF Fresh, StartsJob, BudgetInv, CounterInv, OwnerInv, TypeInv, TypeOK, Used
<1>2. /\ info'[t].root = t /\ info'[t].max \in Attempts
      /\ zset' = zset \cup {t} /\ execs' = execs /\ pc' = pc /\ cur' = cur
      /\ dlq' = dlq
  BY DEF StartsJob
<1>3. \A u \in Used : u \in Tasks /\ u # t /\ info'[u] = info[u]
  BY <1>1
<1>4. info'[t] # None
  BY <1>2 DEF TypeOK, Used
<1>5. ASSUME NEW r \in Tasks, r # t
      PROVE  JobPlace'[r] = JobPlace[r]
  <2>1. IsRoot(r)' <=> IsRoot(r)
    BY <1>1, <1>5 DEF IsRoot
  <2>2. Waits(r)' <=> Waits(r)
    BY <1>2, <1>3, <1>5 DEF Waits
  <2>3. IsRun(r)' <=> IsRun(r)
    BY <1>2, <1>3 DEF IsRun, Handles
  <2>4. IsDead(r)' <=> IsDead(r)
    BY <1>2, <1>3 DEF IsDead
  <2>5. QED
    BY <2>1, <2>2, <2>3, <2>4, SamePlace
<1>6. JobPlace[t] = "none" /\ JobPlace'[t] = "waiting"
  <2>1. ~ IsRoot(t)
    BY <1>1 DEF IsRoot
  <2>2. IsRoot(t)' /\ Waits(t)'
    BY <1>2, <1>4 DEF IsRoot, Waits
  <2>3. QED
    BY <1>1, <2>1, <2>2 DEF JobPlace
<1>7. JobBudget' = [JobBudget EXCEPT ![t] = info'[t].max]
  <2>1. \A r \in Tasks : r # t => JobBudget'[r] = JobBudget[r]
    BY <1>1 DEF JobBudget, IsRoot
  <2>2. JobBudget'[t] = info'[t].max
    BY <1>1, <1>2, <1>4 DEF JobBudget, IsRoot
  <2>3. JobBudget' = [r \in Tasks |-> JobBudget'[r]]
        /\ JobBudget = [r \in Tasks |-> JobBudget[r]]
    BY DEF JobBudget
  <2>4. [JobBudget EXCEPT ![t] = info'[t].max]
          = [r \in Tasks |-> IF r = t THEN info'[t].max ELSE JobBudget[r]]
    BY <2>3
  <2>5. [r \in Tasks |-> JobBudget'[r]]
          = [r \in Tasks |-> IF r = t THEN info'[t].max ELSE JobBudget[r]]
    BY <2>1, <2>2
  <2>6. QED
    BY <2>3, <2>4, <2>5
<1>8. JobPlace' = [JobPlace EXCEPT ![t] = "waiting"]
  BY <1>1, <1>5, <1>6, OnlyOneMoves
<1>9. Abstract!Submit(t, info'[t].max)
  BY <1>2, <1>6, <1>7, <1>8 DEF Abstract!Submit, Abstract!Moves
<1>10. QED
  BY <1>1, <1>2, <1>6, <1>9, MoveIsStep DEF Abstract!JobStep, AbstractStep

LEMMA RetriesJobRefines ==
  ASSUME JobsInv, TypeOK', NEW w \in Workers, NEW t \in Fresh, RetriesJob(w, t)
  PROVE  AbstractStep
<1> DEFINE c == cur[w]
<1>1. BudgetInv /\ TypeOK
  BY DEF JobsInv, BudgetInv, CounterInv, OwnerInv, TypeInv
<1> USE JobFacts
<1> SUFFICES ASSUME NEW j \in Tasks, j = info[c].root
             PROVE  AbstractStep
  BY <1>1, RetryFacts
<1>2. /\ c \in Used /\ c \notin zset /\ Live(c) /\ c # None
      /\ info[c].max >= 2
      /\ info'[t].root = j
      /\ t \in Tasks /\ t \notin Used
      /\ \A u \in Used : u # t /\ info'[u] = info[u]
  BY <1>1, RetryFacts
<1>3. /\ pc[w] = "requeue" /\ zset' = zset \cup {t} /\ execs' = execs
      /\ cur' = cur /\ dlq' = dlq /\ pc' = [pc EXCEPT ![w] = "mark_retrying"]
      /\ info' = [info EXCEPT ![t] = info'[t]]
  BY DEF RetriesJob
<1>4. j \in Used /\ j \in Tasks /\ j # t /\ IsRoot(j)
  BY <1>1, <1>2 DEF BudgetInv, RootsUsed, IsRoot, Used
<1>5. /\ pc'[w] = "mark_retrying"
      /\ \A v \in Workers : v # w => pc'[v] = pc[v]
  BY <1>1, <1>3 DEF TypeOK
<1>6. \A r \in Tasks : IsRoot(r)' <=> IsRoot(r)
  <2>1. \A r \in Tasks : r # t => info'[r] = info[r]
    BY <1>1, <1>2, <1>3 DEF TypeOK
  <2>2. info[t] = None
    BY <1>2 DEF Used
  <2>3. QED
    BY <1>2, <1>4, <2>1, <2>2 DEF IsRoot
<1>7. ASSUME NEW r \in Tasks, r # j
      PROVE  JobPlace'[r] = JobPlace[r]
  <2>1. Waits(r)' <=> Waits(r)
    BY <1>1, <1>2, <1>3, <1>7 DEF Waits
  <2>2. IsRun(r)' <=> IsRun(r)
    <3>1. \A v \in Workers : Handles(v)' /\ info'[cur'[v]].root = r
                               <=> Handles(v) /\ info[cur[v]].root = r
      BY <1>1, <1>2, <1>3, <1>5, <1>7 DEF Handles
    <3>2. QED
      BY <3>1 DEF IsRun
  <2>3. IsDead(r)' <=> IsDead(r)
    BY <1>1, <1>2, <1>3 DEF IsDead
  <2>4. QED
    BY <1>6, <2>1, <2>2, <2>3, SamePlace
<1>8. JobPlace[j] = "running"
  <2>1. IsRun(j)
    BY <1>2, <1>3 DEF IsRun, Handles
  <2>2. QED
    BY <1>1, <1>4, <2>1, OnePlaceEach DEF JobPlace
<1>9. JobPlace'[j] = "waiting"
  <2>1. Waits(j)'
    BY <1>2, <1>3 DEF Waits
  <2>2. QED
    BY <1>4, <1>6, <2>1 DEF JobPlace
<1>10. execs[j] < JobBudget[j]
  <2>1. execs[j] + info[c].max <= info[j].max + 1
    BY <1>1, <1>2 DEF BudgetInv, LiveBudget
  <2>2. JobBudget[j] = info[j].max
    BY <1>4 DEF JobBudget
  <2>3. QED
    BY <1>1, <1>2, <2>1, <2>2
<1>11. JobBudget' = JobBudget
  <2>1. \A r \in Tasks : IsRoot(r) => info'[r] = info[r]
    BY <1>2 DEF IsRoot, Used
  <2>2. QED
    BY <1>6, <2>1 DEF JobBudget
<1>12. JobPlace' = [JobPlace EXCEPT ![j] = "waiting"]
  BY <1>4, <1>7, <1>9, OnlyOneMoves
<1>13. Abstract!Retry(j)
  BY <1>3, <1>8, <1>10, <1>11, <1>12 DEF Abstract!Retry, Abstract!Moves
<1>14. QED
  BY <1>4, <1>8, <1>9, <1>13, MoveIsStep DEF Abstract!JobStep, AbstractStep

LEMMA DeliversRefines ==
  ASSUME BudgetInv, NEW w \in Workers, NEW t \in Tasks, Delivers(w, t)
  PROVE  AbstractStep
<1>0. TypeOK
  BY DEF BudgetInv, CounterInv, OwnerInv, TypeInv
<1> USE JobFacts
<1> SUFFICES ASSUME NEW j \in Tasks, j = info[t].root
             PROVE  AbstractStep
  BY DEF Delivers
<1>1. /\ pc[w] = "idle" /\ t \in zset /\ zset' = zset \ {t} /\ info' = info
      /\ dlq' = dlq /\ execs' = [execs EXCEPT ![j] = @ + 1]
      /\ t \in Used /\ t # None /\ t \notin zset' /\ cur[w] = None
  BY DEF Delivers
<1>2. j \in Used /\ j \in Tasks /\ IsRoot(j)
  BY <1>1 DEF BudgetInv, RootsUsed, IsRoot, Used
<1>3. /\ pc'[w] = "exec" /\ cur'[w] = t
      /\ \A v \in Workers : v # w => pc'[v] = pc[v] /\ cur'[v] = cur[v]
  BY <1>0 DEF Delivers, TypeOK
<1>4. JobBudget' = JobBudget /\ \A r \in Tasks : IsRoot(r)' <=> IsRoot(r)
  BY <1>1, SameBudget
<1>5. ASSUME NEW r \in Tasks, r # j
      PROVE  JobPlace'[r] = JobPlace[r]
  <2>1. Waits(r)' <=> Waits(r)
    BY <1>1, <1>5 DEF Waits
  <2>2. IsRun(r)' <=> IsRun(r)
    BY <1>1, <1>3, <1>5 DEF IsRun, Handles
  <2>3. IsDead(r)' <=> IsDead(r)
    BY <1>1 DEF IsDead
  <2>4. QED
    BY <1>4, <2>1, <2>2, <2>3, SamePlace
<1>6. JobPlace[j] = "waiting"
  BY <1>1, <1>2 DEF JobPlace, Waits
<1>7. JobPlace'[j] = "running"
  <2>1. IsRun(j)'
    BY <1>1, <1>3 DEF IsRun, Handles
  <2>2. ~ Waits(j)'
    BY <1>1, <1>2, OnePlaceEach DEF Waits
  <2>3. QED
    BY <1>2, <1>4, <2>1, <2>2 DEF JobPlace
<1>8. execs[j] < JobBudget[j]
  <2>1. Live(t)
    BY <1>1 DEF Live
  <2>2. execs[j] + info[t].max <= info[j].max
    BY <1>1, <2>1 DEF BudgetInv, LiveBudget
  <2>3. JobBudget[j] = info[j].max
    BY <1>2 DEF JobBudget
  <2>4. QED
    BY <1>1, <2>2, <2>3
<1>9. JobPlace' = [JobPlace EXCEPT ![j] = "running"]
  BY <1>2, <1>5, <1>7, OnlyOneMoves
<1>10. Abstract!Deliver(j)
  BY <1>1, <1>4, <1>6, <1>8, <1>9 DEF Abstract!Deliver, Abstract!Moves
<1>11. QED
  BY <1>2, <1>6, <1>7, <1>10, MoveIsStep DEF Abstract!JobStep, AbstractStep

LEMMA LosesRefines ==
  ASSUME BudgetInv, NEW t \in zset, Loses(t)
  PROVE  AbstractStep
<1> USE JobFacts
<1> SUFFICES ASSUME NEW j \in Tasks, j = info[t].root
             PROVE  AbstractStep
  OBVIOUS
<1>1. /\ zset' = zset \ {t} /\ info' = info /\ execs' = execs /\ pc' = pc
      /\ cur' = cur /\ dlq' = dlq /\ t \in Used
  BY DEF Loses
<1>2. j \in Used /\ j \in Tasks /\ IsRoot(j)
  BY <1>1 DEF BudgetInv, RootsUsed, IsRoot, Used
<1>3. JobBudget' = JobBudget /\ \A r \in Tasks : IsRoot(r)' <=> IsRoot(r)
  BY <1>1, SameBudget
<1>4. \A r \in Tasks : (IsRun(r)' <=> IsRun(r)) /\ (IsDead(r)' <=> IsDead(r))
  BY <1>1 DEF IsRun, Handles, IsDead
<1>5. ASSUME NEW r \in Tasks, r # j
      PROVE  JobPlace'[r] = JobPlace[r]
  <2>1. Waits(r)' <=> Waits(r)
    BY <1>1, <1>5 DEF Waits
  <2>2. QED
    BY <1>3, <1>4, <2>1, SamePlace
<1>6. JobPlace[j] = "waiting" /\ JobPlace'[j] = "over"
  <2>1. Waits(j)
    BY DEF Waits
  <2>2. ~ Waits(j)' /\ ~ IsRun(j)' /\ ~ IsDead(j)'
    BY <1>1, <1>2, <1>4, <2>1, OnePlaceEach DEF Waits
  <2>3. QED
    BY <1>2, <1>3, <2>1, <2>2 DEF JobPlace
<1>7. JobPlace' = [JobPlace EXCEPT ![j] = "over"]
  BY <1>2, <1>5, <1>6, OnlyOneMoves
<1>8. Abstract!Drop(j)
  BY <1>1, <1>3, <1>6, <1>7 DEF Abstract!Drop, Abstract!Moves
<1>9. QED
  BY <1>2, <1>6, <1>8, MoveIsStep DEF Abstract!JobStep, AbstractStep

\* A worker that no longer handles its task changes no other job.
LEMMA LeavingFrame ==
  ASSUME BudgetInv, NEW w \in Workers, LetsGo(w) \/ Buries(w)
  PROVE  /\ cur[w] \in Used /\ info' = info /\ zset' = zset /\ execs' = execs
         /\ ~ Handles(w)'
         /\ \A v \in Workers : v # w => (Handles(v)' <=> Handles(v)) /\ cur'[v] = cur[v]
<1>1. /\ info' = info /\ zset' = zset /\ execs' = execs /\ pc[w] # "idle"
      /\ \A v \in Workers : v # w => pc'[v] = pc[v]
      /\ \/ cur' = [cur EXCEPT ![w] = None]
         \/ cur' = cur /\ pc'[w] = "mark_retrying"
  BY DEF LetsGo, Buries
<1>2. cur \in [Workers -> Used \cup {None}] /\ cur[w] # None
  BY <1>1 DEF BudgetInv, CounterInv, OwnerInv, TypeInv, TypeOK, IdleHasNoTask
<1>3. ~ Handles(w)' /\ \A v \in Workers : v # w => cur'[v] = cur[v]
  BY <1>1, <1>2 DEF Handles
<1>4. QED
  BY <1>1, <1>2, <1>3 DEF Handles

LEMMA LeavesRefines ==
  ASSUME JobsInv, NEW w \in Workers, LetsGo(w) \/ Buries(w)
  PROVE  AbstractStep
<1> DEFINE c == cur[w]
<1>0. BudgetInv
  BY DEF JobsInv
<1> SUFFICES ASSUME NEW j \in Tasks, j = info[c].root
             PROVE  AbstractStep
  BY <1>0, LeavingFrame, JobFacts
<1>1. /\ c \in Used /\ info' = info /\ zset' = zset /\ execs' = execs
      /\ ~ Handles(w)'
      /\ \A v \in Workers : v # w => (Handles(v)' <=> Handles(v)) /\ cur'[v] = cur[v]
  BY <1>0, LeavingFrame
<1>2. j \in Used /\ j \in Tasks /\ IsRoot(j) /\ c # None
  BY <1>0, <1>1, JobFacts DEF BudgetInv, RootsUsed, IsRoot, Used
<1>3. JobBudget' = JobBudget /\ \A r \in Tasks : IsRoot(r)' <=> IsRoot(r)
  BY <1>1, SameBudget
<1>4. \A r \in Tasks : Waits(r)' <=> Waits(r)
  BY <1>1 DEF Waits
<1>5. \/ dlq' = dlq
      \/ dlq' = dlq \cup {c} /\ pc[w] = "bury"
  BY DEF LetsGo, Buries
<1>6. CASE ~ Handles(w)
  <2>1. dlq' = dlq
    BY <1>2, <1>5, <1>6 DEF Handles
  <2>2. \A r \in Tasks : (IsRun(r)' <=> IsRun(r)) /\ (IsDead(r)' <=> IsDead(r))
    BY <1>1, <1>6, <2>1 DEF IsRun, IsDead
  <2>3. JobPlace' = JobPlace
    BY <1>3, <1>4, <2>2, SamePlace, NobodyMoves
  <2>4. QED
    BY <1>1, <1>3, <2>3 DEF AbstractStep
<1>7. CASE Handles(w)
  <2>1. ASSUME NEW r \in Tasks, r # j
        PROVE  JobPlace'[r] = JobPlace[r]
    <3>1. IsRun(r)' <=> IsRun(r)
      BY <1>1, <2>1 DEF IsRun
    <3>2. IsDead(r)' <=> IsDead(r)
      BY <1>1, <1>5, <2>1 DEF IsDead
    <3>3. QED
      BY <1>3, <1>4, <3>1, <3>2, SamePlace
  <2>2. IsRun(j) /\ ~ Waits(j) /\ ~ IsDead(j)
    BY <1>0, <1>2, <1>7, OnePlaceEach DEF IsRun
  <2>3. ~ IsRun(j)'
    BY <1>0, <1>1, <1>2, <1>7, OnePlaceEach DEF IsRun
  <2>4. JobPlace[j] = "running"
    BY <1>2, <2>2 DEF JobPlace
  <2>5. CASE dlq' = dlq
    <3>1. ~ IsDead(j)'
      BY <1>1, <2>2, <2>5 DEF IsDead
    <3>2. JobPlace'[j] = "over"
      BY <1>2, <1>3, <1>4, <2>2, <2>3, <3>1 DEF JobPlace
    <3>3. JobPlace' = [JobPlace EXCEPT ![j] = "over"]
      BY <1>2, <2>1, <3>2, OnlyOneMoves
    <3>4. Abstract!Finish(j)
      BY <1>1, <1>3, <2>4, <3>3 DEF Abstract!Finish, Abstract!Moves
    <3>5. QED
      BY <1>2, <2>4, <3>2, <3>4, MoveIsStep DEF Abstract!JobStep, AbstractStep
  <2>6. CASE dlq' = dlq \cup {c} /\ pc[w] = "bury"
    <3>1. IsDead(j)'
      BY <1>1, <2>6 DEF IsDead
    <3>2. JobPlace'[j] = "dead"
      BY <1>2, <1>3, <1>4, <2>2, <2>3, <3>1 DEF JobPlace
    <3>3. JobPlace' = [JobPlace EXCEPT ![j] = "dead"]
      BY <1>2, <2>1, <3>2, OnlyOneMoves
    <3>4. Live(c) /\ c \notin zset /\ info[c].max = 1
      BY <1>0, <1>2, <2>6
         DEF Live, JobsInv, LastAttempt, BudgetInv, CounterInv, OwnerInv, SingleOwner
    <3>5. execs[j] + 1 >= info[j].max + 1 /\ execs[j] + 1 <= info[j].max + 1
      BY <1>0, <1>1, <3>4 DEF JobsInv, NothingLost, BudgetInv, LiveBudget
    <3>6. execs[j] = JobBudget[j]
      BY <1>0, <1>1, <1>2, <3>5, JobFacts DEF JobBudget
    <3>7. Abstract!Bury(j)
      BY <1>1, <1>3, <2>4, <3>3, <3>6 DEF Abstract!Bury, Abstract!Moves
    <3>8. QED
      BY <1>2, <2>4, <3>2, <3>7, MoveIsStep DEF Abstract!JobStep, AbstractStep
  <2>7. QED
    BY <1>5, <2>5, <2>6
<1>8. QED
  BY <1>6, <1>7

LEMMA DiscardsRefines ==
  ASSUME BudgetInv, NEW t \in Tasks, Discards(t)
  PROVE  AbstractStep
<1> USE JobFacts
<1>1. /\ dlq' = dlq \ {t} /\ info' = info /\ zset' = zset /\ execs' = execs
      /\ pc' = pc /\ cur' = cur
  BY DEF Discards
<1>2. JobBudget' = JobBudget /\ \A r \in Tasks : IsRoot(r)' <=> IsRoot(r)
  BY <1>1, SameBudget
<1>3. \A r \in Tasks : (Waits(r)' <=> Waits(r)) /\ (IsRun(r)' <=> IsRun(r))
  BY <1>1 DEF Waits, IsRun, Handles
<1>4. ASSUME NEW r \in Tasks, t \notin dlq \/ r # info[t].root
      PROVE  JobPlace'[r] = JobPlace[r]
  <2>1. IsDead(r)' <=> IsDead(r)
    BY <1>1, <1>4 DEF IsDead
  <2>2. QED
    BY <1>2, <1>3, <2>1, SamePlace
<1>5. CASE JobPlace' = JobPlace
  BY <1>1, <1>2, <1>5 DEF AbstractStep
<1>6. CASE JobPlace' # JobPlace
  <2>1. t \in dlq /\ t \in Used
    BY <1>4, <1>6, NobodyMoves
  <2> SUFFICES ASSUME NEW j \in Tasks, j = info[t].root
               PROVE  AbstractStep
    BY <2>1
  <2>2. j \in Used /\ j \in Tasks /\ IsRoot(j)
    BY <2>1 DEF BudgetInv, RootsUsed, IsRoot, Used
  <2>3. IsDead(j) /\ ~ Waits(j) /\ ~ IsRun(j)
    BY <2>1, <2>2, OnePlaceEach DEF IsDead
  <2>4. JobPlace[j] = "dead"
    BY <2>2, <2>3 DEF JobPlace
  <2>5. JobPlace'[j] # JobPlace[j]
    BY <1>4, <1>6, NobodyMoves
  <2>6. JobPlace'[j] = "over"
    BY <1>2, <1>3, <2>2, <2>3, <2>4, <2>5 DEF JobPlace
  <2>7. JobPlace' = [JobPlace EXCEPT ![j] = "over"]
    BY <1>4, <2>2, <2>6, OnlyOneMoves
  <2>8. Abstract!Discard(j)
    BY <1>1, <1>2, <2>4, <2>7 DEF Abstract!Discard, Abstract!Moves
  <2>9. QED
    BY <2>2, <2>5, <2>8, MoveIsStep DEF Abstract!JobStep, AbstractStep
<1>7. QED
  BY <1>5, <1>6

LEMMA WorksRefines ==
  ASSUME TypeOK, Works
  PROVE  AbstractStep
<1>1. /\ info' = info /\ zset' = zset /\ execs' = execs /\ dlq' = dlq
      /\ \A w \in Workers : Handles(w)' <=> Handles(w)
  BY DEF Works, Handles
<1>2. cur' = cur
  BY DEF Works
<1>3. JobBudget' = JobBudget /\ \A r \in Tasks : IsRoot(r)' <=> IsRoot(r)
  BY <1>1, SameBudget
<1>4. \A r \in Tasks : /\ Waits(r)' <=> Waits(r)
                       /\ IsRun(r)' <=> IsRun(r)
                       /\ IsDead(r)' <=> IsDead(r)
  BY <1>1, <1>2 DEF Waits, IsRun, IsDead
<1>5. JobPlace' = JobPlace
  BY <1>3, <1>4, SamePlace, NobodyMoves
<1>6. QED
  BY <1>1, <1>3, <1>5 DEF AbstractStep

LEMMA InitRefines == Init => Abstract!JobInit
<1> SUFFICES ASSUME Init PROVE Abstract!JobInit
  OBVIOUS
<1>1. \A r \in Tasks : ~ IsRoot(r)
  BY DEF Init, IsRoot
<1>2. JobPlace = [r \in Tasks |-> "none"]
  BY <1>1 DEF JobPlace
<1>3. JobBudget = [r \in Tasks |-> 0]
  BY <1>1 DEF JobBudget
<1>4. QED
  BY <1>2, <1>3 DEF Init, Abstract!JobInit

LEMMA NextRefines == JobsInv /\ [Next]_vars => [Abstract!JobNext]_(Abstract!jobVars)
<1> SUFFICES ASSUME JobsInv, [Next]_vars PROVE AbstractStep
  BY DEF AbstractStep, Abstract!jobVars
<1>1. BudgetInv /\ TypeInv /\ TypeOK /\ TypeOK'
  BY NextTypeInv DEF JobsInv, BudgetInv, CounterInv, OwnerInv, TypeInv
<1>2. JobMove
  BY <1>1, JobMoves
<1>3. QED
  BY <1>1, <1>2, StartsJobRefines, RetriesJobRefines, DeliversRefines,
     LosesRefines, LeavesRefines, DiscardsRefines, WorksRefines
     DEF JobMove

\* The Redis queue implements JobQueue: over all the retries, crashes, expiries
\* and requeues of QueueManager, QueueWorker and DeadLetterQueue a job is in one
\* place, is delivered at most as often as it has attempts, is a dead letter
\* only when they are used up, and never comes back from there.
THEOREM QueueImplementsJobs == Spec => ImplementsJobQueue
<1>1. Init => JobsInv /\ Abstract!JobInit
  BY InitJobsInv, InitRefines
<1>2. JobsInv /\ [Next]_vars => JobsInv' /\ [Abstract!JobNext]_(Abstract!jobVars)
  BY NextJobsInv, NextRefines
<1>3. QED
  BY <1>1, <1>2, PTL DEF Spec, ImplementsJobQueue, Abstract!JobSpec
=============================================================================
