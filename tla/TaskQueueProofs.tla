--------------------------- MODULE TaskQueueProofs ---------------------------
(***************************************************************************)
(* Proofs about TaskQueue, for any sets of tasks, workers and operators and *)
(* any limits.                                                              *)
(***************************************************************************)
EXTENDS TaskQueue, TLAPS

\* A worker has a task exactly while it is not idle.
IdleHasNoTask == \A w \in Workers : pc[w] = "idle" <=> cur[w] = None

\* The typing invariant, inductive once a busy worker is known to hold a task.
TypeInv == TypeOK /\ IdleHasNoTask

-----------------------------------------------------------------------------
(* Helpers *)

LEMMA PromoteType == \A l \in Levels : Promote(l) \in Levels
  BY QueueAssumption DEF Promote, Levels

LEMMA RetryBudgetType == \A m \in Attempts : RetryBudget(m) \in Attempts
  BY QueueAssumption DEF RetryBudget, OrDefault, Attempts

LEMMA NewRootType ==
  ASSUME NEW t \in Tasks, NEW l \in Levels, NEW m \in Attempts
  PROVE  NewRoot(t, l, m) \in TaskInfo
  BY DEF NewRoot, TaskInfo

\* The enqueue script keeps the types of what it writes, and adds one id.
LEMMA EnqueueType ==
  ASSUME TypeOK, NEW t \in Fresh, NEW i \in TaskInfo,
         NEW s \in {"none", "future", "past"}, EnqueueScript(t, i, s)
  PROVE  /\ info' \in [Tasks -> TaskInfo \cup {None}]
         /\ sched' \in [Tasks -> {"none", "future", "past"}]
         /\ Used' = Used \cup {t}
         /\ t \notin Used
         /\ zset' \subseteq Used'
         /\ listLen' \in Nat
         /\ stored' \subseteq Used'
         /\ status' \in [Tasks -> [st : StatusNames, att : Nat]]
<1>1. t \in Tasks /\ t \notin Used
  BY DEF Fresh
<1>2. info' = [info EXCEPT ![t] = i] /\ info' \in [Tasks -> TaskInfo \cup {None}]
  BY <1>1 DEF EnqueueScript, TypeOK
<1>3. Used' = Used \cup {t}
  BY <1>1, <1>2, NoneAssumption DEF Used, TypeOK
<1>4. [st |-> "queued", att |-> 0] \in [st : StatusNames, att : Nat]
  BY DEF StatusNames
<1>5. QED
  BY <1>1, <1>2, <1>3, <1>4 DEF EnqueueScript, TypeOK

LEMMA CompleteType ==
  ASSUME TypeOK, NEW t, NEW s \in StatusNames, CompleteScript(t, s)
  PROVE  status' \in [Tasks -> [st : StatusNames, att : Nat]]
  BY DEF CompleteScript, TypeOK

\* GoTo and Release keep pc and cur typed, and a worker busy exactly while it
\* has a task.
LEMMA WorkerType ==
  ASSUME TypeInv, Used' = Used, NEW w \in Workers, NEW l \in WorkerLabels \ {"idle"},
         pc[w] # "idle",
         GoTo(w, l) \/ Release(w)
  PROVE  /\ pc' \in [Workers -> WorkerLabels]
         /\ cur' \in [Workers -> Used' \cup {None}]
         /\ IdleHasNoTask'
<1>1. CASE GoTo(w, l)
  BY <1>1 DEF GoTo, TypeInv, TypeOK, IdleHasNoTask
<1>2. CASE Release(w)
  BY <1>2 DEF Release, TypeInv, TypeOK, IdleHasNoTask, WorkerLabels
<1>3. QED
  BY <1>1, <1>2

-----------------------------------------------------------------------------
(* Type correctness *)

LEMMA InitTypeInv == Init => TypeInv
<1> SUFFICES ASSUME Init PROVE TypeInv
  OBVIOUS
<1>1. Used = {}
  BY DEF Init, Used
<1>2. NoStatus \in [st : StatusNames, att : Nat]
  BY DEF NoStatus, StatusNames
<1>3. QED
  BY <1>1, <1>2, QueueAssumption
     DEF Init, TypeInv, TypeOK, IdleHasNoTask, WorkerLabels, OpIdle

LEMMA NextTypeInv == TypeInv /\ [Next]_vars => TypeInv'
<1> SUFFICES ASSUME TypeInv, [Next]_vars PROVE TypeInv'
  OBVIOUS
<1>a. UNCHANGED info => Used' = Used
  BY DEF Used
<1>b. TypeOK
  BY DEF TypeInv
<1>1. ASSUME NEW t \in Tasks, NEW l \in Levels, NEW m \in 1..MaxAttempts,
             NEW s \in {"none", "future"}, EnqueueTask(t, l, m, s)
      PROVE  TypeInv'
  <2>1. m \in Attempts
    BY QueueAssumption DEF Attempts
  <2>2. t \in Fresh /\ EnqueueScript(t, NewRoot(t, l, m), s)
    BY <1>1 DEF EnqueueTask
  <2>3. NewRoot(t, l, m) \in TaskInfo
    BY <2>1, NewRootType
  <2>4. QED
    BY <1>1, <1>b, <2>2, <2>3, EnqueueType
       DEF EnqueueTask, TypeInv, TypeOK, IdleHasNoTask, workerVars
<1>2. ASSUME NEW t \in Tasks, CancelTask(t)
      PROVE  TypeInv'
  BY <1>2, <1>a, <1>b, CompleteType
     DEF CancelTask, TypeInv, TypeOK, IdleHasNoTask, queueVars, workerVars,
         StatusNames
<1>3. ASSUME NEW w \in Workers, NEW t \in Tasks, DequeueTask(w, t)
      PROVE  TypeInv'
  <2>1. t \in zset /\ t \in Used /\ info[t] \in TaskInfo /\ Used' = Used
    BY <1>3, <1>a DEF DequeueTask, Highest, TypeInv, TypeOK, Used
  <2>2. zset' \subseteq Used'
    BY <1>3, <2>1 DEF DequeueTask, Pop, TypeInv, TypeOK
  <2>3. status' \in [Tasks -> [st : StatusNames, att : Nat]]
    BY <1>3 DEF DequeueTask, TypeInv, TypeOK, StatusNames
  <2>4. info[t].root \in Tasks
    BY <2>1 DEF TaskInfo
  <2>5. /\ pc' \in [Workers -> WorkerLabels]
        /\ cur' \in [Workers -> Used' \cup {None}]
        /\ execs' \in [Tasks -> Nat]
        /\ IdleHasNoTask'
    BY <1>3, <2>1, <2>4, QueueAssumption
       DEF DequeueTask, TypeInv, TypeOK, IdleHasNoTask, WorkerLabels, workerVars
  <2>6. QED
    BY <1>3, <2>1, <2>2, <2>3, <2>5 DEF DequeueTask, TypeInv, TypeOK
<1>4. ASSUME NEW w \in Workers, HandlerReturns(w) \/ HandlerFails(w)
      PROVE  TypeInv'
  BY <1>4, <1>a, WorkerType
     DEF HandlerReturns, HandlerFails, TypeInv, TypeOK, queueVars, WorkerLabels
<1>5. ASSUME NEW w \in Workers, CompleteTask(w)
      PROVE  TypeInv'
  BY <1>5, <1>a, <1>b, WorkerType, CompleteType
     DEF CompleteTask, TypeInv, TypeOK, queueVars, WorkerLabels, StatusNames
<1>6. ASSUME NEW w \in Workers,
             \/ HandleTaskFailure(w) \/ FailTaskReadsData(w)
             \/ FailTaskReadsStatus(w) \/ RetryTaskNoData(w) \/ WorkerCrash(w)
      PROVE  TypeInv'
  BY <1>6, <1>a, WorkerType
     DEF HandleTaskFailure, FailTaskReadsData, FailTaskReadsStatus,
         RetryTaskNoData, WorkerCrash, TypeInv, TypeOK, queueVars, WorkerLabels
<1>7. ASSUME NEW w \in Workers, RetryTask(w)
      PROVE  TypeInv'
  <2>1. cur[w] \in Used /\ cur[w] \in Tasks /\ info[cur[w]] \in TaskInfo
    BY <1>7 DEF RetryTask, TypeInv, TypeOK, IdleHasNoTask, Used
  <2>2. CASE UNCHANGED <<queueVars, status>> /\ Release(w)
    BY <1>7, <2>2, <1>a, WorkerType
       DEF RetryTask, TypeInv, TypeOK, queueVars, WorkerLabels
  <2> DEFINE i == [level |-> Promote(info[cur[w]].level),
                   max |-> RetryBudget(info[cur[w]].max),
                   root |-> info[cur[w]].root,
                   from |-> None]
  <2>3. i \in TaskInfo
    <3>1. info[cur[w]].level \in Levels /\ info[cur[w]].max \in Attempts
          /\ info[cur[w]].root \in Tasks
      BY <2>1 DEF TaskInfo
    <3>2. QED
      BY <2>1, <3>1, PromoteType, RetryBudgetType DEF TaskInfo
  <2>4. ASSUME NEW t \in Fresh, EnqueueScript(t, i, "future"),
               GoTo(w, "mark_retrying")
        PROVE  TypeInv'
    <3> HIDE DEF i
    <3>1. /\ info' \in [Tasks -> TaskInfo \cup {None}]
          /\ sched' \in [Tasks -> {"none", "future", "past"}]
          /\ Used' = Used \cup {t}
          /\ zset' \subseteq Used'
          /\ listLen' \in Nat
          /\ stored' \subseteq Used'
          /\ status' \in [Tasks -> [st : StatusNames, att : Nat]]
      BY <1>b, <2>3, <2>4, EnqueueType
    <3>2. /\ pc' \in [Workers -> WorkerLabels]
          /\ cur' \in [Workers -> Used' \cup {None}]
          /\ IdleHasNoTask'
      BY <1>7, <2>4, <3>1
         DEF RetryTask, GoTo, TypeInv, TypeOK, IdleHasNoTask, WorkerLabels
    <3>3. QED
      BY <1>7, <3>1, <3>2 DEF RetryTask, TypeInv, TypeOK
  <2>5. QED
    BY <1>7, <2>2, <2>4 DEF RetryTask
<1>8. ASSUME NEW w \in Workers, MarkRetrying(w)
      PROVE  TypeInv'
  BY <1>8, <1>a, <1>b, WorkerType, CompleteType
     DEF MarkRetrying, TypeInv, TypeOK, queueVars, WorkerLabels, StatusNames
<1>9. ASSUME NEW w \in Workers, AddDeadLetter(w)
      PROVE  TypeInv'
  <2>1. cur[w] \in Used
    BY <1>9 DEF AddDeadLetter, TypeInv, TypeOK, IdleHasNoTask
  <2>2. QED
    BY <1>9, <1>a, <2>1, WorkerType
       DEF AddDeadLetter, TypeInv, TypeOK, queueVars, WorkerLabels
<1>10. ASSUME NEW o \in Operators, NEW t \in Tasks, ReadDeadLetter(o, t)
       PROVE  TypeInv'
  BY <1>10, <1>a
     DEF ReadDeadLetter, TypeInv, TypeOK, IdleHasNoTask, queueVars, workerVars
<1>11. ASSUME NEW o \in Operators, RequeueDeadLetter(o)
       PROVE  TypeInv'
  <2>1. op[o].task \in Tasks \cup {None}
    BY DEF TypeInv, TypeOK
  <2>2. op' \in [Operators -> [at : {"idle", "enqueue", "remove"},
                              task : Tasks \cup {None}]]
    BY <1>11 DEF RequeueDeadLetter, AbandonRequeue, OpIdle, TypeInv, TypeOK
  <2>3. CASE UNCHANGED <<queueVars, status>>
    BY <1>11, <1>a, <2>2, <2>3
       DEF RequeueDeadLetter, TypeInv, TypeOK, IdleHasNoTask, queueVars,
           workerVars
  <2>4. ASSUME NEW t \in Fresh,
               EnqueueScript(t, [NewRoot(t, NormalLevel, DefaultAttempts)
                                   EXCEPT !.from = op[o].task], "none")
        PROVE  TypeInv'
    <3>1. [NewRoot(t, NormalLevel, DefaultAttempts)
             EXCEPT !.from = op[o].task] \in TaskInfo
      <4>1. t \in Tasks
        BY DEF Fresh
      <4>2. NormalLevel \in Levels /\ DefaultAttempts \in Attempts
        BY QueueAssumption DEF Levels, Attempts
      <4>3. NewRoot(t, NormalLevel, DefaultAttempts) \in TaskInfo
        BY <4>1, <4>2, NewRootType
      <4>4. QED
        BY <2>1, <4>3 DEF TaskInfo
    <3>2. /\ info' \in [Tasks -> TaskInfo \cup {None}]
          /\ sched' \in [Tasks -> {"none", "future", "past"}]
          /\ Used' = Used \cup {t}
          /\ zset' \subseteq Used'
          /\ listLen' \in Nat
          /\ stored' \subseteq Used'
          /\ status' \in [Tasks -> [st : StatusNames, att : Nat]]
      BY <1>b, <2>4, <3>1, EnqueueType
    <3>3. QED
      BY <1>11, <2>2, <3>2
         DEF RequeueDeadLetter, TypeInv, TypeOK, IdleHasNoTask, workerVars
  <2>5. QED
    BY <1>11, <2>3, <2>4 DEF RequeueDeadLetter
<1>12. ASSUME NEW o \in Operators, RemoveDeadLetter(o) \/ OperatorCrash(o)
       PROVE  TypeInv'
  BY <1>12, <1>a
     DEF RemoveDeadLetter, OperatorCrash, OpIdle, TypeInv, TypeOK,
         IdleHasNoTask, queueVars, workerVars
<1>13. ASSUME NEW t \in Tasks, DelayElapses(t)
       PROVE  TypeInv'
  BY <1>13, <1>a DEF DelayElapses, TypeInv, TypeOK, IdleHasNoTask, workerVars
<1>14. ASSUME NEW t \in Tasks,
              \/ TaskExpires(t) \/ CleanupDeletesTask(t)
              \/ DeadLetterExpires(t)
       PROVE  TypeInv'
  <2>1. NoStatus \in [st : StatusNames, att : Nat]
    BY DEF NoStatus, StatusNames
  <2>2. CASE TaskExpires(t)
    BY <2>1, <2>2, <1>a
       DEF TaskExpires, TypeInv, TypeOK, IdleHasNoTask, workerVars
  <2>3. CASE CleanupDeletesTask(t)
    BY <2>3, <1>a
       DEF CleanupDeletesTask, TypeInv, TypeOK, IdleHasNoTask, workerVars
  <2>4. CASE DeadLetterExpires(t)
    BY <2>4, <1>a
       DEF DeadLetterExpires, TypeInv, TypeOK, IdleHasNoTask, queueVars,
           workerVars
  <2>5. QED
    BY <1>14, <2>2, <2>3, <2>4
<1>15. CASE ListExpires \/ CleanupDeletesStatus
  BY <1>15, <1>a
     DEF ListExpires, CleanupDeletesStatus, TypeInv, TypeOK, IdleHasNoTask,
         queueVars, workerVars, NoStatus, StatusNames
<1>16. CASE UNCHANGED vars
  BY <1>16, <1>a
     DEF vars, queueVars, workerVars, TypeInv, TypeOK, IdleHasNoTask
<1>17. QED
  BY <1>1, <1>2, <1>3, <1>4, <1>5, <1>6, <1>7, <1>8, <1>9, <1>10, <1>11,
     <1>12, <1>13, <1>14, <1>15, <1>16
     DEF Next, WorkerStep, OperatorStep, Environment

\* Every variable keeps its type, for any number of tasks, workers and
\* operators and any limits.
THEOREM TypeCorrect == Spec => []TypeOK
<1>1. Spec => []TypeInv
  BY InitTypeInv, NextTypeInv, PTL DEF Spec
<1>2. TypeInv => TypeOK
  BY DEF TypeInv
<1>3. QED
  BY <1>1, <1>2, PTL

-----------------------------------------------------------------------------
(* Exclusive delivery *)

\* What a step may do to the sorted set and to the tasks in hand: an id enters
\* the set only when it is new, and a worker takes a task only out of it.
LEMMA Handover ==
  TypeInv /\ [Next]_vars =>
    /\ zset' \cap Used \subseteq zset
    /\ \A w \in Workers :
         \/ cur'[w] = None
         \/ cur'[w] = cur[w] /\ (cur[w] \in zset' => cur[w] \in zset)
         \/ /\ cur'[w] \in zset \ zset'
            /\ \A v \in Workers \ {w} : cur'[v] = cur[v]
<1> SUFFICES ASSUME TypeInv, [Next]_vars
             PROVE  /\ zset' \cap Used \subseteq zset
                    /\ \A w \in Workers :
                         \/ cur'[w] = None
                         \/ cur'[w] = cur[w]
                         \/ /\ cur'[w] \in zset \ zset'
                            /\ \A v \in Workers \ {w} : cur'[v] = cur[v]
  BY DEF TypeInv, TypeOK
<1> USE DEF TypeInv, TypeOK
<1>1. ASSUME NEW t \in Tasks, NEW l \in Levels, NEW m \in 1..MaxAttempts,
             NEW s \in {"none", "future"}, EnqueueTask(t, l, m, s)
      PROVE  zset' \cap Used \subseteq zset /\ cur' = cur
  BY <1>1 DEF EnqueueTask, EnqueueScript, Fresh, workerVars
<1>2. ASSUME NEW w \in Workers, NEW t \in Tasks, DequeueTask(w, t)
      PROVE  /\ zset' \subseteq zset
             /\ \/ cur' = cur
                \/ cur' = [cur EXCEPT ![w] = t] /\ t \in zset \ zset'
  BY <1>2 DEF DequeueTask, Highest, Pop, workerVars
<1>3. ASSUME NEW w \in Workers,
             \/ HandlerReturns(w) \/ HandlerFails(w) \/ CompleteTask(w)
             \/ HandleTaskFailure(w) \/ FailTaskReadsData(w)
             \/ FailTaskReadsStatus(w) \/ RetryTask(w) \/ RetryTaskNoData(w)
             \/ MarkRetrying(w) \/ AddDeadLetter(w) \/ WorkerCrash(w)
      PROVE  /\ zset' \cap Used \subseteq zset
             /\ cur' = cur \/ cur' = [cur EXCEPT ![w] = None]
  BY <1>3
     DEF HandlerReturns, HandlerFails, CompleteTask, HandleTaskFailure,
         FailTaskReadsData, FailTaskReadsStatus, RetryTask, RetryTaskNoData,
         MarkRetrying, AddDeadLetter, WorkerCrash, EnqueueScript, Fresh, GoTo,
         Release, queueVars
<1>4. ASSUME NEW o \in Operators,
             \/ \E t \in Tasks : ReadDeadLetter(o, t)
             \/ RequeueDeadLetter(o) \/ RemoveDeadLetter(o) \/ OperatorCrash(o)
      PROVE  zset' \cap Used \subseteq zset /\ cur' = cur
  BY <1>4
     DEF ReadDeadLetter, RequeueDeadLetter, RemoveDeadLetter, OperatorCrash,
         EnqueueScript, Fresh, queueVars, workerVars
<1>5. ASSUME \/ \E t \in Tasks : \/ CancelTask(t) \/ DelayElapses(t)
                                  \/ TaskExpires(t) \/ CleanupDeletesTask(t)
                                  \/ DeadLetterExpires(t)
             \/ ListExpires \/ CleanupDeletesStatus \/ UNCHANGED vars
      PROVE  zset' = zset /\ cur' = cur
  BY <1>5
     DEF CancelTask, DelayElapses, TaskExpires, CleanupDeletesTask,
         DeadLetterExpires, ListExpires, CleanupDeletesStatus, vars, queueVars,
         workerVars
<1>6. QED
  BY <1>1, <1>2, <1>3, <1>4, <1>5
     DEF Next, WorkerStep, OperatorStep, Environment

OwnerInv == TypeInv /\ SingleOwner

LEMMA NextOwnerInv == OwnerInv /\ [Next]_vars => OwnerInv'
<1> SUFFICES ASSUME OwnerInv, [Next]_vars PROVE SingleOwner'
  BY NextTypeInv DEF OwnerInv
<1>1. /\ zset' \cap Used \subseteq zset
      /\ \A w \in Workers :
           \/ cur'[w] = None
           \/ cur'[w] = cur[w] /\ (cur[w] \in zset' => cur[w] \in zset)
           \/ /\ cur'[w] \in zset \ zset'
              /\ \A v \in Workers \ {w} : cur'[v] = cur[v]
  BY Handover DEF OwnerInv
<1> SUFFICES ASSUME NEW w \in Workers, cur'[w] # None
             PROVE  /\ cur'[w] \notin zset'
                    /\ \A v \in Workers : cur'[v] = cur'[w] => v = w
  BY DEF SingleOwner
<1>2. cur'[w] \notin zset'
  BY <1>1 DEF OwnerInv, SingleOwner
<1>3. ASSUME NEW v \in Workers, cur'[v] = cur'[w], v # w
      PROVE  FALSE
  BY <1>1, <1>3 DEF OwnerInv, SingleOwner
<1>4. QED
  BY <1>2, <1>3

\* No task is ever with two workers, nor with a worker and in the sorted set.
THEOREM ExclusiveDelivery == Spec => []SingleOwner
<1>1. Init => OwnerInv
  BY InitTypeInv DEF OwnerInv, SingleOwner, Init
<1>2. Spec => []OwnerInv
  BY <1>1, NextOwnerInv, PTL DEF Spec
<1>3. OwnerInv => SingleOwner
  BY DEF OwnerInv
<1>4. QED
  BY <1>2, <1>3, PTL

-----------------------------------------------------------------------------
(* The attempts counter *)

\* While a worker is about to retry its task, the counter is below the limit.
RetryAllowed ==
  \A w \in Workers :
    pc[w] \in {"fail_task", "fail_status", "requeue"}
      => status[cur[w]].att < info[cur[w]].max

\* A stored task that has left the sorted set has been counted, and what
\* cleanup_expired_tasks is deleting is no longer stored.
CountedWhenDelivered ==
  /\ \A t \in stored \ zset : status[t].att >= 1
  /\ cleaning # None => cleaning \in Used \ stored

CounterInv == OwnerInv /\ RetryAllowed /\ CountedWhenDelivered /\ FailTaskRetries

\* What a step does to the record of a task that exists: its data stays, and
\* its attempts change by a delivery, or to 0 when the hash goes.
RecordStep ==
  /\ stored' \ Used \subseteq zset'
  /\ cleaning' = cleaning \/ cleaning' = None \/ cleaning' \in stored \ stored'
  /\ \A t \in Used :
       /\ info'[t] = info[t]
       /\ t \in stored' => t \in stored
       /\ t \in zset \ zset' => status'[t].att = status[t].att + 1
       /\ t \notin zset \ zset' =>
            \/ status'[t].att = status[t].att
            \/ status'[t].att = 0 /\ (t \notin stored' \/ t = cleaning)

LEMMA RecordsKept ==
  ASSUME TypeOK, info' = info, stored' = stored, zset' = zset,
         cleaning' = cleaning, \A t \in Used : status'[t].att = status[t].att
  PROVE  RecordStep
  BY DEF RecordStep, TypeOK

LEMMA RecordAdded ==
  ASSUME TypeOK, NEW u \in Fresh, NEW i, NEW s, EnqueueScript(u, i, s),
         cleaning' = cleaning
  PROVE  RecordStep
<1>1. u \in Tasks /\ u \notin Used
  BY DEF Fresh
<1>2. \A t \in Used : t \in Tasks /\ t # u
  BY <1>1 DEF Used
<1>3. \A t \in Used : info'[t] = info[t] /\ status'[t] = status[t]
  BY <1>1, <1>2 DEF EnqueueScript, TypeOK
<1>4. QED
  BY <1>1, <1>3 DEF RecordStep, EnqueueScript, TypeOK

LEMMA RecordFrame == TypeInv /\ [Next]_vars => RecordStep
<1> SUFFICES ASSUME TypeInv, [Next]_vars PROVE RecordStep
  OBVIOUS
<1>a. TypeOK
  BY DEF TypeInv
<1>b. \A t \in Used : t \in Tasks /\ status[t].att \in Nat
  BY <1>a DEF Used, TypeOK
<1>c. \A x : \A t \in Tasks :
        CompleteScript(t, x) => \A u \in Used : status'[u].att = status[u].att
  BY <1>a, <1>b DEF CompleteScript, TypeOK
<1>1. ASSUME NEW t \in Tasks, NEW l \in Levels, NEW m \in 1..MaxAttempts,
             NEW s \in {"none", "future"}, EnqueueTask(t, l, m, s)
      PROVE  RecordStep
  BY <1>1, <1>a, RecordAdded DEF EnqueueTask
<1>2. ASSUME NEW w \in Workers, NEW t \in Tasks, DequeueTask(w, t)
      PROVE  RecordStep
  <2>1. t \in zset /\ zset' = zset \ {t}
    BY <1>2 DEF DequeueTask, Highest, Pop
  <2>2. status' = [status EXCEPT ![t] = [st |-> "running", att |-> @.att + 1]]
    BY <1>2 DEF DequeueTask
  <2>3. status'[t].att = status[t].att + 1
    BY <1>a, <2>2 DEF TypeOK
  <2>4. \A u \in Used : u # t => status'[u] = status[u]
    BY <1>a, <1>b, <2>2 DEF TypeOK
  <2>5. QED
    BY <1>2, <1>a, <2>1, <2>3, <2>4 DEF DequeueTask, RecordStep, TypeOK
<1>3. ASSUME NEW w \in Workers,
             \/ HandlerReturns(w) \/ HandlerFails(w)
             \/ HandleTaskFailure(w) \/ FailTaskReadsData(w)
             \/ FailTaskReadsStatus(w) \/ RetryTaskNoData(w)
             \/ AddDeadLetter(w) \/ WorkerCrash(w)
      PROVE  RecordStep
  BY <1>3, <1>a, RecordsKept
     DEF HandlerReturns, HandlerFails, HandleTaskFailure, FailTaskReadsData,
         FailTaskReadsStatus, RetryTaskNoData, AddDeadLetter, WorkerCrash,
         queueVars
<1>4. ASSUME NEW w \in Workers, CompleteTask(w) \/ MarkRetrying(w)
      PROVE  RecordStep
  <2>1. cur[w] \in Tasks
    BY <1>4, <1>a DEF CompleteTask, MarkRetrying, TypeInv, TypeOK, IdleHasNoTask, Used
  <2>2. QED
    BY <1>4, <1>a, <1>c, <2>1, RecordsKept DEF CompleteTask, MarkRetrying, queueVars
<1>5. ASSUME NEW w \in Workers, RetryTask(w)
      PROVE  RecordStep
  BY <1>5, <1>a, RecordAdded, RecordsKept DEF RetryTask, queueVars
<1>6. ASSUME NEW o \in Operators,
             \/ \E t \in Tasks : ReadDeadLetter(o, t)
             \/ RemoveDeadLetter(o) \/ OperatorCrash(o)
      PROVE  RecordStep
  BY <1>6, <1>a, RecordsKept
     DEF ReadDeadLetter, RemoveDeadLetter, OperatorCrash, queueVars
<1>7. ASSUME NEW o \in Operators, RequeueDeadLetter(o)
      PROVE  RecordStep
  BY <1>7, <1>a, RecordAdded, RecordsKept DEF RequeueDeadLetter, queueVars
<1>8. ASSUME NEW t \in Tasks, CancelTask(t)
      PROVE  RecordStep
  BY <1>8, <1>a, <1>c, RecordsKept DEF CancelTask, queueVars
<1>9. ASSUME NEW t \in Tasks, TaskExpires(t)
      PROVE  RecordStep
  <2>1. status'[t].att = 0 /\ \A u \in Used : u # t => status'[u] = status[u]
    BY <1>9, <1>a, <1>b DEF TaskExpires, NoStatus, TypeOK
  <2>2. QED
    BY <1>9, <1>a, <2>1 DEF TaskExpires, RecordStep, TypeOK
<1>10. ASSUME NEW t \in Tasks, CleanupDeletesTask(t)
       PROVE  RecordStep
  BY <1>10, <1>a DEF CleanupDeletesTask, HasData, RecordStep, TypeOK
<1>11. CASE CleanupDeletesStatus
  <2>1. cleaning \in Tasks
    BY <1>11, <1>a DEF CleanupDeletesStatus, TypeOK
  <2>2. /\ status'[cleaning].att = 0
        /\ \A u \in Used : u # cleaning => status'[u] = status[u]
    BY <1>11, <1>a, <1>b, <2>1 DEF CleanupDeletesStatus, NoStatus, TypeOK
  <2>3. QED
    BY <1>11, <1>a, <2>2 DEF CleanupDeletesStatus, RecordStep, queueVars, TypeOK
<1>12. CASE \/ \E t \in Tasks : DelayElapses(t) \/ DeadLetterExpires(t)
            \/ ListExpires \/ UNCHANGED vars
  BY <1>12, <1>a, RecordsKept
     DEF DelayElapses, DeadLetterExpires, ListExpires, vars, queueVars
<1>13. QED
  BY <1>1, <1>2, <1>3, <1>4, <1>5, <1>6, <1>7, <1>8, <1>9, <1>10, <1>11, <1>12
     DEF Next, WorkerStep, OperatorStep, Environment

\* How a worker comes to be retrying its task.
LEMMA RetryFrame ==
  TypeInv /\ [Next]_vars =>
    \A w \in Workers :
      /\ pc'[w] \in {"fail_task", "fail_status", "requeue"} =>
           /\ cur'[w] = cur[w]
           /\ \/ pc[w] \in {"fail_task", "fail_status", "requeue"}
              \/ pc[w] # "idle" /\ status' = status /\ WorkerRetries(cur[w])
      /\ pc'[w] = "mark_failed" =>
           \/ pc[w] = "mark_failed"
           \/ /\ pc[w] = "fail_status"
              /\ ~ (status[cur[w]].att < info[cur[w]].max)
<1> SUFFICES ASSUME TypeInv, [Next]_vars, NEW w \in Workers
             PROVE  /\ pc'[w] \in {"fail_task", "fail_status", "requeue"} =>
                         /\ cur'[w] = cur[w]
                         /\ \/ pc[w] \in {"fail_task", "fail_status", "requeue"}
                            \/ /\ pc[w] # "idle"
                               /\ status' = status /\ WorkerRetries(cur[w])
                    /\ pc'[w] = "mark_failed" =>
                         \/ pc[w] = "mark_failed"
                         \/ /\ pc[w] = "fail_status"
                            /\ ~ (status[cur[w]].att < info[cur[w]].max)
  OBVIOUS
<1> USE DEF TypeInv, TypeOK
<1>1. CASE pc' = pc /\ cur' = cur
  BY <1>1
<1>2. ASSUME NEW v \in Workers, NEW t \in Tasks, DequeueTask(v, t)
      PROVE  \/ pc' = pc /\ cur' = cur
             \/ pc' = [pc EXCEPT ![v] = "exec"] /\ cur' = [cur EXCEPT ![v] = t]
  BY <1>2 DEF DequeueTask, workerVars
<1>3. ASSUME NEW v \in Workers,
             \/ HandlerReturns(v) \/ HandlerFails(v) \/ CompleteTask(v)
             \/ RetryTask(v) \/ RetryTaskNoData(v) \/ MarkRetrying(v)
             \/ AddDeadLetter(v) \/ WorkerCrash(v)
      PROVE  \/ /\ pc' = [pc EXCEPT ![v] = "idle"]
                /\ cur' = [cur EXCEPT ![v] = None]
             \/ /\ \E l \in {"complete", "failed", "mark_retrying"} :
                     pc' = [pc EXCEPT ![v] = l]
                /\ cur' = cur
  BY <1>3
     DEF HandlerReturns, HandlerFails, CompleteTask, RetryTask, RetryTaskNoData,
         MarkRetrying, AddDeadLetter, WorkerCrash, GoTo, Release
<1>4. ASSUME NEW v \in Workers, HandleTaskFailure(v)
      PROVE  /\ cur' = cur /\ status' = status /\ pc[v] = "failed"
             /\ \/ WorkerRetries(cur[v]) /\ pc' = [pc EXCEPT ![v] = "fail_task"]
                \/ pc' = [pc EXCEPT ![v] = "bury"]
  BY <1>4 DEF HandleTaskFailure, GoTo
<1>5. ASSUME NEW v \in Workers, FailTaskReadsData(v) \/ FailTaskReadsStatus(v)
      PROVE  /\ pc[v] \in {"fail_task", "fail_status"}
             /\ \/ /\ pc' = [pc EXCEPT ![v] = "idle"]
                   /\ cur' = [cur EXCEPT ![v] = None]
                \/ /\ cur' = cur
                   /\ \/ pc' = [pc EXCEPT ![v] = "fail_status"]
                      \/ pc' = [pc EXCEPT ![v] = "requeue"]
                      \/ /\ pc[v] = "fail_status"
                         /\ pc' = [pc EXCEPT ![v] = "mark_failed"]
                         /\ ~ (status[cur[v]].att < info[cur[v]].max)
  BY <1>5 DEF FailTaskReadsData, FailTaskReadsStatus, GoTo, Release
<1>6. ASSUME \/ \E o \in Operators : OperatorStep(o)
             \/ Environment /\ \A v \in Workers : ~ WorkerCrash(v)
             \/ UNCHANGED vars
      PROVE  pc' = pc /\ cur' = cur
  BY <1>6
     DEF OperatorStep, ReadDeadLetter, RequeueDeadLetter, RemoveDeadLetter,
         OperatorCrash, Environment, EnqueueTask, CancelTask, DelayElapses,
         TaskExpires, CleanupDeletesTask, DeadLetterExpires, ListExpires,
         CleanupDeletesStatus, vars, workerVars
<1>7. ASSUME NEW v \in Workers, WorkerStep(v) \/ WorkerCrash(v)
      PROVE  /\ pc'[w] \in {"fail_task", "fail_status", "requeue"} =>
                  /\ cur'[w] = cur[w]
                  /\ \/ pc[w] \in {"fail_task", "fail_status", "requeue"}
                     \/ /\ pc[w] # "idle"
                        /\ status' = status /\ WorkerRetries(cur[w])
             /\ pc'[w] = "mark_failed" =>
                  \/ pc[w] = "mark_failed"
                  \/ /\ pc[w] = "fail_status"
                     /\ ~ (status[cur[w]].att < info[cur[w]].max)
  BY <1>1, <1>2, <1>3, <1>4, <1>5, <1>7 DEF WorkerStep
<1>8. QED
  BY <1>1, <1>6, <1>7 DEF Next

LEMMA InitCounterInv == Init => CounterInv
<1> SUFFICES ASSUME Init PROVE CounterInv
  OBVIOUS
<1>1. OwnerInv
  BY InitTypeInv DEF OwnerInv, SingleOwner, Init
<1>2. QED
  BY <1>1 DEF CounterInv, RetryAllowed, CountedWhenDelivered, FailTaskRetries, Init

LEMMA NextCounterInv == CounterInv /\ [Next]_vars => CounterInv'
<1> SUFFICES ASSUME CounterInv, [Next]_vars PROVE CounterInv'
  OBVIOUS
<1>1. OwnerInv /\ OwnerInv' /\ TypeInv /\ TypeOK /\ TypeOK'
  BY NextOwnerInv DEF CounterInv, OwnerInv, TypeInv
<1>2. RecordStep
  BY <1>1, RecordFrame
<1>3. ASSUME NEW w \in Workers, pc[w] # "idle"
      PROVE  /\ cur[w] \in Used /\ cur[w] \notin zset
             /\ info[cur[w]].max \in Nat \ {0}
             /\ status[cur[w]].att \in Nat
  <2>1. cur[w] \in Used /\ info[cur[w]] \in TaskInfo /\ cur[w] \in Tasks
    BY <1>1, <1>3 DEF TypeInv, TypeOK, IdleHasNoTask, Used
  <2>2. info[cur[w]].max \in Nat \ {0}
    BY <2>1, QueueAssumption DEF TaskInfo, Attempts
  <2>3. QED
    BY <1>1, <1>3, <2>1, <2>2 DEF OwnerInv, SingleOwner, TypeInv, TypeOK, IdleHasNoTask
<1>4. RetryAllowed'
  <2> SUFFICES ASSUME NEW w \in Workers,
                      pc'[w] \in {"fail_task", "fail_status", "requeue"}
               PROVE  status'[cur'[w]].att < info'[cur'[w]].max
    BY DEF RetryAllowed
  <2>1. /\ cur'[w] = cur[w] /\ pc[w] # "idle"
        /\ status[cur[w]].att < info[cur[w]].max
    BY <1>1, RetryFrame DEF CounterInv, RetryAllowed, WorkerRetries
  <2>2. /\ info'[cur[w]] = info[cur[w]]
        /\ status'[cur[w]].att = status[cur[w]].att \/ status'[cur[w]].att = 0
    BY <1>2, <1>3, <2>1 DEF RecordStep
  <2>3. QED
    BY <1>3, <2>1, <2>2
<1>5. FailTaskRetries'
  BY <1>1, RetryFrame DEF CounterInv, FailTaskRetries, RetryAllowed
<1>6. CountedWhenDelivered'
  <2>1. ASSUME NEW t \in stored', t \notin zset'
        PROVE  status'[t].att >= 1
    <3>1. t \in Used /\ t \in stored /\ t \in Tasks
      BY <1>2, <2>1 DEF RecordStep, Used
    <3>2. status[t].att \in Nat
      BY <1>1, <3>1 DEF TypeOK
    <3>3. CASE t \in zset
      BY <1>2, <2>1, <3>1, <3>2, <3>3 DEF RecordStep
    <3>4. CASE t \notin zset
      BY <1>2, <2>1, <3>1, <3>2, <3>4, QueueAssumption
         DEF RecordStep, CounterInv, CountedWhenDelivered
    <3>5. QED
      BY <3>3, <3>4
  <2>2. cleaning' # None => cleaning' \in Used' \ stored'
    <3>1. Used \subseteq Used'
      BY <1>2 DEF RecordStep, Used
    <3>2. QED
      BY <1>1, <1>2, <3>1
         DEF RecordStep, CounterInv, CountedWhenDelivered, TypeOK
  <2>3. QED
    BY <2>1, <2>2 DEF CountedWhenDelivered
<1>7. QED
  BY <1>1, <1>4, <1>5, <1>6 DEF CounterInv

\* fail_task(retry=True) always retries: the two reads of the counter agree.
THEOREM RetryReadsAgree == Spec => []FailTaskRetries
<1>1. Spec => []CounterInv
  BY InitCounterInv, NextCounterInv, PTL DEF Spec
<1>2. CounterInv => FailTaskRetries
  BY DEF CounterInv
<1>3. QED
  BY <1>1, <1>2, PTL

-----------------------------------------------------------------------------
(* The retry budget *)

\* The ids that can still run or be retried.
Live(t) ==
  \/ t \in zset
  \/ \E w \in Workers : cur[w] = t /\ pc[w] # "mark_retrying"

\* The ids of a job share the root its first enqueue made.
RootsUsed ==
  /\ \A t \in Used : /\ info[t].root \in Used
                     /\ info[info[t].root].root = info[t].root
  /\ \A t \in Tasks \ Used : execs[t] = 0

\* A job has one live id, whose remaining budget and the runs so far add up to
\* at most what the client asked for (the run in progress is counted twice).
OneLive ==
  \A t, u \in Used : Live(t) /\ Live(u) /\ info[t].root = info[u].root => t = u

LiveBudget ==
  \A t \in Used : Live(t) =>
    execs[info[t].root] + info[t].max
      <= info[info[t].root].max + (IF t \in zset THEN 0 ELSE 1)

BudgetInv == /\ CounterInv
             /\ RootsUsed /\ OneLive /\ LiveBudget
             /\ AttemptBudget /\ DeadLetterFinal

-----------------------------------------------------------------------------
(* The four ways a step touches jobs *)

StartsJob(t) ==
  /\ info' = [info EXCEPT ![t] = info'[t]]
  /\ info'[t].root = t /\ info'[t].max \in Attempts
  /\ zset' = zset \cup {t}
  /\ UNCHANGED <<execs, pc, cur, dlq>>

RetriesJob(w, t) ==
  /\ pc[w] = "requeue" /\ cur[w] \in stored
  /\ info' = [info EXCEPT ![t] = info'[t]]
  /\ info'[t].root = info[cur[w]].root
  /\ info'[t].max = RetryBudget(info[cur[w]].max)
  /\ zset' = zset \cup {t}
  /\ pc' = [pc EXCEPT ![w] = "mark_retrying"]
  /\ UNCHANGED <<execs, cur, dlq>>

Delivers(w, t) ==
  /\ pc[w] = "idle" /\ t \in zset
  /\ zset' = zset \ {t}
  /\ pc' = [pc EXCEPT ![w] = "exec"]
  /\ cur' = [cur EXCEPT ![w] = t]
  /\ execs' = [execs EXCEPT ![info[t].root] = @ + 1]
  /\ UNCHANGED <<info, dlq>>

KeepsJobs ==
  /\ UNCHANGED <<info, execs>>
  /\ zset' \subseteq zset
  /\ \A w \in Workers :
       \/ cur'[w] = None
       \/ /\ cur'[w] = cur[w]
          /\ pc[w] = "mark_retrying" => pc'[w] = "mark_retrying"
  /\ \A t \in dlq' \ dlq :
       \E w \in Workers : cur[w] = t /\ pc[w] = "bury" /\ cur'[w] = None

JobStep ==
  \/ \E t \in Fresh : StartsJob(t)
  \/ \E w \in Workers, t \in Fresh : RetriesJob(w, t)
  \/ \E w \in Workers, t \in Tasks : Delivers(w, t)
  \/ KeepsJobs

LEMMA JobFrame == TypeInv /\ [Next]_vars => JobStep
<1> SUFFICES ASSUME TypeInv, [Next]_vars PROVE JobStep
  OBVIOUS
<1> USE DEF TypeInv, TypeOK
<1>1. ASSUME NEW t \in Tasks, NEW l \in Levels, NEW m \in 1..MaxAttempts,
             NEW s \in {"none", "future"}, EnqueueTask(t, l, m, s)
      PROVE  JobStep
  <2>1. t \in Fresh /\ t \in Tasks /\ m \in Attempts
    BY <1>1, QueueAssumption DEF EnqueueTask, Attempts
  <2>2. info'[t] = NewRoot(t, l, m)
    BY <1>1, <2>1 DEF EnqueueTask, EnqueueScript
  <2>3. StartsJob(t)
    BY <1>1, <2>1, <2>2
       DEF EnqueueTask, EnqueueScript, NewRoot, StartsJob, workerVars
  <2>4. QED
    BY <2>1, <2>3 DEF JobStep
<1>2. ASSUME NEW o \in Operators, RequeueDeadLetter(o)
      PROVE  JobStep
  <2>1. ASSUME NEW t \in Fresh,
               EnqueueScript(t, [NewRoot(t, NormalLevel, DefaultAttempts)
                                   EXCEPT !.from = op[o].task], "none")
        PROVE  JobStep
    <3>1. t \in Tasks /\ DefaultAttempts \in Attempts
      BY QueueAssumption DEF Attempts, Fresh
    <3>2. info'[t] = [NewRoot(t, NormalLevel, DefaultAttempts)
                        EXCEPT !.from = op[o].task]
      BY <2>1, <3>1 DEF EnqueueScript
    <3>3. info'[t].root = t /\ info'[t].max = DefaultAttempts
      BY <3>2 DEF NewRoot
    <3>4. StartsJob(t)
      BY <1>2, <2>1, <3>1, <3>2, <3>3
         DEF RequeueDeadLetter, EnqueueScript, StartsJob, workerVars
    <3>5. QED
      BY <3>4 DEF JobStep
  <2>2. CASE UNCHANGED <<queueVars, status>>
    BY <1>2, <2>2
       DEF RequeueDeadLetter, JobStep, KeepsJobs, queueVars, workerVars
  <2>3. QED
    BY <1>2, <2>1, <2>2 DEF RequeueDeadLetter
<1>3. ASSUME NEW w \in Workers, NEW t \in Tasks, DequeueTask(w, t)
      PROVE  JobStep
  <2>1. CASE Parses(t)
    BY <1>3, <2>1 DEF DequeueTask, Highest, Pop, JobStep, Delivers
  <2>2. CASE ~ Parses(t)
    BY <1>3, <2>2 DEF DequeueTask, Highest, Pop, JobStep, KeepsJobs, workerVars
  <2>3. QED
    BY <2>1, <2>2
<1>4. ASSUME NEW w \in Workers,
             \/ HandlerReturns(w) \/ HandlerFails(w) \/ CompleteTask(w)
             \/ HandleTaskFailure(w) \/ FailTaskReadsData(w)
             \/ FailTaskReadsStatus(w) \/ RetryTaskNoData(w)
             \/ MarkRetrying(w) \/ AddDeadLetter(w) \/ WorkerCrash(w)
      PROVE  JobStep
  <2>1. UNCHANGED <<info, execs, zset>>
    BY <1>4
       DEF HandlerReturns, HandlerFails, CompleteTask, HandleTaskFailure,
           FailTaskReadsData, FailTaskReadsStatus, RetryTaskNoData,
           MarkRetrying, AddDeadLetter, WorkerCrash, queueVars
  <2>2. \/ cur' = [cur EXCEPT ![w] = None] /\ pc' = [pc EXCEPT ![w] = "idle"]
        \/ /\ cur' = cur
           /\ pc[w] # "mark_retrying"
           /\ \E l : pc' = [pc EXCEPT ![w] = l]
    BY <1>4
       DEF HandlerReturns, HandlerFails, CompleteTask, HandleTaskFailure,
           FailTaskReadsData, FailTaskReadsStatus, RetryTaskNoData,
           MarkRetrying, AddDeadLetter, WorkerCrash, GoTo, Release
  <2>3. \/ dlq' = dlq
        \/ /\ dlq' = dlq \cup {cur[w]} /\ pc[w] = "bury"
           /\ cur' = [cur EXCEPT ![w] = None]
    BY <1>4
       DEF HandlerReturns, HandlerFails, CompleteTask, HandleTaskFailure,
           FailTaskReadsData, FailTaskReadsStatus, RetryTaskNoData,
           MarkRetrying, AddDeadLetter, WorkerCrash, Release
  <2>4. \A v \in Workers :
          \/ cur'[v] = None
          \/ /\ cur'[v] = cur[v]
             /\ pc[v] = "mark_retrying" => pc'[v] = "mark_retrying"
    BY <2>2
  <2>5. \A t \in dlq' \ dlq :
          \E v \in Workers : cur[v] = t /\ pc[v] = "bury" /\ cur'[v] = None
    BY <2>3
  <2>6. QED
    BY <2>1, <2>4, <2>5 DEF JobStep, KeepsJobs
<1>5. ASSUME NEW w \in Workers, RetryTask(w)
      PROVE  JobStep
  <2>1. ASSUME NEW t \in Fresh,
               EnqueueScript(t, [level |-> Promote(info[cur[w]].level),
                                 max |-> RetryBudget(info[cur[w]].max),
                                 root |-> info[cur[w]].root,
                                 from |-> None], "future"),
               GoTo(w, "mark_retrying")
        PROVE  RetriesJob(w, t)
    BY <1>5, <2>1
       DEF RetryTask, EnqueueScript, GoTo, HasData, RetriesJob, Fresh
  <2>2. CASE Release(w) /\ UNCHANGED <<queueVars, status>>
    BY <1>5, <2>2 DEF RetryTask, Release, JobStep, KeepsJobs, queueVars
  <2>3. QED
    BY <1>5, <2>1, <2>2 DEF RetryTask, JobStep
<1>6. ASSUME NEW o \in Operators,
             \/ \E t \in Tasks : ReadDeadLetter(o, t)
             \/ RemoveDeadLetter(o) \/ OperatorCrash(o)
      PROVE  JobStep
  BY <1>6
     DEF ReadDeadLetter, RemoveDeadLetter, OperatorCrash, queueVars, workerVars,
         JobStep, KeepsJobs
<1>7. ASSUME \/ \E t \in Tasks : \/ CancelTask(t) \/ DelayElapses(t)
                                  \/ TaskExpires(t) \/ CleanupDeletesTask(t)
                                  \/ DeadLetterExpires(t)
             \/ ListExpires \/ CleanupDeletesStatus \/ UNCHANGED vars
      PROVE  JobStep
  BY <1>7
     DEF CancelTask, DelayElapses, TaskExpires, CleanupDeletesTask,
         DeadLetterExpires, ListExpires, CleanupDeletesStatus, vars, queueVars,
         workerVars, JobStep, KeepsJobs
<1>8. QED
  BY <1>1, <1>2, <1>3, <1>4, <1>5, <1>6, <1>7
     DEF Next, WorkerStep, OperatorStep, Environment

-----------------------------------------------------------------------------
(* The budget invariant is inductive *)

JobInv == RootsUsed /\ OneLive /\ LiveBudget /\ AttemptBudget /\ DeadLetterFinal

\* What the invariant says in the terms the steps need.
LEMMA JobFacts ==
  ASSUME BudgetInv
  PROVE  /\ \A t \in Used : /\ t \in Tasks
                            /\ info[t].max \in Nat \ {0}
                            /\ info[t].root \in Used
                            /\ execs[info[t].root] \in Nat
                            /\ info[info[t].root].max \in Nat
         /\ \A t \in dlq : t \in Used /\ \A u \in Used :
                info[u].root = info[t].root => ~ Live(u)
         /\ \A w \in Workers : pc[w] = "idle" <=> cur[w] = None
         /\ zset \subseteq Used /\ None \notin Used
         /\ \A w \in Workers : cur[w] \in Used \cup {None}
<1>1. TypeInv /\ TypeOK
  BY DEF BudgetInv, CounterInv, OwnerInv, TypeInv
<1>2. \A t \in Used : t \in Tasks /\ info[t] \in TaskInfo
  BY <1>1 DEF Used, TypeOK
<1>3. \A t \in Used : info[t].max \in Nat \ {0}
  BY <1>2, QueueAssumption DEF TaskInfo, Attempts
<1>4. \A t \in Used : /\ info[t].root \in Used
                     /\ execs[info[t].root] \in Nat
                     /\ info[info[t].root].max \in Nat
  BY <1>1, <1>2, <1>3 DEF BudgetInv, RootsUsed, TypeOK
<1>5. \A t \in dlq : t \in Used /\ \A u \in Used :
                info[u].root = info[t].root => ~ Live(u)
  BY <1>1 DEF BudgetInv, DeadLetterFinal, Live, TypeOK
<1>6. QED
  BY <1>1, <1>2, <1>3, <1>4, <1>5, QueueAssumption DEF TypeInv, TypeOK, IdleHasNoTask

LEMMA StartsJobInv ==
  ASSUME BudgetInv, TypeOK', NEW t \in Fresh, StartsJob(t), Used' = Used \cup {t}
  PROVE  JobInv'
<1>1. /\ t \in Tasks /\ t \notin Used
      /\ \A u \in Used : u # t /\ info'[u] = info[u] /\ u \in Tasks
  BY DEF Fresh, StartsJob, BudgetInv, CounterInv, OwnerInv, TypeInv, TypeOK, Used
<1>2. /\ info'[t].root = t /\ execs' = execs /\ execs[t] = 0
      /\ info'[t].max \in Nat \ {0}
  BY <1>1, QueueAssumption DEF StartsJob, BudgetInv, RootsUsed, Attempts
<1>3. \A u \in Used : (Live(u)' <=> Live(u)) /\ (u \in zset' <=> u \in zset)
  BY <1>1 DEF StartsJob, Live
<1>4. RootsUsed'
  BY <1>1, <1>2, JobFacts DEF RootsUsed, BudgetInv
<1>5. \A u \in Used : info'[u].root \in Used /\ info'[u].root # t
  BY <1>1, JobFacts
<1>6. OneLive'
  BY <1>1, <1>2, <1>3, <1>5 DEF OneLive, BudgetInv
<1>7. LiveBudget'
  <2>1. ASSUME NEW u \in Used, Live(u)'
        PROVE  execs'[info'[u].root] + info'[u].max
                 <= info'[info'[u].root].max + (IF u \in zset' THEN 0 ELSE 1)
    BY <1>1, <1>2, <1>3, <2>1, JobFacts DEF LiveBudget, BudgetInv
  <2>2. execs'[info'[t].root] + info'[t].max
          <= info'[info'[t].root].max + (IF t \in zset' THEN 0 ELSE 1)
    BY <1>2 DEF StartsJob
  <2>3. QED
    BY <2>1, <2>2 DEF LiveBudget
<1>8. AttemptBudget'
  BY <1>1, <1>2, JobFacts DEF AttemptBudget, BudgetInv
<1>9. DeadLetterFinal'
  <2> SUFFICES ASSUME NEW d \in dlq', NEW u \in Used',
                      info'[u].root = info'[d].root
               PROVE  ~ Live(u)'
    BY DEF DeadLetterFinal, Live
  <2>1. d \in dlq /\ d \in Used
    BY JobFacts DEF StartsJob
  <2>2. u \in Used
    BY <1>2, <1>5, <2>1
  <2>3. QED
    BY <1>1, <1>3, <2>1, <2>2, JobFacts
<1>10. QED
  BY <1>4, <1>6, <1>7, <1>8, <1>9 DEF JobInv

LEMMA RetriesJobInv ==
  ASSUME BudgetInv, TypeOK', NEW w \in Workers, NEW t \in Fresh,
         RetriesJob(w, t), Used' = Used \cup {t}
  PROVE  JobInv'
<1> DEFINE c == cur[w]
<1>1. /\ t \in Tasks /\ t \notin Used
      /\ \A u \in Used : u # t /\ info'[u] = info[u] /\ u \in Tasks
  BY DEF Fresh, RetriesJob, BudgetInv, CounterInv, OwnerInv, TypeInv, TypeOK, Used
<1>2. c \in Used /\ c \notin zset /\ Live(c) /\ c # None
  BY JobFacts
     DEF RetriesJob, BudgetInv, CounterInv, OwnerInv, SingleOwner, Live
<1>3. info[c].max >= 2
  <2>1. status[c].att >= 1 /\ status[c].att < info[c].max /\ status[c].att \in Nat
    BY <1>1, <1>2
       DEF RetriesJob, BudgetInv, CounterInv, CountedWhenDelivered, RetryAllowed,
           OwnerInv, TypeInv, TypeOK
  <2>2. QED
    BY <1>2, <2>1, JobFacts
<1>4. /\ info'[t].root = info[c].root /\ execs' = execs
      /\ info'[t].max = info[c].max - 1
  BY <1>2, <1>3, JobFacts DEF RetriesJob, RetryBudget, OrDefault
<1>5. /\ ~ Live(c)'
      /\ \A u \in Used \ {c} : (Live(u)' <=> Live(u)) /\ (u \in zset' <=> u \in zset)
  <2>1. \A v \in Workers : v # w => cur[v] # c
    BY <1>2 DEF BudgetInv, CounterInv, OwnerInv, SingleOwner
  <2>2. pc'[w] = "mark_retrying" /\ \A v \in Workers : v # w => pc'[v] = pc[v]
    BY DEF RetriesJob, BudgetInv, CounterInv, OwnerInv, TypeInv, TypeOK
  <2>3. QED
    BY <1>1, <1>2, <2>1, <2>2 DEF RetriesJob, Live
<1>6. \A u \in Used : info'[u].root \in Used
  BY <1>1, JobFacts
<1>7. RootsUsed'
  BY <1>1, <1>2, <1>4, <1>6, JobFacts DEF RootsUsed, BudgetInv
<1>a. \A u \in Used : Live(u)' => Live(u) /\ u # c
  BY <1>5 DEF Live, RetriesJob
<1>8. ASSUME NEW u \in Used, Live(u)'
      PROVE  info'[u].root # info'[t].root
  <2>1. Live(u) /\ u # c
    BY <1>a, <1>8
  <2>2. info[u].root # info[c].root
    BY <1>2, <2>1 DEF BudgetInv, OneLive
  <2>3. QED
    BY <1>1, <1>4, <2>2
<1>9. OneLive'
  <2> SUFFICES ASSUME NEW u \in Used', NEW v \in Used', Live(u)', Live(v)',
                      info'[u].root = info'[v].root
               PROVE  u = v
    BY DEF OneLive
  <2>1. CASE u \in Used /\ v \in Used
    BY <1>1, <1>a, <2>1 DEF BudgetInv, OneLive
  <2>2. CASE u \notin Used \/ v \notin Used
    BY <1>8, <2>2
  <2>3. QED
    BY <2>1, <2>2
<1>10. LiveBudget'
  <2>1. ASSUME NEW u \in Used, Live(u)'
        PROVE  execs'[info'[u].root] + info'[u].max
                 <= info'[info'[u].root].max + (IF u \in zset' THEN 0 ELSE 1)
    <3>1. Live(u) /\ (u \in zset' <=> u \in zset)
      BY <1>5, <1>a, <2>1
    <3>2. QED
      BY <1>1, <1>4, <3>1, JobFacts DEF LiveBudget, BudgetInv
  <2>2. execs'[info'[t].root] + info'[t].max
          <= info'[info'[t].root].max + (IF t \in zset' THEN 0 ELSE 1)
    <3>1. execs[info[c].root] + info[c].max <= info[info[c].root].max + 1
      BY <1>2 DEF BudgetInv, LiveBudget
    <3>2. /\ t \in zset' /\ info'[info'[t].root] = info[info[c].root]
          /\ execs'[info'[t].root] = execs[info[c].root]
      BY <1>1, <1>2, <1>4, JobFacts DEF RetriesJob
    <3>3. QED
      BY <1>2, <1>4, <3>1, <3>2, JobFacts
  <2>3. QED
    BY <2>1, <2>2 DEF LiveBudget
<1>11. AttemptBudget'
  BY <1>1, <1>2, <1>4, JobFacts DEF AttemptBudget, BudgetInv
<1>12. DeadLetterFinal'
  <2> SUFFICES ASSUME NEW d \in dlq', NEW u \in Used',
                      info'[u].root = info'[d].root
               PROVE  ~ Live(u)'
    BY DEF DeadLetterFinal, Live
  <2>1. d \in dlq /\ d \in Used
    BY JobFacts DEF RetriesJob
  <2>2. u # t
    BY <1>1, <1>2, <1>4, <2>1, JobFacts
  <2>3. QED
    BY <1>1, <1>a, <2>1, <2>2, JobFacts
<1>13. QED
  BY <1>7, <1>9, <1>10, <1>11, <1>12 DEF JobInv

LEMMA DeliversInv ==
  ASSUME BudgetInv, TypeOK', NEW w \in Workers, NEW t \in Tasks, Delivers(w, t)
  PROVE  JobInv'
<1>1. Used' = Used /\ info' = info /\ t \in Used /\ Live(t)
  BY JobFacts DEF Delivers, Used, Live
<1>2. /\ pc'[w] = "exec" /\ cur'[w] = t
      /\ \A v \in Workers : v # w => pc'[v] = pc[v] /\ cur'[v] = cur[v]
  BY DEF Delivers, BudgetInv, CounterInv, OwnerInv, TypeInv, TypeOK
<1>3. \A u \in Used : Live(u)' <=> Live(u)
  BY <1>1, <1>2, JobFacts DEF Delivers, Live
<1>4. /\ execs'[info[t].root] = execs[info[t].root] + 1
      /\ \A r \in Tasks : r # info[t].root => execs'[r] = execs[r]
  BY <1>1, JobFacts
     DEF Delivers, BudgetInv, CounterInv, OwnerInv, TypeInv, TypeOK
<1>5. /\ t \in zset /\ t \notin zset'
      /\ \A u \in Used : u # t => (u \in zset' <=> u \in zset)
  BY DEF Delivers
<1>6. RootsUsed'
  BY <1>1, <1>4, JobFacts DEF RootsUsed, BudgetInv
<1>7. OneLive'
  BY <1>1, <1>3 DEF OneLive, BudgetInv
<1>8. execs[info[t].root] + info[t].max <= info[info[t].root].max
  BY <1>1, <1>5, JobFacts DEF BudgetInv, LiveBudget
<1>9. LiveBudget'
  <2> SUFFICES ASSUME NEW u \in Used, Live(u)
               PROVE  execs'[info[u].root] + info[u].max
                        <= info[info[u].root].max
                             + (IF u \in zset' THEN 0 ELSE 1)
    BY <1>1, <1>3 DEF LiveBudget
  <2>1. CASE u = t
    BY <1>1, <1>4, <1>5, <1>8, <2>1, JobFacts
  <2>2. CASE u # t
    <3>1. info[u].root # info[t].root
      BY <1>1, <2>2 DEF BudgetInv, OneLive
    <3>2. execs'[info[u].root] = execs[info[u].root]
      BY <1>4, <3>1, JobFacts
    <3>3. QED
      BY <1>5, <2>2, <3>2 DEF BudgetInv, LiveBudget
  <2>3. QED
    BY <2>1, <2>2
<1>10. AttemptBudget'
  <2> SUFFICES ASSUME NEW u \in Used
               PROVE  execs'[info[u].root] <= info[info[u].root].max
    BY <1>1 DEF AttemptBudget
  <2>1. CASE info[u].root = info[t].root
    BY <1>1, <1>4, <1>8, <2>1, JobFacts
  <2>2. CASE info[u].root # info[t].root
    BY <1>4, <2>2, JobFacts DEF BudgetInv, AttemptBudget
  <2>3. QED
    BY <2>1, <2>2
<1>11. DeadLetterFinal'
  BY <1>1, <1>3, JobFacts DEF DeadLetterFinal, Delivers, Live
<1>12. QED
  BY <1>6, <1>7, <1>9, <1>10, <1>11 DEF JobInv

LEMMA KeepsJobsInv ==
  ASSUME BudgetInv, TypeOK', KeepsJobs
  PROVE  JobInv'
<1>1. Used' = Used /\ info' = info /\ execs' = execs
  BY DEF KeepsJobs, Used
<1>2. \A u \in Used : Live(u)' => Live(u)
  BY JobFacts DEF KeepsJobs, Live
<1>3. RootsUsed' /\ OneLive' /\ AttemptBudget'
  BY <1>1, <1>2 DEF RootsUsed, OneLive, AttemptBudget, BudgetInv
<1>4. LiveBudget'
  <2> SUFFICES ASSUME NEW u \in Used, Live(u)'
               PROVE  execs[info[u].root] + info[u].max
                        <= info[info[u].root].max
                             + (IF u \in zset' THEN 0 ELSE 1)
    BY <1>1 DEF LiveBudget
  <2>1. u \in zset' <=> u \in zset
    <3>1. ASSUME u \in zset, u \notin zset' PROVE FALSE
      <4>1. PICK w \in Workers : cur'[w] = u
        BY <3>1 DEF Live
      <4>2. cur[w] = u /\ u # None
        BY <4>1, JobFacts DEF KeepsJobs
      <4>3. QED
        BY <3>1, <4>2 DEF BudgetInv, CounterInv, OwnerInv, SingleOwner
    <3>2. QED
      BY <3>1 DEF KeepsJobs
  <2>2. QED
    BY <1>2, <2>1 DEF BudgetInv, LiveBudget
<1>5. DeadLetterFinal'
  <2> SUFFICES ASSUME NEW d \in dlq', NEW u \in Used, info[u].root = info[d].root
               PROVE  ~ Live(u)'
    BY <1>1 DEF DeadLetterFinal, Live
  <2>1. CASE d \in dlq
    BY <1>2, <2>1, JobFacts
  <2>2. CASE d \notin dlq
    <3>1. PICK w \in Workers : cur[w] = d /\ pc[w] = "bury" /\ cur'[w] = None
      BY <2>2 DEF KeepsJobs
    <3>2. d \in Used /\ d \notin zset /\ Live(d) /\ d # None
      BY <3>1, JobFacts DEF BudgetInv, CounterInv, OwnerInv, SingleOwner, Live
    <3>3. \A v \in Workers : cur'[v] # d
      BY <3>1, <3>2 DEF KeepsJobs, BudgetInv, CounterInv, OwnerInv, SingleOwner
    <3>4. ~ Live(d)'
      BY <3>2, <3>3 DEF Live, KeepsJobs
    <3>5. QED
      BY <1>2, <3>2, <3>4 DEF BudgetInv, OneLive
  <2>3. QED
    BY <2>1, <2>2
<1>6. QED
  BY <1>3, <1>4, <1>5 DEF JobInv

LEMMA NextBudgetInv == BudgetInv /\ [Next]_vars => BudgetInv'
<1> SUFFICES ASSUME BudgetInv, [Next]_vars PROVE BudgetInv'
  OBVIOUS
<1>1. CounterInv' /\ TypeOK' /\ TypeInv
  BY NextCounterInv DEF BudgetInv, CounterInv, OwnerInv, TypeInv
<1>2. JobStep
  BY <1>1, JobFrame
<1>3. ASSUME NEW t \in Fresh, info' = [info EXCEPT ![t] = info'[t]],
             t \in zset'
      PROVE  Used' = Used \cup {t}
  BY <1>1, <1>3 DEF Used, Fresh, TypeInv, TypeOK
<1>4. ASSUME NEW t \in Fresh, StartsJob(t)
      PROVE  JobInv'
  BY <1>1, <1>3, <1>4, StartsJobInv DEF StartsJob
<1>5. ASSUME NEW w \in Workers, NEW t \in Fresh, RetriesJob(w, t)
      PROVE  JobInv'
  BY <1>1, <1>3, <1>5, RetriesJobInv DEF RetriesJob
<1>6. JobInv'
  BY <1>1, <1>2, <1>4, <1>5, DeliversInv, KeepsJobsInv DEF JobStep
<1>7. QED
  BY <1>1, <1>6 DEF BudgetInv, JobInv

LEMMA InitBudgetInv == Init => BudgetInv
<1> SUFFICES ASSUME Init PROVE BudgetInv
  OBVIOUS
<1>1. CounterInv
  BY InitCounterInv
<1>2. Used = {} /\ dlq = {}
  BY DEF Init, Used
<1>3. QED
  BY <1>1, <1>2
     DEF BudgetInv, RootsUsed, OneLive, LiveBudget, AttemptBudget,
         DeadLetterFinal, Init

\* A job runs at most as often as its client asked for, over all its retries.
THEOREM RetriesWithinBudget == Spec => []AttemptBudget
<1>1. Spec => []BudgetInv
  BY InitBudgetInv, NextBudgetInv, PTL DEF Spec
<1>2. BudgetInv => AttemptBudget
  BY DEF BudgetInv
<1>3. QED
  BY <1>1, <1>2, PTL

\* Once a job has a dead letter, no id of it is queued or being processed.
THEOREM DeadLettersAreFinal == Spec => []DeadLetterFinal
<1>1. Spec => []BudgetInv
  BY InitBudgetInv, NextBudgetInv, PTL DEF Spec
<1>2. BudgetInv => DeadLetterFinal
  BY DEF BudgetInv
<1>3. QED
  BY <1>1, <1>2, PTL

-----------------------------------------------------------------------------
(* Requeueing a dead letter *)

\* An operator about to remove a dead letter has enqueued a task made from it.
RequeuedFirst ==
  \A o \in Operators :
    op[o].at = "remove" => \E u \in Used : info[u].from = op[o].task

RequeueInv == TypeInv /\ RequeuedFirst

LEMMA NextRequeueInv == RequeueInv /\ [Next]_vars => RequeueInv'
<1> SUFFICES ASSUME RequeueInv, [Next]_vars PROVE RequeuedFirst'
  BY NextTypeInv DEF RequeueInv
<1>1. TypeInv /\ TypeOK /\ TypeInv'
  BY NextTypeInv DEF RequeueInv, TypeInv
<1>2. \A u \in Used : u \in Used' /\ info'[u] = info[u]
  BY <1>1, RecordFrame DEF RecordStep, Used
<1>3. ASSUME NEW o \in Operators, RequeueDeadLetter(o)
      PROVE  RequeuedFirst'
  <2>1. ASSUME NEW t \in Fresh,
               EnqueueScript(t, [NewRoot(t, NormalLevel, DefaultAttempts)
                                   EXCEPT !.from = op[o].task], "none"),
               op' = [op EXCEPT ![o].at = "remove"]
        PROVE  RequeuedFirst'
    <3>1. info'[t] = [NewRoot(t, NormalLevel, DefaultAttempts)
                        EXCEPT !.from = op[o].task]
      BY <1>1, <2>1 DEF EnqueueScript, TypeOK, Fresh
    <3>2. info'[t].from = op[o].task /\ t \in Used'
      BY <1>1, <2>1, <3>1 DEF NewRoot, TypeInv, TypeOK, EnqueueScript, Fresh
    <3>3. /\ op'[o].task = op[o].task
          /\ \A p \in Operators : p # o => op'[p] = op[p]
      BY <1>1, <2>1 DEF TypeOK
    <3>4. QED
      BY <1>2, <3>2, <3>3 DEF RequeueInv, RequeuedFirst
  <2>2. CASE AbandonRequeue(o)
    <3>1. \A p \in Operators : op'[p] = op[p] \/ op'[p].at = "idle"
      BY <1>1, <2>2 DEF AbandonRequeue, OpIdle, TypeOK
    <3>2. QED
      BY <1>2, <3>1 DEF RequeueInv, RequeuedFirst
  <2>3. QED
    BY <1>3, <2>1, <2>2 DEF RequeueDeadLetter
<1>4. ASSUME NEW o \in Operators,
             \/ \E t \in Tasks : ReadDeadLetter(o, t)
             \/ RemoveDeadLetter(o) \/ OperatorCrash(o)
      PROVE  RequeuedFirst'
  <2>1. \A p \in Operators : op'[p] = op[p] \/ op'[p].at # "remove"
    BY <1>1, <1>4
       DEF ReadDeadLetter, RemoveDeadLetter, OperatorCrash, OpIdle, TypeOK
  <2>2. QED
    BY <1>2, <2>1 DEF RequeueInv, RequeuedFirst
<1>5. CASE op' = op
  BY <1>2, <1>5 DEF RequeueInv, RequeuedFirst
<1>6. ASSUME \/ \E w \in Workers : WorkerStep(w)
             \/ Environment \/ UNCHANGED vars
      PROVE  op' = op
  BY <1>6
     DEF WorkerStep, DequeueTask, HandlerReturns, HandlerFails, CompleteTask,
         HandleTaskFailure, FailTaskReadsData, FailTaskReadsStatus, RetryTask,
         RetryTaskNoData, MarkRetrying, AddDeadLetter, WorkerCrash, Environment,
         EnqueueTask, CancelTask, DelayElapses, TaskExpires, CleanupDeletesTask,
         DeadLetterExpires, ListExpires, CleanupDeletesStatus, vars
<1>7. QED
  BY <1>3, <1>4, <1>5, <1>6 DEF Next, OperatorStep

\* An operator removes a dead letter only after a task made from it was
\* enqueued.
THEOREM DeadLettersKept == Spec => DeadLetterNotLost
<1>1. Init => RequeueInv
  BY InitTypeInv DEF RequeueInv, RequeuedFirst, Init, OpIdle
<1>2. Spec => []RequeueInv
  BY <1>1, NextRequeueInv, PTL DEF Spec
<1>3. RequeueInv /\ [Next]_vars
        => [\A o \in Operators, t \in Tasks :
              (t \in dlq \ dlq' /\ op[o].task = t /\ op'[o] # op[o])
                => \E u \in Used : info[u].from = t]_vars
  <2> SUFFICES ASSUME RequeueInv, Next, NEW o \in Operators, NEW t \in Tasks,
                      t \in dlq \ dlq', op[o].task = t, op'[o] # op[o]
               PROVE  \E u \in Used : info[u].from = t
    OBVIOUS
  <2>1. \/ \E p \in Operators : OperatorStep(p) /\ dlq' # dlq
        \/ op' = op
    BY DEF Next, WorkerStep, DequeueTask, HandlerReturns, HandlerFails, CompleteTask,
         HandleTaskFailure, FailTaskReadsData, FailTaskReadsStatus, RetryTask,
         RetryTaskNoData, MarkRetrying, AddDeadLetter, WorkerCrash, Environment,
         EnqueueTask, CancelTask, DelayElapses, TaskExpires, CleanupDeletesTask,
         DeadLetterExpires, ListExpires, CleanupDeletesStatus
  <2>2. PICK p \in Operators : RemoveDeadLetter(p)
    BY <2>1 DEF OperatorStep, ReadDeadLetter, RequeueDeadLetter, OperatorCrash
  <2>3. p = o
    BY <2>2 DEF RemoveDeadLetter, RequeueInv, TypeInv, TypeOK
  <2>4. QED
    BY <2>2, <2>3 DEF RemoveDeadLetter, RequeueInv, RequeuedFirst
<1>4. QED
  BY <1>2, <1>3, PTL DEF Spec, DeadLetterNotLost
=============================================================================
