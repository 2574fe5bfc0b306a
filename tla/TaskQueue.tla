------------------------------ MODULE TaskQueue ------------------------------
(***************************************************************************)
(* The Redis task queue: QueueManager, QueueRepository, the task life      *)
(* cycle a QueueWorker drives, and the DeadLetterQueue.                    *)
(*                                                                         *)
(* One queue (one TaskType) of one project.  ProjectIsolatedRedisClient    *)
(* prefixes every key with proj:{id}:, so two projects share no key, and   *)
(* two task types share only key prefixes.  A Lua script is one atomic     *)
(* step; everything the Python code does between two awaits on Redis is    *)
(* one step.                                                               *)
(*                                                                         *)
(* A task id is used once (uuid4): a retry enqueues a NEW id whose `root`  *)
(* is the id the client was given.  Time is abstract: scheduled_at is      *)
(* "none", still in the "future", or in the "past".                        *)
(***************************************************************************)
EXTENDS Naturals, FiniteSets

CONSTANTS
  Tasks,            \* pool of task ids: bounds the number of enqueues
  MaxJobs,          \* bound on the tasks clients enqueue
  Workers,          \* concurrent _process_task coroutines
  Operators,        \* callers of DeadLetterQueue.retry_task
  MaxSize,          \* QUEUES[type]["max_size"]
  MaxAttempts,      \* bound on the max_attempts a client asks for
  DefaultAttempts,  \* the 3 of `max_attempts or 3` and of retry_task
  NormalLevel,      \* TaskPriority.NORMAL as a level
  TopLevel,         \* TaskPriority.URGENT as a level
  None

ASSUME QueueAssumption ==
  /\ Tasks \subseteq Nat
  /\ MaxSize \in Nat \ {0}
  /\ MaxJobs \in Nat
  /\ MaxAttempts \in Nat \ {0}
  /\ DefaultAttempts \in Nat \ {0}
  /\ TopLevel \in Nat \ {0}
  /\ NormalLevel \in 1..TopLevel
  /\ None \notin Tasks

VARIABLES
  info,      \* what the JSON of a task says; None for an unused id
  sched,     \* scheduled_at of a task, seen from now
  zset,      \* queue:{name}:priority
  listLen,   \* LLEN of queue:{name}:project:{id}
  stored,    \* ids whose task:{id} key exists
  status,    \* task:{id}:status hash: its status and attempts fields
  dlq,       \* ids whose dead_letter_queue:task:{id} key exists
  pc,        \* where a worker's _process_task is
  cur,       \* the task it processes
  op,        \* where an operator's retry_task is
  cleaning,  \* the task cleanup_expired_tasks is deleting
  execs      \* history: deliveries to a worker, per root

queueVars  == <<info, sched, zset, listLen, stored>>
workerVars == <<pc, cur>>
vars == <<queueVars, status, dlq, workerVars, op, cleaning, execs>>

Levels == 1..TopLevel
Attempts == 1..(IF MaxAttempts > DefaultAttempts THEN MaxAttempts
                                                 ELSE DefaultAttempts)
TaskInfo == [level : Levels, max : Attempts, root : Tasks,
             from : Tasks \cup {None}]

ASSUME NoneAssumption == None \notin TaskInfo

StatusNames == {"none", "queued", "running", "completed", "cancelled",
                "retrying"}
WorkerLabels == {"idle", "exec", "complete", "failed", "fail_task",
                 "fail_status", "requeue", "mark_retrying", "mark_failed",
                 "bury"}
OpIdle == [at |-> "idle", task |-> None]

Used  == {t \in Tasks : info[t] # None}
\* The next uuid4.  Its value tells nothing, so unused ids are taken in order.
Fresh == {t \in Tasks \ Used : \A u \in Tasks \ Used : t <= u}

-----------------------------------------------------------------------------
(* Helpers of the code *)

PromoteUncapped(l) == l + 1   \* mutant: no cap at URGENT

\* promote_task_priority: one level up, URGENT stays URGENT.
Promote(l) == IF l < TopLevel THEN l + 1 ELSE l

\* `max_attempts or 3`: a budget of 0 becomes the default.
OrDefault(m) == IF m = 0 THEN DefaultAttempts ELSE m

RetryBudgetUnchanged(m) == OrDefault(m)   \* mutant: the retry costs nothing

\* The max_attempts of the task that retries one with max_attempts m.
RetryBudget(m) == OrDefault(m - 1)

\* The enqueue script refuses when LLEN(project list) >= max_size / 4.  Its
\* first test, LLEN(queue:{name}) >= max_size, reads a key nothing writes.
ProjectQueueFull == 4 * listLen >= MaxSize

\* TaskData.validate_scheduled_at: JSON whose scheduled_at has passed is
\* refused by model_validate_json.
Parses(t) == sched[t] # "past"

\* QueueRepository.get_task_data: None for a missing key and, because every
\* exception is caught, for JSON that does not parse.
HasData(t) == t \in stored /\ Parses(t)

\* The enqueue Lua script of QueueManager, for a fresh id t.
EnqueueScript(t, i, s) ==
  /\ ~ ProjectQueueFull
  /\ info' = [info EXCEPT ![t] = i]
  /\ sched' = [sched EXCEPT ![t] = s]
  /\ stored' = stored \cup {t}
  /\ zset' = zset \cup {t}
  /\ listLen' = listLen + 1
  /\ status' = [status EXCEPT ![t] = [st |-> "queued", att |-> 0]]

\* The complete Lua script: it writes the fields it is given, whatever the
\* hash holds, and creates the hash (without attempts, without a TTL) when it
\* is gone.
CompleteScript(t, s) == status' = [status EXCEPT ![t].st = s]

\* mutant: a task that ties with another is never the next one
HighestStrict ==
  {t \in zset : \A u \in zset \ {t} : info[u].level < info[t].level}

\* The members ZRANGE key 0 0 may return: those of the highest priority;
\* ties are broken by the JSON text, which starts with a random uuid.
Highest == {t \in zset : \A u \in zset : info[u].level <= info[t].level}

NewRoot(t, l, m) == [level |-> l, max |-> m, root |-> t, from |-> None]

GoTo(w, label) == pc' = [pc EXCEPT ![w] = label] /\ UNCHANGED cur
Release(w) == /\ pc' = [pc EXCEPT ![w] = "idle"]
              /\ cur' = [cur EXCEPT ![w] = None]

-----------------------------------------------------------------------------
(* Clients of QueueManager *)

Jobs == {t \in Used : info[t].root = t /\ info[t].from = None}

EnqueueTask(t, l, m, s) ==
  /\ t \in Fresh
  /\ Cardinality(Jobs) < MaxJobs
  /\ EnqueueScript(t, NewRoot(t, l, m), s)
  /\ UNCHANGED <<dlq, workerVars, op, cleaning, execs>>

\* cancel_task only writes the status: the task stays where it is.
CancelTask(t) ==
  /\ t \in Used
  /\ CompleteScript(t, "cancelled")
  /\ UNCHANGED <<queueVars, dlq, workerVars, op, cleaning, execs>>

-----------------------------------------------------------------------------
(* A worker.  The dequeue script pops from queue:{name}:project:{id}, a key *)
(* passed in ARGV and so not prefixed: nothing writes it, LPOP returns nil  *)
(* and LREM removes nothing.  The task comes from the sorted set; the       *)
(* project list the enqueue script wrote keeps its length.                  *)

PopKeeping(t) == UNCHANGED zset   \* mutant: the script forgets ZREM

Pop(t) == zset' = zset \ {t}

DequeueTask(w, t) ==
  /\ pc[w] = "idle"
  /\ t \in Highest
  /\ Pop(t)
  /\ status' = [status EXCEPT ![t] = [st |-> "running", att |-> @.att + 1]]
  /\ IF Parses(t)
     THEN /\ pc' = [pc EXCEPT ![w] = "exec"]
          /\ cur' = [cur EXCEPT ![w] = t]
          /\ execs' = [execs EXCEPT ![info[t].root] = @ + 1]
     ELSE UNCHANGED <<workerVars, execs>>   \* ValidationError: nobody has it
  /\ UNCHANGED <<info, sched, listLen, stored, dlq, op, cleaning>>

HandlerReturns(w) ==
  /\ pc[w] = "exec"
  /\ GoTo(w, "complete")
  /\ UNCHANGED <<queueVars, status, dlq, op, cleaning, execs>>

\* The handler raises or exceeds timeout_seconds.
HandlerFails(w) ==
  /\ pc[w] = "exec"
  /\ GoTo(w, "failed")
  /\ UNCHANGED <<queueVars, status, dlq, op, cleaning, execs>>

CompleteTask(w) ==
  /\ pc[w] = "complete"
  /\ CompleteScript(cur[w], "completed")
  /\ Release(w)
  /\ UNCHANGED <<queueVars, dlq, op, cleaning, execs>>

\* mutant: one attempt more than fail_task allows
WorkerRetriesTooOften(t) == status[t].att <= info[t].max

WorkerRetries(t) == status[t].att < info[t].max

\* _handle_task_failure reads attempts (0 when the hash is gone) and decides.
HandleTaskFailure(w) ==
  /\ pc[w] = "failed"
  /\ GoTo(w, IF WorkerRetries(cur[w]) THEN "fail_task" ELSE "bury")
  /\ UNCHANGED <<queueVars, status, dlq, op, cleaning, execs>>

\* fail_task(retry=True), first read: without task data it returns False.
FailTaskReadsData(w) ==
  /\ pc[w] = "fail_task"
  /\ IF HasData(cur[w]) THEN GoTo(w, "fail_status") ELSE Release(w)
  /\ UNCHANGED <<queueVars, status, dlq, op, cleaning, execs>>

\* fail_task, second read: a missing hash is None, and None.get raises.  The
\* branch that marks the task FAILED is not reachable from a worker, so no
\* action leaves "mark_failed": see FailTaskRetries.
FailTaskReadsStatus(w) ==
  /\ pc[w] = "fail_status"
  /\ IF status[cur[w]].st = "none"
     THEN Release(w)
     ELSE GoTo(w, IF status[cur[w]].att < info[cur[w]].max THEN "requeue"
                                                           ELSE "mark_failed")
  /\ UNCHANGED <<queueVars, status, dlq, op, cleaning, execs>>

\* _retry_task reads the data again.  If it is there, the retry is a new task
\* with one attempt less and a promoted priority; "Project queue full" is an
\* exception that ends the handling.  fail_task ignores the result.
RetryTask(w) ==
  /\ pc[w] = "requeue"
  /\ HasData(cur[w])
  /\ \/ /\ \E t \in Fresh :
             EnqueueScript(t, [level |-> Promote(info[cur[w]].level),
                               max |-> RetryBudget(info[cur[w]].max),
                               root |-> info[cur[w]].root,
                               from |-> None],
                           "future")
        /\ GoTo(w, "mark_retrying")
     \/ /\ ProjectQueueFull
        /\ Release(w)
        /\ UNCHANGED <<queueVars, status>>
  /\ UNCHANGED <<dlq, op, cleaning, execs>>

RetryTaskNoData(w) ==
  /\ pc[w] = "requeue"
  /\ ~ HasData(cur[w])
  /\ GoTo(w, "mark_retrying")
  /\ UNCHANGED <<queueVars, status, dlq, op, cleaning, execs>>

\* mutant: handling falls through to the dead letter queue
MarkRetryingThenBury(w) ==
  /\ pc[w] = "mark_retrying"
  /\ CompleteScript(cur[w], "retrying")
  /\ GoTo(w, "bury")
  /\ UNCHANGED <<queueVars, dlq, op, cleaning, execs>>

MarkRetrying(w) ==
  /\ pc[w] = "mark_retrying"
  /\ CompleteScript(cur[w], "retrying")
  /\ Release(w)
  /\ UNCHANGED <<queueVars, dlq, op, cleaning, execs>>

\* add_task stores the dead letter; _update_stats then calls hincrby, which
\* ProjectIsolatedRedisClient refuses, and the exception ends the handling
\* before fail_task(retry=False).
AddDeadLetter(w) ==
  /\ pc[w] = "bury"
  /\ dlq' = dlq \cup {cur[w]}
  /\ Release(w)
  /\ UNCHANGED <<queueVars, status, op, cleaning, execs>>

\* The worker process dies: no lease or reaper returns its task.
WorkerCrash(w) ==
  /\ pc[w] # "idle"
  /\ Release(w)
  /\ UNCHANGED <<queueVars, status, dlq, op, cleaning, execs>>

-----------------------------------------------------------------------------
(* DeadLetterQueue.retry_task: read, enqueue again, remove *)

ReadDeadLetter(o, t) ==
  /\ op[o].at = "idle"
  /\ t \in dlq
  /\ op' = [op EXCEPT ![o] = [at |-> "enqueue", task |-> t]]
  /\ UNCHANGED <<queueVars, status, dlq, workerVars, cleaning, execs>>

\* mutant: the failed requeue is swallowed and the dead letter removed
IgnoreRequeueFailure(o) == op' = [op EXCEPT ![o].at = "remove"]

AbandonRequeue(o) == op' = [op EXCEPT ![o] = OpIdle]

RequeueDeadLetter(o) ==
  /\ op[o].at = "enqueue"
  /\ \/ /\ \E t \in Fresh :
             EnqueueScript(t, [NewRoot(t, NormalLevel, DefaultAttempts)
                                 EXCEPT !.from = op[o].task], "none")
        /\ op' = [op EXCEPT ![o].at = "remove"]
     \/ /\ ProjectQueueFull
        /\ AbandonRequeue(o)
        /\ UNCHANGED <<queueVars, status>>
  /\ UNCHANGED <<dlq, workerVars, cleaning, execs>>

RemoveDeadLetter(o) ==
  /\ op[o].at = "remove"
  /\ dlq' = dlq \ {op[o].task}
  /\ op' = [op EXCEPT ![o] = OpIdle]
  /\ UNCHANGED <<queueVars, status, workerVars, cleaning, execs>>

OperatorCrash(o) ==
  /\ op[o].at # "idle"
  /\ op' = [op EXCEPT ![o] = OpIdle]
  /\ UNCHANGED <<queueVars, status, dlq, workerVars, cleaning, execs>>

-----------------------------------------------------------------------------
(* Time, key expiry and cleanup_expired_tasks *)

DelayElapses(t) ==
  /\ sched[t] = "future"
  /\ sched' = [sched EXCEPT ![t] = "past"]
  /\ UNCHANGED <<info, zset, listLen, stored, status, dlq, workerVars, op,
                 cleaning, execs>>

NoStatus == [st |-> "none", att |-> 0]

\* task:{id} and its status got the same TTL from the enqueue script.
TaskExpires(t) ==
  /\ t \in stored
  /\ stored' = stored \ {t}
  /\ status' = [status EXCEPT ![t] = NoStatus]
  /\ UNCHANGED <<info, sched, zset, listLen, dlq, workerVars, op, cleaning,
                 execs>>

\* The project list's TTL starts again with every enqueue, so it outlives
\* every task key.
ListExpires ==
  /\ listLen > 0
  /\ stored = {}
  /\ listLen' = 0
  /\ UNCHANGED <<info, sched, zset, stored, status, dlq, workerVars, op,
                 cleaning, execs>>

\* cleanup_expired_tasks deletes the data of a task old enough, then its
\* status; it skips JSON that does not parse and looks at nothing else.
CleanupDeletesTask(t) ==
  /\ cleaning = None
  /\ HasData(t)
  /\ stored' = stored \ {t}
  /\ cleaning' = t
  /\ UNCHANGED <<info, sched, zset, listLen, status, dlq, workerVars, op,
                 execs>>

CleanupDeletesStatus ==
  /\ cleaning # None
  /\ status' = [status EXCEPT ![cleaning] = NoStatus]
  /\ cleaning' = None
  /\ UNCHANGED <<queueVars, dlq, workerVars, op, execs>>

DeadLetterExpires(t) ==
  /\ t \in dlq
  /\ dlq' = dlq \ {t}
  /\ UNCHANGED <<queueVars, status, workerVars, op, cleaning, execs>>

-----------------------------------------------------------------------------
Init ==
  /\ info = [t \in Tasks |-> None]
  /\ sched = [t \in Tasks |-> "none"]
  /\ zset = {} /\ listLen = 0 /\ stored = {}
  /\ status = [t \in Tasks |-> NoStatus]
  /\ dlq = {}
  /\ pc = [w \in Workers |-> "idle"]
  /\ cur = [w \in Workers |-> None]
  /\ op = [o \in Operators |-> OpIdle]
  /\ cleaning = None
  /\ execs = [t \in Tasks |-> 0]

WorkerStep(w) ==
  \/ \E t \in Tasks : DequeueTask(w, t)
  \/ HandlerReturns(w) \/ HandlerFails(w)
  \/ CompleteTask(w)
  \/ HandleTaskFailure(w)
  \/ FailTaskReadsData(w) \/ FailTaskReadsStatus(w)
  \/ RetryTask(w) \/ RetryTaskNoData(w) \/ MarkRetrying(w)
  \/ AddDeadLetter(w)

OperatorStep(o) ==
  \/ \E t \in Tasks : ReadDeadLetter(o, t)
  \/ RequeueDeadLetter(o) \/ RemoveDeadLetter(o) \/ OperatorCrash(o)

Environment ==
  \/ \E t \in Tasks, l \in Levels, m \in 1..MaxAttempts,
        s \in {"none", "future"} : EnqueueTask(t, l, m, s)
  \/ \E t \in Tasks : \/ CancelTask(t)
                      \/ DelayElapses(t)
                      \/ TaskExpires(t)
                      \/ CleanupDeletesTask(t)
                      \/ DeadLetterExpires(t)
  \/ ListExpires \/ CleanupDeletesStatus
  \/ \E w \in Workers : WorkerCrash(w)

Next == \/ \E w \in Workers : WorkerStep(w)
        \/ \E o \in Operators : OperatorStep(o)
        \/ Environment

Spec == Init /\ [][Next]_vars

\* A worker polls for ever and drives what it took to its end; nothing obliges
\* a client, an operator or the clock to act.  RetryTask may leave its branch
\* only while the id pool has ids, so fairness is on the step as a whole.
FairSpec == Spec /\ \A w \in Workers : WF_vars(WorkerStep(w))

-----------------------------------------------------------------------------
(* Properties *)

\* Every variable keeps its type (one per module).
TypeOK ==
  /\ info \in [Tasks -> TaskInfo \cup {None}]
  /\ sched \in [Tasks -> {"none", "future", "past"}]
  /\ zset \subseteq Used
  /\ listLen \in Nat
  /\ stored \subseteq Used
  /\ status \in [Tasks -> [st : StatusNames, att : Nat]]
  /\ dlq \subseteq Used
  /\ pc \in [Workers -> WorkerLabels]
  /\ cur \in [Workers -> Used \cup {None}]
  /\ op \in [Operators -> [at : {"idle", "enqueue", "remove"},
                           task : Tasks \cup {None}]]
  /\ cleaning \in Tasks \cup {None}
  /\ execs \in [Tasks -> Nat]

\* However polls, retries, crashes and requeues interleave, a task is never in
\* the hands of two workers, nor with a worker and still in the sorted set:
\* the duplicate processing that queue_repository.py:9-10 is about.
SingleOwner ==
  \A w \in Workers :
    cur[w] # None =>
      /\ cur[w] \notin zset
      /\ \A v \in Workers : cur[v] = cur[w] => v = w

\* A job, over all the ids its retries create, runs at most the max_attempts
\* its client asked for.  Each retry is a new id with a fresh attempts
\* counter, so no single counter of the code bounds it.
AttemptBudget ==
  \A t \in Used : execs[info[t].root] <= info[info[t].root].max

\* A dead letter is the end of its job: no id of the job is queued or still
\* being processed (the worker of the last retry's parent may only have its
\* "retrying" mark left to write), so a dead letter that an operator requeues
\* never races the original.
DeadLetterFinal ==
  \A t \in dlq, u \in Used :
    info[u].root = info[t].root =>
      /\ u \notin zset
      /\ \A w \in Workers : cur[w] = u => pc[w] = "mark_retrying"

\* _handle_task_failure and fail_task read the attempts twice, with awaits
\* between; they never disagree, so fail_task(retry=True) never takes the
\* branch that marks the task FAILED without a dead letter.
FailTaskRetries == \A w \in Workers : pc[w] # "mark_failed"

\* retry_task never loses a dead letter: when an operator removes it, a task
\* made from it has been enqueued, whatever the queue limit or other
\* operators did in between.
DeadLetterNotLost ==
  [][\A o \in Operators, t \in Tasks :
       (t \in dlq \ dlq' /\ op[o].task = t /\ op'[o] # op[o])
         => \E u \in Used : info[u].from = t]_vars

\* No queued task is forgotten: workers empty the sorted set once clients
\* stop adding to it.
QueueDrains == \A t \in Tasks : t \in zset ~> t \notin zset

-----------------------------------------------------------------------------
(* What the documentation says and the code does not do: each is violated *)

\* queue_repository.py:15-16: all queue operations remove from both the
\* priority ZSET and the project list.
ProjectListDrains == zset = {} => listLen = 0

\* requirements.md:172: task durability through atomic operations - what is
\* popped from the queue is handed to the worker that popped it.
PoppedIsDelivered ==
  [][\A t \in zset \ zset' : \E w \in Workers : cur'[w] = t]_vars
=============================================================================
