----------------------------- MODULE QueueWorker -----------------------------
(***************************************************************************)
(* QueueWorker and WorkerPool of services/queues/workers.py: the polling    *)
(* loop, the coroutines it spawns, the semaphore they share, and graceful   *)
(* shutdown.                                                                *)
(*                                                                         *)
(* One asyncio event loop: what runs between two awaits is one step, and a  *)
(* coroutine spawned by create_task runs before I/O started later returns.  *)
(* The queue is the set of tasks that can be dequeued; what a task becomes  *)
(* in Redis is in module TaskQueue.                                         *)
(***************************************************************************)
EXTENDS Naturals, FiniteSets, Sequences, SequencesExt

CONSTANTS
  Tasks,
  Workers,        \* the workers of one pool
  MaxConcurrent   \* max_concurrent_tasks

ASSUME WorkerAssumption ==
  /\ MaxConcurrent \in Nat \ {0}
  /\ IsFiniteSet(Tasks)

VARIABLES
  queued,     \* tasks a dequeue can return
  loop,       \* where start() of a worker is
  running,    \* self._running of a worker
  spawned,    \* tasks whose _process_task was created and has not begun
  waiting,    \* tasks waiting for _task_semaphore, in order
  executing,  \* tasks that hold _task_semaphore
  failing,    \* tasks in _handle_task_failure
  stopper,    \* where stop() of a worker is
  poolRunning,\* WorkerPool._running
  poolStop,   \* where WorkerPool.stop is
  poolStart   \* where WorkerPool.start is

taskVars == <<spawned, waiting, executing, failing>>
poolVars == <<poolRunning, poolStop, poolStart>>
workerVars == <<queued, loop, running, taskVars, stopper, poolVars>>

LoopLabels == {"check", "dequeue", "sleep", "ended"}
StopLabels == {"idle", "waiting", "returned", "timed_out"}

\* self._current_tasks: _process_task adds its task when it begins.
CurrentTasks(w) == ToSet(waiting[w]) \cup executing[w] \cup failing[w]
Claimed(w) == spawned[w] \cup CurrentTasks(w)
AllClaimed == UNION {Claimed(w) : w \in Workers}

LoopGoesTo(w, l) == loop' = [loop EXCEPT ![w] = l]

-----------------------------------------------------------------------------
(* The polling loop *)

\* mutant: one task too many is accepted
HasRoomForOneMore(w) == Cardinality(CurrentTasks(w)) <= MaxConcurrent

HasRoom(w) == Cardinality(CurrentTasks(w)) < MaxConcurrent

\* `while self._running`, then the capacity check.
LoopChecks(w) ==
  /\ loop[w] = "check"
  /\ LoopGoesTo(w, IF ~ running[w] THEN "ended"
                   ELSE IF HasRoom(w) THEN "dequeue" ELSE "sleep")
  /\ UNCHANGED <<queued, running, taskVars, stopper, poolVars>>

\* _dequeue_next_task returns a task.  A task spawned before began while
\* Redis was answering.
DequeueReturnsTask(w, t) ==
  /\ loop[w] = "dequeue"
  /\ spawned[w] = {}
  /\ t \in queued
  /\ queued' = queued \ {t}
  /\ spawned' = [spawned EXCEPT ![w] = {t}]
  /\ LoopGoesTo(w, "check")
  /\ UNCHANGED <<running, waiting, executing, failing, stopper, poolVars>>

\* It returns None: its timeout is over or the dequeue raised.
DequeueReturnsNone(w) ==
  /\ loop[w] = "dequeue"
  /\ spawned[w] = {}
  /\ LoopGoesTo(w, "sleep")
  /\ UNCHANGED <<queued, running, taskVars, stopper, poolVars>>

PollIntervalEnds(w) ==
  /\ loop[w] = "sleep"
  /\ LoopGoesTo(w, "check")
  /\ UNCHANGED <<queued, running, taskVars, stopper, poolVars>>

-----------------------------------------------------------------------------
(* _process_task *)

\* The semaphore is first come, first served.
Enter(w, t) ==
  IF waiting[w] = <<>> /\ Cardinality(executing[w]) < MaxConcurrent
  THEN executing' = [executing EXCEPT ![w] = @ \cup {t}] /\ UNCHANGED waiting
  ELSE waiting' = [waiting EXCEPT ![w] = Append(@, t)] /\ UNCHANGED executing

TaskBegins(w, t) ==
  /\ t \in spawned[w]
  /\ spawned' = [spawned EXCEPT ![w] = @ \ {t}]
  /\ Enter(w, t)
  /\ UNCHANGED <<queued, loop, running, failing, stopper, poolVars>>

\* mutant: the woken task stays in the semaphore's queue
LeaveQueued(w) == UNCHANGED waiting

LeaveQueue(w) == waiting' = [waiting EXCEPT ![w] = Tail(@)]

TaskAcquires(w) ==
  /\ waiting[w] # <<>>
  /\ Cardinality(executing[w]) < MaxConcurrent
  /\ executing' = [executing EXCEPT ![w] = @ \cup {Head(waiting[w])}]
  /\ LeaveQueue(w)
  /\ UNCHANGED <<queued, loop, running, spawned, failing, stopper, poolVars>>

\* The handler returns in time and complete_task was called.
TaskCompletes(w, t) ==
  /\ t \in executing[w]
  /\ executing' = [executing EXCEPT ![w] = @ \ {t}]
  /\ UNCHANGED <<queued, loop, running, spawned, waiting, failing, stopper,
                 poolVars>>

\* The handler raises or times out; the semaphore is released before
\* _handle_task_failure runs.
TaskFails(w, t) ==
  /\ t \in executing[w]
  /\ executing' = [executing EXCEPT ![w] = @ \ {t}]
  /\ failing' = [failing EXCEPT ![w] = @ \cup {t}]
  /\ UNCHANGED <<queued, loop, running, spawned, waiting, stopper, poolVars>>

\* mutant: a task whose failure was handled stays in _current_tasks
KeepFailed(w, t) == UNCHANGED failing

DiscardFailed(w, t) == failing' = [failing EXCEPT ![w] = @ \ {t}]

\* _handle_task_failure swallows its own errors; `finally` drops the task.
FailureHandled(w, t) ==
  /\ t \in failing[w]
  /\ DiscardFailed(w, t)
  /\ UNCHANGED <<queued, loop, running, spawned, waiting, executing, stopper,
                 poolVars>>

-----------------------------------------------------------------------------
(* Shutdown *)

ClearRunning(w) == running' = [running EXCEPT ![w] = FALSE]

\* WorkerPool.stop before the gather: later callers return at once.
PoolStopBegins ==
  /\ poolStop = "idle" /\ poolRunning
  /\ poolRunning' = FALSE
  /\ poolStop' = "stopping"
  /\ UNCHANGED <<queued, loop, running, taskVars, stopper, poolStart>>

\* stop() of one worker, up to its first await.
WorkerStops(w) ==
  /\ poolStop = "stopping"
  /\ stopper[w] = "idle"
  /\ ClearRunning(w)
  /\ stopper' = [stopper EXCEPT ![w] = IF CurrentTasks(w) = {} THEN "returned"
                                       ELSE "waiting"]
  /\ UNCHANGED <<queued, loop, taskVars, poolVars>>

\* _wait_for_tasks_completion polls _current_tasks.
WorkerDrained(w) ==
  /\ stopper[w] = "waiting"
  /\ CurrentTasks(w) = {}
  /\ stopper' = [stopper EXCEPT ![w] = "returned"]
  /\ UNCHANGED <<queued, loop, running, taskVars, poolVars>>

GracefulTimeout(w) ==
  /\ stopper[w] = "waiting"
  /\ stopper' = [stopper EXCEPT ![w] = "timed_out"]
  /\ UNCHANGED <<queued, loop, running, taskVars, poolVars>>

PoolStopReturns ==
  /\ poolStop = "stopping"
  /\ \A w \in Workers : stopper[w] \in {"returned", "timed_out"}
  /\ poolStop' = "returned"
  /\ UNCHANGED <<queued, loop, running, taskVars, stopper, poolRunning,
                 poolStart>>

\* WorkerPool.start wakes on _shutdown_event and calls stop(), which finds
\* _running already false and returns.
PoolStartReturns ==
  /\ poolStart = "waiting"
  /\ ~ poolRunning
  /\ poolStart' = "returned"
  /\ UNCHANGED <<queued, loop, running, taskVars, stopper, poolRunning,
                 poolStop>>

\* A producer enqueues; a finished id stands for a new task.
TaskArrives(t) ==
  /\ t \notin queued \cup AllClaimed
  /\ queued' = queued \cup {t}
  /\ UNCHANGED <<loop, running, taskVars, stopper, poolVars>>

-----------------------------------------------------------------------------
WorkerInit ==
  /\ queued = {}
  /\ loop = [w \in Workers |-> "check"]
  /\ running = [w \in Workers |-> TRUE]
  /\ spawned = [w \in Workers |-> {}]
  /\ waiting = [w \in Workers |-> <<>>]
  /\ executing = [w \in Workers |-> {}]
  /\ failing = [w \in Workers |-> {}]
  /\ stopper = [w \in Workers |-> "idle"]
  /\ poolRunning = TRUE
  /\ poolStop = "idle"
  /\ poolStart = "waiting"

LoopStep(w) == \/ LoopChecks(w) \/ DequeueReturnsNone(w) \/ PollIntervalEnds(w)
               \/ \E t \in Tasks : DequeueReturnsTask(w, t)

TaskStep(w, t) == \/ TaskBegins(w, t) \/ TaskCompletes(w, t) \/ TaskFails(w, t)
                  \/ FailureHandled(w, t)

StopStep(w) == WorkerStops(w) \/ WorkerDrained(w) \/ GracefulTimeout(w)

WorkerNext ==
  \/ \E w \in Workers : LoopStep(w) \/ TaskAcquires(w) \/ StopStep(w)
  \/ \E w \in Workers, t \in Tasks : TaskStep(w, t)
  \/ PoolStopBegins \/ PoolStopReturns \/ PoolStartReturns
  \/ \E t \in Tasks : TaskArrives(t)

WorkerSpec == WorkerInit /\ [][WorkerNext]_workerVars

\* The event loop runs every coroutine that is ready; handlers end because
\* wait_for bounds them.  Nothing obliges a producer, or anyone to stop the
\* pool.
WorkerFairSpec ==
  /\ WorkerSpec
  /\ \A w \in Workers :
       /\ WF_workerVars(LoopStep(w)) /\ WF_workerVars(TaskAcquires(w))
       /\ WF_workerVars(StopStep(w))
       /\ \A t \in Tasks : WF_workerVars(TaskStep(w, t))
  /\ WF_workerVars(PoolStopReturns) /\ WF_workerVars(PoolStartReturns)

-----------------------------------------------------------------------------
(* Properties *)

\* Every variable keeps its type, and a claimed task is in one place of one
\* worker.
WorkerTypeOK ==
  /\ queued \subseteq Tasks
  /\ loop \in [Workers -> LoopLabels]
  /\ running \in [Workers -> BOOLEAN]
  /\ spawned \in [Workers -> SUBSET Tasks]
  /\ waiting \in [Workers -> Seq(Tasks)]
  /\ executing \in [Workers -> SUBSET Tasks]
  /\ failing \in [Workers -> SUBSET Tasks]
  /\ stopper \in [Workers -> StopLabels]
  /\ poolRunning \in BOOLEAN
  /\ poolStop \in {"idle", "stopping", "returned"}
  /\ poolStart \in {"waiting", "returned"}
  /\ \A w \in Workers :
       /\ IsInjective(waiting[w])
       /\ Claimed(w) \cap queued = {}
       /\ \A v \in Workers \ {w} : Claimed(v) \cap Claimed(w) = {}
       /\ executing[w] \cap (spawned[w] \cup ToSet(waiting[w])) = {}
       /\ failing[w] \cap (spawned[w] \cup executing[w] \cup ToSet(waiting[w])) = {}

\* The capacity check runs before a spawned coroutine has entered
\* _current_tasks, yet a worker never takes more than one task beyond its
\* limit off the queue, and never executes more than its limit.
ClaimBound ==
  \A w \in Workers :
    /\ Cardinality(spawned[w]) + Cardinality(CurrentTasks(w)) <= MaxConcurrent + 1
    /\ Cardinality(executing[w]) <= MaxConcurrent

\* Every task a worker took off the queue leaves it in the end, whatever
\* arrives after it and also when the pool is stopped meanwhile.
ClaimedEnds ==
  \A w \in Workers, t \in Tasks : t \in Claimed(w) ~> t \notin Claimed(w)

\* workers.py:113: stop() waits for the current tasks, so when it returned
\* without a timeout the worker has no task left.
StopDrains ==
  \A w \in Workers : stopper[w] = "returned" => Claimed(w) = {}
=============================================================================
