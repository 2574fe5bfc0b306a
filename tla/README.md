# Verification of the JEEX Idea backend

TLA+ models of `backend/app`, their TLC instances and their TLAPS proofs.
Paths below are relative to `backend/app` unless they start with `backend/`.

- [The system](#the-system): components, state, interaction, hard behaviours
- [The modules](#the-modules): which models what, and how it maps to the code
- [The runs](#the-runs): what TLC checks, with which bounds, and why they do
- [Fairness](#fairness)
- [The proofs](#the-proofs)
- [Divergences](#divergences) between code and its comments, docs and tests
- [What is not modelled](#what-is-not-modelled)
- [Plan](#plan)

`PROJECT.json` lists the components, the runs, the source lines of every
definition, a mutant for every property, the findings, the hazards and the
theorems.

## The system

A FastAPI application in one asyncio event loop, over PostgreSQL, Redis and
Qdrant, and queue workers that poll Redis.

| Component | State | Operations | Reached by |
|---|---|---|---|
| Task queue (`services/queues/queue_manager.py`, `infrastructure/repositories/queue_repository.py`) | per project and task type: a sorted set of JSON tasks by priority, a list whose length is the project's quota, per task a data key and a status hash | enqueue, dequeue, complete, fail/retry, cancel, cleanup; Lua scripts | clients, workers |
| Dead letter queue (`services/queues/dead_letter.py`) | a key and a set entry per dead letter | add, retry, remove, expiry | workers, operators |
| Workers (`services/queues/workers.py`) | per worker: `_running`, `_current_tasks`, a semaphore; pool: `_running`, `_shutdown_event` | poll, process, stop | queue, pool |
| Redis circuit breaker (`infrastructure/redis/circuit_breaker.py`) | state, failure and success counts, time of last failure | call, reset | Redis connections |
| Projects and documents (`api/endpoints/projects.py`, `documents.py`, `core/database.py`) | rows of `projects` and `document_versions`; a session per request | create, get, list, latest, update, delete | HTTP clients |
| Database maintenance (`core/maintenance.py`) | queue, running tasks, history, semaphore, scheduler task | schedule, run and wait, cancel, stop, cleanup | endpoints, time |
| Span exporter (`core/resilient_exporter.py`) | local buffer under a lock, fallback's collected spans, breaker | export, retry, clean up, flush, shutdown | the processor's thread and the event loop |
| Rate limiter (`services/rate_limiting/`) | sorted set or bucket per identifier; cached script SHAs | check, reset | (middleware, not installed) |
| Agent executions (`agents/`, `api/endpoints/agents.py`) | execution rows, a Redis state per correlation id | start, track, fail | HTTP clients |
| Progress streams (`services/sse.py`) | Redis pub/sub | publish, stream | nothing yet |
| Database sessions, lifespan (`core/database.py`, `core/db_optimized.py`, `main.py`) | pool metrics, a breaker, start-up order | get session, start, stop | everything |
| Backup (`core/backup.py`) | files, history, current backup | create, verify, restore, retention | `core/testing.py`, reports |
| Redis connections (`infrastructure/redis/`) | pools and clients per project | get connection, close | everything on Redis |
| Vector search (`services/vector/`) | Qdrant collection | initialise, upsert, delete, search | endpoints |
| Monitoring (`monitoring/`, `core/monitoring.py`, `core/redis_instrumentation.py`) | metric histories, health, alerts, loops | start, stop, collect | lifespan |
| Cache (`services/cache/`, `domain/cache/`) | Redis keys | get, put, invalidate | application services |

**How they interact.** Everything on Redis passes a
`ProjectIsolatedRedisClient`, which prefixes the keys of the methods it knows and
refuses the others (`hincrby`, `pipeline`, `setex`, `sadd`, ...). A Lua script
is atomic; anything between two awaits is interleaved with every other
coroutine, worker process and operator. The workers drive the task life cycle,
whose data lives in Redis only: no transaction spans two calls. Requests share
PostgreSQL at READ COMMITTED; their commit is the exit of a dependency and
follows the answer. The span processor runs `export` on its own thread, against
tasks of the event loop.

**What is hard.** Two workers after one task; two reads of one counter with
awaits between; retries under new ids; a failure between a requeue and the
removal of what was requeued; late results of calls that began in another
breaker state; stopping a pool while a dequeue is in flight; choosing a
version in one statement and inserting in the next; updates by id after a check
two statements ago; a scheduler stopped while a call polls its queue; a lock two
threads share. `PROJECT.json` has each at its line, with the properties for it.

**What makes the components correct.** A task has one owner and is never
forgotten; a job runs at most as often as it was asked to and its dead letter
is its end. Breaker counters fit the state; recovery is never postponed for
ever. A worker is never overloaded, and stops. Version numbers are unique and
grow, no update is lost, only owners write. Maintenance respects its limit,
loses no task, and no call hangs. The limiter counts no more than its limit in a
window and refuses for nothing older. The exporter's buffer stays within its
size, and export returns.

## The modules

Each component has `X.tla` (the model and its properties). Its theorems are in
`XProofs.tla`, or with those of its neighbours: `RuntimeProofs.tla` has the workers, the
breaker and the exporter, `PlatformProofs.tla` the Redis connections, the lifespan and the
backups, `ServicesProofs.tla` the other services. Five components have an `MCX.tla` (values for TLC) and a
`.cfg` per question. Components that share no state with one another are
checked in one run each behaviour of which is about one of them: `MCRuntime.tla`
puts together the workers, the breaker and the exporter, `MCServices.tla` the eight
services from AgentExecutions to AppLifespan. `part` names the component a
behaviour is about; the others keep their initial states, so that the state spaces
add up and do not multiply.
Operators marked `mutant:` in a module are the faulty variants of the
definition after them; nothing else uses them.

### TaskQueue

One queue of one project. A task id is used once (a uuid): a retry enqueues a
new id whose `root` names the job. `zset`, `listLen`, `stored`, `status`, `dlq`
are the Redis keys; `pc` and `cur` say where each worker's `_process_task` is
and with which task; `op` the same for an operator's `retry_task`; `cleaning`
for `cleanup_expired_tasks`. Every Redis call of the failure handling is a step
of its own: `HandleTaskFailure` reads the attempts, `FailTaskReadsData` and
`FailTaskReadsStatus` read again, `RetryTask` enqueues, `MarkRetrying` writes
the status, `AddDeadLetter` buries. Between any two the task may be cancelled,
cleaned up or expire, and the worker or operator may die. `execs` is a history
variable.

The model follows what the scripts do. The dequeue script pops from a list key
passed in ARGV, which the client does not prefix: so the pop from the list finds
nothing and the task comes from the sorted set. `cancel_task` only writes the
status. A `scheduled_at` that has passed does not parse, which is why
`Parses` appears in `DequeueTask` and in each read.

Assumed: each worker is initialised (the application itself nowhere calls
`queue_repository.initialize()`; `backend/tests/test_blpop_fix.py` does), and
priorities are compared by level only.

### JobQueue and TaskQueueJobs

`JobQueue` is what the queue promises for a *job*, a task with all the tasks its
retries make: it is waiting, running, a dead letter or over, one at a time; it is
delivered at most as often as it was given attempts; it becomes a dead letter
only when they are used up, and is never back after that. It says nothing of ids,
keys, counters or scripts. It allows a waiting job to be dropped, since the code
does (`queue_popped`). `TaskQueueJobs` has the refinement mapping: the place of a job
is where the one live id of its root is. Between the enqueue of a retry and the
status "retrying" both ids exist; the job is then where the new one is
(`Handles`).

### QueueWorker

The loop, the spawned coroutines, the semaphore and the shutdown. One event loop: a
coroutine that `create_task` spawned begins before Redis answers a later
dequeue, which is the conjunct `spawned[w] = {}` of `DequeueReturnsTask`; at
most one task waits for the semaphore for that reason. The queue is only the
set of tasks a dequeue can return; a finished id may arrive again and stands for
a new task. Each worker object is started once, as `WorkerPool.start` does.

### RedisCircuitBreaker

`call()` decides under the lock, runs outside it, records under it. `calling`
holds the calls in flight, so that outcomes arrive in states other than the one
the call began in. Time is the bit `cooling`. `healthy`/`troubled` are the
environment, `streak` is a history variable.

### DocumentVersions

A request is one handler in one session; `at` is the statement it has come to,
`write` the uncommitted write of its transaction, which others wait for on the
same row or unique key. The history variables `lastSet` and `before` say who
set a column last and what was there when the request was asked. The model has
the columns of the ORM class and the unique index of the migration
(`backend/alembic/versions/db9e7a2f528c_initial_database_schema.py`), which is what
the code is written for; with the migration's table alone, which lacks
`is_deleted`, each statement on documents fails (`StatementFails` covers this
answer). Paginated lists are not modelled: they write nothing, and the instance
leaves out `get` and `get_project` for the same reason. A request that waits
for a row or a key holds none itself, since each handler writes once and then
only commits: this is `HoldersWaitForNothing`, which rules out circular waits.

### Maintenance

The scheduler's rounds (`RoundOutsideWindow`, `RoundInWindow`,
`AnalysisReturns`, `ProcessQueue`, `SleepEnds`), the tasks they start, and calls of
`run_maintenance`, which schedule tasks and poll for them with a patience of
`Patience` rounds. A task is in the queue, in the coroutine that waits for the
semaphore, running, or in the history. The needs analysis returns any needs;
on PostgreSQL its query names a column `tablename` that `pg_stat_user_tables`
does not have, so that it returns none.

### SpanExport

Two threads, `worker` and `loop`, and the buffer's lock, which is not
reentrant. What a thread does with the lock is one step, as it holds it to the
end; `lock` has a thread's name only when that thread waits for the lock it
holds. An exception of the primary exporter makes the warning about it raise
(it passes keyword arguments to a standard logger), so `PrimaryRaises` loses the
batch and leaves breaker and buffer alone; a result FAILURE is `PrimaryRefuses`.
Ages are three bands around the one and five minutes of the code; `Keeping` is what the
buffer has at the positions a round keeps (`Recent`, `Unexpired`). Not in the
model: the breaker, which counts no failure, and the back-up files, which are
never written.

### RateLimiter and TokenBucket

*RateLimiter* is the sliding window. A slot of `Checks` is one check at a time: it reads the clock of
its process (`ReadsClock`), the script runs at some later time within `MaxDelay`
(`ScriptAnswers`), and anything that raises lets the request pass (`CheckFails`).
redis-py sends a script again when its answer is late (`retry_on_timeout` in
`infrastructure/redis/connection_factory.py`), after it may have run
(`AnswerIsLate`). `zset` is the sorted set, pruned by each script and dropped when
`expires` comes; `units` is a history of what was added and when. Units of time stand for the
code's milliseconds. A unit is a member `now:random` of the set, so that two
requests of one millisecond whose random numbers coincide count once, and the
properties are about what the limiter counts. Left out: the middleware's
sequence of checks, each of a key of its own; status and metrics, which only read.

*TokenBucket* is `TokenBucketStrategy` of `strategies.py`. A client reads its clock in whole
seconds, and its script runs up to `MaxScriptLag` later (`bucketNow` is the time it
has read), so scripts run with times that go back. The refill is then negative: what
a late script takes away is what the next one adds once more. `bucketSpan` keeps the
first and the latest time a script had since the key was created. The other
strategies are sequences of commands of which one is refused: IsolatedRedis has them.

### AgentExecutions

`agentAt` is the statement a request has come to, `agentWrite` the uncommitted row of
its transaction. Each request checks the owner of the project and writes in a later
statement; `erased` are the projects soft deleted meanwhile. The start of a
workflow opens a transaction in a session that has one: SQLAlchemy raises, the
orchestrator marks the execution with its correlation id as failed (`"mark"`) and
raises, and the session is rolled back (`"raise"`). What would come after, the Redis
state and the crew, is never reached.

### ProgressStream

A stream is opening (SUBSCRIBE under way), open, closing (UNSUBSCRIBE) or idle.
`published` has a channel's events; a publication goes to the inboxes of the
streams subscribed at that moment (`PublishesEvent`), and a stream yields from its
inbox until a final event (`AfterEvent`), a disconnect or an error (`StreamBreaks`).
The polling loop reads without a wait, so its two timeouts cannot expire and are no
actions.

### VectorStore

A request is a sequence of calls of Qdrant (`vectorAt`), each in a thread of its
own: initialisation looks for the collection, creates it, creates each index;
several may run at once, in several processes, and each call may fail and be
repeated. `vectorLeft` is what is still to do. Reads filter by the context; an
upsert writes by id, whoever has the point. `vectorAnswer` is what a read returned.

### IsolatedRedis

The cache repositories, the domain services, the manager, the rate limit repository
and the unused strategies as the commands they send, one per step, so that those
of several clients interleave. A command the client wrapper has no method for
raises and ends the operation half way. `SETEX` is one, so no value is ever
stored, and what follows a successful read is not reached; only the task lists
(LPUSH, RPOP, DEL) hold anything.

### RedisConnections

`RedisConnectionFactory` and `RedisService`, each with a lock and a flag read
before and after the lock is taken. `connAt` is the await a coroutine has come to,
`held` the pool of its client, `disconnected` the pools a close has disconnected.
Pool ids are objects: one that nothing refers to is used again.

### DatabaseBackup

`create_backup` up to its record in the history, verification, load, restore and
clean-up. A file is an id, an extension and who wrote it, since the names the code
expects are not those the tools give. Ids have whole seconds, so that two backups of a kind
may share one. The history file is opened (which empties it) and written in two
steps (`"open"`, `"write"`), and may be torn by a second job.

### AppLifespan

`StartCalls` and `StopCalls` are the awaits of `lifespan` in `main.py`, in order; each may
raise. `known` is the attribute in which a service keeps its loop's task, `tasks` the
tasks that have not ended; a stop cancels the one it knows, awaits it and clears
the attribute, which another request may have set to a new task meanwhile. The
server is assumed to let requests finish before it shuts down, as uvicorn does.

## The runs

| Run | Question | Bounds, and why they are enough |
|---|---|---|
| `queue_lifecycle` | Does a job keep to its budget, do the two attempt reads agree, is its dead letter final and never lost? | 3 ids, 1 job, budget 2, 2 workers, 1 operator, a limit of 3 entries (the code counts a quarter of `MaxSize`): original, retry, dead letter, requeue refused and accepted, with crash, expiry and cleanup at each step. One more id repeats these |
| `queue_drains` | Has a task one owner, and is every queued task taken? | 2 ids of 2 priorities, 2 workers: a tie and an overtaking |
| `queue_jobs` | Does the queue implement JobQueue? | 2 ids, so 2 jobs, or one with a retry or a requeued dead letter; budgets 1 and 2; 2 workers, 1 operator |
| `queue_popped` (violation) | Does a popped task reach a worker? | 1 worker, 1 job |
| `queue_listdrains` (violation) | Does the project's list shrink? | 1 worker, 1 job |
| `runtime` | Workers: is one overloaded, does each claimed task end? Breaker: do counters fit the state, and does a healthy Redis close the circuit? Exporter: is a span sent once from the buffer, does a refused one stay with the fallback, does export return unless a thread waits for its own lock? | capacity 2 and 4 tasks that come back: more than capacity plus one at any time; 3 calls in flight, thresholds 3: outcomes of up to two earlier states are in flight when the state changes; 3 spans, batches of 2, a buffer of 2, which overflows and is not saved below 3 |
| `worker_drains` (violation) | Has a stopped worker no task? | 2 workers |
| `exporter_returns` (violation) | Does export return? | a buffer of 3, saved at each multiple of 2 |
| `documents` | Are versions unique and growing, updates kept, writes owned, and does no holder wait? | 3 requests of one client, of every writing kind; 2 projects of 2 owners, one document each: two racing and a third that deletes, or commits between; versions to 3 |
| `maintenance` | Does the limit hold, is each task in one place and ended, does the queue keep its order, does each call return? | 3 tasks, 2 calls, 1 permit, patience 2: tasks queue for the loop and for the permit, calls time out |
| `limiter` | Does a window admit no more than the limit, and is nobody refused for older units? | 1 key, as keys do not interact; 2 checks in flight on 2 processes skewed by 1, delay to 1; limit 2, window 4, costs 1 and 2; clock to 6: a window fills, slides and fills again, and the key expires |
| `services` | *Agents*: who changes an execution? 2 requests, 2 projects of 2 owners, 2 rows: each pairing of update, failing workflow and deletion. *Bucket*: how much does it admit? limit 3, window 2, lag 2, clock 7: it empties, refills, goes back in time and expires. *Streams*: what does one yield? 2 streams, 2 operations, 2 events each: before, during and after the subscription, one final. *Vectors*: is an initialised collection indexed, and do reads keep to their context? 2 requests, 3 contexts, 1 point that two projects overwrite, 2 indexes. *Cache*: is the list of a project its own queue? 2 clients, 2 projects, 2 tasks each. *Connections*: is there one pool per project? 2 coroutines of every kind, 1 project and the default, 4 pool objects. *Backups*: can one be restored? 2 jobs, a full and a WAL backup, every compression, 2 ids. *Lifespan*: is a shutdown complete? 2 monitors, of which one uses Redis, 2 stop requests, 2 task objects a loop | one part per behaviour |

Every property of a passing run has a mutant: a plausible fault in one definition
that makes TLC find the property violated under the same configuration.
`MaxJobs`, `Tasks`, `MaxVersion`, `MaxTime`, `MaxBucketTime`, `MaxEvents`, `MaxPushed`,
`MaxBackups`, `MaxBackupTime`, `MaxNeeds`, `Patience` and the pools of requests, spans,
calls, ids and tasks bound the instances; each is a constant named in its
module. `CHECK_DEADLOCK FALSE` stands where the instance really stops: ids,
requests or spans are used up, or the component was shut down.

## Fairness

Liveness is checked under `FairSpec`, which states what the event loop and the
timeouts in the code guarantee, and nothing about clients. DocumentVersions,
RateLimiter and the services have no liveness property: their steps end unless requests
wait for locks in a circle, and that is a matter of safety (`HoldersWaitForNothing`).
`MCRuntime` states the fairness of its three parts, each for its own behaviours.

- *TaskQueue*: a worker that can take a step takes one (its loop never ends).
- *QueueWorker*: each ready coroutine runs; a handler ends since `wait_for` bounds
  it. Nobody has to stop the pool.
- *RedisCircuitBreaker*: callers go on calling and calls end. Strong fairness on
  the end of a call: not every call of a caller is cancelled. The recovery
  timeout elapses.
- *Maintenance*: the loop, each started task and each polling call go on; time
  passes (strong fairness on `IdleRoundPasses`, since stop and start interrupt
  it). Nobody has to stop the scheduler.
- *SpanExport*: a call of the primary exporter returns or raises; a thread that
  does not wait for a lock goes on. A thread that waits for the lock it holds is
  not enabled, and no fairness can help it.

## The proofs

TLAPS checks every theorem for all values of the constants, under the named
assumptions of the modules only, which the runs evaluate. The assumptions say that bounds
and thresholds are numbers and values for "none" are not among the real ones, and these
besides: a backup takes less time than backups are kept (`BackupAssumption`); monitors have
names of their own, different from the other calls of the lifespan (`LifespanAssumption`); a
context is a pair of project and language (`VectorAssumption`); each project has one owner
(`DocumentAssumption`, `AgentsAssumption`).

Every safety property that a passing run checks is a theorem, invariants as well as action
properties and the refinement. For each the argument is an inductive invariant, named below
with what it adds and why the property alone does not carry over a step.

**TaskQueueProofs.** Four invariants, each on top of the one before.
`TypeInv` adds to the types that a worker is idle exactly when it has no task;
`OwnerInv` adds `SingleOwner`, which gives *ExclusiveDelivery*: a step can give a worker a
task only by taking it from the sorted set, where ids enter once
(`Handover`). `CounterInv` says that a worker in the retry branch has seen an
attempts counter that nobody but its own delivery can raise
(`RetryAllowed`, `CountedWhenDelivered`): *RetryReadsAgree*. `BudgetInv` adds
that a job has at most one live id (`OneLive`) whose budget plus the executions so far
is within the budget of the root (`LiveBudget`): neither `AttemptBudget`
nor `DeadLetterFinal` is inductive without both. Steps are first reduced to
the four ways they touch jobs (`JobStep`), then each way is proved. *DeadLettersKept*
is an action property from `RequeuedFirst`.

**TaskQueueJobsProofs.** *QueueImplementsJobs*: every step of the queue moves one job the
way JobQueue allows, or none. Two arguments meet. First, a step is one of seven
moves (`JobMove`), and each move takes the place of its job, and of no other, from
one value to another: this needs that a job has one live id (`OneLive`, from
`BudgetInv`). Second, what JobQueue says about attempts: `BudgetInv` bounds the
executions of a job from above; for `Bury`, which asks that they are *used up*, they
must be bounded from below, and that is `JobsInv`: an id is counted once
(`CountedOnce`), what goes to the dead letters had one attempt left (`LastAttempt`), and
no attempt is lost between two retries (`NothingLost`).

**RuntimeProofs.** Three components and their composition.
*RedisCircuitBreaker*: `BreakerInv` adds `StreakCovers`, that half-open successes are part
of the streak. It gives the type, *CountersFollowState* and, as an action property,
*ClosingNeedsStreak*.
*QueueWorker*: `LoadInv` counts: with a dequeue in flight the worker has below
`MaxConcurrent` tasks, otherwise at most that many and one spawned; *ClaimsBounded* follows by
cardinalities of finite sets. `PlacesInv` adds to the type that a spawned task does not yet
wait for the semaphore: otherwise it could be put there twice (*TasksInOnePlace*).
*SpanExport*: where a span may be depends on how far its batch is. `WorkerOK` says that a
batch the primary exporter still has is nowhere else, and that what is left of a refused one
to buffer is of that batch and in neither the buffer nor the retry task's hand; `LoopOK` says
when that hand is empty. With them `SentOnce` and `RefusedAreKept` are inductive
(*SpansAreSentOnce*, *RefusedSpansAreKept*); the lemmas about `Keeping` say that filtering the
buffer keeps its order, adds nothing and repeats nothing.
*RuntimeTyped*: a behaviour of `MCRuntime` is one of each component
(`RuntimeIsItsParts`), so the theorems hold in the process the run is about.

**DocumentVersionsProofs.** `IInv` adds the locks to `VersionsUnique`: keys of
uncommitted inserts are free and distinct (`KeysFree`), two open transactions
have not written one row (`RowsLocked`), what is written exists. It gives
*DocumentsTypeCorrect* and *VersionsStayUnique*; *HoldersOnlyCommit* needs only the types.
`OwnInv` goes further: past the check the project is the user's (`Owns`) and the document
the project's (`Right`), what will be written is what was asked, with the columns it does
not set as they were last committed (`Matches`), and nothing is written that is still to
be made (`NotYet`, `AskedIds`). Projects never change owner and documents never change
project, and a row that was updated stays locked until the commit: so `Owns`, `Right` and
`Matches` outlive the other requests' commits (`CommitKeepsOwners`, `CommitWritesOne`).
It gives *UpdatesAreKept* and *OnlyOwnersWrite*. `NewInv` adds that a document that was
there when a request came is not still to be made (`BeforeIsMade`), and that the version,
once chosen, is above those of its kind that were there (`Newest`): such a document can go
and never come back or change its version, so the others' commits keep it
(*ChosenVersionIsNewest*).

**MaintenanceProofs.** `IInv` is `TypeOK`, `OnePlace` and `RunsWithinLimit`
together: that a task is in one place keeps the running ones apart from the waiting
ones when permits are counted. A status changes only from where the task then is
(`StatusStep`): *EndedTasksStay*. `PlaceInv` adds that a call the scheduler serves has its task
at most `Ahead` behind, which is one while a round is still to take a task and
none while it sleeps: a sleep adds a round and a round takes a place (*MaintenanceInOrder*).

**RateLimiterProofs.** `IInv` says how scores relate to real time: the clock a check has
read differs from real time by at most `MaxAhead` ahead and `MaxDelay` behind
(`StampsAreClose`), so does the score of a unit from the time it was added
(`ScoresAreClose`). Hence what was added within the window less that slack is still
in the set (`RecentAreStored`), each unit under a member of its own
(`RecentAreDistinct`), and there are at most as many as the set holds
(`StoredAreFew`): *WindowIsRespected*. Without the slack the property is false:
a fast process prunes what a slow one would still count. `UsedInv` adds the converse
(`Backed`): each member that may still count has a unit of its own, added recently enough,
so a script that refuses counts granted units only (*RefusalsAreJustified*).

**PlatformProofs.**
*RedisConnections*: `CoroutineOK` says what a coroutine holds and asks for at each await; a
step either moves one coroutine outside the factory's lock (`Moves`) or changes the pools under
it. A pool of a project only fills an empty place and a close disconnects what it forgets, so that a
client's pool stays the project's or is disconnected (*ProjectsShareOnePool*).
*AppLifespan*: `LifeInv` says how far a shutdown is: what the calls before the current one
have stopped is stopped (`StoppedBefore`), which needs that a shutdown begins when no request
is stopping a monitor. The attribute names a loop's only task (`Remembered`) until two
stops overlap; with it *ShutdownStopsEverything* follows from the order of `StopCalls`, which is
a sequence in three parts around any monitors (`InThreeParts`).
*DatabaseBackup*: *EveryBackupFails* is about verification, which succeeds only if a sum and
a file agree. `JobOK` says that a job with a sum has it of the `.lz4` file while the dump is
still there, since clean-up removes only what is older than a running backup can be; and the
dump is the file that is found first.

**ServicesProofs.** Five services and the composition of all eight.
*TokenBucket*: `BucketInv` says that units granted plus tokens left are within the capacity
and the refill up to the time of the last script, and a bucket below zero owes no more than that
time lags behind the latest one. *BucketGrantsWithinRate* follows, although times go back: the
products of the rate with differences of times add up (`RateSplits`).
*ProgressStream*: `RunOK` follows what was yielded and what is in the inbox event by event
through the channel, since equations between concatenations are not what the provers are good
at; `RunYields` turns it into the property (*StreamsYieldARun*).
*IsolatedRedis*: every sequence of commands an operation may send is one of `Operated`
(`EveryOpHasCommands`), and each command pushes, pops or clears the list of its own project;
the lemmas on `Reverse` and `RemoveAt` do the rest (*ProjectListsAreFifo*).
*VectorStore*: `RequestOK` says that the indexes a request no longer owes exist, which other
requests keep so until a recreation (`StoreGrows`): *IndexesAreComplete*, and the action property
*AnswersStayInContext* from what the request was asked.
*AgentExecutions*: `AgentOK` says that a request past its check is about a project of its
user and the row it is about to change is of that project; `WritesAreApart` keeps the row of
one transaction from being changed by another before the commit (*ExecutionsChangeByOwner*, an
action property).
*ServicesTyped* combines the types of the eight (`ServicesAreParts`).

Only model-checked, because fairness and ENABLED are beyond the prover: `QueueDrains`,
`ScheduledEnds`, `CallsReturn`, `CircuitRecovers`, `ClaimedEnds`, `ReturnsUnlessStuck`. That the
four violated properties fail is shown by TLC's counterexamples only.

## Divergences

Shown by runs (`findings` of `PROJECT.json`):

- `queue_popped`: a task whose `scheduled_at` has passed is popped, fails validation
  and reaches no worker.
- `queue_listdrains`: the list that the 25 % project limit counts is never
  shrunk by a dequeue.
- `worker_drains`: `stop()` returns while a dequeue in flight hands over a task.
- `exporter_returns`: `LocalBuffer.put` asks for the lock it holds when it saves
  the buffer. In the shipped set-up the OTLP exporters get an argument they do
  not take and raise, so that nothing is buffered at all; the run is about any
  primary exporter that answers FAILURE.

Seen while modelling, and part of the models as the code has it, without a run:

- Queue: a cancelled task stays queued and runs; `scheduled_at` is not looked
  at by the dequeue; the back-off exponent is the counter of a fresh id and so
  always the first; a task is marked retrying also when nothing was requeued; a
  dead-lettered task keeps the status running, since the statistics update
  (`hincrby`) is refused after the dead letter was stored; script SHAs are not
  loaded again after a Redis restart.
- Breaker: a success takes one from the failure count, the comment at
  `infrastructure/redis/circuit_breaker.py:236` says otherwise.
- Pool: `WorkerPool.start` may return before the workers have stopped.
- Documents: the retry decorator on create waits for an `IntegrityError` that the
  method has turned into an HTTP 400; a project may be soft deleted between
  another request's check and its write; documents are answered before they are
  committed.
- Maintenance: a cancelled task is not stopped and its mark is overwritten at
  its end; a call that timed out leaves its task, which runs; VACUUM is sent
  inside a transaction; one task leaves the queue per round of 300 s.
- Exporter: a raising primary loses its batch, which
  `backend/tests/integration/telemetry/test_resilience_validation.py` expects to be
  buffered; the retry task discards spans between one and five minutes old;
  a failed flush discards all; the fallback never writes a file
  (`span.trace_id`), so what it collects only grows.
- Rate limiter: after a restart of Redis the SHAs are unknown to it, each check fails
  and each request passes until the process restarts; a failed ZCARD, read for a
  span attribute only, turns a refusal into a permission; Redis seeds
  `math.random` alike in each run of a script, so that requests of one millisecond
  get the same member and count once; `Retry-After` is the age of the oldest unit,
  which does not make room for a request of more than one; the middleware
  calls the application once more when it raises (`services/rate_limiting/middleware.py:121`).
- Redis connections: the factory's breaker guards only the construction of a
  client (`infrastructure/redis/connection_factory.py:205`), which does not talk to
  Redis, so that it never opens; a command whose answer is late is sent again, so that
  a dequeue may pop two tasks, of which one is lost (`WorkerCrash` of TaskQueue has this
  outcome).
- Agents: the start of a workflow always fails, so that no execution is run,
  and the failure it records is rolled back.
- Progress streams: the stream polls without a wait, cannot time out, and misses what
  was published before it subscribed, the final event included.
- Vectors: an upsert without an id sends the id "None"; an upsert may overwrite the
  point of another project and `delete_points` deletes it; recreation is not
  atomic; a collection is never reported healthy; `delete_by_filter` answers with a count
  taken before.
- Token bucket: the refill is at least one per second (`services/rate_limiting/strategies.py:33`),
  which is more than `limit` per `window` when the window is longer than the limit;
  members `now:i` of the distributed strategy collide.
- Cache and rate limit repository: each write is refused by the client wrapper, so that nothing
  is ever cached; the repository answers "allowed" when it fails
  (`infrastructure/repositories/rate_limit_repository.py:252`).
- Redis connections: a pool whose first ping failed is overwritten and not
  disconnected; the administration's client may be made without a pool when a close
  comes between, and redis-py then makes one of its own.
- Backup: gzip writes `.gz` and zstd `.zst` where the code looks for `.gzip` and `.zstd`;
  lz4 compares the dump with the sum of the compressed file; no compression reads an unassigned name;
  other kinds than full have no dump; clean-up puts a `BackupInfo`, which has no hash, in a set.
  `NoBackupIsUsable` states the outcome: no backup is ever restored, and the run
  shows that no order of jobs, clean-ups and restarts gets round it.
- Lifespan: two overlapping stops and a start may orphan a monitor's task, the exception
  in `ShutdownIsComplete`; the health loop calls `perform_full_health_check` without its
  argument and the alert loop raises `NotImplementedError`, both every round; the schedulers of
  backups are never cancelled; a failed start leaves what it started; one raising
  close skips the rest of the shutdown; a monitor's round may open the closed Redis factory
  again.
- Database sessions: the dependency commits after the answer was made, except for a created project
  (`core/database.py:416`).

## What is not modelled

- Agent resilience (`agents/resilience.py`): nothing uses it.
- `services/queues/retry.py`: delay computations whose results the queue's
  own retry does not use.
- Configuration, headers, redaction, correlation, dashboards, reports: per
  request and without shared state.
- The part of AgentExecutions that follows the step that always raises: workflow state in
  Redis, crews, delegation.
- Pool metrics and the breaker of `core/database.py`, which only the start consults; alert
  rules, whose evaluation raises; S3 and encryption of backups; the self-tests of
  `core/testing.py`.
- Formatting, logging, metrics and spans of every component, except where an
  exception in them changes the control (exporter, dead letter statistics).
- SQL of the maintenance operations: they succeed or fail.
- Redis and PostgreSQL crashes; several API processes for one breaker (it is
  per process).

## Plan

Done: TaskQueue, JobQueue and the refinement, RedisCircuitBreaker, QueueWorker,
DocumentVersions, Maintenance, SpanExport, RateLimiter, TokenBucket, AgentExecutions,
ProgressStream, VectorStore, IsolatedRedis, RedisConnections, DatabaseBackup,
AppLifespan, and the theorems above.

Left, in this order:

1. a Redis restart in TaskQueue and RateLimiter: script SHAs that are unknown to it
2. the restart of the process in AgentExecutions and Maintenance, and several API processes
   for what is per process
3. the composition of QueueWorker with TaskQueue: capacity and shutdown against the real
   queue instead of a set of tasks
4. an abstract specification of what the documents and the limiter promise to clients, and
   the refinement proved as for JobQueue
