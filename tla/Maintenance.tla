----------------------------- MODULE Maintenance -----------------------------
(***************************************************************************)
(* DatabaseMaintenance of core/maintenance.py: the scheduler loop, the      *)
(* queue it takes one task from per round, the semaphore the started tasks  *)
(* share, and run_maintenance, which schedules a task and polls for its     *)
(* end.                                                                     *)
(*                                                                         *)
(* One asyncio event loop: what runs between two awaits is one step.  Time  *)
(* is counted in rounds of the scheduler (300 seconds).  Which statement a  *)
(* task executes is left out: it succeeds or fails.                         *)
(***************************************************************************)
EXTENDS Naturals, FiniteSets, Sequences, SequencesExt

CONSTANTS
  Tasks,          \* task ids, each used at most once (uuid4)
  Callers,        \* requests that call run_maintenance
  MaxConcurrent,  \* max_concurrent_maintenance
  MaxNeeds,       \* bound: tasks scheduled by one analysis
  Patience        \* rounds in the timeout of run_maintenance (3600 s)

ASSUME MaintenanceAssumption ==
  /\ IsFiniteSet(Tasks)
  /\ MaxConcurrent \in Nat \ {0}
  /\ MaxNeeds \in Nat
  /\ Patience \in Nat \ {0}

VARIABLES
  scheduler,  \* _maintenance_task: where the loop is, "stopping" once cancelled
  queue,      \* _maintenance_queue
  waiting,    \* started coroutines that have not got the semaphore, in order
  permits,    \* value of _concurrency_sem
  current,    \* _current_tasks
  history,    \* _maintenance_history
  status,     \* status of a task; "none" before it is scheduled
  call,       \* run_maintenance of a caller
  served      \* history variable of a call: its place in the queue when it was
              \* scheduled, and whether the scheduler has been up ever since

taskVars == <<queue, waiting, permits, current, history, status>>
callVars == <<call, served>>
vars == <<scheduler, taskVars, callVars>>

Ended == {"completed", "failed"}
None == "none"
Up == {"begin", "analysing", "sleeping"}

Polling == {c \in Callers : call[c].pc = "polling"}
Scheduled == {t \in Tasks : status[t] # "none"}
Fresh == Tasks \ Scheduled

\* The tasks that wait, for the semaphore or for the loop, in order.
Line == waiting \o queue

\* uuid4: the id of a new task is one that was never used.
NewId(T) == CHOOSE t \in T : TRUE

NewCall == [pc |-> "idle", task |-> None, elapsed |-> 0]
NotServed == [place |-> 0, up |-> FALSE]

-----------------------------------------------------------------------------
(* Scheduling *)

\* _start_maintenance_scheduler: only when _maintenance_task is None, which
\* it is not while a stopped loop has not ended.
EnsureScheduler == scheduler' = IF scheduler = None THEN "begin" ELSE scheduler

\* mutant: a new task goes before the ones that wait
ScheduleFirst(ts, q) == ts \o q

\* _schedule_maintenance for a sequence of tasks.
Schedule(ts, q) == q \o ts

SchedulePending(T) ==
  status' = [t \in Tasks |-> IF t \in T THEN "pending" ELSE status[t]]

-----------------------------------------------------------------------------
(* The scheduler loop *)

\* mutant: the task is started and stays in the queue
PeekQueue(q) == q

PopQueue(q) == Tail(q)

\* _process_maintenance_queue starts at most one task.
ProcessQueue(q) ==
  IF q = <<>> THEN queue' = q /\ UNCHANGED waiting
              ELSE /\ queue' = PopQueue(q)
                   /\ waiting' = Append(waiting, Head(q))

Initialize ==
  /\ EnsureScheduler
  /\ UNCHANGED <<taskVars, callVars>>

RoundOutsideWindow ==
  /\ scheduler = "begin"
  /\ ProcessQueue(queue)
  /\ scheduler' = "sleeping"
  /\ UNCHANGED <<permits, current, history, status, callVars>>

\* _is_maintenance_window: the tables are analysed first.
RoundInWindow ==
  /\ scheduler = "begin"
  /\ scheduler' = "analysing"
  /\ UNCHANGED <<taskVars, callVars>>

\* _run_scheduled_maintenance schedules a task for every need that was found;
\* none when the analysis raised.
AnalysisReturns(needs) ==
  /\ scheduler = "analysing"
  /\ Cardinality(needs) <= MaxNeeds
  /\ ProcessQueue(Schedule(SetToSeq(needs), queue))
  /\ SchedulePending(needs)
  /\ scheduler' = "sleeping"
  /\ UNCHANGED <<permits, current, history, callVars>>

RoundPasses ==
  call' = [c \in Callers |->
             IF c \in Polling /\ call[c].elapsed < Patience
             THEN [call[c] EXCEPT !.elapsed = @ + 1] ELSE call[c]]

\* sleep(300) is over.
SleepEnds ==
  /\ scheduler = "sleeping"
  /\ scheduler' = "begin"
  /\ RoundPasses
  /\ UNCHANGED <<taskVars, served>>

\* Five minutes without a scheduler.
IdleRoundPasses ==
  /\ scheduler = None
  /\ \E c \in Polling : call[c].elapsed < Patience
  /\ RoundPasses
  /\ UNCHANGED <<scheduler, taskVars, served>>

\* stop_maintenance cancels the loop and awaits its end.  Tasks that were
\* started go on.
StopBegins ==
  /\ scheduler \in Up
  /\ scheduler' = "stopping"
  /\ served' = [c \in Callers |-> NotServed]
  /\ UNCHANGED <<taskVars, call>>

StopEnds ==
  /\ scheduler = "stopping"
  /\ scheduler' = None
  /\ UNCHANGED <<taskVars, callVars>>

-----------------------------------------------------------------------------
(* A started task *)

\* mutant: the semaphore is not consulted
Unlimited == TRUE

HasPermit == permits > 0

\* _with_semaphore: the longest waiting coroutine gets the semaphore and
\* runs _execute_maintenance_task up to its first await.
TaskStarts ==
  /\ waiting # <<>>
  /\ HasPermit
  /\ permits' = permits - 1
  /\ waiting' = Tail(waiting)
  /\ current' = current \cup {Head(waiting)}
  /\ status' = [status EXCEPT ![Head(waiting)] = "running"]
  /\ UNCHANGED <<scheduler, queue, history, callVars>>

\* mutant: a task that failed keeps the semaphore
ReleaseOnSuccess(outcome) == IF outcome = "completed" THEN permits + 1 ELSE permits

Released(outcome) == permits + 1

\* The statement returned or raised: the status is set whatever it was, the
\* task moves to the history and the semaphore is released.
TaskEnds(t, outcome) ==
  /\ t \in current
  /\ status' = [status EXCEPT ![t] = outcome]
  /\ history' = history \cup {t}
  /\ current' = current \ {t}
  /\ permits' = Released(outcome)
  /\ UNCHANGED <<scheduler, queue, waiting, callVars>>

\* mutant: an ended task can be cancelled
Known(t) == t \in current \cup history

Cancellable(t) == t \in current /\ status[t] = "running"

\* cancel_maintenance_task marks the task; its statement goes on.
CancelTask(t) ==
  /\ Cancellable(t)
  /\ status' = [status EXCEPT ![t] = "cancelled"]
  /\ UNCHANGED <<scheduler, queue, waiting, permits, current, history, callVars>>

\* cleanup_maintenance_history drops tasks started days ago, which no call
\* still waits for.
CleanupHistory(old) ==
  /\ old \subseteq history
  /\ old # {}
  /\ \A c \in Polling : call[c].task \notin old
  /\ history' = history \ old
  /\ UNCHANGED <<scheduler, queue, waiting, permits, current, status, callVars>>

-----------------------------------------------------------------------------
(* run_maintenance *)

\* The scheduler is started if it is None, and the task is scheduled.
RunMaintenance(c) ==
  /\ call[c].pc = "idle"
  /\ Fresh # {}
  /\ EnsureScheduler
  /\ LET t == NewId(Fresh) IN
       /\ queue' = Schedule(<<t>>, queue)
       /\ SchedulePending({t})
       /\ call' = [call EXCEPT ![c] = [pc |-> "polling", task |-> t, elapsed |-> 0]]
  /\ served' = IF scheduler = "stopping" THEN served
               ELSE [served EXCEPT ![c] = [place |-> Len(queue) + 1, up |-> TRUE]]
  /\ UNCHANGED <<waiting, permits, current, history>>

\* The table name is refused, after the scheduler was started.
RunRefused(c) ==
  /\ call[c].pc = "idle"
  /\ EnsureScheduler
  /\ UNCHANGED <<taskVars, callVars>>

Found(c) ==
  \/ call[c].task \in current /\ status[call[c].task] \in Ended
  \/ call[c].task \in history

CallEnds(c) ==
  /\ call' = [call EXCEPT ![c] = NewCall]
  /\ served' = [served EXCEPT ![c] = NotServed]

PollReturns(c) ==
  /\ c \in Polling
  /\ Found(c)
  /\ CallEnds(c)
  /\ UNCHANGED <<scheduler, taskVars>>

\* mutant: the call polls for ever
NeverExpired(c) == FALSE

Expired(c) == call[c].elapsed >= Patience

\* TimeoutError: the task stays where it is.
PollTimesOut(c) ==
  /\ c \in Polling
  /\ Expired(c)
  /\ CallEnds(c)
  /\ UNCHANGED <<scheduler, taskVars>>

-----------------------------------------------------------------------------

Init ==
  /\ scheduler = None
  /\ queue = <<>> /\ waiting = <<>>
  /\ permits = MaxConcurrent
  /\ current = {} /\ history = {}
  /\ status = [t \in Tasks |-> "none"]
  /\ call = [c \in Callers |-> NewCall]
  /\ served = [c \in Callers |-> NotServed]

LoopStep ==
  \/ RoundOutsideWindow
  \/ RoundInWindow
  \/ \E needs \in SUBSET Fresh : AnalysisReturns(needs)
  \/ SleepEnds
  \/ StopEnds

TaskStep == TaskStarts \/ \E t \in Tasks, o \in Ended : TaskEnds(t, o)

CallStep(c) == PollReturns(c) \/ PollTimesOut(c)

ClientStep ==
  \/ Initialize
  \/ StopBegins
  \/ \E t \in Tasks : CancelTask(t)
  \/ \E old \in SUBSET history : CleanupHistory(old)
  \/ \E c \in Callers : RunRefused(c) \/ RunMaintenance(c)

Next ==
  \/ LoopStep
  \/ IdleRoundPasses
  \/ TaskStep
  \/ \E c \in Callers : CallStep(c)
  \/ ClientStep

Spec == Init /\ [][Next]_vars

\* The event loop resumes the scheduler and the polling calls, the database
\* answers every statement, and time passes: no scheduler is started and
\* stopped without end within five minutes.
FairSpec ==
  /\ Spec
  /\ WF_vars(LoopStep)
  /\ SF_vars(IdleRoundPasses)
  /\ WF_vars(TaskStarts)
  /\ \A t \in Tasks : WF_vars(\E o \in Ended : TaskEnds(t, o))
  /\ \A c \in Callers : WF_vars(CallStep(c))

-----------------------------------------------------------------------------
(* Properties *)

TypeOK ==
  /\ scheduler \in Up \cup {None, "stopping"}
  /\ queue \in Seq(Tasks) /\ waiting \in Seq(Tasks)
  /\ permits \in 0 .. MaxConcurrent
  /\ current \subseteq Tasks /\ history \subseteq Tasks
  /\ status \in [Tasks -> Ended \cup {"none", "pending", "running", "cancelled"}]
  /\ call \in [Callers -> [pc : {"idle", "polling"},
                           task : Tasks \cup {None}, elapsed : 0 .. Patience]]
  /\ served \in [Callers -> [place : Nat, up : BOOLEAN]]

\* However tasks are started, fail and are cancelled, and however often the
\* scheduler is stopped and started, no more than max_concurrent_maintenance
\* statements run at once, and the permits not held are all there.
RunsWithinLimit ==
  /\ Cardinality(current) <= MaxConcurrent
  /\ permits + Cardinality(current) = MaxConcurrent

\* A scheduled task is in exactly one place: once in the queue or among the
\* coroutines that wait, or running, or ended.
OnePlace ==
  /\ IsInjective(Line)
  /\ ToSet(Line) = {t \in Tasks : status[t] = "pending"}
  /\ current = {t \in Tasks : status[t] \in {"running", "cancelled"}}
  /\ history \subseteq {t \in Tasks : status[t] \in Ended}

\* What run_maintenance answered stays true: the status of an ended task never
\* changes, not even by a cancellation that comes late.
EndedIsFinal ==
  [][\A t \in Tasks : status[t] \in Ended => status'[t] = status[t]]_vars

\* While the scheduler stays up, the queue advances by one task per round, and
\* no task scheduled later overtakes: this is what the timeout of a call must
\* cover.
QueueAdvances ==
  \A c \in Polling : served[c].up =>
    \A i \in DOMAIN queue :
      queue[i] = call[c].task => i + call[c].elapsed <= served[c].place + 1

\* Every scheduled task ends, unless the scheduler is stopped while the task
\* is in its queue: what was started ends in any case.
ScheduledEnds ==
  \A t \in Tasks : status[t] \in {"pending", "running", "cancelled"} ~>
    status[t] \in Ended \/ (scheduler = None /\ t \in ToSet(queue))

\* No call of run_maintenance hangs, though it may be made while the scheduler
\* is being stopped.
CallsReturn == \A c \in Callers : c \in Polling ~> c \notin Polling
=============================================================================
