---------------------------- MODULE AppLifespan ----------------------------
(***************************************************************************)
(* The lifespan of the application (main.py): the services it starts one   *)
(* after the other, the loops they leave running, the requests that start  *)
(* and stop the Redis monitors meanwhile, and the shutdown, which calls    *)
(* every stop in one try block.  A stop cancels a task, waits for its end  *)
(* and then clears the attribute that named it.                            *)
(***************************************************************************)
EXTENDS Naturals, Sequences, FiniteSets, Functions

CONSTANTS
  Monitors,      \* the services of /monitoring/start, in the order of the code
  Collectors,    \* those of them whose rounds use Redis
  Stops,         \* requests that stop the monitors
  TaskIds,       \* tasks of one loop at a time, for the checks
  NoTask

\* What is started and stopped besides the monitors.
OwnCalls == {"engine", "database", "maintenance", "backups", "vector", "collection",
             "service", "redis"}

ASSUME LifespanAssumption ==
  /\ Monitors \in Seq(STRING) /\ Monitors # <<>> /\ IsInjective(Monitors)
  /\ Range(Monitors) \cap OwnCalls = {}
  /\ Collectors \subseteq Range(Monitors)
  /\ NoTask \notin TaskIds

VARIABLES
  lifeAt,        \* the call the lifespan is at
  engineOpen,    \* database_manager.engine
  redisOpen,     \* redis_connection_factory._initialized
  known,         \* the attribute of each loop: the task it knows of
  tasks,         \* tasks that have not ended
  cancelled,     \* those that have been cancelled
  stopAt,        \* [to, awaits] of each stop request
  overlapped     \* history: two stops have been under way at once

lifeVars == <<lifeAt, engineOpen, redisOpen, known, tasks, cancelled, stopAt, overlapped>>

DatabaseLoops == {"database", "maintenance", "backups"}
LifeLoops == DatabaseLoops \cup {"collection", "service"} \cup Range(Monitors)
LifeTasks == [of : LifeLoops, id : TaskIds]

StartCalls == <<"engine", "database", "maintenance", "backups", "settings", "vector",
                "redis", "integration", "service", "monitors">>

\* mutant: the monitors are stopped when Redis has been closed
StopsMonitorsLast ==
  <<"database", "maintenance", "engine", "vector", "collection", "service", "redis">>
  \o Monitors

\* What a shutdown stops or closes, in order.
StopCalls ==
  <<"database", "maintenance", "engine", "vector">> \o Monitors
  \o <<"collection", "service", "redis">>

Before(i) == [phase |-> "start", call |-> i]
During(i) == [phase |-> "stop", call |-> i]
Serving == [phase |-> "serving", call |-> 0]
Over == [phase |-> "over", call |-> 0]
Abandoned == [phase |-> "abandoned", call |-> 0]
NotStopping == [to |-> 0, awaits |-> NoTask]

Named(l) == {t \in LifeTasks : t.of = l /\ t.id = known[l]}
NewTask(l) == {[of |-> l, id |-> i] : i \in TaskIds} \ (tasks \cup Named(l))

\* The loops of ls that know of no task get one.
StartsLoops(ls) ==
  LET idle == {l \in ls : known[l] = NoTask} IN
  \E new \in [idle -> TaskIds] :
    /\ \A l \in idle : [of |-> l, id |-> new[l]] \in NewTask(l)
    /\ known' = [l \in LifeLoops |-> IF l \in idle THEN new[l] ELSE known[l]]
    /\ tasks' = tasks \cup {[of |-> l, id |-> new[l]] : l \in idle}

NoLoopChange == UNCHANGED <<known, tasks, cancelled>>
NoStopChange == UNCHANGED <<stopAt, overlapped>>
-----------------------------------------------------------------------------
(* Start.  A call that raises ends it; what runs is left running *)

StartsCall(i) == lifeAt = Before(i) /\ lifeAt' = IF i = Len(StartCalls) THEN Serving ELSE Before(i + 1)
StartCall(name) == \E i \in 1..Len(StartCalls) : StartCalls[i] = name /\ StartsCall(i)

InitializesEngine ==
  /\ StartCall("engine")
  /\ engineOpen' = TRUE
  /\ NoLoopChange /\ NoStopChange /\ UNCHANGED redisOpen

\* performance_monitor, initialize_maintenance and initialize_backup_system
StartsDatabaseLoop ==
  /\ \E l \in DatabaseLoops : StartCall(l) /\ StartsLoops({l})
  /\ NoStopChange /\ UNCHANGED <<engineOpen, redisOpen, cancelled>>

ConfiguresSettings ==
  /\ StartCall("settings") \/ StartCall("vector")
  /\ NoLoopChange /\ NoStopChange /\ UNCHANGED <<engineOpen, redisOpen>>

InitializesFactory ==
  /\ StartCall("redis")
  /\ redisOpen' = TRUE
  /\ NoLoopChange /\ NoStopChange /\ UNCHANGED engineOpen

\* The integration starts the background collection, which the instrumented
\* service then finds running.
InitializesIntegration ==
  /\ StartCall("integration")
  /\ redisOpen' = TRUE
  /\ StartsLoops({"collection"})
  /\ NoStopChange /\ UNCHANGED <<engineOpen, cancelled>>

InitializesService ==
  /\ StartCall("service")
  /\ redisOpen' = TRUE
  /\ StartsLoops({"service", "collection"})
  /\ NoStopChange /\ UNCHANGED <<engineOpen, cancelled>>

\* mutant: a monitor is started whether or not it runs
StartsAnyway ==
  /\ \A l \in Range(Monitors) : NewTask(l) # {}
  /\ \E new \in [Range(Monitors) -> TaskIds] :
       /\ \A l \in Range(Monitors) : [of |-> l, id |-> new[l]] \in NewTask(l)
       /\ known' = [l \in LifeLoops |-> IF l \in Range(Monitors) THEN new[l] ELSE known[l]]
       /\ tasks' = tasks \cup {[of |-> l, id |-> new[l]] : l \in Range(Monitors)}

\* The four calls await nothing: together they are one step.
StartsMonitors == StartsLoops(Range(Monitors))

FinishesStart ==
  /\ StartCall("monitors")
  /\ StartsMonitors
  /\ NoStopChange /\ UNCHANGED <<engineOpen, redisOpen, cancelled>>

StartFails ==
  /\ lifeAt.phase = "start" /\ lifeAt.call < Len(StartCalls)
  /\ lifeAt' = Abandoned
  /\ NoLoopChange /\ NoStopChange /\ UNCHANGED <<engineOpen, redisOpen>>

-----------------------------------------------------------------------------
(* Requests *)

StartMonitoring ==
  /\ lifeAt = Serving
  /\ StartsMonitors
  /\ NoStopChange /\ UNCHANGED <<lifeAt, engineOpen, redisOpen, cancelled>>

\* Cancels the task a loop knows of; with none there is nothing to await.
CancelsTask(l) == cancelled' = cancelled \cup (Named(l) \cap tasks)

\* A request is at the i-th monitor: it has cancelled its task and awaits it.
StopMonitoring(r) ==
  /\ lifeAt = Serving /\ stopAt[r] = NotStopping
  /\ overlapped' = (overlapped \/ \E q \in Stops : stopAt[q] # NotStopping)
  /\ stopAt' = [stopAt EXCEPT ![r] = [to |-> 1, awaits |-> known[Monitors[1]]]]
  /\ CancelsTask(Monitors[1])
  /\ UNCHANGED <<lifeAt, engineOpen, redisOpen, known, tasks>>

\* The task has ended: its attribute is cleared, whatever it names by now, and
\* the next one is cancelled at once.
MonitorStopped(r) ==
  LET i == stopAt[r].to
      l == Monitors[i]
  IN
  /\ stopAt[r] # NotStopping
  /\ [of |-> l, id |-> stopAt[r].awaits] \notin tasks
  /\ known' = IF stopAt[r].awaits = NoTask THEN known ELSE [known EXCEPT ![l] = NoTask]
  /\ IF i < Len(Monitors)
     THEN /\ stopAt' = [stopAt EXCEPT ![r] = [to |-> i + 1, awaits |-> known[Monitors[i + 1]]]]
          /\ CancelsTask(Monitors[i + 1])
     ELSE stopAt' = [stopAt EXCEPT ![r] = NotStopping] /\ UNCHANGED cancelled
  /\ UNCHANGED <<lifeAt, engineOpen, redisOpen, tasks, overlapped>>

\* Health checks and reports open the factory again if need be.
ReadsMonitors ==
  /\ lifeAt = Serving
  /\ redisOpen' \in {redisOpen, TRUE}
  /\ NoLoopChange /\ NoStopChange /\ UNCHANGED <<lifeAt, engineOpen>>
RedisHealthRequested == ReadsMonitors
GetMonitoringStatus == ReadsMonitors

-----------------------------------------------------------------------------
(* Loops *)

\* get_admin_connection initialises the factory, unless Redis is down.
LoopUsesRedis(t) ==
  /\ t \in tasks \ cancelled /\ t.of \in Collectors
  /\ redisOpen' = TRUE
  /\ NoLoopChange /\ NoStopChange /\ UNCHANGED <<lifeAt, engineOpen>>

\* Rounds that change nothing here: the collection and the service have a
\* client of their own, the round of the health checker raises TypeError and
\* that of the alerts NotImplementedError.
LoopWorks(t) ==
  /\ t \in tasks \ cancelled /\ t.of \notin Collectors
  /\ UNCHANGED lifeVars

TaskEnds(t) ==
  /\ t \in tasks \cap cancelled
  /\ tasks' = tasks \ {t} /\ cancelled' = cancelled \ {t}
  /\ NoStopChange /\ UNCHANGED <<lifeAt, engineOpen, redisOpen, known>>

-----------------------------------------------------------------------------
(* Shutdown, when no request is under way *)

NextStop(i) == IF i = Len(StopCalls) THEN Over ELSE During(i + 1)

ShutsDown ==
  /\ lifeAt = Serving
  /\ \A r \in Stops : stopAt[r] = NotStopping
  /\ lifeAt' = During(1)
  /\ NoLoopChange /\ NoStopChange /\ UNCHANGED <<engineOpen, redisOpen>>

\* Cancels and, in a later step, clears.
StopsOne ==
  /\ lifeAt.phase = "stop" /\ StopCalls[lifeAt.call] \in LifeLoops
  /\ Named(StopCalls[lifeAt.call]) \cap (tasks \ cancelled) # {}
  /\ CancelsTask(StopCalls[lifeAt.call])
  /\ NoStopChange /\ UNCHANGED <<lifeAt, engineOpen, redisOpen, known, tasks>>

OneStopped ==
  LET l == StopCalls[lifeAt.call] IN
  /\ lifeAt.phase = "stop" /\ l \in LifeLoops
  /\ Named(l) \cap tasks = {}
  /\ known' = [known EXCEPT ![l] = NoTask]
  /\ redisOpen' = IF l = "service" THEN FALSE ELSE redisOpen
  /\ lifeAt' = NextStop(lifeAt.call)
  /\ NoStopChange /\ UNCHANGED <<engineOpen, tasks, cancelled>>

ClosesDatabase ==
  /\ lifeAt.phase = "stop" /\ StopCalls[lifeAt.call] = "engine"
  /\ engineOpen' = FALSE
  /\ lifeAt' = NextStop(lifeAt.call)
  /\ NoLoopChange /\ NoStopChange /\ UNCHANGED redisOpen

CleansUpVectorDatabase ==
  /\ lifeAt.phase = "stop" /\ StopCalls[lifeAt.call] = "vector"
  /\ lifeAt' = NextStop(lifeAt.call)
  /\ NoLoopChange /\ NoStopChange /\ UNCHANGED <<engineOpen, redisOpen>>

ClosesFactory ==
  /\ lifeAt.phase = "stop" /\ StopCalls[lifeAt.call] = "redis"
  /\ redisOpen' = FALSE
  /\ lifeAt' = NextStop(lifeAt.call)
  /\ NoLoopChange /\ NoStopChange /\ UNCHANGED engineOpen

\* A close that raises: the rest of the try block is skipped.
ShutdownFails ==
  /\ lifeAt.phase = "stop" /\ StopCalls[lifeAt.call] \in {"engine", "vector", "service", "redis"}
  /\ lifeAt' = Abandoned
  /\ NoLoopChange /\ NoStopChange /\ UNCHANGED <<engineOpen, redisOpen>>

LifeInit ==
  /\ lifeAt = Before(1)
  /\ engineOpen = FALSE /\ redisOpen = FALSE
  /\ known = [l \in LifeLoops |-> NoTask]
  /\ tasks = {} /\ cancelled = {}
  /\ stopAt = [r \in Stops |-> NotStopping]
  /\ overlapped = FALSE

\* The process ends, in good order or not, and is started again.
ProcessRestarts ==
  /\ lifeAt' = Before(1)
  /\ engineOpen' = FALSE /\ redisOpen' = FALSE
  /\ known' = [l \in LifeLoops |-> NoTask]
  /\ tasks' = {} /\ cancelled' = {}
  /\ stopAt' = [r \in Stops |-> NotStopping]
  /\ overlapped' = FALSE

LifeNext ==
  \/ InitializesEngine \/ StartsDatabaseLoop \/ ConfiguresSettings \/ InitializesFactory
  \/ InitializesIntegration \/ InitializesService \/ FinishesStart \/ StartFails
  \/ StartMonitoring \/ RedisHealthRequested \/ GetMonitoringStatus
  \/ \E r \in Stops : StopMonitoring(r) \/ MonitorStopped(r)
  \/ \E t \in LifeTasks : LoopUsesRedis(t) \/ LoopWorks(t) \/ TaskEnds(t)
  \/ ShutsDown \/ StopsOne \/ OneStopped \/ ClosesDatabase \/ CleansUpVectorDatabase
  \/ ClosesFactory \/ ShutdownFails \/ ProcessRestarts

LifeSpec == LifeInit /\ [][LifeNext]_lifeVars
-----------------------------------------------------------------------------
\* Every variable keeps its type.
LifeTypeOK ==
  /\ lifeAt \in {Serving, Over, Abandoned}
               \cup {Before(i) : i \in 1..Len(StartCalls)}
               \cup {During(i) : i \in 1..Len(StopCalls)}
  /\ engineOpen \in BOOLEAN /\ redisOpen \in BOOLEAN /\ overlapped \in BOOLEAN
  /\ known \in [LifeLoops -> TaskIds \cup {NoTask}]
  /\ cancelled \subseteq tasks /\ tasks \subseteq LifeTasks
  /\ stopAt \in [Stops -> [to : 0..Len(Monitors), awaits : TaskIds \cup {NoTask}]]

\* After a shutdown in which no call raised, nothing runs but the schedulers of
\* backups and Redis stays closed, although monitors may have been stopped and
\* started at any time and their rounds open the factory again; unless two
\* requests to stop them overlapped, when a new task may have been forgotten.
ShutdownIsComplete ==
  lifeAt = Over /\ ~ overlapped =>
    /\ \A t \in tasks : t.of = "backups"
    /\ ~ redisOpen /\ ~ engineOpen
=============================================================================
