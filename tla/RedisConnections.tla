-------------------------- MODULE RedisConnections --------------------------
(***************************************************************************)
(* Connections of one process to Redis (infrastructure/redis/): the pools  *)
(* of RedisConnectionFactory, made when a project first asks, and          *)
(* RedisService, which starts the factory and a loop of health checks and  *)
(* closes both.  Each has an asyncio lock and an _initialized flag that is *)
(* read before and after it is taken; what uses neither await nor a lock   *)
(* is one step.                                                            *)
(***************************************************************************)
EXTENDS Naturals, FiniteSets

CONSTANTS
  ConnUsers,      \* coroutines
  ConnProjects,
  DefaultKey,     \* the key "default" of _pools
  PoolIds,        \* pool objects; the id of one that is gone is used again
  LoopIds,        \* tasks of _health_check_loop
  NoPool, NoLoop, NoUser, NoProject

ConnKeys == ConnProjects \cup {DefaultKey}

ASSUME ConnAssumption ==
  /\ DefaultKey \notin ConnProjects
  /\ NoPool \notin PoolIds /\ NoLoop \notin LoopIds /\ NoUser \notin ConnUsers

VARIABLES
  pools,          \* _pools; its default is _default_pool
  factoryReady,   \* factory._initialized
  factoryLock,    \* who holds factory._lock
  serviceReady,   \* service._initialized
  serviceLock,
  healthLoop,     \* service._health_check_task
  loops,          \* tasks of the loop that have not ended
  stopping,       \* those that are cancelled
  connAt,
  connAsk,        \* [op, project] of each coroutine
  held,           \* the pool its client uses; with none redis-py makes one of its own
  disconnected    \* pools that a close has disconnected, while they matter

services == <<serviceReady, serviceLock, healthLoop, loops, stopping>>
connVars == <<pools, factoryReady, factoryLock, services, connAt, connAsk, held, disconnected>>

\* A health check uses two connections: "test", then "info".
ConnOps == {"project", "service", "admin", "check", "test", "info", "start", "close"}
NoConnAsk == [op |-> "none", project |-> NoProject]
ConnLabels == {"idle", "service", "serviceLock", "factory", "factoryLock", "ping",
               "poolLock", "breaker", "using", "ping default", "stopLock", "stopLoop",
               "closeLock", "disconnecting"}

KnownPools == {pools[k] : k \in ConnKeys} \cup {held[c] : c \in ConnUsers}
FreshPools == PoolIds \ KnownPools
StillHeld(gone) == gone \cap {held'[c] : c \in ConnUsers}

ConnGoes(c, label) == connAt' = [connAt EXCEPT ![c] = label]
Holds(c, p) == held' = [held EXCEPT ![c] = p] /\ disconnected' = StillHeld(disconnected)
ConnEnds(c) ==
  /\ ConnGoes(c, "idle")
  /\ connAsk' = [connAsk EXCEPT ![c] = NoConnAsk]
  /\ Holds(c, NoPool)

NoPoolChange == UNCHANGED <<pools, factoryReady, factoryLock>>
NoHoldChange == UNCHANGED <<connAsk, held, disconnected>>
-----------------------------------------------------------------------------
(* Calls *)

StartsAt(op) == CASE op \in {"service", "info", "start"} -> "service"
                  [] op \in {"project", "admin"} -> "factory"
                  [] op = "check" -> "ping default"
                  [] op = "close" -> "stopLock"

CallsRedis(c, op, p) ==
  /\ connAt[c] = "idle"
  /\ ConnGoes(c, StartsAt(op))
  /\ connAsk' = [connAsk EXCEPT ![c] = [op |-> op, project |-> p]]
  /\ NoPoolChange /\ UNCHANGED <<services, held, disconnected>>

GetConnection(c, p) == CallsRedis(c, "project", p)
GetServiceConnection(c, p) == CallsRedis(c, "service", p)
GetAdminConnection(c) == CallsRedis(c, "admin", NoProject)
GetSystemConnection(c) == CallsRedis(c, "info", NoProject)
StartsService(c) == CallsRedis(c, "start", NoProject)
HealthCheckRequested(c) == CallsRedis(c, "check", NoProject)
ClosesService(c) == CallsRedis(c, "close", NoProject)

-----------------------------------------------------------------------------
(* RedisService.initialize and RedisConnectionFactory.initialize *)

\* A failure of the first connection of a health check is part of its report.
ConnFails(c) ==
  IF connAsk[c].op = "test"
  THEN /\ ConnGoes(c, "service")
       /\ connAsk' = [connAsk EXCEPT ![c].op = "info"]
       /\ Holds(c, NoPool)
  ELSE ConnEnds(c)

\* What follows a factory or a service that is ready, up to the next await.  A
\* project whose pool is missing waits for the lock to create it.
Proceeds(c) ==
  LET q == connAsk[c] IN
  \/ q.op = "start" /\ ConnEnds(c)
  \/ q.op = "admin" /\ ConnGoes(c, "breaker") /\ NoHoldChange
  \/ /\ q.op \in {"project", "service"} /\ pools[q.project] = NoPool
     /\ ConnGoes(c, "poolLock") /\ NoHoldChange
  \/ /\ q.op \in {"project", "service"} /\ pools[q.project] # NoPool
     /\ ConnGoes(c, "breaker") /\ Holds(c, pools[q.project]) /\ UNCHANGED connAsk
  \/ /\ q.op \in {"test", "info"} /\ pools[DefaultKey] # NoPool
     /\ ConnGoes(c, "using") /\ Holds(c, pools[DefaultKey]) /\ UNCHANGED connAsk
  \/ /\ q.op \in {"test", "info"} /\ pools[DefaultKey] = NoPool
     /\ ConnFails(c)

\* A project's connection goes on to the factory, which may not be ready.
AfterService(c) ==
  IF connAsk[c].op = "service" THEN ConnGoes(c, "factory") /\ NoHoldChange ELSE Proceeds(c)

ServiceReady(c) ==
  /\ connAt[c] = "service" /\ serviceReady
  /\ AfterService(c)
  /\ NoPoolChange /\ UNCHANGED services

ServiceNotReady(c) ==
  /\ connAt[c] = "service" /\ ~ serviceReady
  /\ ConnGoes(c, "serviceLock")
  /\ NoPoolChange /\ NoHoldChange /\ UNCHANGED services

ReadyUnderLock == serviceReady

ServiceLocked(c) ==
  /\ connAt[c] = "serviceLock" /\ serviceLock = NoUser
  /\ \/ ReadyUnderLock /\ AfterService(c) /\ UNCHANGED serviceLock
     \/ /\ ~ ReadyUnderLock
        /\ serviceLock' = c
        /\ ConnGoes(c, "factory") /\ NoHoldChange
  /\ NoPoolChange
  /\ UNCHANGED <<serviceReady, healthLoop, loops, stopping>>

FactoryNotReady(c) ==
  /\ connAt[c] = "factory" /\ ~ factoryReady
  /\ ConnGoes(c, "factoryLock")
  /\ NoPoolChange /\ NoHoldChange /\ UNCHANGED services

\* The pool is registered before it is tested, over one that failed its test.
FactoryLocked(c) ==
  /\ connAt[c] = "factoryLock" /\ ~ factoryReady
  /\ factoryLock = NoUser
  /\ factoryLock' = c
  /\ \E p \in FreshPools : pools' = [pools EXCEPT ![DefaultKey] = p]
  /\ ConnGoes(c, "ping")
  /\ NoHoldChange /\ UNCHANGED <<factoryReady, services>>

\* Whoever holds the lock of the service starts the loop first.
StartsLoop(c) ==
  IF serviceLock = c
  THEN /\ \E l \in LoopIds \ loops : healthLoop' = l /\ loops' = loops \cup {l}
       /\ serviceReady' = TRUE /\ serviceLock' = NoUser
       /\ UNCHANGED stopping
  ELSE UNCHANGED services

FactoryReady(c) ==
  /\ connAt[c] \in {"factory", "factoryLock"}
  /\ factoryReady
  /\ connAt[c] = "factoryLock" => factoryLock = NoUser
  /\ StartsLoop(c) /\ Proceeds(c)
  /\ NoPoolChange

PingSucceeds(c) ==
  /\ connAt[c] = "ping"
  /\ factoryReady' = TRUE /\ factoryLock' = NoUser
  /\ StartsLoop(c) /\ Proceeds(c)
  /\ UNCHANGED pools

\* The exception releases both locks; the pool stays registered.
PingFails(c) ==
  /\ connAt[c] = "ping"
  /\ factoryLock' = NoUser
  /\ serviceLock' = IF serviceLock = c THEN NoUser ELSE serviceLock
  /\ ConnFails(c)
  /\ UNCHANGED <<pools, factoryReady, serviceReady, healthLoop, loops, stopping>>

-----------------------------------------------------------------------------
(* Pools of projects and clients *)

\* mutant: the pool is created without looking again
MissingUnlocked(p) == TRUE

MissingUnderLock(p) == pools[p] = NoPool

\* _create_project_pool copies the default pool, which a close may have taken.
CreatesProjectPool(c) ==
  LET p == connAsk[c].project IN
  /\ connAt[c] = "poolLock" /\ factoryLock = NoUser
  /\ \/ /\ MissingUnderLock(p) /\ pools[DefaultKey] # NoPool
        /\ \E new \in FreshPools :
             /\ pools' = [pools EXCEPT ![p] = new]
             /\ held' = [held EXCEPT ![c] = new]
     \/ /\ ~ MissingUnderLock(p)
        /\ held' = [held EXCEPT ![c] = pools[p]]
        /\ UNCHANGED pools
  /\ ConnGoes(c, "breaker")
  /\ UNCHANGED <<factoryReady, factoryLock, services, connAsk, disconnected>>

NoDefaultPool(c) ==
  /\ connAt[c] = "poolLock" /\ factoryLock = NoUser
  /\ pools[connAsk[c].project] = NoPool /\ pools[DefaultKey] = NoPool
  /\ ConnEnds(c)
  /\ NoPoolChange /\ UNCHANGED services

\* The circuit breaker runs the lambda that makes the client: the pool of a
\* project was chosen before, the default pool is read now.
MakesClient(c) ==
  /\ connAt[c] = "breaker"
  /\ ConnGoes(c, "using")
  /\ IF connAsk[c].op = "admin" THEN Holds(c, pools[DefaultKey])
     ELSE UNCHANGED <<held, disconnected>>
  /\ NoPoolChange /\ UNCHANGED <<services, connAsk>>

CircuitOpen(c) ==
  /\ connAt[c] = "breaker"
  /\ ConnEnds(c)
  /\ NoPoolChange /\ UNCHANGED services

\* The block of the caller ends, or raises; execute_with_retry asks again for
\* what is not an exception of its own.
LeavesConnection(c) ==
  /\ connAt[c] = "using" /\ connAsk[c].op # "test"
  /\ ConnEnds(c)
  /\ NoPoolChange /\ UNCHANGED services

RetriesOperation(c) ==
  /\ connAt[c] = "using" /\ connAsk[c].op = "service"
  /\ ConnGoes(c, "service")
  /\ Holds(c, NoPool)
  /\ NoPoolChange /\ UNCHANGED <<services, connAsk>>

-----------------------------------------------------------------------------
(* Health checks: the factory is tested, then a client, then INFO is read *)

ChecksFactory(c) ==
  /\ connAt[c] = "ping default"
  /\ ConnGoes(c, "service")
  /\ connAsk' = [connAsk EXCEPT ![c].op = "test"]
  /\ NoPoolChange /\ UNCHANGED <<services, held, disconnected>>

TestsOperations(c) ==
  /\ connAt[c] = "using" /\ connAsk[c].op = "test"
  /\ ConnFails(c)
  /\ NoPoolChange /\ UNCHANGED services

\* A round of the loop is a health check that finds the service ready.
LoopBreaks(l) ==
  /\ l \in stopping
  /\ loops' = loops \ {l} /\ stopping' = stopping \ {l}
  /\ NoPoolChange /\ NoHoldChange
  /\ UNCHANGED <<serviceReady, serviceLock, healthLoop, connAt>>

-----------------------------------------------------------------------------
(* RedisService.close *)

StopsLoop(c) ==
  /\ connAt[c] = "stopLock" /\ serviceLock = NoUser
  /\ serviceLock' = c
  /\ stopping' = stopping \cup ({healthLoop} \cap loops)
  /\ ConnGoes(c, "stopLoop")
  /\ NoPoolChange /\ NoHoldChange
  /\ UNCHANGED <<serviceReady, healthLoop, loops>>

LoopStopped(c) ==
  /\ connAt[c] = "stopLoop" /\ healthLoop \notin loops
  /\ healthLoop' = NoLoop
  /\ ConnGoes(c, "closeLock")
  /\ NoPoolChange /\ NoHoldChange
  /\ UNCHANGED <<serviceReady, serviceLock, loops, stopping>>

LocksFactory(c) ==
  /\ connAt[c] = "closeLock" /\ factoryLock = NoUser
  /\ factoryLock' = c
  /\ ConnGoes(c, "disconnecting")
  /\ NoHoldChange /\ UNCHANGED <<pools, factoryReady, services>>

Connected == {pools[k] : k \in ConnKeys} \ ({NoPool} \cup disconnected)

DisconnectsPool(c) ==
  /\ connAt[c] = "disconnecting"
  /\ \E p \in Connected : disconnected' = disconnected \cup {p}
  /\ NoPoolChange /\ UNCHANGED <<services, connAt, connAsk, held>>

FactoryClosed(c) ==
  /\ connAt[c] = "disconnecting" /\ Connected = {}
  /\ pools' = [k \in ConnKeys |-> NoPool]
  /\ factoryReady' = FALSE /\ factoryLock' = NoUser
  /\ serviceReady' = FALSE /\ serviceLock' = NoUser
  /\ ConnEnds(c)
  /\ UNCHANGED <<healthLoop, loops, stopping>>

-----------------------------------------------------------------------------
ConnInit ==
  /\ pools = [k \in ConnKeys |-> NoPool]
  /\ factoryReady = FALSE /\ factoryLock = NoUser
  /\ serviceReady = FALSE /\ serviceLock = NoUser
  /\ healthLoop = NoLoop /\ loops = {} /\ stopping = {}
  /\ connAt = [c \in ConnUsers |-> "idle"]
  /\ connAsk = [c \in ConnUsers |-> NoConnAsk]
  /\ held = [c \in ConnUsers |-> NoPool]
  /\ disconnected = {}

ConnStep(c) ==
  \/ \E p \in ConnProjects : GetConnection(c, p) \/ GetServiceConnection(c, p)
  \/ GetAdminConnection(c) \/ GetSystemConnection(c) \/ StartsService(c)
  \/ HealthCheckRequested(c) \/ ClosesService(c)
  \/ ServiceReady(c) \/ ServiceNotReady(c) \/ ServiceLocked(c)
  \/ FactoryNotReady(c) \/ FactoryLocked(c) \/ FactoryReady(c)
  \/ PingSucceeds(c) \/ PingFails(c)
  \/ CreatesProjectPool(c) \/ NoDefaultPool(c) \/ MakesClient(c) \/ CircuitOpen(c)
  \/ LeavesConnection(c) \/ RetriesOperation(c)
  \/ ChecksFactory(c) \/ TestsOperations(c)
  \/ StopsLoop(c) \/ LoopStopped(c) \/ LocksFactory(c) \/ DisconnectsPool(c) \/ FactoryClosed(c)

ConnNext ==
  \/ \E c \in ConnUsers : ConnStep(c)
  \/ \E l \in LoopIds : LoopBreaks(l)

ConnSpec == ConnInit /\ [][ConnNext]_connVars
-----------------------------------------------------------------------------
\* Every variable keeps its type; only a coroutine at an await under a lock
\* holds it.
ConnTypeOK ==
  /\ pools \in [ConnKeys -> PoolIds \cup {NoPool}]
  /\ factoryReady \in BOOLEAN /\ serviceReady \in BOOLEAN
  /\ factoryLock \in ConnUsers \cup {NoUser} /\ serviceLock \in ConnUsers \cup {NoUser}
  /\ healthLoop \in LoopIds \cup {NoLoop}
  /\ stopping \subseteq loops /\ loops \subseteq LoopIds
  /\ connAt \in [ConnUsers -> ConnLabels]
  /\ connAsk \in [ConnUsers ->
       [op : ConnOps, project : ConnProjects \cup {NoProject}] \cup {NoConnAsk}]
  /\ held \in [ConnUsers -> PoolIds \cup {NoPool}]
  /\ disconnected \subseteq PoolIds
  /\ \A c \in ConnUsers : factoryLock = c <=> connAt[c] \in {"ping", "disconnecting"}

\* All clients of a project share one pool, whose size bounds its connections,
\* unless the pool of one has been closed: however coroutines, starts and
\* closes interleave, no second pool is made beside one that is in use.
OnePoolPerProject ==
  \A c \in ConnUsers : connAsk[c].op \in {"project", "service"} =>
    held[c] \in {NoPool, pools[connAsk[c].project]} \cup disconnected
=============================================================================
