--------------------------- MODULE PlatformProofs ---------------------------
(***************************************************************************)
(* Proofs about the platform of the process: the pools of Redis connections, *)
(* the start and the shutdown of the application and the backups of its      *)
(* database.                                                                 *)
(***************************************************************************)
EXTENDS RedisConnections, AppLifespan, DatabaseBackup, SequenceTheorems, TLAPS

-----------------------------------------------------------------------------
(* RedisConnections.  A pool that a client holds is the project's pool or was
   closed under it. *)
USE ConnAssumption

\* The state of one coroutine fits the pools: who asks for nothing holds none,
\* who waits to make a pool asks for a project, and what a client of a project
\* holds is its pool or one that was closed.
CoroutineOK(c) ==
  /\ connAt[c] = "idle" => held[c] = NoPool
  /\ connAt[c] = "poolLock" => connAsk[c].op \in {"project", "service"}
  /\ connAsk[c].op \in {"project", "service"} =>
       /\ connAsk[c].project \in ConnProjects
       /\ held[c] \in {NoPool, pools[connAsk[c].project]} \cup disconnected

\* The inductive invariant of the connections.
ConnInv == ConnTypeOK /\ \A c \in ConnUsers : CoroutineOK(c)

\* What a coroutine may be asked.
ConnAsks == [op : ConnOps, project : ConnProjects \cup {NoProject}]

\* Only the coroutine c goes on, and it does not wait under the lock of the
\* factory before or after.
Moves(c) ==
  /\ \E l \in ConnLabels \ {"ping", "disconnecting"} : ConnGoes(c, l)
  /\ \E q \in ConnAsks \cup {NoConnAsk} : connAsk' = [connAsk EXCEPT ![c] = q]
  /\ \E p \in PoolIds \cup {NoPool} : held' = [held EXCEPT ![c] = p]
  /\ disconnected' \in {disconnected, StillHeld(disconnected)}
  /\ CoroutineOK(c)'

\* A coroutine that ends holds no pool and asks for nothing.
LEMMA EndsMoves ==
  ASSUME ConnInv, NEW c \in ConnUsers, ConnEnds(c)
  PROVE  Moves(c)
BY DEF ConnInv, ConnTypeOK, ConnEnds, ConnGoes, Holds, Moves, ConnLabels, CoroutineOK,
       NoConnAsk

\* A failure ends the call, or takes a health check to its next part.
LEMMA FailsMoves ==
  ASSUME ConnInv, NEW c \in ConnUsers, connAt[c] # "idle", ConnFails(c)
  PROVE  Moves(c)
<1>1. CASE connAsk[c].op = "test"
  <2>1. [connAsk[c] EXCEPT !.op = "info"] \in ConnAsks
        /\ [connAsk[c] EXCEPT !.op = "info"].op = "info"
    BY <1>1 DEF ConnInv, ConnTypeOK, ConnAsks, ConnOps, NoConnAsk
  <2> DEFINE q == [connAsk[c] EXCEPT !.op = "info"]
  <2>2. /\ connAsk' = [connAsk EXCEPT ![c] = q] /\ ConnGoes(c, "service")
        /\ Holds(c, NoPool)
    BY <1>1 DEF ConnFails
  <2> HIDE DEF q
  <2> QED  BY <2>1, <2>2 DEF ConnInv, ConnTypeOK, ConnGoes, Holds, Moves, ConnLabels, CoroutineOK, q
<1>2. CASE connAsk[c].op # "test"
  BY <1>2, EndsMoves DEF ConnFails
<1> QED  BY <1>1, <1>2

\* Past the start of the service a call gets the pool it asked for, or waits to make it.
LEMMA ProceedsMoves ==
  ASSUME ConnInv, NEW c \in ConnUsers, connAt[c] # "idle", Proceeds(c),
         UNCHANGED pools
  PROVE  Moves(c)
<1> DEFINE q == connAsk[c]
<1>0. /\ connAsk[c] \in ConnAsks \cup {NoConnAsk} /\ held[c] \in PoolIds \cup {NoPool}
      /\ connAsk = [connAsk EXCEPT ![c] = q] /\ held = [held EXCEPT ![c] = held[c]]
      /\ CoroutineOK(c) /\ pools \in [ConnKeys -> PoolIds \cup {NoPool}]
  BY DEF ConnInv, ConnTypeOK, ConnAsks
<1>1. CASE q.op = "start" /\ ConnEnds(c)
  BY <1>1, EndsMoves
<1>2. CASE q.op = "admin" /\ ConnGoes(c, "breaker") /\ NoHoldChange
  BY <1>0, <1>2 DEF ConnInv, ConnTypeOK, ConnGoes, Moves, ConnLabels, CoroutineOK, NoHoldChange
<1>3. CASE /\ q.op \in {"project", "service"} /\ pools[q.project] = NoPool
           /\ ConnGoes(c, "poolLock") /\ NoHoldChange
  BY <1>0, <1>3 DEF ConnInv, ConnTypeOK, ConnGoes, Moves, ConnLabels, CoroutineOK, NoHoldChange
<1>4. CASE /\ q.op \in {"project", "service"} /\ pools[q.project] # NoPool
           /\ ConnGoes(c, "breaker") /\ Holds(c, pools[q.project]) /\ UNCHANGED connAsk
  <2>1. q.project \in ConnProjects /\ q.project \in ConnKeys
    BY <1>0, <1>4 DEF CoroutineOK, ConnKeys
  <2>2. connAt'[c] = "breaker" /\ held'[c] = pools[q.project] /\ connAsk'[c] = q
    BY <1>0, <1>4 DEF ConnInv, ConnTypeOK, ConnGoes, Holds
  <2>3. CoroutineOK(c)'
    BY <1>4, <2>1, <2>2 DEF CoroutineOK
  <2>4. pools[q.project] \in PoolIds \cup {NoPool} /\ "breaker" \in ConnLabels
    BY <1>0, <2>1 DEF ConnLabels
  <2> QED  BY <1>0, <1>4, <2>3, <2>4 DEF Holds, Moves
<1>5. CASE /\ q.op \in {"test", "info"} /\ pools[DefaultKey] # NoPool
           /\ ConnGoes(c, "using") /\ Holds(c, pools[DefaultKey]) /\ UNCHANGED connAsk
  BY <1>0, <1>5 DEF ConnInv, ConnTypeOK, ConnGoes, Holds, Moves, ConnLabels, CoroutineOK, ConnKeys
<1>6. CASE ConnFails(c)
  BY <1>6, FailsMoves
<1> QED  BY <1>1, <1>2, <1>3, <1>4, <1>5, <1>6 DEF Proceeds

\* What c does leaves the invariant to the others, whose pools stay as they are
\* or are seen to be closed.
LEMMA MovesKeeps ==
  ASSUME ConnInv, NEW c \in ConnUsers, Moves(c),
         connAt[c] \in {"ping", "disconnecting"} <=> factoryLock = c,
         factoryLock' = IF factoryLock = c THEN NoUser ELSE factoryLock,
         pools' \in [ConnKeys -> PoolIds \cup {NoPool}],
         \A p \in ConnProjects :
           pools'[p] = pools[p] \/ pools[p] \in {NoPool} \cup disconnected,
         factoryReady' \in BOOLEAN, serviceReady' \in BOOLEAN,
         serviceLock' \in ConnUsers \cup {NoUser}, healthLoop' \in LoopIds \cup {NoLoop},
         stopping' \subseteq loops', loops' \subseteq LoopIds
  PROVE  ConnInv'
<1>0. ConnTypeOK
  BY DEF ConnInv
<1>1. /\ connAt' \in [ConnUsers -> ConnLabels]
      /\ connAsk' \in [ConnUsers -> ConnAsks \cup {NoConnAsk}]
      /\ held' \in [ConnUsers -> PoolIds \cup {NoPool}]
      /\ disconnected' \subseteq PoolIds
      /\ connAt'[c] \notin {"ping", "disconnecting"} /\ CoroutineOK(c)'
  BY <1>0 DEF ConnTypeOK, Moves, ConnGoes, ConnAsks, StillHeld
<1>2. ASSUME NEW d \in ConnUsers \ {c}
      PROVE  /\ connAt'[d] = connAt[d] /\ connAsk'[d] = connAsk[d] /\ held'[d] = held[d]
             /\ held[d] \in disconnected => held[d] \in disconnected'
  <2>1. connAt'[d] = connAt[d] /\ connAsk'[d] = connAsk[d] /\ held'[d] = held[d]
    BY <1>0 DEF ConnTypeOK, Moves, ConnGoes
  <2> QED  BY <2>1 DEF Moves, StillHeld
<1>3. \A d \in ConnUsers : factoryLock' = d <=> connAt'[d] \in {"ping", "disconnecting"}
  BY <1>0, <1>1, <1>2 DEF ConnTypeOK
<1>4. ASSUME NEW d \in ConnUsers PROVE CoroutineOK(d)'
  <2>1. CASE d = c
    BY <1>1, <2>1
  <2>2. CASE d # c
    <3>1. CoroutineOK(d)
      BY DEF ConnInv
    <3> QED  BY <1>2, <2>2, <3>1 DEF CoroutineOK
  <2> QED  BY <2>1, <2>2
<1>5. factoryLock' \in ConnUsers \cup {NoUser}
  BY <1>0 DEF ConnTypeOK
<1> QED  BY <1>1, <1>3, <1>4, <1>5 DEF ConnInv, ConnTypeOK, ConnAsks

\* A step that changes neither the pools nor the lock of the factory.
LEMMA PlainMoveKeeps ==
  ASSUME ConnInv, NEW c \in ConnUsers, Moves(c), NoPoolChange,
         connAt[c] \notin {"ping", "disconnecting"},
         serviceReady' \in BOOLEAN,
         serviceLock' \in ConnUsers \cup {NoUser}, healthLoop' \in LoopIds \cup {NoLoop},
         stopping' \subseteq loops', loops' \subseteq LoopIds
  PROVE  ConnInv'
<1>1. factoryLock # c
  BY DEF ConnInv, ConnTypeOK
<1> QED  BY <1>1, MovesKeeps DEF NoPoolChange, ConnInv, ConnTypeOK

\* A call begins with no pool, and for a project if it is about one.
LEMMA CallsKeep ==
  ASSUME ConnInv, NEW c \in ConnUsers, NEW op \in ConnOps,
         NEW p \in ConnProjects \cup {NoProject}, CallsRedis(c, op, p),
         op \in {"project", "service"} => p \in ConnProjects,
         op \notin {"test"}
  PROVE  ConnInv'
<1>1. StartsAt(op) \in ConnLabels \ {"ping", "disconnecting", "idle", "poolLock"}
  BY DEF StartsAt, ConnOps, ConnLabels
<1>2. [op |-> op, project |-> p] \in ConnAsks
  BY DEF ConnAsks
<1>3. held[c] = NoPool /\ held' = [held EXCEPT ![c] = NoPool] /\ disconnected' = disconnected
  BY DEF ConnInv, ConnTypeOK, CoroutineOK, CallsRedis
<1>4. /\ ConnGoes(c, StartsAt(op)) /\ NoPoolChange /\ UNCHANGED services
      /\ connAsk' = [connAsk EXCEPT ![c] = [op |-> op, project |-> p]]
  BY DEF CallsRedis
<1>5. CoroutineOK(c)'
  BY <1>1, <1>3, <1>4 DEF ConnInv, ConnTypeOK, CoroutineOK, ConnGoes
<1>6. Moves(c)
  BY <1>1, <1>2, <1>3, <1>4, <1>5 DEF Moves
<1>7. connAt[c] = "idle"
  BY DEF CallsRedis
<1> QED  BY <1>4, <1>6, <1>7, PlainMoveKeeps DEF services, ConnInv, ConnTypeOK

\* A coroutine that only goes to another await.
LEMMA GoesMoves ==
  ASSUME ConnInv, NEW c \in ConnUsers,
         NEW l \in ConnLabels \ {"ping", "disconnecting", "idle", "poolLock"}, ConnGoes(c, l),
         NoHoldChange, UNCHANGED pools
  PROVE  Moves(c)
<1>1. /\ connAsk[c] \in ConnAsks \cup {NoConnAsk} /\ held[c] \in PoolIds \cup {NoPool}
      /\ connAsk = [connAsk EXCEPT ![c] = connAsk[c]] /\ held = [held EXCEPT ![c] = held[c]]
      /\ connAt \in [ConnUsers -> ConnLabels] /\ CoroutineOK(c)
  BY DEF ConnInv, ConnTypeOK, ConnAsks
<1>2. connAsk' = connAsk /\ held' = held /\ disconnected' = disconnected /\ pools' = pools
  BY DEF NoHoldChange
<1>3. connAt'[c] = l
  BY <1>1 DEF ConnGoes
<1>4. CoroutineOK(c)'
  BY <1>1, <1>2, <1>3 DEF CoroutineOK
<1> QED  BY <1>1, <1>2, <1>4 DEF Moves

\* A service that is ready lets the call proceed.
LEMMA AfterServiceMoves ==
  ASSUME ConnInv, NEW c \in ConnUsers, connAt[c] # "idle", AfterService(c), NoPoolChange
  PROVE  Moves(c)
BY GoesMoves, ProceedsMoves DEF AfterService, NoPoolChange, ConnLabels

\* The lock of the service guards its flag, not the pools.
LEMMA ServiceKeeps ==
  ASSUME ConnInv, NEW c \in ConnUsers,
         ServiceReady(c) \/ ServiceNotReady(c) \/ ServiceLocked(c)
  PROVE  ConnInv'
<1>1. NoPoolChange /\ connAt[c] \in {"service", "serviceLock"}
  BY DEF ServiceReady, ServiceNotReady, ServiceLocked
<1>2. AfterService(c) \/ \E l \in {"serviceLock", "factory"} : ConnGoes(c, l) /\ NoHoldChange
  BY DEF ServiceReady, ServiceNotReady, ServiceLocked
<1>3. Moves(c)
  BY <1>1, <1>2, AfterServiceMoves, GoesMoves DEF ConnLabels, NoPoolChange
<1>4. UNCHANGED <<serviceReady, healthLoop, loops, stopping>> /\ serviceLock' \in {serviceLock, c}
  BY DEF ServiceReady, ServiceNotReady, ServiceLocked, services
<1> QED  BY <1>1, <1>3, <1>4, PlainMoveKeeps DEF ConnInv, ConnTypeOK

\* What the lock of the service guards keeps its type.
ServiceTyped ==
  /\ serviceReady \in BOOLEAN
  /\ serviceLock \in ConnUsers \cup {NoUser} /\ healthLoop \in LoopIds \cup {NoLoop}
  /\ stopping \subseteq loops /\ loops \subseteq LoopIds

\* Only the loop that is started is new.
LEMMA StartsLoopTyped ==
  ASSUME ConnInv, NEW c \in ConnUsers, StartsLoop(c)
  PROVE  ServiceTyped'
BY DEF ConnInv, ConnTypeOK, StartsLoop, services, ServiceTyped

\* The factory makes or drops the default pool, which is of no project.
LEMMA FactoryKeeps ==
  ASSUME ConnInv, NEW c \in ConnUsers,
         \/ FactoryNotReady(c) \/ FactoryReady(c) \/ PingSucceeds(c) \/ PingFails(c)
  PROVE  ConnInv'
<1>0. ConnTypeOK
  BY DEF ConnInv
<1>1. CASE FactoryNotReady(c)
  <2>1. Moves(c)
    BY <1>1, GoesMoves DEF FactoryNotReady, ConnLabels, NoPoolChange
  <2> QED  BY <1>0, <1>1, <2>1, PlainMoveKeeps DEF FactoryNotReady, services, ConnTypeOK
<1>2. CASE FactoryReady(c)
  <2>1. Moves(c) /\ ServiceTyped'
    BY <1>2, ProceedsMoves, StartsLoopTyped DEF FactoryReady, NoPoolChange
  <2> QED  BY <1>2, <2>1, PlainMoveKeeps DEF FactoryReady, ServiceTyped
<1>3. CASE PingSucceeds(c)
  <2>1. Moves(c) /\ ServiceTyped'
    BY <1>3, ProceedsMoves, StartsLoopTyped DEF PingSucceeds
  <2>2. /\ connAt[c] = "ping" /\ UNCHANGED pools
        /\ factoryLock' = NoUser /\ factoryReady' \in BOOLEAN
    BY <1>3 DEF PingSucceeds
  <2> QED  BY <1>0, <2>1, <2>2, MovesKeeps DEF ServiceTyped, ConnTypeOK
<1>4. CASE PingFails(c)
  <2>1. Moves(c)
    BY <1>4, FailsMoves DEF PingFails
  <2>2. /\ connAt[c] = "ping" /\ serviceLock' \in {serviceLock, NoUser}
        /\ UNCHANGED <<pools, factoryReady, serviceReady, healthLoop, loops, stopping>>
        /\ factoryLock' = NoUser
    BY <1>4 DEF PingFails
  <2> QED  BY <1>0, <2>1, <2>2, MovesKeeps DEF ConnTypeOK
<1> QED  BY <1>1, <1>2, <1>3, <1>4

\* Making, leaving and testing a client changes no pool.
LEMMA ClientsKeep ==
  ASSUME ConnInv, NEW c \in ConnUsers,
         \/ NoDefaultPool(c) \/ MakesClient(c) \/ CircuitOpen(c) \/ LeavesConnection(c)
         \/ RetriesOperation(c) \/ TestsOperations(c) \/ ChecksFactory(c)
  PROVE  ConnInv'
<1>0. ConnTypeOK
  BY DEF ConnInv
<1>1. /\ NoPoolChange /\ UNCHANGED services
      /\ connAt[c] \in {"poolLock", "breaker", "using", "ping default"}
  BY DEF NoDefaultPool, MakesClient, CircuitOpen, LeavesConnection, RetriesOperation,
         TestsOperations, ChecksFactory
<1>2. Moves(c)
  <2>1. CASE NoDefaultPool(c) \/ CircuitOpen(c) \/ LeavesConnection(c)
    BY <2>1, EndsMoves DEF NoDefaultPool, CircuitOpen, LeavesConnection
  <2>2. CASE TestsOperations(c)
    BY <2>2, FailsMoves DEF TestsOperations
  <2>3. CASE MakesClient(c)
    <3>1. CASE connAsk[c].op = "admin"
      <4>1. /\ connAsk[c] \in ConnAsks \cup {NoConnAsk}
            /\ connAsk' = [connAsk EXCEPT ![c] = connAsk[c]] /\ connAsk' = connAsk
            /\ pools[DefaultKey] \in PoolIds \cup {NoPool}
        BY <1>0, <2>3 DEF ConnTypeOK, ConnKeys, MakesClient, ConnAsks
      <4>2. ConnGoes(c, "using") /\ Holds(c, pools[DefaultKey])
        BY <2>3, <3>1 DEF MakesClient
      <4> QED  BY <1>0, <3>1, <4>1, <4>2
               DEF Holds, Moves, ConnGoes, ConnLabels, CoroutineOK, ConnTypeOK
    <3>2. CASE connAsk[c].op # "admin"
      BY <2>3, <3>2, GoesMoves, <1>1 DEF MakesClient, ConnLabels, NoHoldChange, NoPoolChange
    <3> QED  BY <3>1, <3>2
  <2>4. CASE RetriesOperation(c)
    <3>1. /\ connAsk[c] \in ConnAsks \cup {NoConnAsk}
          /\ connAsk' = [connAsk EXCEPT ![c] = connAsk[c]] /\ connAsk' = connAsk
          /\ CoroutineOK(c)
      BY <1>0, <2>4 DEF ConnInv, ConnTypeOK, RetriesOperation, ConnAsks
    <3>2. ConnGoes(c, "service") /\ Holds(c, NoPool)
      BY <2>4 DEF RetriesOperation
    <3> QED  BY <1>0, <3>1, <3>2
             DEF Holds, Moves, ConnGoes, ConnLabels, CoroutineOK, ConnTypeOK
  <2>5. CASE ChecksFactory(c)
    <3> DEFINE q == [connAsk[c] EXCEPT !.op = "test"]
    <3>1. q \in ConnAsks /\ q.op = "test"
      BY <1>0 DEF ConnTypeOK, ConnAsks, ConnOps, NoConnAsk
    <3>2. /\ connAsk' = [connAsk EXCEPT ![c] = q] /\ ConnGoes(c, "service")
          /\ UNCHANGED <<held, disconnected>>
      BY <2>5 DEF ChecksFactory
    <3>3. connAt'[c] = "service" /\ held'[c] = held[c] /\ connAsk'[c] = q
      BY <1>0, <3>2 DEF ConnGoes, ConnTypeOK
    <3> HIDE DEF q
    <3>4. CoroutineOK(c)'
      BY <3>1, <3>3 DEF CoroutineOK
    <3>5. /\ held' = [held EXCEPT ![c] = held[c]] /\ held[c] \in PoolIds \cup {NoPool}
          /\ "service" \in ConnLabels \ {"ping", "disconnecting"}
      BY <1>0, <3>2 DEF ConnTypeOK, ConnLabels
    <3> QED  BY <3>1, <3>2, <3>4, <3>5 DEF Moves
  <2> QED  BY <2>1, <2>2, <2>3, <2>4, <2>5
<1> QED  BY <1>0, <1>1, <1>2, PlainMoveKeeps DEF services, ConnTypeOK

\* A pool of a project is made only where there is none: who held the one before holds
\* a disconnected one.
LEMMA CreatesPoolKeeps ==
  ASSUME ConnInv, NEW c \in ConnUsers, CreatesProjectPool(c),
         connAsk[c].op \in {"project", "service"}
  PROVE  ConnInv'
<1> DEFINE p == connAsk[c].project
<1>0. ConnTypeOK /\ p \in ConnProjects /\ p \in ConnKeys
  BY DEF ConnInv, CoroutineOK, ConnKeys
<1>1. /\ connAt[c] = "poolLock" /\ ConnGoes(c, "breaker")
      /\ UNCHANGED <<factoryReady, factoryLock, services, connAsk, disconnected>>
  BY DEF CreatesProjectPool
<1>2. \/ /\ pools[p] = NoPool
         /\ \E new \in PoolIds : /\ pools' = [pools EXCEPT ![p] = new]
                                 /\ held' = [held EXCEPT ![c] = new]
      \/ pools' = pools /\ held' = [held EXCEPT ![c] = pools[p]]
  BY DEF CreatesProjectPool, MissingUnderLock, FreshPools
<1>3. /\ pools' \in [ConnKeys -> PoolIds \cup {NoPool}]
      /\ \A k \in ConnProjects : pools'[k] = pools[k] \/ pools[k] = NoPool
      /\ held'[c] = pools'[p]
      /\ \E h \in PoolIds \cup {NoPool} : held' = [held EXCEPT ![c] = h]
  BY <1>0, <1>2 DEF ConnTypeOK, ConnKeys
<1>4. Moves(c)
  <2>1. /\ connAsk[c] \in ConnAsks \cup {NoConnAsk} /\ connAsk' = connAsk
        /\ connAsk = [connAsk EXCEPT ![c] = connAsk[c]]
        /\ connAt'[c] = "breaker" /\ disconnected' = disconnected
    BY <1>0, <1>1 DEF ConnTypeOK, ConnAsks, ConnGoes
  <2>2. CoroutineOK(c)'
    BY <1>0, <1>3, <2>1 DEF CoroutineOK
  <2> QED  BY <1>1, <1>3, <2>1, <2>2 DEF Moves, ConnLabels
<1>5. factoryLock # c
  BY <1>0, <1>1 DEF ConnTypeOK
<1> QED  BY <1>0, <1>1, <1>3, <1>4, <1>5, MovesKeeps DEF services, ConnTypeOK

\* Stopping the health loop does not touch the pools.
LEMMA LocksKeep ==
  ASSUME ConnInv, NEW c \in ConnUsers,
         StopsLoop(c) \/ LoopStopped(c)
  PROVE  ConnInv'
<1>0. ConnTypeOK
  BY DEF ConnInv
<1>1. /\ NoPoolChange /\ NoHoldChange /\ connAt[c] \in {"stopLock", "stopLoop"}
      /\ \E l \in {"stopLoop", "closeLock"} : ConnGoes(c, l)
      /\ serviceReady' = serviceReady /\ loops' = loops
      /\ serviceLock' \in {serviceLock, c} /\ healthLoop' \in {healthLoop, NoLoop}
      /\ stopping' \subseteq stopping \cup loops
  BY DEF StopsLoop, LoopStopped
<1>2. Moves(c)
  BY <1>1, GoesMoves DEF ConnLabels, NoPoolChange
<1> QED  BY <1>0, <1>1, <1>2, PlainMoveKeeps DEF ConnTypeOK

\* A coroutine takes the lock of the factory.
LEMMA TakesFactoryLock ==
  ASSUME ConnInv, NEW c \in ConnUsers, FactoryLocked(c) \/ LocksFactory(c)
  PROVE  ConnInv'
<1>0. ConnTypeOK
  BY DEF ConnInv
<1>1. /\ factoryLock = NoUser /\ factoryLock' = c /\ NoHoldChange
      /\ UNCHANGED <<factoryReady, services>>
      /\ \E l \in {"ping", "disconnecting"} : ConnGoes(c, l)
  BY DEF FactoryLocked, LocksFactory
<1>2. /\ pools' \in [ConnKeys -> PoolIds \cup {NoPool}]
      /\ \A k \in ConnProjects : pools'[k] = pools[k]
  BY <1>0 DEF FactoryLocked, LocksFactory, FreshPools, ConnTypeOK, ConnKeys
<1>3. /\ connAt' \in [ConnUsers -> ConnLabels]
      /\ \A d \in ConnUsers : factoryLock' = d <=> connAt'[d] \in {"ping", "disconnecting"}
      /\ \A d \in ConnUsers : connAt'[d] \in {connAt[d], "ping", "disconnecting"}
  BY <1>0, <1>1 DEF ConnTypeOK, ConnGoes, ConnLabels
<1>4. ASSUME NEW d \in ConnUsers PROVE CoroutineOK(d)'
  <2>1. CoroutineOK(d)
    BY DEF ConnInv
  <2> QED  BY <1>1, <1>2, <1>3, <2>1 DEF CoroutineOK, NoHoldChange
<1> QED  BY <1>0, <1>1, <1>2, <1>3, <1>4 DEF ConnInv, ConnTypeOK, NoHoldChange, services

\* A pool stays known while it is being disconnected.
LEMMA DisconnectsKeep ==
  ASSUME ConnInv, NEW c \in ConnUsers, DisconnectsPool(c)
  PROVE  ConnInv'
<1>0. ConnTypeOK
  BY DEF ConnInv
<1>1. disconnected \subseteq disconnected' /\ disconnected' \subseteq PoolIds
  BY <1>0 DEF DisconnectsPool, Connected, ConnTypeOK
<1>2. UNCHANGED <<pools, factoryReady, factoryLock, services, connAt, connAsk, held>>
  BY DEF DisconnectsPool, NoPoolChange
<1>3. ASSUME NEW d \in ConnUsers PROVE CoroutineOK(d)'
  <2>1. CoroutineOK(d)
    BY DEF ConnInv
  <2> QED  BY <1>1, <1>2, <2>1 DEF CoroutineOK
<1> QED  BY <1>0, <1>1, <1>2, <1>3 DEF ConnInv, ConnTypeOK, services

\* The factory forgets its pools once they are disconnected.
LEMMA FactoryClosedKeeps ==
  ASSUME ConnInv, NEW c \in ConnUsers, FactoryClosed(c)
  PROVE  ConnInv'
<1>0. ConnTypeOK
  BY DEF ConnInv
<1>1. Moves(c)
  BY EndsMoves DEF FactoryClosed
<1>2. /\ connAt[c] = "disconnecting" /\ factoryLock = c /\ factoryLock' = NoUser
      /\ pools' = [k \in ConnKeys |-> NoPool]
      /\ factoryReady' \in BOOLEAN /\ serviceReady' \in BOOLEAN
      /\ serviceLock' \in ConnUsers \cup {NoUser}
      /\ UNCHANGED <<healthLoop, loops, stopping>>
  BY <1>0 DEF FactoryClosed, ConnTypeOK
<1>3. \A k \in ConnProjects : pools[k] \in {NoPool} \cup disconnected
  BY DEF FactoryClosed, Connected, ConnKeys
<1> QED  BY <1>0, <1>1, <1>2, <1>3, MovesKeeps DEF ConnTypeOK

\* A health loop ends by itself without any pool.
LEMMA LoopBreaksKeeps ==
  ASSUME ConnInv, NEW l \in LoopIds, LoopBreaks(l)
  PROVE  ConnInv'
<1>0. ConnTypeOK
  BY DEF ConnInv
<1>1. /\ UNCHANGED <<pools, factoryReady, factoryLock, serviceReady, serviceLock,
                     healthLoop, connAt, connAsk, held, disconnected>>
      /\ stopping' \subseteq loops' /\ loops' \subseteq LoopIds
  BY <1>0 DEF LoopBreaks, NoPoolChange, NoHoldChange, ConnTypeOK
<1>2. ASSUME NEW d \in ConnUsers PROVE CoroutineOK(d)'
  <2>1. CoroutineOK(d)
    BY DEF ConnInv
  <2> QED  BY <1>1, <2>1 DEF CoroutineOK
<1> QED  BY <1>0, <1>1, <1>2 DEF ConnInv, ConnTypeOK

\* Every step of a coroutine keeps the invariant.
LEMMA ConnStepKeeps ==
  ASSUME ConnInv, NEW c \in ConnUsers, ConnStep(c)
  PROVE  ConnInv'
<1>1. CASE \E p \in ConnProjects : GetConnection(c, p) \/ GetServiceConnection(c, p)
  BY <1>1, CallsKeep DEF GetConnection, GetServiceConnection, ConnOps
<1>2. CASE \/ GetAdminConnection(c) \/ GetSystemConnection(c) \/ StartsService(c)
           \/ HealthCheckRequested(c) \/ ClosesService(c)
  BY <1>2, CallsKeep
     DEF GetAdminConnection, GetSystemConnection, StartsService, HealthCheckRequested,
         ClosesService, ConnOps
<1>3. CASE CreatesProjectPool(c)
  <2>1. connAsk[c].op \in {"project", "service"}
    BY <1>3 DEF CreatesProjectPool, ConnInv, CoroutineOK
  <2> QED  BY <1>3, <2>1, CreatesPoolKeeps
<1> QED  BY <1>1, <1>2, <1>3, ServiceKeeps, FactoryKeeps, ClientsKeep, LocksKeep,
            TakesFactoryLock, DisconnectsKeep, FactoryClosedKeeps DEF ConnStep

\* Induction over the steps of the coroutines and the loops.
LEMMA ConnInvariant == ConnSpec => []ConnInv
<1>1. ConnInit => ConnInv
  <2> SUFFICES ASSUME ConnInit PROVE ConnInv
    OBVIOUS
  <2>1. ConnTypeOK
    BY DEF ConnInit, ConnTypeOK, ConnLabels
  <2>2. ASSUME NEW c \in ConnUsers PROVE CoroutineOK(c)
    BY DEF ConnInit, CoroutineOK, NoConnAsk
  <2> QED  BY <2>1, <2>2 DEF ConnInv
<1>2. ConnInv /\ [ConnNext]_connVars => ConnInv'
  <2> SUFFICES ASSUME ConnInv, [ConnNext]_connVars PROVE ConnInv'
    OBVIOUS
  <2>1. CASE ConnNext
    BY <2>1, ConnStepKeeps, LoopBreaksKeeps DEF ConnNext
  <2>2. CASE UNCHANGED connVars
    BY <2>2 DEF connVars, services, ConnInv, ConnTypeOK, CoroutineOK
  <2> QED  BY <2>1, <2>2
<1> QED  BY <1>1, <1>2, PTL DEF ConnSpec

\* Pools, locks and what each coroutine asks for and holds keep their types, and
\* the lock of the factory is held at its awaits only (redis_service.py,
\* connection_factory.py), for any projects, coroutines and loops.
THEOREM ConnectionsTyped == ConnSpec => []ConnTypeOK
<1>1. ConnInv => ConnTypeOK
  BY DEF ConnInv
<1> QED  BY <1>1, ConnInvariant, PTL

\* Two clients of a project share its pool unless the pool of one was closed
\* under it (get_connection and close of the factory): the look at the pools
\* and their change are apart by awaits, but the lock is asked before a pool is
\* made.
THEOREM ProjectsShareOnePool == ConnSpec => []OnePoolPerProject
<1>1. ConnInv => OnePoolPerProject
  BY DEF ConnInv, CoroutineOK, OnePoolPerProject
<1> QED  BY <1>1, ConnInvariant, PTL

HIDE ConnAssumption

-----------------------------------------------------------------------------
(* AppLifespan.  What the calls of a shutdown have stopped stays stopped up to
   its end, because no request can start a monitor any more. *)
USE LifespanAssumption

\* Every task that has not ended is the one its loop knows of, and what a stop
\* awaits is what the attribute it will clear still names.
Remembered ==
  /\ \A t \in tasks : known[t.of] = t.id
  /\ \A r \in Stops : stopAt[r] # NotStopping =>
       stopAt[r].awaits \in {NoTask, known[Monitors[stopAt[r].to]]}
  /\ \A q, r \in Stops : stopAt[q] # NotStopping /\ stopAt[r] # NotStopping => q = r

\* What the calls before the n-th of a shutdown have stopped stays so.
StoppedBefore(n) ==
  \A j \in 1..(n - 1) :
    /\ StopCalls[j] \in LifeLoops => known[StopCalls[j]] = NoTask
    /\ StopCalls[j] = "engine" => ~ engineOpen

\* The inductive invariant of the lifespan.
LifeInv ==
  /\ LifeTypeOK
  /\ \A r \in Stops : stopAt[r] = NotStopping \/ stopAt[r].to \in 1..Len(Monitors)
  /\ lifeAt # Serving => \A r \in Stops : stopAt[r] = NotStopping
  /\ ~ overlapped => Remembered
  /\ lifeAt.phase = "stop" => StoppedBefore(lifeAt.call)
  /\ lifeAt = Over => StoppedBefore(Len(StopCalls) + 1)
  /\ lifeAt = Over /\ ~ overlapped => ~ redisOpen
-----------------------------------------------------------------------------
\* The elements of a sequence that is put together from three.
LEMMA InThreeParts ==
  ASSUME NEW S, NEW r \in Seq(S), NEW s \in Seq(S), NEW t \in Seq(S),
         NEW w, w = r \o s \o t
  PROVE  /\ Len(w) = Len(r) + Len(s) + Len(t)
         /\ \A i \in 1..Len(r) : w[i] = r[i]
         /\ \A i \in 1..Len(s) : w[i + Len(r)] = s[i]
         /\ \A i \in 1..Len(t) : w[i + Len(r) + Len(s)] = t[i]
OBVIOUS

\* A shutdown stops every loop but the scheduler of backups, and closes Redis
\* last.
LEMMA StopCallsCover ==
  /\ Len(Monitors) \in Nat /\ Len(Monitors) > 0
  /\ Len(StopCalls) = Len(Monitors) + 7
  /\ StopCalls[Len(StopCalls)] = "redis" /\ StopCalls[3] = "engine"
  /\ \A i \in 1..Len(Monitors) : Monitors[i] \in Range(Monitors) /\ Monitors[i] \notin OwnCalls
  /\ \A l \in LifeLoops \ {"backups"} : \E j \in 1..Len(StopCalls) : StopCalls[j] = l
  /\ {"redis", "engine", "vector"} \cap LifeLoops = {}
<1> DEFINE a == <<"database", "maintenance", "engine", "vector">>
           b == <<"collection", "service", "redis">>
           X == STRING \cup OwnCalls
<1>1. /\ Len(Monitors) \in Nat /\ Len(Monitors) > 0 /\ DOMAIN Monitors = 1..Len(Monitors)
      /\ \A i \in 1..Len(Monitors) : Monitors[i] \in STRING /\ Monitors[i] \notin OwnCalls
  <2>1. Monitors \in Seq(STRING) /\ Monitors # <<>>
    BY LifespanAssumption
  <2>2. /\ Len(Monitors) \in Nat /\ DOMAIN Monitors = 1..Len(Monitors)
        /\ \A i \in 1..Len(Monitors) : Monitors[i] \in STRING
    BY <2>1
  <2>3. Len(Monitors) # 0
    BY <2>1
  <2>4. \A i \in 1..Len(Monitors) : Monitors[i] \notin OwnCalls
    BY <2>2, LifespanAssumption DEF Range
  <2> QED  BY <2>2, <2>3, <2>4
<1>2. a \in Seq(X) /\ Monitors \in Seq(X) /\ b \in Seq(X)
  <2>1. a \in Seq(X) /\ b \in Seq(X)
    BY DEF OwnCalls
  <2>2. Monitors \in Seq(X)
    BY LifespanAssumption
  <2> QED  BY <2>1, <2>2
<1>3. /\ Len(StopCalls) = Len(Monitors) + 7
      /\ \A i \in 1..4 : StopCalls[i] = a[i]
      /\ \A i \in 1..Len(Monitors) : StopCalls[i + 4] = Monitors[i]
      /\ \A i \in 1..3 : StopCalls[i + 4 + Len(Monitors)] = b[i]
  <2>1. StopCalls = a \o Monitors \o b
    BY DEF StopCalls
  <2>2. Len(a) = 4 /\ Len(b) = 3
    OBVIOUS
  <2> HIDE DEF a, b, X
  <2>3. /\ Len(StopCalls) = Len(a) + Len(Monitors) + Len(b)
        /\ \A i \in 1..Len(a) : StopCalls[i] = a[i]
        /\ \A i \in 1..Len(Monitors) : StopCalls[i + Len(a)] = Monitors[i]
        /\ \A i \in 1..Len(b) : StopCalls[i + Len(a) + Len(Monitors)] = b[i]
    BY <1>2, <2>1, InThreeParts
  <2> QED  BY <1>1, <2>2, <2>3
<1>4. \A l \in Range(Monitors) : \E i \in 1..Len(Monitors) : Monitors[i] = l
  BY <1>1 DEF Range
<1>5. \A i \in 1..Len(Monitors) : Monitors[i] \in Range(Monitors)
  BY <1>1 DEF Range
<1>6. /\ StopCalls[1] = "database" /\ StopCalls[2] = "maintenance" /\ StopCalls[3] = "engine"
      /\ StopCalls[Len(Monitors) + 5] = "collection"
      /\ StopCalls[Len(Monitors) + 6] = "service"
      /\ StopCalls[Len(Monitors) + 7] = "redis"
  BY <1>1, <1>3
<1>7. ASSUME NEW l \in LifeLoops \ {"backups"}
      PROVE  \E j \in 1..Len(StopCalls) : StopCalls[j] = l
  <2>1. CASE l \in Range(Monitors)
    BY <1>1, <1>3, <1>4, <2>1
  <2>2. CASE l \notin Range(Monitors)
    BY <1>1, <1>3, <1>6, <2>2 DEF LifeLoops, DatabaseLoops
  <2> QED  BY <2>1, <2>2
<1>8. {"redis", "engine", "vector"} \cap LifeLoops = {}
  BY <1>1, <1>4 DEF LifeLoops, DatabaseLoops, OwnCalls
<1> HIDE DEF a, b
<1> QED  BY <1>1, <1>3, <1>5, <1>6, <1>7, <1>8
-----------------------------------------------------------------------------
(* Start and requests *)

\* The part of the type that is about loops and their tasks.
LoopsTyped ==
  /\ known \in [LifeLoops -> TaskIds \cup {NoTask}]
  /\ cancelled \subseteq tasks /\ tasks \subseteq LifeTasks

\* A loop that gets a task knew of none, so that no stop awaits one of it.
LEMMA StartsLoopsKeeps ==
  ASSUME LifeInv, NEW ls, ls \subseteq LifeLoops, StartsLoops(ls),
         UNCHANGED <<stopAt, cancelled>>
  PROVE  LoopsTyped' /\ (Remembered => Remembered')
<1> DEFINE idle == {l \in ls : known[l] = NoTask}
<1>1. PICK new \in [idle -> TaskIds] :
        /\ known' = [l \in LifeLoops |-> IF l \in idle THEN new[l] ELSE known[l]]
        /\ tasks' = tasks \cup {[of |-> l, id |-> new[l]] : l \in idle}
  BY DEF StartsLoops
<1>2. LoopsTyped
  BY DEF LifeInv, LifeTypeOK, LoopsTyped
<1>3. LoopsTyped'
  <2>1. known' \in [LifeLoops -> TaskIds \cup {NoTask}]
    BY <1>1, <1>2 DEF LoopsTyped
  <2>2. {[of |-> l, id |-> new[l]] : l \in idle} \subseteq LifeTasks
    BY DEF LifeTasks
  <2> QED  BY <1>1, <1>2, <2>1, <2>2 DEF LoopsTyped
<1>4. ASSUME Remembered PROVE Remembered'
  <2>1. \A l \in LifeLoops : known[l] # NoTask => known'[l] = known[l]
    BY <1>1
  <2>2. ASSUME NEW t \in tasks' PROVE known'[t.of] = t.id
    <3>1. CASE t \in tasks
      <4>1. t.of \in LifeLoops /\ t.id \in TaskIds /\ known[t.of] = t.id
        BY <1>2, <1>4, <3>1 DEF LoopsTyped, LifeTasks, Remembered
      <4> QED  BY <2>1, <4>1
    <3>2. CASE t \notin tasks
      BY <1>1, <2>2, <3>2
    <3> QED  BY <3>1, <3>2
  <2>3. ASSUME NEW r \in Stops, stopAt[r] # NotStopping
        PROVE  stopAt[r].awaits \in {NoTask, known'[Monitors[stopAt[r].to]]}
    <3>1. stopAt[r].to \in 1..Len(Monitors)
      BY <2>3 DEF LifeInv
    <3>2. Monitors[stopAt[r].to] \in LifeLoops
      BY <3>1, StopCallsCover DEF LifeLoops
    <3> QED  BY <1>4, <2>1, <2>3, <3>2 DEF Remembered
  <2> QED  BY <1>4, <2>2, <2>3 DEF Remembered
<1> QED  BY <1>3, <1>4

\* A step that is not one of a shutdown, and changes no stop request.
LEMMA StepsOutsideShutdown ==
  ASSUME LifeInv, UNCHANGED <<stopAt, overlapped>>, LoopsTyped',
         Remembered => Remembered',
         engineOpen' \in BOOLEAN, redisOpen' \in BOOLEAN,
         lifeAt' \in {Serving, Abandoned} \cup {Before(i) : i \in 1..Len(StartCalls)},
         lifeAt' = Serving \/ lifeAt # Serving \/ \A r \in Stops : stopAt[r] = NotStopping
  PROVE  LifeInv'
<1>1. lifeAt'.phase # "stop" /\ lifeAt' # Over
  BY DEF Serving, Abandoned, Before, Over
<1>2. LifeTypeOK'
  BY DEF LifeInv, LifeTypeOK, LoopsTyped
<1> QED  BY <1>1, <1>2 DEF LifeInv

\* The calls of the start open services and start loops; none is stopping yet.
LEMMA StartKeeps ==
  ASSUME LifeInv,
         \/ InitializesEngine \/ StartsDatabaseLoop \/ ConfiguresSettings
         \/ InitializesFactory \/ InitializesIntegration \/ InitializesService
         \/ FinishesStart \/ StartFails
  PROVE  LifeInv'
<1>1. /\ lifeAt.phase = "start"
      /\ lifeAt' \in {Serving, Abandoned} \cup {Before(i) : i \in 1..Len(StartCalls)}
  <2>1. CASE \E name : StartCall(name)
    <3>1. PICK i \in 1..Len(StartCalls) : StartsCall(i)
      BY <2>1 DEF StartCall
    <3>2. Len(StartCalls) = 10
      BY DEF StartCalls
    <3>3. /\ lifeAt = Before(i)
          /\ \/ lifeAt' = Serving
             \/ i # Len(StartCalls) /\ lifeAt' = Before(i + 1)
      BY <3>1 DEF StartsCall
    <3>4. i # Len(StartCalls) => i + 1 \in 1..Len(StartCalls)
      BY <3>2
    <3> QED  BY <3>3, <3>4 DEF Before
  <2>2. CASE StartFails
    BY <2>2 DEF StartFails
  <2> QED  BY <2>1, <2>2 DEF InitializesEngine, StartsDatabaseLoop, ConfiguresSettings,
              InitializesFactory, InitializesIntegration, InitializesService, FinishesStart
<1>2. UNCHANGED <<stopAt, overlapped>> /\ cancelled' = cancelled
  BY DEF InitializesEngine, StartsDatabaseLoop, ConfiguresSettings, InitializesFactory,
         InitializesIntegration, InitializesService, FinishesStart, StartFails,
         NoLoopChange, NoStopChange
<1>3. engineOpen' \in BOOLEAN /\ redisOpen' \in BOOLEAN
  BY DEF LifeInv, LifeTypeOK, InitializesEngine, StartsDatabaseLoop, ConfiguresSettings,
         InitializesFactory, InitializesIntegration, InitializesService, FinishesStart, StartFails
<1>4. NoLoopChange \/ \E ls \in SUBSET LifeLoops : StartsLoops(ls)
  BY DEF InitializesEngine, StartsDatabaseLoop, ConfiguresSettings, InitializesFactory,
         InitializesIntegration, InitializesService, FinishesStart, StartFails,
         StartsMonitors, LifeLoops
<1>5. LoopsTyped' /\ (Remembered => Remembered')
  <2>1. CASE NoLoopChange
    BY <1>2, <2>1 DEF NoLoopChange, LifeInv, LifeTypeOK, LoopsTyped, Remembered
  <2>2. CASE \E ls \in SUBSET LifeLoops : StartsLoops(ls)
    BY <1>2, <2>2, StartsLoopsKeeps
  <2> QED  BY <1>4, <2>1, <2>2
<1> QED  BY <1>1, <1>2, <1>3, <1>5, StepsOutsideShutdown DEF Serving

\* A monitor that is started, or read, while the process serves.
LEMMA RequestsKeep ==
  ASSUME LifeInv, StartMonitoring \/ ReadsMonitors
  PROVE  LifeInv'
<1>1. /\ lifeAt' = Serving /\ UNCHANGED <<stopAt, overlapped>> /\ cancelled' = cancelled
      /\ engineOpen' \in BOOLEAN /\ redisOpen' \in BOOLEAN
  BY DEF StartMonitoring, ReadsMonitors, NoLoopChange, NoStopChange, LifeInv, LifeTypeOK
<1>2. LoopsTyped' /\ (Remembered => Remembered')
  <2>1. CASE StartMonitoring
    BY <1>1, <2>1, StartsLoopsKeeps DEF StartMonitoring, StartsMonitors, LifeLoops
  <2>2. CASE ReadsMonitors
    BY <1>1, <2>2 DEF ReadsMonitors, NoLoopChange, LifeInv, LifeTypeOK, LoopsTyped, Remembered
  <2> QED  BY <2>1, <2>2
<1> QED  BY <1>1, <1>2, StepsOutsideShutdown

\* A request that stops the monitors begins by cancelling the task of the first one.
LEMMA StopRequestKeeps ==
  ASSUME LifeInv, NEW r \in Stops, StopMonitoring(r)
  PROVE  LifeInv'
<1> DEFINE q == [to |-> 1, awaits |-> known[Monitors[1]]]
<1>1. /\ lifeAt = Serving /\ stopAt[r] = NotStopping
      /\ overlapped' = (overlapped \/ \E p \in Stops : stopAt[p] # NotStopping)
      /\ stopAt' = [stopAt EXCEPT ![r] = q]
      /\ cancelled' = cancelled \cup (Named(Monitors[1]) \cap tasks)
      /\ UNCHANGED <<lifeAt, engineOpen, redisOpen, known, tasks>>
  BY DEF StopMonitoring, CancelsTask
<1>2. Monitors[1] \in LifeLoops /\ 1 \in 1..Len(Monitors)
  BY StopCallsCover DEF LifeLoops
<1>3. LifeTypeOK
  BY DEF LifeInv
<1>4. q \in [to : 0..Len(Monitors), awaits : TaskIds \cup {NoTask}] /\ q.to = 1
      /\ q.awaits = known[Monitors[1]]
  BY <1>2, <1>3 DEF LifeTypeOK
<1> HIDE DEF q
<1>5. /\ stopAt' \in [Stops -> [to : 0..Len(Monitors), awaits : TaskIds \cup {NoTask}]]
      /\ stopAt'[r] = q /\ \A p \in Stops \ {r} : stopAt'[p] = stopAt[p]
  BY <1>1, <1>3, <1>4 DEF LifeTypeOK
<1>6. overlapped' \in BOOLEAN /\ cancelled' \subseteq tasks
  BY <1>1, <1>3 DEF LifeTypeOK
<1>7. LifeTypeOK'
  BY <1>1, <1>3, <1>5, <1>6 DEF LifeTypeOK
<1>8. \A p \in Stops : stopAt'[p] = NotStopping \/ stopAt'[p].to \in 1..Len(Monitors)
  BY <1>2, <1>4, <1>5 DEF LifeInv
<1>9. ASSUME ~ overlapped' PROVE Remembered'
  <2>1. ~ overlapped /\ \A p \in Stops \ {r} : stopAt'[p] = NotStopping
    BY <1>1, <1>5, <1>9
  <2> QED  BY <1>1, <1>4, <1>5, <2>1 DEF LifeInv, Remembered
<1>10. lifeAt'.phase # "stop" /\ lifeAt' # Over /\ lifeAt' = Serving
  BY <1>1 DEF Serving, Over
<1> QED  BY <1>7, <1>8, <1>9, <1>10 DEF LifeInv

\* A monitor that was stopped forgets its task, which has ended unless another request
\* to stop it ran meanwhile.
LEMMA MonitorStoppedKeeps ==
  ASSUME LifeInv, NEW r \in Stops, MonitorStopped(r)
  PROVE  LifeInv'
<1> DEFINE i == stopAt[r].to
           l == Monitors[i]
           a == stopAt[r].awaits
<1>1. /\ stopAt[r] # NotStopping /\ [of |-> l, id |-> a] \notin tasks
      /\ known' = IF a = NoTask THEN known ELSE [known EXCEPT ![l] = NoTask]
      /\ \/ /\ i < Len(Monitors)
            /\ stopAt' = [stopAt EXCEPT ![r] = [to |-> i + 1, awaits |-> known[Monitors[i + 1]]]]
            /\ cancelled' = cancelled \cup (Named(Monitors[i + 1]) \cap tasks)
         \/ /\ ~ (i < Len(Monitors))
            /\ stopAt' = [stopAt EXCEPT ![r] = NotStopping] /\ cancelled' = cancelled
      /\ UNCHANGED <<lifeAt, engineOpen, redisOpen, tasks, overlapped>>
  BY DEF MonitorStopped, CancelsTask
<1>2. LifeTypeOK /\ lifeAt = Serving /\ i \in 1..Len(Monitors) /\ Len(Monitors) \in Nat
  BY <1>1, StopCallsCover DEF LifeInv
<1>3. l \in LifeLoops /\ (i < Len(Monitors) =>
        Monitors[i + 1] \in LifeLoops /\ Monitors[i + 1] # l /\ i + 1 \in 1..Len(Monitors))
  <2>1. \A j \in 1..Len(Monitors) : Monitors[j] \in LifeLoops
    BY StopCallsCover DEF LifeLoops
  <2>2. DOMAIN Monitors = 1..Len(Monitors)
    BY LifespanAssumption
  <2>3. i < Len(Monitors) => i + 1 \in 1..Len(Monitors) /\ i + 1 # i
    BY <1>2
  <2> QED  BY <1>2, <2>1, <2>2, <2>3, LifespanAssumption DEF IsInjective
<1> HIDE DEF l, a, i
<1>4. known' \in [LifeLoops -> TaskIds \cup {NoTask}] /\ cancelled' \subseteq tasks
      /\ \A k \in LifeLoops \ {l} : known'[k] = known[k]
  BY <1>1, <1>2, <1>3 DEF LifeTypeOK
<1>5. /\ stopAt' \in [Stops -> [to : 0..Len(Monitors), awaits : TaskIds \cup {NoTask}]]
      /\ \A p \in Stops \ {r} : stopAt'[p] = stopAt[p]
      /\ \/ /\ stopAt'[r].to \in 1..Len(Monitors)
            /\ stopAt'[r].awaits = known'[Monitors[stopAt'[r].to]]
         \/ stopAt'[r] = NotStopping
  <2>1. CASE i < Len(Monitors)
    <3>1. /\ [to |-> i + 1, awaits |-> known[Monitors[i + 1]]]
               \in [to : 0..Len(Monitors), awaits : TaskIds \cup {NoTask}]
          /\ known'[Monitors[i + 1]] = known[Monitors[i + 1]]
      BY <1>2, <1>3, <1>4, <2>1 DEF LifeTypeOK
    <3> DEFINE q == [to |-> i + 1, awaits |-> known[Monitors[i + 1]]]
    <3>2. q.to = i + 1 /\ q.awaits = known[Monitors[i + 1]]
      OBVIOUS
    <3>3. stopAt' = [stopAt EXCEPT ![r] = q]
      BY <1>1, <2>1
    <3> HIDE DEF q
    <3>4. stopAt'[r] = q /\ q \in [to : 0..Len(Monitors), awaits : TaskIds \cup {NoTask}]
      BY <1>2, <3>1, <3>3 DEF LifeTypeOK, q
    <3> QED  BY <1>2, <1>3, <2>1, <3>1, <3>2, <3>3, <3>4 DEF LifeTypeOK
  <2>2. CASE ~ (i < Len(Monitors))
    <3>1. NotStopping \in [to : 0..Len(Monitors), awaits : TaskIds \cup {NoTask}]
      BY <1>2 DEF NotStopping
    <3> QED  BY <1>1, <1>2, <2>2, <3>1 DEF LifeTypeOK
  <2> QED  BY <2>1, <2>2
<1>6. LifeTypeOK'
  BY <1>1, <1>2, <1>4, <1>5 DEF LifeTypeOK
<1>7. ASSUME Remembered PROVE Remembered'
  <2>1. \A p \in Stops \ {r} : stopAt'[p] = NotStopping
    BY <1>1, <1>5, <1>7 DEF Remembered
  <2>2. ASSUME NEW t \in tasks PROVE known'[t.of] = t.id
    <3>1. t.of \in LifeLoops /\ known[t.of] = t.id /\ t = [of |-> t.of, id |-> t.id]
      BY <1>2, <1>7 DEF LifeTypeOK, LifeTasks, Remembered
    <3>2. a # NoTask => t.of # l
      BY <1>1, <1>7, <3>1 DEF Remembered, l, a, i
    <3> QED  BY <1>1, <1>4, <3>1, <3>2
  <2> QED  BY <1>1, <1>5, <2>1, <2>2 DEF Remembered
<1>8. lifeAt'.phase # "stop" /\ lifeAt' # Over /\ lifeAt' = Serving
  BY <1>1, <1>2 DEF Serving, Over
<1> QED  BY <1>1, <1>5, <1>6, <1>7, <1>8 DEF LifeInv
-----------------------------------------------------------------------------
(* Loops *)

\* A loop uses Redis or ends; after its stop there is none to do so.
LEMMA LoopsKeep ==
  ASSUME LifeInv, NEW t \in LifeTasks, LoopUsesRedis(t) \/ TaskEnds(t)
  PROVE  LifeInv'
<1>1. /\ UNCHANGED <<lifeAt, engineOpen, known, stopAt, overlapped>>
      /\ tasks' \subseteq tasks /\ cancelled' \subseteq tasks'
      /\ redisOpen' \in {redisOpen, TRUE}
  BY DEF LoopUsesRedis, TaskEnds, NoLoopChange, NoStopChange, LifeInv, LifeTypeOK
<1>2. LifeTypeOK' /\ (Remembered => Remembered')
  BY <1>1 DEF LifeInv, LifeTypeOK, Remembered
<1>3. ASSUME lifeAt = Over, ~ overlapped PROVE ~ redisOpen'
  <2>1. CASE LoopUsesRedis(t)
    <3>1. t \in tasks /\ t.of \in LifeLoops \ {"backups"} /\ t.id \in TaskIds
      BY <2>1 DEF LoopUsesRedis, LifeTasks, LifeLoops, OwnCalls
    <3>2. PICK j \in 1..Len(StopCalls) : StopCalls[j] = t.of
      BY <3>1, StopCallsCover
    <3>3. j \in 1..(Len(StopCalls) + 1 - 1)
      BY <3>2, StopCallsCover
    <3>4. known[t.of] = NoTask
      BY <1>3, <3>1, <3>2, <3>3 DEF LifeInv, StoppedBefore
    <3> QED  BY <1>3, <3>1, <3>4 DEF LifeInv, Remembered
  <2>2. CASE TaskEnds(t)
    BY <1>3, <2>2 DEF TaskEnds, LifeInv
  <2> QED  BY <2>1, <2>2
<1> QED  BY <1>1, <1>2, <1>3 DEF LifeInv, StoppedBefore

-----------------------------------------------------------------------------
(* Shutdown *)

\* A call of the shutdown has done its part and the next one follows.
LEMMA ShutdownGoesOn ==
  ASSUME LifeInv, NEW i \in 1..Len(StopCalls), lifeAt = During(i), lifeAt' = NextStop(i),
         UNCHANGED <<stopAt, overlapped>>, LoopsTyped', Remembered => Remembered',
         engineOpen' \in {engineOpen, FALSE}, redisOpen' \in {redisOpen, FALSE},
         \A l \in LifeLoops : known'[l] \in {known[l], NoTask},
         StopCalls[i] \in LifeLoops => known'[StopCalls[i]] = NoTask,
         StopCalls[i] = "engine" => ~ engineOpen',
         StopCalls[i] = "redis" => ~ redisOpen'
  PROVE  LifeInv'
<1>1. Len(StopCalls) \in Nat
  BY StopCallsCover
<1>2. StoppedBefore(i + 1)'
  <2>1. StoppedBefore(i)
    BY DEF LifeInv, During
  <2>2. ASSUME NEW j \in 1..(i + 1 - 1)
        PROVE  /\ StopCalls[j] \in LifeLoops => known'[StopCalls[j]] = NoTask
               /\ StopCalls[j] = "engine" => ~ engineOpen'
    <3>1. j = i \/ j \in 1..(i - 1)
      BY <1>1, <2>2
    <3>2. CASE j = i
      BY <3>2
    <3>3. CASE j \in 1..(i - 1)
      <4>1. /\ StopCalls[j] \in LifeLoops => known[StopCalls[j]] = NoTask
            /\ StopCalls[j] = "engine" => ~ engineOpen
        BY <2>1, <3>3 DEF StoppedBefore
      <4>2. ~ engineOpen => ~ engineOpen'
        BY Zenon
      <4> QED  BY <4>1, <4>2
    <3> QED  BY <3>1, <3>2, <3>3
  <2>3. \A j \in 1..(i + 1 - 1) : /\ StopCalls[j] \in LifeLoops => known'[StopCalls[j]] = NoTask
                                  /\ StopCalls[j] = "engine" => ~ engineOpen'
    BY <2>2
  <2>4. ASSUME NEW n, n = i + 1 PROVE StoppedBefore(n)'
    BY <2>3, <2>4 DEF StoppedBefore
  <2> QED  BY <2>4
<1>3. \/ /\ i # Len(StopCalls) /\ i + 1 \in 1..Len(StopCalls)
         /\ lifeAt' = During(i + 1) /\ lifeAt'.call = i + 1
      \/ i = Len(StopCalls) /\ lifeAt' = Over /\ ~ redisOpen'
  BY <1>1, StopCallsCover DEF NextStop, During
<1>4. /\ lifeAt # Serving /\ lifeAt' # Serving
      /\ lifeAt' = Over => i = Len(StopCalls)
      /\ lifeAt'.phase = "stop" => lifeAt'.call = i + 1
  BY <1>3 DEF During, Serving, Over
<1>5. LifeTypeOK'
  BY <1>3 DEF LifeInv, LifeTypeOK, LoopsTyped
<1> QED  BY <1>2, <1>3, <1>4, <1>5 DEF LifeInv

\* The shutdown awaits a monitor and goes on to its next call.
LEMMA OneStoppedKeeps ==
  ASSUME LifeInv, OneStopped
  PROVE  LifeInv'
<1> DEFINE l == StopCalls[lifeAt.call]
<1>1. /\ lifeAt.phase = "stop" /\ l \in LifeLoops /\ Named(l) \cap tasks = {}
      /\ known' = [known EXCEPT ![l] = NoTask]
      /\ redisOpen' = IF l = "service" THEN FALSE ELSE redisOpen
      /\ lifeAt' = NextStop(lifeAt.call)
      /\ UNCHANGED <<stopAt, overlapped, engineOpen, tasks, cancelled>>
  BY DEF OneStopped, NoStopChange
<1>2. PICK i \in 1..Len(StopCalls) : lifeAt = During(i)
  BY <1>1 DEF LifeInv, LifeTypeOK, Serving, Over, Abandoned, Before
<1>3. lifeAt.call = i /\ l \notin {"engine", "redis"} /\ LifeTypeOK
  BY <1>1, <1>2, StopCallsCover DEF During, LifeInv
<1>4. /\ LoopsTyped' /\ known'[l] = NoTask
      /\ \A k \in LifeLoops : k # l => known'[k] = known[k]
  BY <1>1, <1>3 DEF LifeTypeOK, LoopsTyped
<1>5. ASSUME Remembered PROVE Remembered'
  <2>1. \A r \in Stops : stopAt[r] = NotStopping
    BY <1>2 DEF LifeInv, During, Serving
  <2>2. ASSUME NEW t \in tasks PROVE known'[t.of] = t.id
    <3>1. t.of \in LifeLoops /\ known[t.of] = t.id /\ t \in LifeTasks
      BY <1>3, <1>5 DEF LifeTypeOK, LifeTasks, Remembered
    <3>2. t.of # l
      BY <1>1, <3>1 DEF Named
    <3> QED  BY <1>4, <3>1, <3>2
  <2> QED  BY <1>1, <2>1, <2>2 DEF Remembered
<1> QED
  <2> HIDE DEF l
  <2>1. /\ engineOpen' \in {engineOpen, FALSE} /\ redisOpen' \in {redisOpen, FALSE}
        /\ \A k \in LifeLoops : known'[k] \in {known[k], NoTask}
    BY <1>1, <1>4
  <2>2. StopCalls[i] = l
    BY <1>3 DEF l
  <2> QED  BY <1>1, <1>2, <1>3, <1>4, <1>5, <2>1, <2>2, ShutdownGoesOn

\* The engine, the vector database and the factory are closed after the monitors.
LEMMA ClosesKeep ==
  ASSUME LifeInv, ClosesDatabase \/ CleansUpVectorDatabase \/ ClosesFactory
  PROVE  LifeInv'
<1>1. /\ lifeAt.phase = "stop" /\ StopCalls[lifeAt.call] \in {"engine", "vector", "redis"}
      /\ lifeAt' = NextStop(lifeAt.call) /\ NoLoopChange /\ UNCHANGED <<stopAt, overlapped>>
      /\ engineOpen' \in {engineOpen, FALSE} /\ redisOpen' \in {redisOpen, FALSE}
      /\ StopCalls[lifeAt.call] = "engine" => ~ engineOpen'
      /\ StopCalls[lifeAt.call] = "redis" => ~ redisOpen'
  BY DEF ClosesDatabase, CleansUpVectorDatabase, ClosesFactory, NoStopChange
<1>2. PICK i \in 1..Len(StopCalls) : lifeAt = During(i)
  BY <1>1 DEF LifeInv, LifeTypeOK, Serving, Over, Abandoned, Before
<1>3. lifeAt.call = i /\ StopCalls[i] \notin LifeLoops
  BY <1>1, <1>2, StopCallsCover DEF During
<1>4. /\ LoopsTyped' /\ (Remembered => Remembered')
      /\ \A l \in LifeLoops : known'[l] \in {known[l], NoTask}
  BY <1>1 DEF NoLoopChange, LifeInv, LifeTypeOK, LoopsTyped, Remembered
<1> QED  BY <1>1, <1>2, <1>3, <1>4, ShutdownGoesOn

\* A shutdown begins, stops the next monitor or fails.
LEMMA ShutdownKeeps ==
  ASSUME LifeInv, ShutsDown \/ StopsOne \/ ShutdownFails
  PROVE  LifeInv'
<1>1. /\ UNCHANGED <<known, tasks, engineOpen, redisOpen, stopAt, overlapped>>
      /\ cancelled' \subseteq tasks /\ lifeAt' \in {lifeAt, During(1), Abandoned}
  BY DEF ShutsDown, StopsOne, ShutdownFails, NoLoopChange, NoStopChange, CancelsTask, LifeInv,
         LifeTypeOK
<1>2. LifeTypeOK'
  <2>1. 1 \in 1..Len(StopCalls)
    BY StopCallsCover
  <2> QED  BY <1>1, <2>1 DEF LifeInv, LifeTypeOK
<1>3. Remembered => Remembered'
  BY <1>1 DEF Remembered
<1>4. lifeAt' # Serving => \A r \in Stops : stopAt'[r] = NotStopping
  BY <1>1 DEF LifeInv, ShutsDown, StopsOne, ShutdownFails, Serving
<1>5. \A n : StoppedBefore(n) => StoppedBefore(n)'
  BY <1>1 DEF StoppedBefore
<1>6. CASE lifeAt' = lifeAt
  BY <1>1, <1>2, <1>3, <1>4, <1>5, <1>6 DEF LifeInv
<1>7. CASE lifeAt' = Abandoned
  BY <1>1, <1>2, <1>3, <1>4, <1>7 DEF LifeInv, Abandoned, Over
<1>8. CASE lifeAt' = During(1)
  <2>1. lifeAt'.call = 1 /\ lifeAt' # Over /\ StoppedBefore(1)'
    BY <1>8 DEF During, Over, StoppedBefore
  <2> QED  BY <1>1, <1>2, <1>3, <1>4, <2>1 DEF LifeInv
<1> QED  BY <1>1, <1>6, <1>7, <1>8

\* A process that starts, for the first time or again, has no task.
LEMMA LifespanBegins ==
  /\ LifeInit => LifeInv
  /\ ProcessRestarts => LifeInv'
<1>1. Before(1).phase # "stop" /\ Before(1) # Over /\ 1 \in 1..Len(StartCalls)
      /\ NotStopping \in [to : 0..Len(Monitors), awaits : TaskIds \cup {NoTask}]
  BY StopCallsCover DEF Before, Over, StartCalls, NotStopping
<1>2. ASSUME LifeInit PROVE LifeInv
  BY <1>1, <1>2 DEF LifeInit, LifeInv, LifeTypeOK, Remembered
<1>3. ASSUME ProcessRestarts PROVE LifeInv'
  BY <1>1, <1>3 DEF ProcessRestarts, LifeInv, LifeTypeOK, Remembered
<1> QED  BY <1>2, <1>3
-----------------------------------------------------------------------------

\* Induction over the steps of start, requests, loops and shutdown.
LEMMA LifeInvariant == LifeSpec => []LifeInv
<1>1. LifeInv /\ [LifeNext]_lifeVars => LifeInv'
  <2> SUFFICES ASSUME LifeInv, [LifeNext]_lifeVars PROVE LifeInv'
    OBVIOUS
  <2>1. CASE \E r \in Stops : StopMonitoring(r) \/ MonitorStopped(r)
    BY <2>1, StopRequestKeeps, MonitorStoppedKeeps
  <2>2. CASE \E t \in LifeTasks : LoopUsesRedis(t) \/ TaskEnds(t)
    BY <2>2, LoopsKeep
  <2>3. CASE UNCHANGED lifeVars
    BY <2>3 DEF lifeVars, LifeInv, LifeTypeOK, Remembered, StoppedBefore
  <2>4. CASE \/ InitializesEngine \/ StartsDatabaseLoop \/ ConfiguresSettings
             \/ InitializesFactory \/ InitializesIntegration \/ InitializesService
             \/ FinishesStart \/ StartFails
    BY <2>4, StartKeeps
  <2>5. CASE StartMonitoring \/ RedisHealthRequested \/ GetMonitoringStatus
    BY <2>5, RequestsKeep DEF RedisHealthRequested, GetMonitoringStatus
  <2>6. CASE \/ ShutsDown \/ StopsOne \/ OneStopped \/ ClosesDatabase
             \/ CleansUpVectorDatabase \/ ClosesFactory \/ ShutdownFails \/ ProcessRestarts
    BY <2>6, ShutdownKeeps, OneStoppedKeeps, ClosesKeep, LifespanBegins
  <2> QED  BY <2>1, <2>2, <2>3, <2>4, <2>5, <2>6 DEF LifeNext, LoopWorks
<1> QED  BY <1>1, LifespanBegins, PTL DEF LifeSpec

\* The phase of the process, its loops and the tasks they know of keep their
\* types (main.py: lifespan, and start and stop of the monitors).
THEOREM LifespanTyped == LifeSpec => []LifeTypeOK
<1>1. LifeInv => LifeTypeOK
  BY DEF LifeInv
<1> QED  BY <1>1, LifeInvariant, PTL

\* A shutdown whose calls all return leaves only the schedulers of backups and a
\* closed engine and Redis (main.py: lifespan), for any monitors and requests
\* to stop or start them, unless two stops of a monitor overlapped.
THEOREM ShutdownStopsEverything == LifeSpec => []ShutdownIsComplete
<1>1. LifeInv => ShutdownIsComplete
  <2> SUFFICES ASSUME LifeInv, lifeAt = Over, ~ overlapped
               PROVE  (\A t \in tasks : t.of = "backups") /\ ~ redisOpen /\ ~ engineOpen
    BY DEF ShutdownIsComplete
  <2>1. \A j \in 1..Len(StopCalls) : /\ StopCalls[j] \in LifeLoops => known[StopCalls[j]] = NoTask
                                     /\ StopCalls[j] = "engine" => ~ engineOpen
    <3>1. 1..Len(StopCalls) = 1..(Len(StopCalls) + 1 - 1)
      BY StopCallsCover
    <3> QED  BY <3>1 DEF LifeInv, StoppedBefore
  <2>2. ASSUME NEW t \in tasks, t.of # "backups" PROVE FALSE
    <3>1. t.of \in LifeLoops \ {"backups"} /\ t.id \in TaskIds /\ known[t.of] = t.id
      BY <2>2 DEF LifeInv, LifeTypeOK, LifeTasks, Remembered
    <3> QED  BY <2>1, <3>1, StopCallsCover
  <2>3. 3 \in 1..Len(StopCalls) /\ StopCalls[3] = "engine"
    BY StopCallsCover
  <2> QED  BY <2>1, <2>2, <2>3 DEF LifeInv
<1> QED  BY <1>1, LifeInvariant, PTL

HIDE LifespanAssumption

-----------------------------------------------------------------------------
(* DatabaseBackup.  A job that has a checksum took it of the compressed file and
   left the dump beside it, which the verification finds first: JobOK keeps the
   dump there, because a run is shorter than the retention. *)
USE BackupAssumption

\* Every record of s is of a backup that failed.
AllFailed(s) == \A i \in 1..Len(s) : s[i].status = "failed"

\* The uncompressed dump of a job is there.
Dumped(j) == \E f \in dumps : f.id = job[j].id /\ f.ext = ""

\* A job that has a checksum left the dump beside the compressed file, which is
\* looked for after it; the dump of a running job is not old enough to go.
JobOK(j) ==
  /\ Running(j) => job[j] \in Infos /\ backupClock <= job[j].id.at + MaxBackupRun
  /\ jobAt[j] = "copy" => job[j].checksum = NoSum
  /\ jobAt[j] = "compress" /\ compression = "lz4" => Dumped(j)
  /\ jobAt[j] = "checksum" => compression = "lz4" /\ Dumped(j)
  /\ jobAt[j] = "verify" =>
       \/ job[j].checksum = NoSum
       \/ /\ compression = "lz4" /\ job[j].checksum.ext = "lz4"
          /\ Dumped(j)

\* The inductive invariant of the backups.
BackupInv ==
  /\ BackupTypeOK /\ AllFailed(history) /\ AllFailed(historyFile.text) /\ restored = {}
  /\ \A j \in BackupJobs : AllFailed(snapshot[j]) /\ JobOK(j)

\* A dump that the compression leaves is still there after a step.
DumpsStay == compression = "lz4" =>
  \A f \in dumps : f.ext = "" => \E g \in dumps' : g.id = f.id /\ g.ext = ""

\* A file replaces only one of its own name.
LEMMA OverwriteKeeps ==
  ASSUME NEW f, dumps' = Overwrite(dumps, f)
  PROVE  DumpsStay /\ f \in dumps'
BY DEF Overwrite, DumpsStay

\* What one job does leaves the others as they are.
LEMMA OtherJobs ==
  ASSUME BackupInv, NEW j \in BackupJobs, DumpsStay,
         UNCHANGED <<backupClock, compression>>,
         NEW l, jobAt' = [jobAt EXCEPT ![j] = l],
         \A k \in BackupJobs \ {j} : job'[k] = job[k]
  PROVE  \A k \in BackupJobs \ {j} : JobOK(k)'
<1> SUFFICES ASSUME NEW k \in BackupJobs \ {j} PROVE JobOK(k)'
  OBVIOUS
<1>1. JobOK(k) /\ job'[k] = job[k] /\ jobAt'[k] = jobAt[k]
  BY DEF BackupInv, BackupTypeOK
<1>2. compression = "lz4" /\ Dumped(k) => Dumped(k)'
  BY <1>1 DEF DumpsStay, Dumped
<1> QED  BY <1>1, <1>2 DEF JobOK, Running

\* The failure of a backup: the history and what is to be written of it.
LEMMA EndsFails ==
  ASSUME BackupInv, NEW j \in BackupJobs, Running(j), Ends(j, "failed")
  PROVE  /\ history' \in Seq(Infos) /\ AllFailed(history)'
         /\ snapshot' \in [BackupJobs -> Seq(Infos)]
         /\ \A k \in BackupJobs : AllFailed(snapshot[k])'
         /\ jobAt' = [jobAt EXCEPT ![j] = "open"] /\ JobOK(j)'
         /\ UNCHANGED <<job, currentBackup, historyFile, restored>>
<1> DEFINE info == [job[j] EXCEPT !.status = "failed"]
<1>1. BackupTypeOK /\ JobOK(j) /\ AllFailed(history) /\ \A k \in BackupJobs : AllFailed(snapshot[k])
  BY DEF BackupInv
<1>2. info \in Infos /\ info.status = "failed"
  BY <1>1 DEF JobOK, Infos
<1>3. /\ history' = Append(history, info)
      /\ snapshot' = [snapshot EXCEPT ![j] = history']
      /\ jobAt' = [jobAt EXCEPT ![j] = "open"]
      /\ UNCHANGED <<job, currentBackup, historyFile, restored>>
  BY DEF Ends, JobGoes
<1> HIDE DEF info
<1>4. /\ history' \in Seq(Infos) /\ Len(history') = Len(history) + 1
      /\ history'[Len(history) + 1] = info
      /\ \A i \in 1..Len(history) : history'[i] = history[i]
      /\ Len(history) \in Nat
  BY <1>1, <1>2, <1>3 DEF BackupTypeOK
<1>5. AllFailed(history')
  BY <1>1, <1>2, <1>4 DEF AllFailed
<1>6. /\ snapshot' \in [BackupJobs -> Seq(Infos)]
      /\ snapshot'[j] = history' /\ \A k \in BackupJobs \ {j} : snapshot'[k] = snapshot[k]
  BY <1>1, <1>3, <1>4 DEF BackupTypeOK
<1>7. \A k \in BackupJobs : AllFailed(snapshot'[k])
  BY <1>1, <1>5, <1>6
<1>8. jobAt'[j] = "open"
  BY <1>1, <1>3 DEF BackupTypeOK
<1>9. JobOK(j)'
  BY <1>8 DEF JobOK, Running
<1> QED  BY <1>3, <1>4, <1>5, <1>6, <1>7, <1>9

\* A backup that fails, whatever it has done to the files.
LEMMA FailureKeeps ==
  ASSUME BackupInv, NEW j \in BackupJobs, Running(j), Ends(j, "failed"), DumpsStay,
         dumps' \subseteq DumpFiles, UNCHANGED <<backupClock, compression>>
  PROVE  BackupInv'
<1>1. /\ history' \in Seq(Infos) /\ AllFailed(history)'
      /\ snapshot' \in [BackupJobs -> Seq(Infos)]
      /\ \A k \in BackupJobs : AllFailed(snapshot[k])'
      /\ jobAt' = [jobAt EXCEPT ![j] = "open"] /\ JobOK(j)'
      /\ UNCHANGED <<job, currentBackup, historyFile, restored>>
  BY EndsFails
<1>2. \A k \in BackupJobs \ {j} : JobOK(k)'
  BY <1>1, OtherJobs
<1>3. BackupTypeOK'
  BY <1>1 DEF BackupInv, BackupTypeOK
<1> QED  BY <1>1, <1>2, <1>3 DEF BackupInv, AllFailed

\* A job that goes on with its backup.
LEMMA JobGoesOn ==
  ASSUME BackupInv, NEW j \in BackupJobs, DumpsStay, JobOK(j)',
         NEW l \in {"dump", "copy", "compress", "checksum", "verify"}, JobGoes(j, l),
         NEW info \in Infos, job' = [job EXCEPT ![j] = info],
         dumps' \subseteq DumpFiles, UNCHANGED <<backupClock, compression>>,
         currentBackup' \in BackupIds \cup {NoBackup},
         UNCHANGED <<history, snapshot, historyFile, restored>>
  PROVE  BackupInv'
<1>1. \A k \in BackupJobs \ {j} : JobOK(k)'
  <2>1. jobAt' = [jobAt EXCEPT ![j] = l] /\ \A k \in BackupJobs \ {j} : job'[k] = job[k]
    BY DEF JobGoes, BackupInv, BackupTypeOK
  <2> QED  BY <2>1, OtherJobs
<1>2. BackupTypeOK'
  BY DEF BackupInv, BackupTypeOK, JobGoes
<1> QED  BY <1>1, <1>2 DEF BackupInv, AllFailed

-----------------------------------------------------------------------------

\* A job begins under the id of the current time, without a sum.
LEMMA CreateKeeps ==
  ASSUME BackupInv, NEW j \in BackupJobs, NEW kind \in BackupKinds, CreateBackup(j, kind)
  PROVE  BackupInv'
<1> DEFINE info == [id |-> [kind |-> kind, at |-> backupClock], status |-> "running",
                    checksum |-> NoSum]
<1>1. PICK l \in {"dump", "copy", "verify"} :
        jobAt' = [jobAt EXCEPT ![j] = l]
  BY DEF CreateBackup, JobGoes
<1>2. /\ job' = [job EXCEPT ![j] = info] /\ currentBackup' = info.id
      /\ UNCHANGED <<backupClock, compression, dumps, history, snapshot, historyFile, restored>>
  BY DEF CreateBackup
<1>3. BackupTypeOK
  BY DEF BackupInv
<1>4. info \in Infos /\ info.id \in BackupIds /\ info.id.at = backupClock /\ info.checksum = NoSum
  BY <1>3 DEF Infos, BackupIds, BackupTypeOK
<1> HIDE DEF info
<1>5. jobAt'[j] = l /\ job'[j] = info
  BY <1>1, <1>2, <1>3 DEF BackupTypeOK
<1>6. backupClock' <= job'[j].id.at + MaxBackupRun
  BY <1>2, <1>3, <1>4, <1>5 DEF BackupTypeOK
<1>7. JobOK(j)'
  BY <1>4, <1>5, <1>6 DEF JobOK
<1>8. DumpsStay /\ JobGoes(j, l) /\ dumps' \subseteq DumpFiles
  BY <1>1, <1>2, <1>3 DEF DumpsStay, JobGoes, BackupTypeOK
<1> QED  BY <1>2, <1>4, <1>7, <1>8, JobGoesOn

\* The dump is written under the name of the id, and no other file goes.
LEMMA DumpKeeps ==
  ASSUME BackupInv, NEW j \in BackupJobs, DumpsDatabase(j)
  PROVE  BackupInv'
<1> DEFINE f == [id |-> job[j].id, ext |-> "", by |-> j]
<1>1. /\ jobAt[j] = "dump" /\ dumps' = Overwrite(dumps, f)
      /\ UNCHANGED <<backupClock, compression>>
      /\ \/ Ends(j, "failed")
         \/ JobGoes(j, "compress") /\ NoHistoryChange /\ UNCHANGED job
  BY DEF DumpsDatabase
<1>2. BackupTypeOK /\ JobOK(j) /\ Running(j)
  BY <1>1 DEF BackupInv, Running
<1>3. job[j] \in Infos /\ f \in DumpFiles /\ f.ext = "" /\ f.id = job[j].id
  BY <1>2 DEF JobOK, Infos, DumpFiles
<1> HIDE DEF f
<1>4. dumps' \subseteq DumpFiles
  BY <1>1, <1>2, <1>3 DEF Overwrite, BackupTypeOK
<1>5. DumpsStay /\ f \in dumps'
  BY <1>1, OverwriteKeeps
<1>6. CASE Ends(j, "failed")
  BY <1>1, <1>2, <1>4, <1>5, <1>6, FailureKeeps
<1>7. CASE JobGoes(j, "compress") /\ NoHistoryChange /\ UNCHANGED job
  <2>1. jobAt'[j] = "compress" /\ job' = job /\ job' = [job EXCEPT ![j] = job[j]]
    BY <1>2, <1>7 DEF JobGoes, BackupTypeOK
  <2>2. Dumped(j)'
    BY <1>3, <1>5, <2>1 DEF Dumped
  <2>3. JobOK(j)'
    BY <1>1, <1>2, <2>1, <2>2 DEF JobOK
  <2>4. /\ UNCHANGED <<history, snapshot, historyFile, restored>>
        /\ currentBackup' \in BackupIds \cup {NoBackup}
    BY <1>2, <1>7 DEF NoHistoryChange, BackupTypeOK
  <2> QED  BY <1>1, <1>3, <1>4, <1>5, <1>7, <2>1, <2>3, <2>4, JobGoesOn
<1> QED  BY <1>1, <1>6, <1>7

\* gzip removes the dump; lz4, the only tool whose file is found, leaves it.
LEMMA CompressKeeps ==
  ASSUME BackupInv, NEW j \in BackupJobs, CompressesBackup(j)
  PROVE  BackupInv'
<1>1. jobAt[j] = "compress" /\ UNCHANGED <<backupClock, compression>>
  BY DEF CompressesBackup
<1>2. BackupTypeOK /\ JobOK(j) /\ Running(j) /\ job[j] \in Infos
  BY <1>1 DEF BackupInv, Running, JobOK
<1>3. CASE Ends(j, "failed") /\ UNCHANGED dumps
  BY <1>1, <1>2, <1>3, FailureKeeps DEF DumpsStay, BackupTypeOK
<1>4. ASSUME NEW f \in FilesOf(job[j].id, ""), dumps' = Compressed(f),
             \/ GivenExt # ToolExt /\ Ends(j, "failed")
             \/ GivenExt = ToolExt /\ JobGoes(j, "checksum") /\ NoHistoryChange /\ UNCHANGED job
      PROVE  BackupInv'
  <2> DEFINE g == [f EXCEPT !.ext = ToolExt]
  <2>1. ToolExt \in {"gz", "lz4", "zst"} /\ (compression = "lz4" => ToolExt = "lz4")
    BY DEF ToolExt
  <2>2. f \in DumpFiles /\ g \in DumpFiles
    BY <1>2, <2>1 DEF FilesOf, DumpFiles, BackupTypeOK
  <2> HIDE DEF g
  <2>3. dumps' \subseteq DumpFiles
    BY <1>2, <1>4, <2>2 DEF Compressed, Overwrite, BackupTypeOK, g
  <2>4. DumpsStay
    <3>1. compression = "lz4" => dumps' = Overwrite(dumps, g)
      BY <1>4 DEF Compressed, g
    <3> QED  BY <3>1, OverwriteKeeps DEF DumpsStay
  <2>5. CASE Ends(j, "failed")
    BY <1>1, <1>2, <2>3, <2>4, <2>5, FailureKeeps
  <2>6. CASE GivenExt = ToolExt /\ JobGoes(j, "checksum") /\ NoHistoryChange /\ UNCHANGED job
    <3>1. compression = "lz4"
      BY <1>2, <2>6 DEF GivenExt, ToolExt, BackupTypeOK, CompressionTypes
    <3>2. jobAt'[j] = "checksum" /\ job' = job /\ job' = [job EXCEPT ![j] = job[j]]
      BY <1>2, <2>6 DEF JobGoes, BackupTypeOK
    <3>3. Dumped(j)
      BY <1>1, <1>2, <3>1 DEF JobOK
    <3>4. Dumped(j)'
      BY <2>4, <3>1, <3>2, <3>3 DEF Dumped, DumpsStay
    <3>5. JobOK(j)'
      BY <1>1, <1>2, <3>1, <3>2, <3>4 DEF JobOK
    <3>6. /\ UNCHANGED <<history, snapshot, historyFile, restored>>
          /\ currentBackup' \in BackupIds \cup {NoBackup}
      BY <1>2, <2>6 DEF NoHistoryChange, BackupTypeOK
    <3> QED  BY <1>1, <1>2, <2>3, <2>4, <2>6, <3>2, <3>5, <3>6, JobGoesOn
  <2> QED  BY <1>4, <2>5, <2>6
<1> QED  BY <1>3, <1>4 DEF CompressesBackup

\* The sum is taken of the compressed file while the dump is still there.
LEMMA ChecksumKeeps ==
  ASSUME BackupInv, NEW j \in BackupJobs, CalculatesChecksum(j)
  PROVE  BackupInv'
<1>1. /\ jobAt[j] = "checksum" /\ JobGoes(j, "verify")
      /\ NoHistoryChange /\ UNCHANGED <<backupClock, compression, dumps>>
  BY DEF CalculatesChecksum
<1>2. BackupTypeOK /\ JobOK(j) /\ Running(j) /\ job[j] \in Infos /\ compression = "lz4" /\ Dumped(j)
  BY <1>1 DEF BackupInv, Running, JobOK
<1>3. PICK f \in FilesOf(job[j].id, ToolExt) : job' = [job EXCEPT ![j].checksum = SumOf(f)]
  BY DEF CalculatesChecksum
<1> DEFINE info == [job[j] EXCEPT !.checksum = SumOf(f)]
<1>4. f \in DumpFiles /\ f.ext = "lz4"
  BY <1>2, <1>3 DEF FilesOf, ToolExt, BackupTypeOK
<1>5. info \in Infos /\ info.id = job[j].id /\ info.checksum.ext = "lz4"
  BY <1>2, <1>4 DEF Infos, SumOf, DumpFiles
<1>6. job' = [job EXCEPT ![j] = info]
  BY <1>3
<1> HIDE DEF info
<1>7. job'[j] = info /\ jobAt'[j] = "verify"
  BY <1>1, <1>2, <1>6 DEF BackupTypeOK, JobGoes
<1>8. Dumped(j)'
  BY <1>1, <1>2, <1>5, <1>7 DEF Dumped
<1>9. JobOK(j)'
  BY <1>1, <1>2, <1>5, <1>7, <1>8 DEF JobOK
<1>10. DumpsStay /\ dumps' \subseteq DumpFiles
       /\ UNCHANGED <<history, snapshot, historyFile, restored>>
       /\ currentBackup' \in BackupIds \cup {NoBackup}
  BY <1>1, <1>2 DEF DumpsStay, NoHistoryChange, BackupTypeOK
<1> QED  BY <1>1, <1>5, <1>6, <1>9, <1>10, JobGoesOn

\* A WAL backup has no sum.
LEMMA CopyKeeps ==
  ASSUME BackupInv, NEW j \in BackupJobs, CopiesWal(j)
  PROVE  BackupInv'
<1>1. /\ jobAt[j] = "copy" /\ JobGoes(j, "verify")
      /\ NoHistoryChange /\ UNCHANGED <<backupClock, compression, dumps, job>>
  BY DEF CopiesWal
<1>2. /\ BackupTypeOK /\ JobOK(j) /\ Running(j) /\ job[j] \in Infos
      /\ job[j].checksum = NoSum
  BY <1>1 DEF BackupInv, Running, JobOK
<1>3. jobAt'[j] = "verify" /\ job' = [job EXCEPT ![j] = job[j]]
  BY <1>1, <1>2 DEF BackupTypeOK, JobGoes
<1>4. JobOK(j)'
  BY <1>1, <1>2, <1>3 DEF JobOK
<1>5. DumpsStay /\ dumps' \subseteq DumpFiles
       /\ UNCHANGED <<history, snapshot, historyFile, restored>>
       /\ currentBackup' \in BackupIds \cup {NoBackup}
  BY <1>1, <1>2 DEF DumpsStay, NoHistoryChange, BackupTypeOK
<1> QED  BY <1>1, <1>2, <1>3, <1>4, <1>5, JobGoesOn

\* The file that is verified is the dump, or there is no checksum to match.
LEMMA VerificationFails ==
  ASSUME BackupInv, NEW j \in BackupJobs, jobAt[j] = "verify"
  PROVE  ~ SumsMatch(job[j])
<1> SUFFICES ASSUME NEW f \in Found(job[j].id), SumOf(f) = job[j].checksum PROVE FALSE
  BY DEF SumsMatch
<1>1. f \in DumpFiles /\ f.id = job[j].id
  BY DEF Found, BackupInv, BackupTypeOK
<1>2. JobOK(j)
  BY DEF BackupInv
<1>3. CASE job[j].checksum = NoSum
  <2>1. f.ext # "none"
    BY <1>1 DEF DumpFiles
  <2>2. SumOf(f).ext = f.ext /\ NoSum.ext = "none"
    BY DEF SumOf, NoSum
  <2> QED  BY <1>3, <2>1, <2>2
<1>4. CASE job[j].checksum.ext = "lz4" /\ Dumped(j)
  <2>1. f.ext = "lz4"
    BY <1>4 DEF SumOf
  <2>2. PICK i \in 1..4 : Tried[i] = f.ext /\ \A k \in 1..(i - 1) : FilesOf(job[j].id, Tried[k]) = {}
    BY DEF Found
  <2>3. Tried[1] = ""
    BY DEF Tried
  <2>4. i # 1 /\ 1 \in 1..(i - 1)
    <3>1. Tried[i] # Tried[1]
      BY <2>1, <2>2, <2>3
    <3>2. i # 1
      BY <3>1
    <3> QED  BY <3>2
  <2>5. FilesOf(job[j].id, "") = {}
    BY <2>2, <2>3, <2>4
  <2> QED  BY <1>4, <2>5 DEF Dumped, FilesOf
<1> QED  BY <1>2, <1>3, <1>4 DEF JobOK

\* No verification succeeds: the job ends as failed.
LEMMA VerifyKeeps ==
  ASSUME BackupInv, NEW j \in BackupJobs, VerifiesBackup(j) \/ BackupFails(j)
  PROVE  BackupInv'
<1>1. Running(j) /\ Ends(j, "failed") /\ UNCHANGED <<backupClock, compression, dumps>>
  BY VerificationFails DEF VerifiesBackup, BackupFails, Running
<1>2. DumpsStay /\ dumps' \subseteq DumpFiles
  BY <1>1 DEF DumpsStay, BackupInv, BackupTypeOK
<1> QED  BY <1>1, <1>2, FailureKeeps

\* The history and its file get the record of a job that failed.
LEMMA HistoryKeeps ==
  ASSUME BackupInv, NEW j \in BackupJobs, OpensHistory(j) \/ WritesHistory(j)
  PROVE  BackupInv'
<1>1. BackupTypeOK /\ AllFailed(historyFile.text) /\ \A k \in BackupJobs : AllFailed(snapshot[k])
  BY DEF BackupInv
<1>2. /\ UNCHANGED <<backupClock, compression, dumps, history, restored>>
      /\ jobAt' = [jobAt EXCEPT ![j] = "write"] \/ jobAt' = [jobAt EXCEPT ![j] = "idle"]
      /\ job' = job \/ job' = [job EXCEPT ![j] = NoBackup]
      /\ currentBackup' \in {currentBackup, NoBackup}
      /\ snapshot' = snapshot \/ snapshot' = [snapshot EXCEPT ![j] = <<>>]
      /\ \/ historyFile' = Unread
         \/ historyFile' = [text |-> snapshot[j], torn |-> Len(historyFile.text) > Len(snapshot[j])]
  BY DEF OpensHistory, WritesHistory, JobGoes
<1>3. AllFailed(<<>>) /\ <<>> \in Seq(Infos)
  BY DEF AllFailed
<1>4. /\ snapshot' \in [BackupJobs -> Seq(Infos)]
      /\ \A k \in BackupJobs : AllFailed(snapshot'[k])
  <2>1. CASE snapshot' = snapshot
    BY <1>1, <2>1 DEF BackupTypeOK
  <2>2. CASE snapshot' = [snapshot EXCEPT ![j] = <<>>]
    <3>1. snapshot' \in [BackupJobs -> Seq(Infos)]
      BY <1>1, <1>3, <2>2 DEF BackupTypeOK
    <3>2. snapshot'[j] = <<>> /\ \A k \in BackupJobs \ {j} : snapshot'[k] = snapshot[k]
      BY <1>1, <2>2 DEF BackupTypeOK
    <3> QED  BY <1>1, <1>3, <3>1, <3>2
  <2> QED  BY <1>2, <2>1, <2>2
<1>5. historyFile' \in [text : Seq(Infos), torn : BOOLEAN] /\ AllFailed(historyFile'.text)
  <2>1. CASE historyFile' = Unread
    BY <1>3, <2>1 DEF Unread
  <2>2. CASE historyFile' = [text |-> snapshot[j], torn |-> Len(historyFile.text) > Len(snapshot[j])]
    BY <1>1, <2>2 DEF BackupTypeOK
  <2> QED  BY <1>2, <2>1, <2>2
<1>6. /\ jobAt' \in [BackupJobs -> {"idle", "dump", "copy", "compress", "checksum", "verify", "open", "write"}]
      /\ job' \in [BackupJobs -> Infos \cup {NoBackup}]
      /\ currentBackup' \in BackupIds \cup {NoBackup}
      /\ jobAt'[j] \in {"write", "idle"}
      /\ \A k \in BackupJobs \ {j} : jobAt'[k] = jobAt[k] /\ job'[k] = job[k]
  BY <1>1, <1>2 DEF BackupTypeOK
<1>7. ASSUME NEW k \in BackupJobs PROVE JobOK(k)'
  <2>1. CASE k = j
    BY <1>6, <2>1 DEF JobOK, Running
  <2>2. CASE k # j
    <3>1. JobOK(k) /\ (Dumped(k) => Dumped(k)')
      BY <1>2, <1>6, <2>2 DEF BackupInv, Dumped
    <3> QED  BY <1>2, <1>6, <2>2, <3>1 DEF JobOK, Running
  <2> QED  BY <2>1, <2>2
<1>8. BackupTypeOK'
  BY <1>1, <1>2, <1>4, <1>5, <1>6 DEF BackupTypeOK
<1> QED  BY <1>2, <1>4, <1>5, <1>7, <1>8 DEF BackupInv, AllFailed

\* A process that starts again reads the history from the file.
LEMMA RestartKeeps ==
  ASSUME BackupInv, InitializesBackups
  PROVE  BackupInv'
<1>1. AllFailed(<<>>) /\ <<>> \in Seq(Infos)
  BY DEF AllFailed
<1>2. /\ history' \in Seq(Infos) /\ AllFailed(history')
      /\ historyFile' \in [text : Seq(Infos), torn : BOOLEAN] /\ AllFailed(historyFile'.text)
  BY <1>1 DEF InitializesBackups, BackupInv, BackupTypeOK
<1>3. /\ UNCHANGED <<backupClock, compression, dumps, restored>>
      /\ jobAt' = [k \in BackupJobs |-> "idle"] /\ job' = [k \in BackupJobs |-> NoBackup]
      /\ snapshot' = [k \in BackupJobs |-> <<>>] /\ currentBackup' = NoBackup
  BY DEF InitializesBackups
<1>4. BackupTypeOK'
  BY <1>1, <1>2, <1>3 DEF BackupInv, BackupTypeOK
<1>5. ASSUME NEW k \in BackupJobs PROVE AllFailed(snapshot'[k]) /\ JobOK(k)'
  BY <1>1, <1>3 DEF JobOK, Running
<1> QED  BY <1>2, <1>3, <1>4, <1>5 DEF BackupInv, AllFailed

\* A record that is not completed is not restored.
LEMMA RestoreKeeps ==
  ASSUME BackupInv, NEW id, RestoreBackup(id)
  PROVE  BackupInv'
<1>1. \A info \in RecordOf(id) : info.status # "completed"
  BY DEF RecordOf, BackupInv, AllFailed
<1>2. UNCHANGED backupVars
  BY <1>1 DEF RestoreBackup, backupVars
<1> QED  BY <1>2 DEF backupVars, BackupInv, BackupTypeOK, AllFailed, JobOK, Running, Dumped

\* The time of a backup is a number.
LEMMA InfoTimes == \A info \in Infos : info.id.at \in Nat
<1> SUFFICES ASSUME NEW info \in Infos PROVE info.id.at \in Nat
  OBVIOUS
<1>1. info.id \in BackupIds
  BY DEF Infos
<1>2. info.id.at \in 0..MaxBackupTime
  BY <1>1 DEF BackupIds
<1>3. MaxBackupTime \in Nat
  OBVIOUS
<1> QED  BY <1>2, <1>3

\* What has expired is older than a running backup can be.
LEMMA CleanUpKeeps ==
  ASSUME BackupInv, CleansUpBackups
  PROVE  BackupInv'
<1>0. PICK i \in 1..Len(history) :
        Expired(history[i]) /\ \E f \in Found(history[i].id) : dumps' = dumps \ {f}
  BY DEF CleansUpBackups
<1>1. PICK f \in Found(history[i].id) : Expired(history[i]) /\ dumps' = dumps \ {f}
  BY <1>0
<1>2. UNCHANGED <<backupClock, compression, jobAt, job, currentBackup,
                  history, snapshot, historyFile, restored>>
  BY DEF CleansUpBackups
<1>3. BackupTypeOK /\ history[i] \in Infos /\ f.id = history[i].id
  BY DEF BackupInv, BackupTypeOK, Found
<1>4. ASSUME NEW j \in BackupJobs PROVE JobOK(j)'
  <2>1. JobOK(j)
    BY DEF BackupInv
  <2>2. ASSUME Running(j), Dumped(j) PROVE Dumped(j)'
    <3>1. job[j].id.at \in Nat /\ backupClock <= job[j].id.at + MaxBackupRun
      BY <2>1, <2>2, InfoTimes DEF JobOK
    <3>2. history[i].id.at + BackupRetention <= backupClock /\ backupClock \in Nat
      BY <1>1, <1>3 DEF Expired, BackupTypeOK
    <3>3. history[i].id.at # job[j].id.at
      <4>1. MaxBackupRun \in Nat /\ BackupRetention \in Nat /\ MaxBackupRun < BackupRetention
        BY BackupAssumption
      <4> QED  BY <3>1, <3>2, <4>1
    <3>4. f.id # job[j].id
      BY <1>3, <3>3
    <3> QED  BY <1>1, <1>2, <2>2, <3>4 DEF Dumped
  <2> QED  BY <1>2, <2>1, <2>2 DEF JobOK, Running
<1>5. BackupTypeOK'
  BY <1>1, <1>2, <1>3 DEF BackupTypeOK
<1> QED  BY <1>2, <1>4, <1>5 DEF BackupInv, AllFailed

\* Time passes only as far as the running jobs allow.
LEMMA TickKeeps ==
  ASSUME BackupInv, BackupTick
  PROVE  BackupInv'
<1>1. /\ backupClock < MaxBackupTime /\ backupClock' = backupClock + 1
      /\ UNCHANGED <<compression, dumps, jobAt, job, currentBackup, history, snapshot,
                     historyFile, restored>>
  BY DEF BackupTick
<1>2. BackupTypeOK
  BY DEF BackupInv
<1>3. ASSUME NEW j \in BackupJobs PROVE JobOK(j)'
  <2>1. JobOK(j) /\ (Dumped(j) => Dumped(j)')
    BY <1>1 DEF BackupInv, Dumped
  <2>2. Running(j) => backupClock' <= job[j].id.at + MaxBackupRun
    <3> SUFFICES ASSUME Running(j) PROVE backupClock' <= job[j].id.at + MaxBackupRun
      OBVIOUS
    <3>1. job[j].id.at \in Nat
      BY <2>1, InfoTimes DEF JobOK
    <3>2. backupClock < job[j].id.at + MaxBackupRun
      BY DEF BackupTick
    <3>3. backupClock \in Nat
      BY <1>2 DEF BackupTypeOK
    <3> QED  BY <1>1, <3>1, <3>2, <3>3
  <2> QED  BY <1>1, <2>1, <2>2 DEF JobOK, Running
<1>4. BackupTypeOK'
  BY <1>1, <1>2 DEF BackupTypeOK
<1> QED  BY <1>1, <1>3, <1>4 DEF BackupInv, AllFailed

-----------------------------------------------------------------------------

\* Induction over the steps of jobs, clean-ups and restarts.
LEMMA BackupInvariant == BackupSpec => []BackupInv
<1>1. BackupInit => BackupInv
  <2> SUFFICES ASSUME BackupInit PROVE BackupInv
    OBVIOUS
  <2>1. AllFailed(<<>>) /\ <<>> \in Seq(Infos)
    BY DEF AllFailed
  <2>2. BackupTypeOK
    BY <2>1 DEF BackupInit, BackupTypeOK, Unread
  <2>3. ASSUME NEW j \in BackupJobs PROVE AllFailed(snapshot[j]) /\ JobOK(j)
    BY <2>1 DEF BackupInit, JobOK, Running
  <2> QED  BY <2>1, <2>2, <2>3 DEF BackupInit, BackupInv, Unread
<1>2. BackupInv /\ [BackupNext]_backupVars => BackupInv'
  <2> SUFFICES ASSUME BackupInv, [BackupNext]_backupVars PROVE BackupInv'
    OBVIOUS
  <2>1. CASE \E j \in BackupJobs : BackupStep(j)
    BY <2>1, CreateKeeps, DumpKeeps, CompressKeeps, ChecksumKeeps, CopyKeeps, VerifyKeeps,
       HistoryKeeps DEF BackupStep
  <2>2. CASE \E id \in BackupIds : RestoreBackup(id)
    BY <2>2, RestoreKeeps
  <2>3. CASE UNCHANGED backupVars
    BY <2>3 DEF backupVars, BackupInv, BackupTypeOK, AllFailed, JobOK, Running, Dumped
  <2> QED  BY <2>1, <2>2, <2>3, RestartKeeps, CleanUpKeeps, TickKeeps
           DEF BackupNext, TestBackupRecovery, GetBackupStatus, ReadsBackups
<1> QED  BY <1>1, <1>2, PTL DEF BackupSpec

\* The history of backups, its file and what a restarted process reads of it
\* keep their types (backup.py: _save_backup_history, _load_backup_history).
THEOREM BackupsTyped == BackupSpec => []BackupTypeOK
<1>1. BackupInv => BackupTypeOK
  BY DEF BackupInv
<1> QED  BY <1>1, BackupInvariant, PTL

\* No job of create_backup ends as completed, and so none is restored, for every
\* compression, retention, number of jobs and length of a run.
THEOREM EveryBackupFails == BackupSpec => []NoBackupIsUsable
<1>1. BackupInv => NoBackupIsUsable
  BY DEF BackupInv, AllFailed, NoBackupIsUsable
<1> QED  BY <1>1, BackupInvariant, PTL

HIDE BackupAssumption
=============================================================================
