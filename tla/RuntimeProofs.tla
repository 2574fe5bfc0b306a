--------------------------- MODULE RuntimeProofs ----------------------------
(***************************************************************************)
(* Proofs about the parts that go on while what they depend on fails, for   *)
(* any pool of workers, any callers and thresholds and any spans.           *)
(***************************************************************************)
EXTENDS MCRuntime, FiniteSetTheorems, TLAPS

-----------------------------------------------------------------------------
(* QueueWorker.  LoadInv bounds what a worker took off the queue: the loop
   checks for room before a task it spawned is counted, but yields to that
   task before its next dequeue returns. *)
\* What the bound needs of the types.
WorkerTypes ==
  /\ spawned \in [Workers -> SUBSET Tasks]
  /\ waiting \in [Workers -> Seq(Tasks)]
  /\ executing \in [Workers -> SUBSET Tasks]
  /\ failing \in [Workers -> SUBSET Tasks]
  /\ loop \in [Workers -> LoopLabels]

\* At most one spawned task has not begun, because the loop yields to it
\* before its next dequeue returns.
OneSpawned == \A w \in Workers : \A t \in spawned[w] : spawned[w] = {t}

\* A worker that dequeues found room, and at most the task spawned before
\* has used it since.
LoadBound ==
  \A w \in Workers :
    /\ Cardinality(CurrentTasks(w)) <= MaxConcurrent + 1
    /\ spawned[w] # {} => Cardinality(CurrentTasks(w)) <= MaxConcurrent
    /\ loop[w] = "dequeue" => Cardinality(CurrentTasks(w)) <= MaxConcurrent
    /\ loop[w] = "dequeue" /\ spawned[w] # {}
         => Cardinality(CurrentTasks(w)) < MaxConcurrent

\* Who holds the semaphore was let in by it.
ExecutionBound == \A w \in Workers : Cardinality(executing[w]) <= MaxConcurrent

\* The inductive invariant behind ClaimBound.
LoadInv == WorkerTypes /\ OneSpawned /\ LoadBound /\ ExecutionBound

-----------------------------------------------------------------------------
(* Finite sets and sequences *)

\* A set of tasks has a cardinality, and a subset has no larger one.
LEMMA TaskSetsGrow ==
  ASSUME NEW S \in SUBSET Tasks, NEW U \in SUBSET S
  PROVE  /\ Cardinality(S) \in Nat /\ Cardinality(U) \in Nat
         /\ Cardinality(U) <= Cardinality(S)
  BY WorkerAssumption, FS_Subset, FS_CardinalityType

\* One more task adds at most one to the cardinality.
LEMMA TaskSetsGrowByOne ==
  ASSUME NEW S \in SUBSET Tasks, NEW t \in Tasks
  PROVE  /\ Cardinality(S) \in Nat /\ Cardinality(S \cup {t}) \in Nat
         /\ Cardinality(S \cup {t}) <= Cardinality(S) + 1
<1>1. IsFiniteSet(S) /\ Cardinality(S) \in Nat
  BY WorkerAssumption, FS_Subset, FS_CardinalityType
<1>2. Cardinality(S \cup {t})
        = IF t \in S THEN Cardinality(S) ELSE Cardinality(S) + 1
  BY <1>1, FS_AddElement, Zenon
<1>3. QED
  BY <1>1, <1>2

\* A waiting task is a task.
LEMMA CurrentAreTasks ==
  ASSUME WorkerTypes, NEW w \in Workers
  PROVE  CurrentTasks(w) \in SUBSET Tasks
  BY DEF WorkerTypes, CurrentTasks, ToSet

\* The first of a queue and the rest of it are all of it.
LEMMA ToSetOfTail ==
  ASSUME NEW s \in Seq(Tasks), s # <<>>
  PROVE  /\ ToSet(s) = {Head(s)} \cup ToSet(Tail(s))
         /\ Head(s) \in Tasks /\ Tail(s) \in Seq(Tasks)
<1>1. Head(s) = s[1] /\ 1 \in DOMAIN s /\ Tail(s) \in Seq(Tasks)
  OBVIOUS
<1>2. \A i \in DOMAIN Tail(s) : i + 1 \in DOMAIN s /\ Tail(s)[i] = s[i + 1]
  OBVIOUS
<1>3. \A i \in DOMAIN s : i = 1 \/ (i - 1 \in DOMAIN Tail(s)
                                     /\ Tail(s)[i - 1] = s[i])
  OBVIOUS
<1>4. ToSet(s) \subseteq {Head(s)} \cup ToSet(Tail(s))
  <2>1. ASSUME NEW i \in DOMAIN s
        PROVE  s[i] = Head(s) \/ \E j \in DOMAIN Tail(s) : Tail(s)[j] = s[i]
    BY <1>1, <1>3
  <2>2. ToSet(s) = {s[i] : i \in DOMAIN s}
        /\ ToSet(Tail(s)) = {Tail(s)[j] : j \in DOMAIN Tail(s)}
    BY DEF ToSet
  <2> QED  BY <2>1, <2>2, Zenon
<1>5. {Head(s)} \cup ToSet(Tail(s)) \subseteq ToSet(s)
  BY <1>1, <1>2 DEF ToSet
<1>6. QED
  BY <1>1, <1>4, <1>5

\* Who joins a queue is in it with those who were.
LEMMA ToSetOfAppend ==
  ASSUME NEW s \in Seq(Tasks), NEW t \in Tasks
  PROVE  ToSet(Append(s, t)) = ToSet(s) \cup {t} /\ Append(s, t) \in Seq(Tasks)
<1>1. /\ DOMAIN Append(s, t) = DOMAIN s \cup {Len(s) + 1}
      /\ Append(s, t)[Len(s) + 1] = t
      /\ \A i \in DOMAIN s : Append(s, t)[i] = s[i]
      /\ Append(s, t) \in Seq(Tasks)
  OBVIOUS
<1>2. QED
  BY <1>1 DEF ToSet

-----------------------------------------------------------------------------
(* LoadInv is inductive *)

\* A pool starts without tasks.
LEMMA InitLoadInv == WorkerInit => LoadInv
<1> SUFFICES ASSUME WorkerInit PROVE LoadInv
  OBVIOUS
<1>1. WorkerTypes /\ OneSpawned
  BY DEF WorkerInit, WorkerTypes, OneSpawned, LoopLabels
<1>2. \A w \in Workers : CurrentTasks(w) = {} /\ executing[w] = {}
  BY DEF WorkerInit, CurrentTasks, ToSet
<1>3. LoadBound /\ ExecutionBound
  BY <1>2, FS_EmptySet, WorkerAssumption, SMTT(20) DEF LoadBound, ExecutionBound
<1>4. QED
  BY <1>1, <1>3 DEF LoadInv

\* A step that leaves a worker's current tasks a subset of what they were,
\* and neither spawns nor dequeues for it, keeps the bounds.
LEMMA ShrinkingKeepsBound ==
  ASSUME LoadInv, WorkerTypes', OneSpawned',
         \A w \in Workers :
           /\ CurrentTasks(w)' \subseteq CurrentTasks(w)
           /\ spawned[w]' = spawned[w]
           /\ loop[w]' = "dequeue" => loop[w] = "dequeue",
         \A w \in Workers : executing[w]' \subseteq executing[w]
  PROVE  LoadInv'
<1>1. \A w \in Workers :
        /\ Cardinality(CurrentTasks(w)) \in Nat
        /\ Cardinality(CurrentTasks(w))' \in Nat
        /\ Cardinality(CurrentTasks(w))' <= Cardinality(CurrentTasks(w))
  BY CurrentAreTasks, TaskSetsGrow DEF LoadInv
<1>2. \A w \in Workers :
        /\ Cardinality(executing[w]) \in Nat
        /\ Cardinality(executing[w])' \in Nat
        /\ Cardinality(executing[w])' <= Cardinality(executing[w])
  BY TaskSetsGrow DEF LoadInv, WorkerTypes
<1>3. LoadBound'
  BY <1>1, WorkerAssumption DEF LoadInv, LoadBound
<1>4. ExecutionBound'
  BY <1>2, WorkerAssumption DEF LoadInv, ExecutionBound
<1>5. QED
  BY <1>3, <1>4 DEF LoadInv

\* A task that begins executes if there is room, else it waits.
LEMMA EnterEither ==
  ASSUME NEW w \in Workers, NEW t \in Tasks, TaskBegins(w, t)
  PROVE  \/ /\ executing' = [executing EXCEPT ![w] = @ \cup {t}]
            /\ waiting' = waiting
            /\ Cardinality(executing[w]) < MaxConcurrent
         \/ /\ waiting' = [waiting EXCEPT ![w] = Append(@, t)]
            /\ executing' = executing
  BY DEF TaskBegins, Enter

\* The types carry over every step, and so does that a task begins before the next
\* one is spawned.
LEMMA NextTypes ==
  ASSUME WorkerTypes, OneSpawned, [WorkerNext]_workerVars
  PROVE  WorkerTypes' /\ OneSpawned'
<1> USE DEF WorkerTypes, LoopLabels, LoopGoesTo, taskVars, poolVars
<1>1. ASSUME NEW w \in Workers,
             \/ LoopChecks(w) \/ DequeueReturnsNone(w) \/ PollIntervalEnds(w)
      PROVE  WorkerTypes' /\ OneSpawned'
  <2>1. WorkerTypes' /\ spawned' = spawned
    BY <1>1 DEF LoopChecks, DequeueReturnsNone, PollIntervalEnds
  <2>2. QED
    BY <2>1 DEF OneSpawned
<1>2. ASSUME NEW w \in Workers, NEW t \in Tasks, DequeueReturnsTask(w, t)
      PROVE  WorkerTypes' /\ OneSpawned'
  <2>1. WorkerTypes' /\ spawned' = [spawned EXCEPT ![w] = {t}]
    BY <1>2 DEF DequeueReturnsTask
  <2>2. QED
    BY <2>1 DEF OneSpawned
<1>3. ASSUME NEW w \in Workers, NEW t \in Tasks, TaskBegins(w, t)
      PROVE  WorkerTypes' /\ OneSpawned'
  <2>1. spawned' \in [Workers -> SUBSET Tasks] /\ OneSpawned'
    BY <1>3 DEF TaskBegins, OneSpawned
  <2>2. failing' = failing /\ loop' = loop
    BY <1>3 DEF TaskBegins
  <2>3. CASE executing' = [executing EXCEPT ![w] = @ \cup {t}]
             /\ waiting' = waiting
    BY <2>1, <2>2, <2>3
  <2>4. CASE waiting' = [waiting EXCEPT ![w] = Append(@, t)]
             /\ executing' = executing
    <3>1. Append(waiting[w], t) \in Seq(Tasks)
      OBVIOUS
    <3>2. waiting' \in [Workers -> Seq(Tasks)]
      BY <2>4, <3>1
    <3>3. QED
      BY <2>1, <2>2, <2>4, <3>2
  <2>5. QED
    BY <1>3, <2>3, <2>4, EnterEither
<1>4. ASSUME NEW w \in Workers, NEW t \in Tasks,
             TaskCompletes(w, t) \/ TaskFails(w, t) \/ FailureHandled(w, t)
      PROVE  WorkerTypes' /\ OneSpawned'
  <2>1. CASE TaskCompletes(w, t)
    BY <2>1 DEF TaskCompletes, OneSpawned
  <2>2. CASE TaskFails(w, t)
    BY <2>2 DEF TaskFails, OneSpawned
  <2>3. CASE FailureHandled(w, t)
    BY <2>3 DEF FailureHandled, DiscardFailed,
                   OneSpawned
  <2>4. QED
    BY <1>4, <2>1, <2>2, <2>3
<1>5. ASSUME NEW w \in Workers, TaskAcquires(w)
      PROVE  WorkerTypes' /\ OneSpawned'
  <2>1. Head(waiting[w]) \in Tasks /\ Tail(waiting[w]) \in Seq(Tasks)
    BY <1>5, ToSetOfTail DEF TaskAcquires
  <2>2. WorkerTypes' /\ spawned' = spawned
    <3>1. /\ executing' = [executing EXCEPT ![w] = @ \cup {Head(waiting[w])}]
          /\ waiting' = [waiting EXCEPT ![w] = Tail(@)]
          /\ UNCHANGED <<loop, spawned, failing>>
      BY <1>5 DEF TaskAcquires, LeaveQueue
    <3>2. executing' \in [Workers -> SUBSET Tasks]
      BY <2>1, <3>1
    <3>3. waiting' \in [Workers -> Seq(Tasks)]
      BY <2>1, <3>1
    <3>4. QED
      BY <3>1, <3>2, <3>3
  <2>3. QED
    BY <2>2 DEF OneSpawned
<1>6. ASSUME UNCHANGED <<loop, spawned, waiting, executing, failing>>
      PROVE  WorkerTypes' /\ OneSpawned'
  BY <1>6 DEF OneSpawned
<1>7. QED
  BY <1>1, <1>2, <1>3, <1>4, <1>5, <1>6
     DEF WorkerNext, LoopStep, TaskStep, StopStep, WorkerStops, WorkerDrained,
         GracefulTimeout, PoolStopBegins, PoolStopReturns, PoolStartReturns,
         TaskArrives, workerVars

\* Only a dequeue claims a task, and only for a worker that has found room.
LEMMA NextLoadInv == LoadInv /\ [WorkerNext]_workerVars => LoadInv'
<1> SUFFICES ASSUME LoadInv, [WorkerNext]_workerVars PROVE LoadInv'
  OBVIOUS
<1> USE DEF taskVars, poolVars
<1>t. WorkerTypes' /\ OneSpawned'
  BY NextTypes DEF LoadInv
<1>s. WorkerTypes /\ OneSpawned
  BY DEF LoadInv
<1>1. ASSUME NEW w \in Workers, LoopChecks(w)
      PROVE  LoadInv'
  <2>1. \A v \in Workers :
          /\ CurrentTasks(v)' = CurrentTasks(v)
          /\ spawned[v]' = spawned[v] /\ executing[v]' = executing[v]
          /\ loop'[v] = "dequeue" /\ loop[v] # "dequeue" => HasRoom(v)
    BY <1>1, <1>s DEF LoopChecks, LoopGoesTo, CurrentTasks, WorkerTypes
  <2>2. \A v \in Workers : Cardinality(CurrentTasks(v)) \in Nat
    BY <1>s, CurrentAreTasks, TaskSetsGrow
  <2>3. LoadBound'
    BY <2>1, <2>2, WorkerAssumption DEF LoadInv, LoadBound, HasRoom
  <2>4. ExecutionBound'
    BY <2>1 DEF LoadInv, ExecutionBound
  <2>5. QED
    BY <1>t, <2>3, <2>4 DEF LoadInv
<1>2. ASSUME NEW w \in Workers, NEW t \in Tasks, DequeueReturnsTask(w, t)
      PROVE  LoadInv'
  <2>1. \A v \in Workers :
          /\ CurrentTasks(v)' = CurrentTasks(v)
          /\ executing[v]' = executing[v]
          /\ loop'[v] = "dequeue" => loop[v] = "dequeue" /\ v # w
          /\ v # w => spawned'[v] = spawned[v]
    BY <1>2, <1>s DEF DequeueReturnsTask, LoopGoesTo, CurrentTasks, WorkerTypes
  <2>2. loop[w] = "dequeue"
    BY <1>2 DEF DequeueReturnsTask
  <2>3. LoadBound'
    BY <2>1, <2>2 DEF LoadInv, LoadBound
  <2>4. ExecutionBound'
    BY <2>1 DEF LoadInv, ExecutionBound
  <2>5. QED
    BY <1>t, <2>3, <2>4 DEF LoadInv
<1>3. ASSUME NEW w \in Workers, DequeueReturnsNone(w) \/ PollIntervalEnds(w)
      PROVE  LoadInv'
  BY <1>3, <1>s, <1>t, ShrinkingKeepsBound
     DEF DequeueReturnsNone, PollIntervalEnds, LoopGoesTo, CurrentTasks,
         WorkerTypes
<1>4. ASSUME NEW w \in Workers, NEW t \in Tasks, TaskBegins(w, t)
      PROVE  LoadInv'
  <2>1. /\ spawned[w] = {t} /\ spawned'[w] = {}
        /\ \A v \in Workers \ {w} : spawned'[v] = spawned[v]
        /\ loop' = loop
    <3>1. t \in spawned[w] /\ spawned' = [spawned EXCEPT ![w] = @ \ {t}]
          /\ loop' = loop
      BY <1>4 DEF TaskBegins
    <3>2. spawned[w] = {t}
      BY <3>1, <1>s DEF OneSpawned
    <3>3. QED
      BY <3>1, <3>2, <1>s DEF WorkerTypes
  <2>2. CurrentTasks(w)' = CurrentTasks(w) \cup {t}
    <3>1. waiting[w] \in Seq(Tasks)
      BY <1>s DEF WorkerTypes
    <3>2. ToSet(Append(waiting[w], t)) = ToSet(waiting[w]) \cup {t}
      BY <3>1, ToSetOfAppend
    <3>3. failing' = failing
      BY <1>4 DEF TaskBegins
    <3>4. CASE executing' = [executing EXCEPT ![w] = @ \cup {t}]
               /\ waiting' = waiting
      BY <3>3, <3>4, <1>s DEF CurrentTasks, WorkerTypes
    <3>5. CASE waiting' = [waiting EXCEPT ![w] = Append(@, t)]
               /\ executing' = executing
      <4>1. waiting'[w] = Append(waiting[w], t)
        BY <3>5, <1>s DEF WorkerTypes
      <4>2. QED
        BY <3>2, <3>3, <3>5, <4>1 DEF CurrentTasks
    <3>6. QED
      BY <1>4, <3>4, <3>5, EnterEither
  <2>3. \A v \in Workers \ {w} : CurrentTasks(v)' = CurrentTasks(v)
                                 /\ executing'[v] = executing[v]
    BY <1>4, <1>s DEF TaskBegins, Enter, CurrentTasks, WorkerTypes
  <2>4. /\ Cardinality(CurrentTasks(w)) \in Nat
        /\ Cardinality(CurrentTasks(w))' \in Nat
        /\ Cardinality(CurrentTasks(w))' <= Cardinality(CurrentTasks(w)) + 1
    BY <2>2, <1>s, CurrentAreTasks, TaskSetsGrowByOne
  <2>5. LoadBound'
    BY <2>1, <2>3, <2>4, WorkerAssumption DEF LoadInv, LoadBound
  <2>6. Cardinality(executing'[w]) <= MaxConcurrent
    <3>1. CASE executing'[w] = executing[w]
      BY <3>1 DEF LoadInv, ExecutionBound
    <3>2. CASE /\ executing'[w] = executing[w] \cup {t}
               /\ Cardinality(executing[w]) < MaxConcurrent
      <4>1. executing[w] \in SUBSET Tasks
        BY <1>s DEF WorkerTypes
      <4>2. QED
        BY <4>1, <3>2, TaskSetsGrowByOne, WorkerAssumption
    <3>3. QED
      BY <1>4, <1>s, <3>1, <3>2 DEF TaskBegins, Enter, WorkerTypes
  <2>7. ExecutionBound'
    BY <2>3, <2>6 DEF LoadInv, ExecutionBound
  <2>8. QED
    BY <1>t, <2>5, <2>7 DEF LoadInv
<1>5. ASSUME NEW w \in Workers, NEW t \in Tasks,
             TaskCompletes(w, t) \/ TaskFails(w, t) \/ FailureHandled(w, t)
      PROVE  LoadInv'
  <2>1. \A v \in Workers :
          /\ CurrentTasks(v)' \subseteq CurrentTasks(v)
          /\ spawned[v]' = spawned[v]
          /\ loop[v]' = loop[v]
          /\ executing[v]' \subseteq executing[v]
    BY <1>5, <1>s
       DEF TaskCompletes, TaskFails, FailureHandled, DiscardFailed,
           CurrentTasks, WorkerTypes
  <2>2. QED
    BY <1>t, <2>1, ShrinkingKeepsBound
<1>6. ASSUME NEW w \in Workers, TaskAcquires(w)
      PROVE  LoadInv'
  <2> DEFINE t == Head(waiting[w])
  <2>1. /\ waiting[w] \in Seq(Tasks) /\ waiting[w] # <<>>
        /\ executing'[w] = executing[w] \cup {t}
        /\ waiting'[w] = Tail(waiting[w])
        /\ Cardinality(executing[w]) < MaxConcurrent
        /\ loop' = loop /\ spawned' = spawned
        /\ failing' = failing
        /\ \A v \in Workers \ {w} : CurrentTasks(v)' = CurrentTasks(v)
                                    /\ executing'[v] = executing[v]
    BY <1>6, <1>s DEF TaskAcquires, LeaveQueue, CurrentTasks, WorkerTypes
  <2>2. CurrentTasks(w)' = CurrentTasks(w)
    BY <2>1, ToSetOfTail DEF CurrentTasks
  <2>3. LoadBound'
    BY <2>1, <2>2 DEF LoadInv, LoadBound
  <2>4. Cardinality(executing'[w]) <= MaxConcurrent
    <3>1. executing[w] \in SUBSET Tasks /\ t \in Tasks
      BY <1>s, <2>1, ToSetOfTail DEF WorkerTypes
    <3>2. QED
      BY <3>1, <2>1, TaskSetsGrowByOne, WorkerAssumption
  <2>5. ExecutionBound'
    BY <2>1, <2>4 DEF LoadInv, ExecutionBound
  <2>6. QED
    BY <1>t, <2>3, <2>5 DEF LoadInv
<1>7. ASSUME UNCHANGED <<loop, spawned, waiting, executing, failing>>
      PROVE  LoadInv'
  BY <1>7 DEF LoadInv, WorkerTypes, OneSpawned, LoadBound, ExecutionBound,
              CurrentTasks
<1>8. QED
  BY <1>1, <1>2, <1>3, <1>4, <1>5, <1>6, <1>7
     DEF WorkerNext, LoopStep, TaskStep, StopStep, WorkerStops, WorkerDrained,
         GracefulTimeout, PoolStopBegins, PoolStopReturns, PoolStartReturns,
         TaskArrives, workerVars

-----------------------------------------------------------------------------
\* A worker never holds more than one task beyond max_concurrent_tasks, and
\* never executes more than max_concurrent_tasks (workers.py: the capacity check
\* of start and _task_semaphore), for any pool, capacity and tasks.
THEOREM ClaimsBounded == WorkerSpec => []ClaimBound
<1>1. LoadInv => ClaimBound
  <2> SUFFICES ASSUME LoadInv, NEW w \in Workers
               PROVE  /\ Cardinality(spawned[w]) + Cardinality(CurrentTasks(w))
                           <= MaxConcurrent + 1
                      /\ Cardinality(executing[w]) <= MaxConcurrent
    BY DEF ClaimBound
  <2>1. /\ Cardinality(CurrentTasks(w)) \in Nat
        /\ Cardinality(CurrentTasks(w)) <= MaxConcurrent + 1
        /\ spawned[w] # {} => Cardinality(CurrentTasks(w)) <= MaxConcurrent
        /\ Cardinality(executing[w]) <= MaxConcurrent
    BY CurrentAreTasks, TaskSetsGrow DEF LoadInv, LoadBound, ExecutionBound
  <2>2. CASE spawned[w] = {}
    BY <2>1, <2>2, FS_EmptySet, WorkerAssumption
  <2>3. CASE spawned[w] # {}
    <3>1. PICK t \in spawned[w] : spawned[w] = {t}
      BY <2>3 DEF LoadInv, OneSpawned
    <3>2. Cardinality(spawned[w]) = 1
      BY <3>1, FS_Singleton
    <3>3. QED
      BY <2>1, <2>3, <3>2, WorkerAssumption
  <2>4. QED
    BY <2>2, <2>3
<1>2. QED
  BY InitLoadInv, NextLoadInv, <1>1, PTL DEF WorkerSpec

-----------------------------------------------------------------------------
(* PlacesInv is inductive *)

\* A claimed task of a worker is in one place: a spawned one does not wait for
\* the semaphore yet, so that it is queued once.
InOnePlace(w) ==
  /\ IsInjective(waiting[w])
  /\ spawned[w] \cap ToSet(waiting[w]) = {}
  /\ executing[w] \cap (spawned[w] \cup ToSet(waiting[w])) = {}
  /\ failing[w] \cap (spawned[w] \cup executing[w] \cup ToSet(waiting[w])) = {}

\* The inductive invariant behind the last conjuncts of WorkerTypeOK.
PlacesInv ==
  /\ WorkerTypeOK /\ OneSpawned
  /\ \A w \in Workers : InOnePlace(w)

\* The head of a queue without repetitions is not in its tail.
LEMMA TailIsInjective ==
  ASSUME NEW s \in Seq(Tasks), s # <<>>, IsInjective(s)
  PROVE  IsInjective(Tail(s)) /\ Head(s) \notin ToSet(Tail(s))
<1>1. /\ Len(s) \in Nat \ {0} /\ DOMAIN s = 1..Len(s) /\ Tail(s) \in Seq(Tasks)
      /\ DOMAIN Tail(s) = 1..(Len(s) - 1)
      /\ \A i \in 1..(Len(s) - 1) : Tail(s)[i] = s[i + 1]
  OBVIOUS
<1>2. \A i \in 1..(Len(s) - 1) : i \in DOMAIN s /\ i + 1 \in DOMAIN s /\ i + 1 # 1
  BY <1>1
<1>3. \A i, j \in 1..(Len(s) - 1) : Tail(s)[i] = Tail(s)[j] => i = j
  BY <1>1, <1>2 DEF IsInjective
<1>4. Head(s) = s[1] /\ 1 \in DOMAIN s
  BY <1>1
<1>5. \A i \in 1..(Len(s) - 1) : Tail(s)[i] # Head(s)
  BY <1>1, <1>2, <1>4 DEF IsInjective
<1> QED
  BY <1>1, <1>3, <1>5 DEF IsInjective, ToSet

\* A task that was not in a queue is in it once when it is put there.
LEMMA AppendIsInjective ==
  ASSUME NEW s \in Seq(Tasks), NEW t \in Tasks, IsInjective(s), t \notin ToSet(s)
  PROVE  IsInjective(Append(s, t))
<1>1. /\ Len(s) \in Nat /\ DOMAIN s = 1..Len(s)
      /\ DOMAIN Append(s, t) = 1..(Len(s) + 1)
      /\ \A i \in 1..Len(s) : Append(s, t)[i] = s[i]
      /\ Append(s, t)[Len(s) + 1] = t
  OBVIOUS
<1>2. \A i \in 1..Len(s) : s[i] # t
  BY <1>1 DEF ToSet
<1>3. \A i \in 1..(Len(s) + 1) : i \in 1..Len(s) \/ i = Len(s) + 1
  BY <1>1
<1> QED
  BY <1>1, <1>2, <1>3 DEF IsInjective

\* A step of one worker that takes nothing off the queue keeps every task in
\* one place if it does so for that worker.
LEMMA StepOfOneWorker ==
  ASSUME PlacesInv, NEW w \in Workers, OneSpawned',
         queued' = queued /\ poolVars' = poolVars,
         stopper' \in [Workers -> StopLabels], running' \in [Workers -> BOOLEAN],
         WorkerTypes', InOnePlace(w)', Claimed(w)' \subseteq Claimed(w),
         \A v \in Workers \ {w} :
           /\ spawned'[v] = spawned[v] /\ waiting'[v] = waiting[v]
           /\ executing'[v] = executing[v] /\ failing'[v] = failing[v]
  PROVE  PlacesInv'
<1>1. \A v \in Workers \ {w} : InOnePlace(v)' /\ Claimed(v)' = Claimed(v)
  BY DEF PlacesInv, InOnePlace, Claimed, CurrentTasks
<1>2. \A v \in Workers : InOnePlace(v)' /\ Claimed(v)' \subseteq Claimed(v)
  BY <1>1
<1>3. \A v \in Workers : /\ Claimed(v)' \cap queued' = {}
                         /\ \A u \in Workers \ {v} : Claimed(u)' \cap Claimed(v)' = {}
  BY <1>2 DEF PlacesInv, WorkerTypeOK
<1>4. WorkerTypeOK'
  BY <1>2, <1>3 DEF PlacesInv, WorkerTypeOK, WorkerTypes, InOnePlace, poolVars
<1> QED
  BY <1>2, <1>4 DEF PlacesInv

\* A task that goes on leaves the place it comes from.
LEMMA TaskStepKeepsPlaces ==
  ASSUME PlacesInv, NEW w \in Workers, NEW t \in Tasks,
         TaskStep(w, t) \/ TaskAcquires(w), WorkerTypes', OneSpawned'
  PROVE  PlacesInv'
<1> DEFINE s == waiting[w]
<1>1. /\ s \in Seq(Tasks) /\ IsInjective(s)
      /\ spawned \in [Workers -> SUBSET Tasks] /\ waiting \in [Workers -> Seq(Tasks)]
      /\ executing \in [Workers -> SUBSET Tasks] /\ failing \in [Workers -> SUBSET Tasks]
      /\ InOnePlace(w)
  BY DEF PlacesInv, WorkerTypeOK
<1>2. CASE TaskBegins(w, t)
  <2>1. /\ t \in spawned[w] /\ t \notin ToSet(s)
        /\ spawned'[w] = spawned[w] \ {t} /\ failing' = failing
    BY <1>1, <1>2 DEF TaskBegins, InOnePlace
  <2>2. \A v \in Workers \ {w} :
          /\ spawned'[v] = spawned[v] /\ waiting'[v] = waiting[v]
          /\ executing'[v] = executing[v] /\ failing'[v] = failing[v]
    BY <1>1, <1>2 DEF TaskBegins, Enter
  <2>3. InOnePlace(w)' /\ Claimed(w)' \subseteq Claimed(w)
    <3>1. CASE executing' = [executing EXCEPT ![w] = @ \cup {t}] /\ waiting' = waiting
      BY <1>1, <2>1, <3>1 DEF InOnePlace, Claimed, CurrentTasks
    <3>2. CASE waiting' = [waiting EXCEPT ![w] = Append(@, t)] /\ executing' = executing
      <4>1. waiting'[w] = Append(s, t) /\ executing'[w] = executing[w]
        BY <1>1, <3>2
      <4>2. IsInjective(waiting'[w]) /\ ToSet(waiting'[w]) = ToSet(s) \cup {t}
        BY <1>1, <2>1, <4>1, AppendIsInjective, ToSetOfAppend
      <4> QED
        BY <1>1, <2>1, <4>1, <4>2 DEF InOnePlace, Claimed, CurrentTasks
    <3> QED
      BY <1>2, <3>1, <3>2, EnterEither
  <2> QED
    BY <1>2, <2>2, <2>3, StepOfOneWorker DEF TaskBegins, PlacesInv, WorkerTypeOK
<1>3. CASE TaskCompletes(w, t) \/ TaskFails(w, t) \/ FailureHandled(w, t)
  <2>1. /\ \/ executing'[w] = executing[w] \ {t} /\ failing'[w] = failing[w]
           \/ /\ t \in executing[w] /\ executing'[w] = executing[w] \ {t}
              /\ failing'[w] = failing[w] \cup {t}
           \/ executing'[w] = executing[w] /\ failing'[w] = failing[w] \ {t}
        /\ spawned' = spawned /\ waiting' = waiting
        /\ \A v \in Workers \ {w} :
             executing'[v] = executing[v] /\ failing'[v] = failing[v]
    BY <1>1, <1>3 DEF TaskCompletes, TaskFails, FailureHandled, DiscardFailed
  <2>2. InOnePlace(w)' /\ Claimed(w)' \subseteq Claimed(w)
    BY <1>1, <2>1 DEF InOnePlace, Claimed, CurrentTasks
  <2> QED
    BY <1>3, <2>1, <2>2, StepOfOneWorker
       DEF TaskCompletes, TaskFails, FailureHandled, PlacesInv, WorkerTypeOK
<1>4. CASE TaskAcquires(w)
  <2>1. /\ s # <<>> /\ waiting'[w] = Tail(s)
        /\ executing'[w] = executing[w] \cup {Head(s)}
        /\ spawned' = spawned /\ failing' = failing
        /\ \A v \in Workers \ {w} :
             executing'[v] = executing[v] /\ waiting'[v] = waiting[v]
    BY <1>1, <1>4 DEF TaskAcquires, LeaveQueue
  <2>2. /\ IsInjective(Tail(s)) /\ Head(s) \notin ToSet(Tail(s))
        /\ ToSet(s) = ToSet(Tail(s)) \cup {Head(s)}
    BY <1>1, <2>1, TailIsInjective, ToSetOfTail
  <2>3. InOnePlace(w)' /\ Claimed(w)' \subseteq Claimed(w)
    BY <1>1, <2>1, <2>2 DEF InOnePlace, Claimed, CurrentTasks
  <2> QED
    BY <1>4, <2>1, <2>3, StepOfOneWorker DEF TaskAcquires, PlacesInv, WorkerTypeOK
<1> QED
  BY <1>2, <1>3, <1>4 DEF TaskStep

\* A dequeue takes a task from the queue, an arrival brings one nobody has claimed, and
\* the loops and the shutdown move none.
LEMMA WorkerStepKeepsPlaces ==
  ASSUME PlacesInv, [WorkerNext]_workerVars
  PROVE  PlacesInv'
<1>1. WorkerTypes' /\ OneSpawned'
  BY NextTypes DEF PlacesInv, WorkerTypeOK, WorkerTypes
<1>2. ASSUME UNCHANGED taskVars, queued' \subseteq Tasks,
             queued' \cap AllClaimed = {},
             running' \in [Workers -> BOOLEAN], stopper' \in [Workers -> StopLabels],
             poolRunning' \in BOOLEAN, poolStop' \in {"idle", "stopping", "returned"},
             poolStart' \in {"waiting", "returned"}
      PROVE  PlacesInv'
  <2>1. \A w \in Workers : /\ Claimed(w)' = Claimed(w) /\ InOnePlace(w)'
                           /\ Claimed(w) \cap queued' = {}
    BY <1>2 DEF taskVars, Claimed, CurrentTasks, PlacesInv, InOnePlace, AllClaimed
  <2> QED
    BY <1>1, <1>2, <2>1 DEF PlacesInv, WorkerTypeOK, WorkerTypes, InOnePlace
<1>3. ASSUME NEW w \in Workers, NEW t \in Tasks, DequeueReturnsTask(w, t)
      PROVE  PlacesInv'
  <2>1. /\ spawned'[w] = {t} /\ spawned[w] = {} /\ t \in queued
        /\ queued' = queued \ {t}
        /\ \A v \in Workers \ {w} : spawned'[v] = spawned[v]
        /\ UNCHANGED <<running, waiting, executing, failing, stopper, poolVars>>
    BY <1>3 DEF DequeueReturnsTask, PlacesInv, WorkerTypeOK
  <2>2. \A v \in Workers : t \notin Claimed(v) /\ Claimed(v) \cap queued = {}
    BY <2>1 DEF PlacesInv, WorkerTypeOK
  <2>3. /\ Claimed(w)' = Claimed(w) \cup {t}
        /\ \A v \in Workers \ {w} : Claimed(v)' = Claimed(v)
    BY <2>1 DEF Claimed, CurrentTasks
  <2>4. \A v \in Workers : InOnePlace(v)'
    <3>1. InOnePlace(w) /\ t \notin Claimed(w)
      BY <2>2 DEF PlacesInv
    <3>2. InOnePlace(w)'
      BY <2>1, <3>1 DEF InOnePlace, Claimed, CurrentTasks
    <3>3. \A v \in Workers \ {w} : InOnePlace(v)'
      BY <2>1 DEF PlacesInv, InOnePlace
    <3> QED
      BY <3>2, <3>3
  <2>5. \A v \in Workers : /\ Claimed(v)' \cap queued' = {}
                           /\ \A u \in Workers \ {v} : Claimed(u)' \cap Claimed(v)' = {}
    <3>1. \A v \in Workers : \A u \in Workers \ {v} : Claimed(u) \cap Claimed(v) = {}
      BY DEF PlacesInv, WorkerTypeOK
    <3> QED
      BY <2>1, <2>2, <2>3, <3>1
  <2> QED
    BY <1>1, <2>1, <2>4, <2>5
       DEF PlacesInv, WorkerTypeOK, WorkerTypes, InOnePlace, poolVars
<1>4. queued \cap AllClaimed = {}
  BY DEF PlacesInv, WorkerTypeOK, AllClaimed
<1>5. ASSUME NEW w \in Workers, StopStep(w)
      PROVE  PlacesInv'
  <2>1. /\ UNCHANGED <<queued, taskVars, poolVars>>
        /\ running' \in [Workers -> BOOLEAN] /\ stopper' \in [Workers -> StopLabels]
    BY <1>5 DEF StopStep, WorkerStops, WorkerDrained, GracefulTimeout, ClearRunning,
         PlacesInv, WorkerTypeOK, StopLabels
  <2> QED
    BY <1>2, <1>4, <2>1 DEF PlacesInv, WorkerTypeOK, poolVars
<1>6. ASSUME NEW w \in Workers, LoopChecks(w) \/ DequeueReturnsNone(w) \/ PollIntervalEnds(w)
      PROVE  PlacesInv'
  <2>1. UNCHANGED <<queued, taskVars, running, stopper, poolVars>>
    BY <1>6 DEF LoopChecks, DequeueReturnsNone, PollIntervalEnds
  <2> QED
    BY <1>2, <1>4, <2>1 DEF PlacesInv, WorkerTypeOK, poolVars
<1>7. CASE PoolStopBegins \/ PoolStopReturns \/ PoolStartReturns
  <2>1. /\ UNCHANGED <<queued, taskVars, running, stopper>>
        /\ poolRunning' \in BOOLEAN /\ poolStop' \in {"idle", "stopping", "returned"}
        /\ poolStart' \in {"waiting", "returned"}
    BY <1>7 DEF PoolStopBegins, PoolStopReturns, PoolStartReturns, PlacesInv, WorkerTypeOK
  <2> QED
    BY <1>2, <1>4, <2>1 DEF PlacesInv, WorkerTypeOK
<1>8. ASSUME NEW t \in Tasks, TaskArrives(t)
      PROVE  PlacesInv'
  <2>1. /\ UNCHANGED <<taskVars, running, stopper, poolVars>>
        /\ queued' \subseteq Tasks /\ queued' \cap AllClaimed = {}
    BY <1>4, <1>8 DEF TaskArrives, PlacesInv, WorkerTypeOK
  <2> QED
    BY <1>2, <2>1 DEF PlacesInv, WorkerTypeOK, poolVars
<1>9. CASE UNCHANGED workerVars
  BY <1>2, <1>4, <1>9 DEF PlacesInv, WorkerTypeOK, workerVars, poolVars, taskVars
<1>10. ASSUME NEW w \in Workers, NEW t \in Tasks, TaskStep(w, t)
       PROVE  PlacesInv'
  BY <1>1, <1>10, TaskStepKeepsPlaces
<1>11. ASSUME NEW w \in Workers, TaskAcquires(w)
       PROVE  PlacesInv'
  <2>1. Head(waiting[w]) \in Tasks
    BY <1>11, ToSetOfTail DEF TaskAcquires, PlacesInv, WorkerTypeOK
  <2> QED
    BY <1>1, <1>11, <2>1, TaskStepKeepsPlaces
<1> QED
  BY <1>3, <1>5, <1>6, <1>7, <1>8, <1>9, <1>10, <1>11 DEF WorkerNext, LoopStep

\* No task is anywhere when the pool starts.
LEMMA WorkersBegin == WorkerInit => PlacesInv
<1> SUFFICES ASSUME WorkerInit PROVE PlacesInv
  OBVIOUS
<1>1. \A w \in Workers :
        /\ spawned[w] = {} /\ executing[w] = {} /\ failing[w] = {}
        /\ waiting[w] = <<>> /\ ToSet(waiting[w]) = {} /\ IsInjective(waiting[w])
  BY DEF WorkerInit, ToSet, IsInjective
<1>2. \A w \in Workers : Claimed(w) = {} /\ InOnePlace(w)
  BY <1>1 DEF Claimed, CurrentTasks, InOnePlace
<1>3. WorkerTypeOK
  BY <1>1, <1>2 DEF WorkerInit, WorkerTypeOK, LoopLabels, StopLabels
<1> QED
  BY <1>1, <1>2, <1>3 DEF PlacesInv, OneSpawned

\* A task that was taken off the queue is in one place of one worker until it
\* has ended, and is not on the queue (workers.py: _process_task and the
\* semaphore), for any pool and whenever the pool is stopped.
THEOREM TasksInOnePlace == WorkerSpec => []WorkerTypeOK
<1>1. PlacesInv => WorkerTypeOK
  BY DEF PlacesInv
<1> QED
  BY WorkersBegin, WorkerStepKeepsPlaces, <1>1, PTL DEF WorkerSpec

-----------------------------------------------------------------------------
(* RedisCircuitBreaker.  BreakerInv ties the counters to the state and the
   half-open successes to those since the last failure. *)
\* The half-open successes are among those recorded since the last failure.
StreakCovers == state = "half_open" => successCount <= streak

\* The inductive invariant of the breaker.
BreakerInv == TypeOK /\ CountersMatchState /\ StreakCovers

\* A closed circuit without failures is below both thresholds.
LEMMA ThresholdsPositive ==
  0 \in 0..SuccessThreshold /\ 0 < FailureThreshold /\ 0 < SuccessThreshold
  BY BreakerAssumption

\* The breaker starts closed with nothing counted.
LEMMA InitBreakerInv == Init => BreakerInv
<1> SUFFICES ASSUME Init PROVE BreakerInv
  OBVIOUS
<1>1. TypeOK
  BY ThresholdsPositive DEF Init, TypeOK, States
<1>2. CountersMatchState /\ StreakCovers
  BY ThresholdsPositive DEF Init, CountersMatchState, StreakCovers
<1>3. QED
  BY <1>1, <1>2 DEF BreakerInv

\* A late outcome counts only in the state it is recorded in, and a change of state
\* resets what the new one counts.
LEMMA NextBreakerInv == BreakerInv /\ [Next]_vars => BreakerInv'
<1> SUFFICES ASSUME BreakerInv, [Next]_vars PROVE BreakerInv'
  OBVIOUS
<1> USE BreakerAssumption
    DEF BreakerInv, TypeOK, CountersMatchState, StreakCovers, States, counters,
        inFlight
<1>1. ASSUME NEW c \in Callers, CallRejected(c)
      PROVE  BreakerInv'
  BY <1>1 DEF CallRejected, vars
<1>2. ASSUME NEW c \in Callers, CallStarts(c)
      PROVE  BreakerInv'
  BY <1>2 DEF CallStarts
<1>3. ASSUME NEW c \in Callers, CallSucceeds(c)
      PROVE  BreakerInv'
  <2>1. /\ calling' \subseteq Callers /\ troubled' \subseteq calling'
        /\ healthy' \in BOOLEAN /\ cooling' \in BOOLEAN
    BY <1>3 DEF CallSucceeds, CallEnds, RecordSuccess
  <2>2. streak' \in 0..SuccessThreshold
        /\ (streak' = streak + 1 \/ streak' = SuccessThreshold)
    BY <1>3 DEF CallSucceeds, CallEnds, RecordSuccess
  <2>3. CASE state = "half_open" /\ Enough
    BY <1>3, <2>1, <2>2, <2>3 DEF CallSucceeds, CallEnds, RecordSuccess
  <2>4. CASE state = "half_open" /\ ~ Enough
    BY <1>3, <2>1, <2>2, <2>4 DEF CallSucceeds, CallEnds, RecordSuccess, Enough,
                                       CountSuccess
  <2>5. CASE state = "closed"
    BY <1>3, <2>1, <2>2, <2>5 DEF CallSucceeds, CallEnds, RecordSuccess, Decay
  <2>6. CASE state = "open"
    BY <1>3, <2>1, <2>2, <2>6 DEF CallSucceeds, CallEnds, RecordSuccess
  <2>7. QED
    BY <2>3, <2>4, <2>5, <2>6
<1>4. ASSUME NEW c \in Callers, CallFails(c)
      PROVE  BreakerInv'
  <2>1. /\ calling' \subseteq Callers /\ troubled' \subseteq calling'
        /\ healthy' \in BOOLEAN /\ cooling' \in BOOLEAN
        /\ streak' = 0
    BY <1>4 DEF CallFails, CallEnds, RecordFailure
  <2>2. CASE state = "half_open"
    BY <1>4, <2>1, <2>2 DEF CallFails, CallEnds, RecordFailure, Reopen
  <2>3. CASE state = "closed"
    BY <1>4, <2>1, <2>3 DEF CallFails, CallEnds, RecordFailure, CountFailure
  <2>4. CASE state = "open"
    BY <1>4, <2>1, <2>4 DEF CallFails, CallEnds, RecordFailure
  <2>5. QED
    BY <2>2, <2>3, <2>4
<1>5. ASSUME NEW c \in Callers, CallUnrecorded(c)
      PROVE  BreakerInv'
  BY <1>5 DEF CallUnrecorded, CallEnds
<1>6. CASE ResetBreaker
  BY <1>6, ThresholdsPositive DEF ResetBreaker
<1>7. CASE RecoveryTimeoutElapses \/ HealthChanges
  BY <1>7 DEF RecoveryTimeoutElapses, HealthChanges
<1>8. CASE UNCHANGED vars
  BY <1>8 DEF vars
<1>9. QED
  BY <1>1, <1>2, <1>3, <1>4, <1>5, <1>6, <1>7, <1>8 DEF Next, Call, Finish

\* Induction over the steps of the breaker.
LEMMA BreakerInvariant == Spec => []BreakerInv
  BY InitBreakerInv, NextBreakerInv, PTL DEF Spec

\* State, counters and calls in flight keep their types, and no counter passes
\* its threshold (redis/circuit_breaker.py), for any callers and thresholds.
THEOREM BreakerTypeCorrect == Spec => []TypeOK
<1>1. BreakerInv => TypeOK
  BY DEF BreakerInv
<1>2. QED
  BY BreakerInvariant, <1>1, PTL

\* The counters agree with the state, for any number of calls in flight.
THEOREM CountersFollowState == Spec => []CountersMatchState
<1>1. BreakerInv => CountersMatchState
  BY DEF BreakerInv
<1>2. QED
  BY BreakerInvariant, <1>1, PTL

\* Only SuccessThreshold recorded successes in a row close the circuit.
THEOREM ClosingNeedsStreak == Spec => ClosesOnStreak
<1>1. BreakerInv /\ [Next]_vars
        => [state = "half_open" /\ state' = "closed" /\ calling' # calling
              => streak' >= SuccessThreshold]_vars
  <2> SUFFICES ASSUME BreakerInv, Next, state = "half_open", state' = "closed",
                      calling' # calling
               PROVE  streak' >= SuccessThreshold
    OBVIOUS
  <2>1. \E c \in Callers : CallSucceeds(c)
    BY DEF Next, Call, Finish, CallRejected, vars, CallStarts, CallFails,
           CallEnds, RecordFailure, Reopen, CallUnrecorded, inFlight,
           ResetBreaker, RecoveryTimeoutElapses, HealthChanges
  <2>2. Enough /\ successCount <= streak
    BY <2>1 DEF CallSucceeds, CallEnds, RecordSuccess, BreakerInv,
                  StreakCovers, counters
  <2>3. QED
    BY <2>1, <2>2, BreakerAssumption
       DEF CallSucceeds, CallEnds, RecordSuccess, Enough, BreakerInv, TypeOK
<1>2. QED
  BY BreakerInvariant, <1>1, PTL DEF Spec, ClosesOnStreak

-----------------------------------------------------------------------------
(* SpanExport.  Which place a span is in follows the progress of the batch
   and of the retry task: ExportInv says what each of them still may move. *)
USE SpanExportAssumption

\* No span has two entries in s.
DistinctSpans(s) == \A i, j \in DOMAIN s : s[i].span = s[j].span => i = j

\* The batch and what is left of it to put fit each other, and nothing of it is
\* elsewhere while it can still go there.
WorkerOK ==
  /\ worker.pc \in {"idle", "ended"} => worker.batch = <<>>
  /\ worker.pc # "buffering" => worker.todo = <<>>
  /\ worker.pc = "primary" =>
       ToSet(worker.batch) \cap
         (delivered \cup kept \cup SpansOf(buffer) \cup SpansOf(eventLoop.hand)) = {}
  /\ \A i, j \in DOMAIN worker.batch : worker.batch[i] = worker.batch[j] => i = j
  /\ \A i, j \in DOMAIN worker.todo : worker.todo[i] = worker.todo[j] => i = j
  /\ ToSet(worker.todo) \subseteq ToSet(worker.batch)
  /\ ToSet(worker.todo) \cap
       (delivered \cup SpansOf(buffer) \cup SpansOf(eventLoop.hand)) = {}

\* The hand of the event loop is empty unless it sends, puts back or flushes.
LoopOK ==
  /\ eventLoop.pc \in {"free", "joining", "closed"} => eventLoop.hand = <<>>
  /\ DistinctSpans(eventLoop.hand)

\* The inductive invariant of the exporter.
ExportInv == ExportTypeOK /\ SentOnce /\ RefusedAreKept /\ WorkerOK /\ LoopOK
-----------------------------------------------------------------------------
(* Sequences of entries *)

\* Some element of a finite set of numbers has n of them up to it.
LEMMA RankReached ==
  ASSUME NEW K, K \subseteq Nat, IsFiniteSet(K), NEW n \in 1..Cardinality(K)
  PROVE  \E i \in K : Cardinality({k \in K : k <= i}) = n
<1> DEFINE upTo(i) == {k \in K : k <= i}
           N == 1..Cardinality(K)
           rank == [i \in K |-> Cardinality(upTo(i))]
<1>1. Cardinality(K) \in Nat /\ IsFiniteSet(N) /\ Cardinality(N) = Cardinality(K)
  BY SMTT(20), FS_CardinalityType, FS_Interval
<1>2. ASSUME NEW i \in K
      PROVE  /\ IsFiniteSet(upTo(i)) /\ Cardinality(upTo(i)) \in N
  <2>1. upTo(i) \in SUBSET K /\ i \in upTo(i)
    OBVIOUS
  <2>2. IsFiniteSet(upTo(i)) /\ Cardinality(upTo(i)) <= Cardinality(K)
    BY <2>1, FS_Subset
  <2>3. Cardinality(upTo(i)) \in Nat /\ Cardinality(upTo(i)) # 0
    BY <2>1, <2>2, FS_CardinalityType, FS_EmptySet
  <2> QED  BY <1>1, <2>2, <2>3
<1>3. ASSUME NEW i \in K, NEW j \in K, i < j
      PROVE  rank[i] # rank[j]
  <2>0. (\A k \in K : k <= i => k <= j) /\ j <= j /\ ~ (j <= i)
    BY <1>3
  <2>1. upTo(i) \in SUBSET upTo(j) /\ j \in upTo(j) /\ j \notin upTo(i)
    BY <2>0, Zenon
  <2> HIDE DEF upTo
  <2>2. Cardinality(upTo(j)) # Cardinality(upTo(i))
    BY <1>2, <2>1, FS_Subset
  <2> QED  BY <2>2
<1>4. rank \in Injection(K, N)
  <2>1. rank \in [K -> N]
    BY <1>2
  <2>2. \A i, j \in K : rank[i] = rank[j] => i = j
    BY <1>3
  <2> HIDE DEF rank, N
  <2> QED  BY <2>1, <2>2 DEF Injection, IsInjective
<1>5. rank \in Surjection(K, N)
  <2> HIDE DEF rank, N
  <2> QED  BY <1>1, <1>4, FS_Injection
<1>6. \A m \in N : \E i \in K : rank[i] = m
  <2> HIDE DEF rank, N
  <2> QED  BY <1>5 DEF Surjection
<1> QED  BY <1>6

\* The entries kept are entries of the buffer, each at most once.
LEMMA KeepingPicks ==
  ASSUME buffer \in Seq(Entries), NEW K, K \subseteq DOMAIN buffer
  PROVE  /\ Keeping(K) \in Seq(Entries)
         /\ SpansOf(Keeping(K)) \subseteq SpansOf(buffer)
         /\ DistinctSpans(buffer) => DistinctSpans(Keeping(K))
<1> DEFINE N == 1..Cardinality(K)
           upTo(i) == {k \in K : k <= i}
           f == [n \in N |-> CHOOSE i \in K : Cardinality(upTo(i)) = n]
<1>1. DOMAIN buffer = 1..Len(buffer) /\ Len(buffer) \in Nat
  OBVIOUS
<1>2. IsFiniteSet(K) /\ K \subseteq Nat /\ Cardinality(K) \in Nat
  <2>1. IsFiniteSet(1..Len(buffer)) /\ K \in SUBSET (1..Len(buffer))
    BY <1>1, FS_Interval
  <2>2. IsFiniteSet(K)
    BY <2>1, FS_Subset
  <2> QED  BY <2>1, <2>2, FS_CardinalityType
<1>3. ASSUME NEW n \in N PROVE f[n] \in K /\ Cardinality(upTo(f[n])) = n
  <2>1. \E i \in K : Cardinality(upTo(i)) = n
    BY <1>2, RankReached
  <2> HIDE DEF upTo
  <2> QED  BY <2>1
<1>4. \A m, n \in N : f[m] = f[n] => m = n
  BY <1>3
<1>5. Keeping(K) = [n \in N |-> buffer[f[n]]]
  BY DEF Keeping
<1>0. \A i \in K : buffer[i] \in Entries
  BY <1>1
<1> HIDE DEF f
<1>6. \A n \in N : buffer[f[n]] \in Entries
  BY <1>0, <1>3
<1>7. Keeping(K) \in Seq(Entries) /\ DOMAIN Keeping(K) = N
  BY <1>2, <1>5, <1>6
<1>8. \A n \in N : Keeping(K)[n] = buffer[f[n]] /\ f[n] \in DOMAIN buffer
  BY <1>3, <1>5
<1> HIDE DEF N
<1> QED  BY SMTT(20), <1>4, <1>7, <1>8 DEF SpansOf, DistinctSpans

\* What is left of distinct entries is distinct, and the first is not among it.
LEMMA TailSpans ==
  ASSUME NEW s \in Seq(Entries), s # <<>>
  PROVE  /\ Tail(s) \in Seq(Entries) /\ Head(s) \in Entries
         /\ Head(s).span \in SpansOf(s) /\ SpansOf(Tail(s)) \subseteq SpansOf(s)
         /\ DistinctSpans(s) =>
              DistinctSpans(Tail(s)) /\ Head(s).span \notin SpansOf(Tail(s))
<1>1. /\ Len(s) \in Nat /\ Len(s) > 0 /\ DOMAIN s = 1..Len(s) /\ Head(s) = s[1]
      /\ Tail(s) \in Seq(Entries)
      /\ DOMAIN Tail(s) = 1..(Len(s) - 1)
      /\ \A i \in 1..(Len(s) - 1) : Tail(s)[i] = s[i + 1]
  OBVIOUS
<1>2. \A i \in DOMAIN Tail(s) : i + 1 \in DOMAIN s /\ i + 1 # 1 /\ Tail(s)[i] = s[i + 1]
  BY <1>1
<1>3. s[1] \in Entries /\ 1 \in DOMAIN s
  BY <1>1
<1>4. \A i, j \in DOMAIN Tail(s) : i + 1 = j + 1 => i = j
  BY <1>1
<1> QED  BY SMTT(20), <1>1, <1>2, <1>3, <1>4 DEF SpansOf, DistinctSpans

\* The same for what is left of a batch to put.
LEMMA TailDistinct ==
  ASSUME NEW s \in Seq(Spans), s # <<>>,
         \A i, j \in DOMAIN s : s[i] = s[j] => i = j
  PROVE  /\ Tail(s) \in Seq(Spans) /\ Head(s) \in ToSet(s)
         /\ ToSet(Tail(s)) \subseteq ToSet(s) \ {Head(s)}
         /\ \A i, j \in DOMAIN Tail(s) : Tail(s)[i] = Tail(s)[j] => i = j
<1>1. /\ Len(s) \in Nat /\ Len(s) > 0 /\ DOMAIN s = 1..Len(s) /\ Head(s) = s[1]
      /\ Tail(s) \in Seq(Spans)
      /\ DOMAIN Tail(s) = 1..(Len(s) - 1)
      /\ \A i \in 1..(Len(s) - 1) : Tail(s)[i] = s[i + 1]
  OBVIOUS
<1>2. \A i \in DOMAIN Tail(s) : i + 1 \in DOMAIN s /\ i + 1 # 1 /\ Tail(s)[i] = s[i + 1]
  BY <1>1
<1>3. 1 \in DOMAIN s /\ \A i, j \in DOMAIN Tail(s) : i + 1 = j + 1 => i = j
  BY <1>1
<1> QED  BY <1>1, <1>2, <1>3 DEF ToSet

\* What put leaves in the buffer: what was there, less the oldest, and the span.
LEMMA PutAdds ==
  ASSUME ExportTypeOK, SentOnce, NEW thread \in {"worker", "loop"}, NEW span \in Spans,
         span \notin SpansOf(buffer), Put(thread, span)
  PROVE  /\ buffer' \in Seq(Entries) /\ DistinctSpans(buffer)'
         /\ SpansOf(buffer)' \subseteq SpansOf(buffer) \cup {span}
         /\ lock' \in {"free", "worker", "loop"}
<1> DEFINE e == [span |-> span, age |-> "new"]
<1>1. buffer \in Seq(Entries) /\ e \in Entries /\ e.span = span /\ DistinctSpans(buffer)
  BY DEF ExportTypeOK, Entries, Ages, SentOnce, DistinctSpans
<1>2. /\ Room \in Seq(Entries) /\ SpansOf(Room) \subseteq SpansOf(buffer)
      /\ DistinctSpans(Room)
  <2>1. CASE Len(buffer) >= MaxSize
    <3>1. buffer # <<>>
      BY <1>1, <2>1
    <3> QED  BY <1>1, <2>1, <3>1, TailSpans DEF Room
  <2>2. CASE ~ (Len(buffer) >= MaxSize)
    BY <1>1, <2>2 DEF Room
  <2> QED  BY <2>1, <2>2
<1>3. buffer' = Append(Room, e) /\ lock' \in {"free", thread}
  BY DEF Put
<1> HIDE DEF e
<1>4. /\ buffer' \in Seq(Entries) /\ DOMAIN buffer' = DOMAIN Room \cup {Len(Room) + 1}
      /\ Len(Room) + 1 \notin DOMAIN Room
      /\ buffer'[Len(Room) + 1] = e /\ \A i \in DOMAIN Room : buffer'[i] = Room[i]
  BY <1>1, <1>2, <1>3
<1>5. SpansOf(buffer)' \subseteq SpansOf(Room) \cup {span}
  BY <1>1, <1>4 DEF SpansOf
<1>6. span \notin SpansOf(Room)
  BY <1>2
<1>7. DistinctSpans(buffer)'
  BY <1>1, <1>2, <1>4, <1>6 DEF DistinctSpans, SpansOf
<1> QED  BY <1>2, <1>3, <1>4, <1>5, <1>7
-----------------------------------------------------------------------------
(* Steps of the worker *)

\* The invariant, about the sets of spans of each place.
LEMMA ExportInvUnfolds ==
  ExportInv <=>
    /\ ExportTypeOK /\ WorkerOK /\ LoopOK /\ DistinctSpans(buffer)
    /\ SpansOf(buffer) \cap SpansOf(eventLoop.hand) = {}
    /\ delivered \cap (SpansOf(buffer) \cup SpansOf(eventLoop.hand)) = {}
    /\ SpansOf(buffer) \cup SpansOf(eventLoop.hand) \subseteq kept \cup ToSet(worker.batch)
BY DEF ExportInv, SentOnce, RefusedAreKept, DistinctSpans

\* An empty buffer holds no span.
LEMMA NoSpans == SpansOf(<<>>) = {} /\ ToSet(<<>>) = {} /\ DistinctSpans(<<>>)
BY DEF SpansOf, ToSet, DistinctSpans

\* What is buffered, in hand or in a batch are spans.
LEMMA PlacesTyped ==
  ASSUME ExportTypeOK
  PROVE  /\ SpansOf(buffer) \subseteq Spans /\ SpansOf(eventLoop.hand) \subseteq Spans
         /\ ToSet(worker.batch) \subseteq Spans /\ ToSet(worker.todo) \subseteq Spans
<1>1. ASSUME NEW s \in Seq(Entries) PROVE SpansOf(s) \subseteq Spans
  <2>1. \A i \in DOMAIN s : s[i] \in Entries
    OBVIOUS
  <2> QED  BY <2>1 DEF SpansOf, Entries
<1>2. ASSUME NEW s \in Seq(Spans) PROVE ToSet(s) \subseteq Spans
  <2>1. \A i \in DOMAIN s : s[i] \in Spans
    OBVIOUS
  <2> QED  BY <2>1 DEF ToSet
<1>3. /\ buffer \in Seq(Entries) /\ eventLoop.hand \in Seq(Entries)
      /\ worker.batch \in Seq(Spans) /\ worker.todo \in Seq(Spans)
  BY DEF ExportTypeOK
<1> QED  BY <1>1, <1>2, <1>3

\* A batch has spans that were never exported before.
LEMMA BeginsKeeps ==
  ASSUME ExportInv, NEW B, ExportBegins(B)
  PROVE  ExportInv'
<1>1. IsFiniteSet(B) /\ B \subseteq Spans /\ Cardinality(B) \in Nat
  BY FS_Subset, FS_CardinalityType DEF ExportBegins, Fresh
<1>2. \E f \in [1..Cardinality(B) -> B] : IsInjective(f)
  <2>1. ExistsBijection(1..Cardinality(B), B)
    BY <1>1, FS_CardinalityType
  <2> QED  BY <2>1 DEF ExistsBijection, Bijection, Injection
<1>3. SetToSeq(B) \in [1..Cardinality(B) -> B] /\ IsInjective(SetToSeq(B))
  BY <1>2 DEF SetToSeq
<1> DEFINE b == SetToSeq(B)
<1> HIDE DEF b
<1>4. /\ b \in Seq(Spans) /\ ToSet(b) \subseteq B
      /\ \A i, j \in DOMAIN b : b[i] = b[j] => i = j
  BY <1>1, <1>3 DEF b, ToSet, IsInjective
<1>5. /\ worker.pc = "idle" /\ B \subseteq Fresh
      /\ worker' = [pc |-> "primary", batch |-> b, todo |-> <<>>]
      /\ UNCHANGED <<lock, buffer, eventLoop, delivered, lost, kept>>
  BY DEF ExportBegins, b
<1>6. worker.batch = <<>> /\ SpansOf(buffer) \cup SpansOf(eventLoop.hand) \subseteq kept
  BY <1>5, NoSpans, ExportInvUnfolds DEF WorkerOK
<1>7. B \cap (delivered \cup kept) = {}
  BY <1>5 DEF Fresh
<1>8. ExportTypeOK'
  BY <1>4, <1>5 DEF ExportInv, ExportTypeOK
<1>9. WorkerOK' /\ LoopOK'
  BY <1>4, <1>5, <1>6, <1>7, NoSpans DEF ExportInv, WorkerOK, LoopOK
<1> QED  BY <1>5, <1>6, <1>8, <1>9 DEF ExportInv, SentOnce, RefusedAreKept

\* A batch that was accepted, or lost by a raise, goes nowhere else.
LEMMA PrimaryKeeps ==
  ASSUME ExportInv, PrimaryAccepts \/ PrimaryRaises
  PROVE  ExportInv'
<1>1. /\ worker.pc = "primary" /\ worker' = Idle
      /\ UNCHANGED <<lock, buffer, eventLoop, kept>>
      /\ delivered' \in {delivered, delivered \cup ToSet(worker.batch)}
      /\ lost' \in {lost, lost \cup ToSet(worker.batch)}
  BY DEF PrimaryAccepts, PrimaryRaises
<1>2. ToSet(worker.batch) \cap
        (delivered \cup kept \cup SpansOf(buffer) \cup SpansOf(eventLoop.hand)) = {}
  BY <1>1 DEF ExportInv, WorkerOK
<1>3. ToSet(worker.batch) \subseteq Spans
  BY PlacesTyped DEF ExportInv
<1>4. ExportTypeOK'
  BY <1>1, <1>3 DEF ExportInv, ExportTypeOK, Idle
<1>5. WorkerOK' /\ LoopOK'
  BY <1>1, NoSpans DEF ExportInv, WorkerOK, LoopOK, Idle
<1> QED  BY <1>1, <1>2, <1>4, <1>5 DEF ExportInv, SentOnce, RefusedAreKept

\* A refused batch is all still to be buffered.
LEMMA RefusesKeeps ==
  ASSUME ExportInv, PrimaryRefuses
  PROVE  ExportInv'
<1>1. /\ worker.pc = "primary"
      /\ worker' = [pc |-> "buffering", batch |-> worker.batch, todo |-> worker.batch]
      /\ UNCHANGED <<lock, buffer, eventLoop, delivered, lost, kept>>
  BY DEF PrimaryRefuses, ExportInv, ExportTypeOK
<1>2. ExportTypeOK'
  BY <1>1 DEF ExportInv, ExportTypeOK
<1>3. WorkerOK' /\ LoopOK'
  BY <1>1 DEF ExportInv, WorkerOK, LoopOK
<1> QED  BY <1>1, <1>2, <1>3 DEF ExportInv, SentOnce, RefusedAreKept

\* The worker buffers a span of its batch that is in no other place.
LEMMA WorkerPutsKeeps ==
  ASSUME ExportInv, WorkerPuts
  PROVE  ExportInv'
<1> DEFINE span == Head(worker.todo)
<1>1. /\ worker.pc = "buffering" /\ worker.todo # <<>> /\ Put("worker", span)
      /\ worker' = [pc |-> "buffering", batch |-> worker.batch, todo |-> Tail(worker.todo)]
      /\ UNCHANGED <<eventLoop, delivered, lost, kept>>
  BY DEF WorkerPuts, ExportInv, ExportTypeOK
<1>2. worker.todo \in Seq(Spans) /\ WorkerOK /\ ExportTypeOK /\ SentOnce
  BY DEF ExportInv, ExportTypeOK
<1> HIDE DEF span
<1>3. /\ Tail(worker.todo) \in Seq(Spans) /\ span \in ToSet(worker.todo)
      /\ ToSet(Tail(worker.todo)) \subseteq ToSet(worker.todo) \ {span}
      /\ \A i, j \in DOMAIN Tail(worker.todo) :
           Tail(worker.todo)[i] = Tail(worker.todo)[j] => i = j
  BY <1>1, <1>2, TailDistinct DEF WorkerOK, span
<1>4. span \in Spans /\ span \in ToSet(worker.batch)
      /\ span \notin delivered \cup SpansOf(buffer) \cup SpansOf(eventLoop.hand)
  BY <1>2, <1>3, PlacesTyped DEF WorkerOK
<1>5. /\ buffer' \in Seq(Entries) /\ DistinctSpans(buffer)'
      /\ SpansOf(buffer)' \subseteq SpansOf(buffer) \cup {span}
      /\ lock' \in {"free", "worker", "loop"}
  BY <1>1, <1>2, <1>4, PutAdds
<1>6. ExportTypeOK'
  BY <1>1, <1>2, <1>3, <1>5 DEF ExportTypeOK
<1>7. WorkerOK'
  BY <1>1, <1>2, <1>3, <1>5 DEF WorkerOK
<1>8. LoopOK'
  BY <1>1 DEF ExportInv, LoopOK
<1> QED  BY <1>1, <1>4, <1>5, <1>6, <1>7, <1>8, ExportInvUnfolds
         DEF ExportInv, SentOnce, RefusedAreKept, DistinctSpans

\* The fallback takes the whole batch before the worker forgets it.
LEMMA FallsBackKeeps ==
  ASSUME ExportInv, WorkerFallsBack \/ WorkerEnds
  PROVE  ExportInv'
<1>1. /\ worker.pc # "primary"
      /\ worker' \in {Idle, [Idle EXCEPT !.pc = "ended"]}
      /\ UNCHANGED <<lock, buffer, eventLoop, delivered, lost>>
      /\ kept \subseteq kept' /\ kept' \subseteq kept \cup ToSet(worker.batch)
      /\ worker.pc = "idle" \/ ToSet(worker.batch) \subseteq kept'
  BY DEF WorkerFallsBack, WorkerEnds
<1>2. worker.pc = "idle" => ToSet(worker.batch) = {}
  BY NoSpans DEF ExportInv, WorkerOK
<1>3. ToSet(worker.batch) \subseteq Spans
  BY PlacesTyped DEF ExportInv
<1>4. /\ worker' \in [pc : {"idle", "ended"}, batch : {<<>>}, todo : {<<>>}]
  BY <1>1 DEF Idle
<1>5. ExportTypeOK'
  <2>1. kept' \subseteq Spans
    BY <1>1, <1>3 DEF ExportInv, ExportTypeOK
  <2>2. worker' \in [pc : {"idle", "primary", "buffering", "ended"},
                   batch : Seq(Spans), todo : Seq(Spans)]
    <3>1. <<>> \in Seq(Spans)
      OBVIOUS
    <3> QED  BY <1>4, <3>1
  <2> QED  BY <1>1, <2>1, <2>2 DEF ExportInv, ExportTypeOK
<1>6. WorkerOK' /\ LoopOK'
  BY <1>1, <1>4, NoSpans DEF ExportInv, WorkerOK, LoopOK
<1> QED  BY <1>1, <1>2, <1>4, <1>5, <1>6 DEF ExportInv, SentOnce, RefusedAreKept

-----------------------------------------------------------------------------
(* Steps of the event loop, and of time *)

\* The event loop moves entries and drops some: none is in two places after.
LEMMA LoopMoves ==
  ASSUME ExportInv, UNCHANGED <<worker, lost, kept>>,
         lock' \in {"free", "worker", "loop"},
         buffer' \in Seq(Entries), DistinctSpans(buffer)',
         eventLoop' \in [pc : {"free", "sending", "returning", "flushing", "joining",
                              "closed"}, hand : Seq(Entries)],
         LoopOK',
         delivered \subseteq delivered',
         SpansOf(buffer)' \cup SpansOf(eventLoop.hand)' \cup (delivered' \ delivered)
           \subseteq SpansOf(buffer) \cup SpansOf(eventLoop.hand),
         SpansOf(buffer)' \cap SpansOf(eventLoop.hand)' = {},
         (delivered' \ delivered)
           \cap (SpansOf(buffer)' \cup SpansOf(eventLoop.hand)') = {}
  PROVE  ExportInv'
<1>1. /\ SpansOf(buffer) \cup SpansOf(eventLoop.hand) \subseteq kept \cup ToSet(worker.batch)
      /\ delivered \cap (SpansOf(buffer) \cup SpansOf(eventLoop.hand)) = {}
      /\ SpansOf(buffer) \cup SpansOf(eventLoop.hand) \subseteq Spans
      /\ ExportTypeOK /\ WorkerOK
  <2>1. SpansOf(buffer) \cup SpansOf(eventLoop.hand) \subseteq Spans
    BY PlacesTyped DEF ExportInv
  <2> QED  BY <2>1, ExportInvUnfolds
<1>2. delivered' \subseteq Spans
  BY <1>1 DEF ExportTypeOK
<1>3. ExportTypeOK'
  BY <1>1, <1>2 DEF ExportTypeOK
<1>4. WorkerOK'
  BY <1>1 DEF WorkerOK
<1> QED  BY <1>1, <1>3, <1>4 DEF ExportInv, SentOnce, RefusedAreKept, DistinctSpans

\* The retry task, the clean-up and the flush take entries of the buffer, or drop them.
LEMMA TakesKeeps ==
  ASSUME ExportInv, RetryTakes \/ CleanupExpired \/ ForceFlush
  PROVE  ExportInv'
<1>1. /\ buffer \in Seq(Entries) /\ DistinctSpans(buffer) /\ lock \in {"free", "worker", "loop"}
      /\ ExportTypeOK
  BY ExportInvUnfolds DEF ExportTypeOK
<1>2. eventLoop = Free /\ UNCHANGED <<lock, worker, delivered, lost, kept>>
  BY DEF RetryTakes, CleanupExpired, ForceFlush, TakeAll
<1>3. eventLoop.hand = <<>> /\ SpansOf(eventLoop.hand) = {}
  BY <1>2, NoSpans DEF Free
<1>4. CASE CleanupExpired
  <2>1. buffer' = Keeping(Unexpired) /\ eventLoop' = eventLoop /\ Unexpired \subseteq DOMAIN buffer
    BY <1>4 DEF CleanupExpired, Unexpired
  <2>2. /\ buffer' \in Seq(Entries) /\ DistinctSpans(buffer)'
        /\ SpansOf(buffer)' \subseteq SpansOf(buffer)
    BY <1>1, <2>1, KeepingPicks
  <2>3. LoopOK'
    BY <2>1 DEF ExportInv, LoopOK
  <2>4. eventLoop' \in [pc : {"free", "sending", "returning", "flushing", "joining",
                              "closed"}, hand : Seq(Entries)]
    BY <1>1, <2>1 DEF ExportTypeOK
  <2> QED  BY <1>1, <1>2, <1>3, <2>1, <2>2, <2>3, <2>4, LoopMoves
<1>5. CASE RetryTakes \/ ForceFlush
  <2>1. /\ buffer' = <<>>
        /\ eventLoop' \in {Free, [pc |-> "sending", hand |-> Keeping(Recent)],
                           [pc |-> "flushing", hand |-> buffer]}
    BY <1>5 DEF RetryTakes, ForceFlush, TakeAll
  <2>2. /\ eventLoop'.pc \in {"free", "sending", "flushing"}
        /\ eventLoop'.pc = "free" => eventLoop'.hand = <<>>
        /\ eventLoop' \in [pc : {"free", "sending", "returning", "flushing", "joining",
                              "closed"}, hand : Seq(Entries)]
        /\ DistinctSpans(eventLoop'.hand) /\ SpansOf(eventLoop'.hand) \subseteq SpansOf(buffer)
    <3>1. CASE eventLoop' = Free
      BY <3>1, NoSpans DEF Free
    <3>2. CASE eventLoop' = [pc |-> "flushing", hand |-> buffer]
      BY <1>1, <3>2
    <3>3. CASE eventLoop' = [pc |-> "sending", hand |-> Keeping(Recent)]
      <4>1. Recent \subseteq DOMAIN buffer
        BY DEF Recent
      <4>2. /\ Keeping(Recent) \in Seq(Entries) /\ DistinctSpans(Keeping(Recent))
            /\ SpansOf(Keeping(Recent)) \subseteq SpansOf(buffer)
        BY <1>1, <4>1, KeepingPicks
      <4> QED  BY <3>3, <4>2
    <3> QED  BY <2>1, <3>1, <3>2, <3>3
  <2>3. LoopOK'
    BY <2>2 DEF LoopOK
  <2>4. buffer' \in Seq(Entries) /\ DistinctSpans(buffer)' /\ SpansOf(buffer)' = {}
    BY <2>1, NoSpans
  <2> QED  BY <1>1, <1>2, <2>2, <2>3, <2>4, LoopMoves
<1> QED  BY <1>4, <1>5

\* What could not be sent goes from the hand back to the buffer, or out of both.
LEMMA PutsBackKeeps ==
  ASSUME ExportInv, RetryPutsBack
  PROVE  ExportInv'
<1> DEFINE s == eventLoop.hand
           span == Head(s).span
<1>1. /\ eventLoop.pc = "returning" /\ s # <<>> /\ Put("loop", span)
      /\ eventLoop' = [pc |-> "returning", hand |-> Tail(s)]
      /\ UNCHANGED <<worker, delivered, lost, kept>>
  BY DEF RetryPutsBack, ExportInv, ExportTypeOK
<1>2. s \in Seq(Entries) /\ ExportTypeOK /\ SentOnce /\ DistinctSpans(s)
  BY DEF ExportInv, ExportTypeOK, LoopOK
<1>3. /\ Tail(s) \in Seq(Entries) /\ span \in Spans /\ span \in SpansOf(s)
      /\ SpansOf(Tail(s)) \subseteq SpansOf(s)
      /\ DistinctSpans(Tail(s)) /\ span \notin SpansOf(Tail(s))
  BY <1>1, <1>2, TailSpans DEF Entries
<1> HIDE DEF span
<1>4. span \notin SpansOf(buffer)
  BY <1>3 DEF ExportInv, SentOnce
<1>5. /\ buffer' \in Seq(Entries) /\ DistinctSpans(buffer)'
      /\ SpansOf(buffer)' \subseteq SpansOf(buffer) \cup {span}
      /\ lock' \in {"free", "worker", "loop"}
  BY <1>1, <1>2, <1>3, <1>4, PutAdds
<1>6. eventLoop'.hand = Tail(s) /\ LoopOK'
      /\ eventLoop' \in [pc : {"free", "sending", "returning", "flushing", "joining",
                              "closed"}, hand : Seq(Entries)]
  BY <1>1, <1>3 DEF LoopOK
<1>7. SpansOf(buffer) \cap SpansOf(s) = {}
  BY DEF ExportInv, SentOnce
<1> HIDE DEF s
<1>8. SpansOf(buffer)' \cap SpansOf(eventLoop.hand)' = {}
  BY <1>3, <1>5, <1>6, <1>7
<1>9. SpansOf(buffer)' \cup SpansOf(eventLoop.hand)'
        \subseteq SpansOf(buffer) \cup SpansOf(eventLoop.hand)
  BY <1>3, <1>5, <1>6 DEF s
<1> QED  BY <1>1, <1>5, <1>6, <1>8, <1>9, LoopMoves

\* A send empties the hand or fails and leaves it; a flush or a retry ends with it empty.
LEMMA LoopGoesKeeps ==
  ASSUME ExportInv,
         \/ SendAccepted \/ SendFails \/ FlushFails \/ RetryEnds \/ ShutdownBegins
         \/ ShutdownEnds
  PROVE  ExportInv'
<1> DEFINE LoopType == [pc : {"free", "sending", "returning", "flushing", "joining",
                              "closed"}, hand : Seq(Entries)]
<1>1. /\ ExportTypeOK /\ buffer \in Seq(Entries) /\ eventLoop \in LoopType
      /\ DistinctSpans(buffer) /\ LoopOK /\ lock \in {"free", "worker", "loop"}
      /\ SpansOf(buffer) \cap SpansOf(eventLoop.hand) = {}
  BY ExportInvUnfolds DEF ExportTypeOK
<1>2. CASE ShutdownEnds
  <2>1. /\ eventLoop' = [pc |-> "closed", hand |-> eventLoop.hand] /\ eventLoop.hand = <<>>
        /\ worker.pc = "ended"
        /\ UNCHANGED <<lock, worker, delivered, lost>>
        /\ buffer' = <<>> /\ kept' = kept \cup SpansOf(buffer)
    BY <1>1, <1>2 DEF ShutdownEnds, TakeAll, LoopOK
  <2>2. SpansOf(buffer)' = {} /\ SpansOf(eventLoop.hand)' = {} /\ DistinctSpans(buffer)'
    BY <2>1, NoSpans
  <2>3. ExportTypeOK'
    BY <1>1, <2>1, PlacesTyped DEF ExportTypeOK
  <2>4. LoopOK'
    BY <1>1, <2>1 DEF LoopOK
  <2>5. WorkerOK'
    BY <2>1, <2>2 DEF ExportInv, WorkerOK
  <2> QED  BY <2>2, <2>3, <2>4, <2>5 DEF ExportInv, SentOnce, RefusedAreKept, DistinctSpans
<1>3. CASE SendAccepted \/ SendFails \/ FlushFails \/ RetryEnds \/ ShutdownBegins
  <2>1. /\ UNCHANGED <<lock, buffer, worker, lost, kept>>
        /\ \/ delivered' = delivered /\ eventLoop' = Free
           \/ delivered' = delivered \cup SpansOf(eventLoop.hand) /\ eventLoop' = Free
           \/ /\ delivered' = delivered
              /\ eventLoop' = [pc |-> "returning", hand |-> eventLoop.hand]
           \/ /\ delivered' = delivered /\ eventLoop.hand = <<>>
              /\ eventLoop' = [pc |-> "joining", hand |-> eventLoop.hand]
    BY <1>1, <1>3 DEF SendAccepted, SendFails, FlushFails, RetryEnds, ShutdownBegins, Free
  <2>2. /\ eventLoop' \in LoopType /\ SpansOf(eventLoop'.hand) \subseteq SpansOf(eventLoop.hand)
        /\ delivered' # delivered => SpansOf(eventLoop'.hand) = {}
    <3>1. CASE eventLoop' = Free
      <4>1. Free \in LoopType /\ Free.hand = <<>>
        BY DEF Free
      <4> QED  BY <3>1, <4>1, NoSpans
    <3>2. CASE delivered' = delivered
               /\ \E pc \in {"returning", "joining"} :
                    eventLoop' = [pc |-> pc, hand |-> eventLoop.hand]
      BY <1>1, <3>2
    <3> QED  BY <2>1, <3>1, <3>2
  <2>3. LoopOK'
    BY <1>1, <2>1, NoSpans DEF LoopOK, Free
  <2> HIDE DEF LoopType
  <2>4. /\ delivered \subseteq delivered'
        /\ delivered' \ delivered \subseteq SpansOf(eventLoop.hand)
    BY <2>1
  <2>5. /\ SpansOf(buffer)' = SpansOf(buffer)
        /\ SpansOf(eventLoop.hand)' \subseteq SpansOf(eventLoop.hand)
        /\ DistinctSpans(buffer)' /\ buffer' = buffer /\ lock' = lock
        /\ delivered' = delivered \/ SpansOf(eventLoop.hand)' = {}
    <3>1. buffer' = buffer /\ lock' = lock
      BY <2>1
    <3>2. SpansOf(buffer)' = SpansOf(buffer) /\ DistinctSpans(buffer)'
      BY <1>1, <3>1 DEF SpansOf, DistinctSpans
    <3> QED  BY <2>2, <3>1, <3>2
  <2>6. /\ SpansOf(buffer)' \cup SpansOf(eventLoop.hand)' \cup (delivered' \ delivered)
             \subseteq SpansOf(buffer) \cup SpansOf(eventLoop.hand)
        /\ SpansOf(buffer)' \cap SpansOf(eventLoop.hand)' = {}
        /\ (delivered' \ delivered)
             \cap (SpansOf(buffer)' \cup SpansOf(eventLoop.hand)') = {}
    BY <1>1, <2>4, <2>5
  <2>7. buffer' \in Seq(Entries) /\ lock' \in {"free", "worker", "loop"}
    BY <1>1, <2>5
  <2>8. UNCHANGED <<worker, lost, kept>>
    BY <2>1
  <2> QED  BY <2>2, <2>3, <2>4, <2>5, <2>6, <2>7, <2>8, LoopMoves DEF LoopType
<1> QED  BY <1>2, <1>3

\* Entries age and stay where they are.
LEMMA AgesKeep ==
  ASSUME ExportInv, TimePasses
  PROVE  ExportInv'
<1>1. /\ buffer \in Seq(Entries) /\ eventLoop' = eventLoop
      /\ UNCHANGED <<lock, worker, eventLoop, delivered, lost, kept>>
      /\ buffer' = [i \in DOMAIN buffer |-> [buffer[i] EXCEPT !.age = Older(@)]]
      /\ DistinctSpans(buffer)
  BY ExportInvUnfolds DEF TimePasses, ExportTypeOK
<1>2. DOMAIN buffer = 1..Len(buffer) /\ Len(buffer) \in Nat
      /\ \A i \in DOMAIN buffer : buffer[i] \in Entries
  BY <1>1
<1>3. DOMAIN buffer' = DOMAIN buffer
      /\ \A i \in DOMAIN buffer : buffer'[i] \in Entries /\ buffer'[i].span = buffer[i].span
  BY <1>1, <1>2 DEF Entries, Ages, Older
<1>4. buffer' \in Seq(Entries)
  <2>1. buffer' \in [1..Len(buffer) -> Entries]
    BY <1>1, <1>2, <1>3
  <2> QED  BY <1>2, <2>1
<1>5. SpansOf(buffer)' = SpansOf(buffer) /\ DistinctSpans(buffer)'
  BY <1>1, <1>3 DEF SpansOf, DistinctSpans
<1>6. /\ lock' \in {"free", "worker", "loop"} /\ LoopOK'
      /\ eventLoop' \in [pc : {"free", "sending", "returning", "flushing", "joining",
                              "closed"}, hand : Seq(Entries)]
      /\ SpansOf(buffer)' \cap SpansOf(eventLoop.hand)' = {}
  BY <1>1, <1>5 DEF ExportInv, ExportTypeOK, LoopOK, SentOnce
<1> QED  BY <1>1, <1>4, <1>5, <1>6, LoopMoves

-----------------------------------------------------------------------------

\* Induction over the steps of both threads.
LEMMA ExportInvariant == ExportSpec => []ExportInv
<1>1. ExportInit => ExportInv
  <2> SUFFICES ASSUME ExportInit PROVE ExportInv
    OBVIOUS
  <2>1. ExportTypeOK
    <3>1. <<>> \in Seq(Entries) /\ <<>> \in Seq(Spans)
      OBVIOUS
    <3>2. /\ Idle \in [pc : {"idle", "primary", "buffering", "ended"},
                      batch : Seq(Spans), todo : Seq(Spans)]
          /\ Free \in [pc : {"free", "sending", "returning", "flushing", "joining",
                            "closed"}, hand : Seq(Entries)]
      BY <3>1 DEF Idle, Free
    <3> QED  BY <3>1, <3>2 DEF ExportInit, ExportTypeOK
  <2>2. /\ SpansOf(buffer) = {} /\ SpansOf(eventLoop.hand) = {} /\ DistinctSpans(buffer)
        /\ worker.pc = "idle" /\ worker.batch = <<>> /\ worker.todo = <<>>
        /\ ToSet(worker.batch) = {} /\ ToSet(worker.todo) = {}
    BY NoSpans DEF ExportInit, Idle, Free
  <2>3. WorkerOK
    BY <2>2 DEF WorkerOK
  <2>4. LoopOK
    BY NoSpans DEF ExportInit, LoopOK, Free
  <2> QED  BY <2>1, <2>2, <2>3, <2>4, ExportInvUnfolds
<1>2. ExportInv /\ [ExportNext]_exportVars => ExportInv'
  <2> SUFFICES ASSUME ExportInv, [ExportNext]_exportVars PROVE ExportInv'
    OBVIOUS
  <2>1. CASE \E B \in SUBSET Fresh : ExportBegins(B)
    BY <2>1, BeginsKeeps
  <2>2. CASE WorkerStep
    BY <2>2, PrimaryKeeps, RefusesKeeps, WorkerPutsKeeps, FallsBackKeeps DEF WorkerStep
  <2>3. CASE EventLoopStep \/ ShutdownBegins
    BY <2>3, LoopGoesKeeps, PutsBackKeeps DEF EventLoopStep
  <2>4. CASE RetryTakes \/ CleanupExpired \/ ForceFlush
    BY <2>4, TakesKeeps
  <2>5. CASE TimePasses
    BY <2>5, AgesKeep
  <2>6. CASE UNCHANGED exportVars
    BY <2>6 DEF exportVars, ExportInv, ExportTypeOK, SentOnce, RefusedAreKept, WorkerOK,
       LoopOK, DistinctSpans
  <2> QED  BY <2>1, <2>2, <2>3, <2>4, <2>5, <2>6 DEF ExportNext
<1> QED  BY <1>1, <1>2, PTL DEF ExportSpec

\* Locks, batches, hands and the buffer of the exporter keep their types
\* (core/resilient_exporter.py), for any spans, batches and sizes.
THEOREM ExporterTyped == ExportSpec => []ExportTypeOK
<1>1. ExportInv => ExportTypeOK
  BY DEF ExportInv
<1> QED  BY <1>1, ExportInvariant, PTL

\* No span is sent again twice: the buffer and the hand of the retry task never
\* hold the same span twice, nor one the collector already has (export,
\* _retry_buffered_spans), however exports, retries and flushes interleave.
THEOREM SpansAreSentOnce == ExportSpec => []SentOnce
<1>1. ExportInv => SentOnce
  BY DEF ExportInv
<1> QED  BY <1>1, ExportInvariant, PTL

\* What the primary exporter refused has been given to the fallback before it
\* waits in the buffer, so that what ages out of it, is pushed out of it or is
\* dropped by a flush is not lost (export, cleanup_expired, force_flush).
THEOREM RefusedSpansAreKept == ExportSpec => []RefusedAreKept
<1>1. ExportInv => RefusedAreKept
  BY DEF ExportInv
<1> QED  BY <1>1, ExportInvariant, PTL

HIDE SpanExportAssumption

-----------------------------------------------------------------------------
(* The three parts together: they share no state, so that a behaviour of the
   process is one of each part. *)
LEMMA RuntimeIsItsParts == RuntimeSpec => WorkerSpec /\ Spec /\ ExportSpec
<1>1. RuntimeInit => WorkerInit /\ Init /\ ExportInit
  BY DEF RuntimeInit
<1>2. [RuntimeNext]_runtimeVars =>
        [WorkerNext]_workerVars /\ [Next]_vars /\ [ExportNext]_exportVars
  <2> SUFFICES ASSUME [RuntimeNext]_runtimeVars
               PROVE  [WorkerNext]_workerVars /\ [Next]_vars /\ [ExportNext]_exportVars
    OBVIOUS
  <2>1. CASE OfWorkers(WorkerNext)
    BY <2>1 DEF OfWorkers
  <2>2. CASE OfBreaker(Next)
    BY <2>2 DEF OfBreaker
  <2>3. CASE OfExporter(ExportNext)
    BY <2>3 DEF OfExporter
  <2>4. CASE UNCHANGED runtimeVars
    BY <2>4 DEF runtimeVars
  <2> QED
    BY <2>1, <2>2, <2>3, <2>4 DEF RuntimeNext
<1> QED
  BY <1>1, <1>2, PTL DEF RuntimeSpec, WorkerSpec, Spec, ExportSpec

\* While the workers, the breaker and the exporter run in one process each keeps
\* the types of its state, and a claimed task stays in one place of one worker.
THEOREM RuntimeTyped == RuntimeSpec => []RuntimeTypeOK
<1>1. WorkerTypeOK /\ TypeOK /\ ExportTypeOK => RuntimeTypeOK
  BY DEF RuntimeTypeOK
<1> QED
  BY <1>1, RuntimeIsItsParts, TasksInOnePlace, BreakerTypeCorrect, ExporterTyped, PTL
=============================================================================
