------------------------------ MODULE MCRuntime ------------------------------
(***************************************************************************)
(* Instances for TLC of the three parts of the process that must go on     *)
(* while what they depend on fails: the queue workers, the circuit breaker  *)
(* of Redis and the exporter of spans.  They share no state, so that a      *)
(* behaviour is one of one part, and the others keep their initial states.  *)
(***************************************************************************)
EXTENDS QueueWorker, RedisCircuitBreaker, SpanExport, TLC

VARIABLE part

runtimeVars == <<part, workerVars, vars, exportVars>>

RuntimeInit ==
  /\ part \in {"workers", "breaker", "exporter"}
  /\ WorkerInit /\ Init /\ ExportInit

OfWorkers(step) ==
  part = "workers" /\ step /\ UNCHANGED <<part, vars, exportVars>>
OfBreaker(step) ==
  part = "breaker" /\ step /\ UNCHANGED <<part, workerVars, exportVars>>
OfExporter(step) ==
  part = "exporter" /\ step /\ UNCHANGED <<part, workerVars, vars>>

RuntimeNext == OfWorkers(WorkerNext) \/ OfBreaker(Next) \/ OfExporter(ExportNext)

\* The fairness of the three specifications, each for its own behaviours.
RuntimeFairness ==
  /\ \A w \in Workers :
       /\ WF_runtimeVars(OfWorkers(LoopStep(w)))
       /\ WF_runtimeVars(OfWorkers(TaskAcquires(w)))
       /\ WF_runtimeVars(OfWorkers(StopStep(w)))
       /\ \A t \in Tasks : WF_runtimeVars(OfWorkers(TaskStep(w, t)))
  /\ WF_runtimeVars(OfWorkers(PoolStopReturns))
  /\ WF_runtimeVars(OfWorkers(PoolStartReturns))
  /\ \A c \in Callers :
       /\ WF_runtimeVars(OfBreaker(Call(c)))
       /\ SF_runtimeVars(OfBreaker(CallSucceeds(c) \/ CallFails(c)))
  /\ WF_runtimeVars(OfBreaker(RecoveryTimeoutElapses))
  /\ WF_runtimeVars(OfExporter(WorkerStep))
  /\ WF_runtimeVars(OfExporter(EventLoopStep))

RuntimeSpec ==
  RuntimeInit /\ [][RuntimeNext]_runtimeVars /\ RuntimeFairness

-----------------------------------------------------------------------------

\* Every variable of the three parts keeps its type; a claimed task is in one
\* place of one worker.
RuntimeTypeOK == WorkerTypeOK /\ TypeOK /\ ExportTypeOK
=============================================================================
