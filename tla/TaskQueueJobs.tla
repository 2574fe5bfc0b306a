---------------------------- MODULE TaskQueueJobs ----------------------------
(***************************************************************************)
(* TaskQueue implements JobQueue.  A job is named by the id its client was *)
(* given, the root of the ids of its retries.  The worker that retried a   *)
(* task keeps it until the mark "retrying" is written; by then the job is  *)
(* where the new id is.                                                    *)
(***************************************************************************)
EXTENDS TaskQueue

Handles(w) == cur[w] # None /\ pc[w] # "mark_retrying"

Waits(r)    == \E t \in zset : info[t].root = r
IsRun(r)    == \E w \in Workers : Handles(w) /\ info[cur[w]].root = r
IsDead(r)   == \E t \in dlq : info[t].root = r

IsRoot(t) == info[t] # None /\ info[t].root = t

JobPlace == [r \in Tasks |->
  IF ~ IsRoot(r) THEN "none"
  ELSE IF Waits(r) THEN "waiting"
  ELSE IF IsRun(r) THEN "running"
  ELSE IF IsDead(r) THEN "dead"
  ELSE "over"]
JobBudget == [r \in Tasks |-> IF IsRoot(r) THEN info[r].max ELSE 0]

Abstract == INSTANCE JobQueue
  WITH Jobs <- Tasks, Budgets <- Attempts,
       place <- JobPlace, budget <- JobBudget, runs <- execs

\* The queue keeps what JobQueue promises, through retries under new ids,
\* crashes, expiry, clean-up and requeued dead letters.
ImplementsJobQueue == Abstract!JobSpec
=============================================================================
