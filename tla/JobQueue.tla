------------------------------ MODULE JobQueue ------------------------------
(***************************************************************************)
(* What the task queue promises for a job, a task a client enqueued with   *)
(* all the tasks its retries make: it is in one place at a time, is        *)
(* delivered at most as often as it was given attempts, becomes a dead     *)
(* letter only when they are used up, and never comes back after that.     *)
(***************************************************************************)
EXTENDS Naturals

CONSTANTS Jobs, Budgets

VARIABLES
  place,    \* where a job is
  budget,   \* the attempts it was given
  runs      \* how often it has been delivered to a worker

jobVars == <<place, budget, runs>>

Places == {"none", "waiting", "running", "dead", "over"}

Moves(j, from, to) == place[j] = from /\ place' = [place EXCEPT ![j] = to]

Submit(j, b) ==
  /\ Moves(j, "none", "waiting")
  /\ budget' = [budget EXCEPT ![j] = b]
  /\ UNCHANGED runs

Deliver(j) ==
  /\ Moves(j, "waiting", "running")
  /\ runs[j] < budget[j]
  /\ runs' = [runs EXCEPT ![j] = @ + 1]
  /\ UNCHANGED budget

\* The queue does lose what it cannot read when it pops it.
Drop(j) == Moves(j, "waiting", "over") /\ UNCHANGED <<budget, runs>>

Retry(j) ==
  /\ Moves(j, "running", "waiting")
  /\ runs[j] < budget[j]
  /\ UNCHANGED <<budget, runs>>

\* It is completed, or lost with its worker or its expired data.
Finish(j) == Moves(j, "running", "over") /\ UNCHANGED <<budget, runs>>

Bury(j) ==
  /\ Moves(j, "running", "dead")
  /\ runs[j] = budget[j]
  /\ UNCHANGED <<budget, runs>>

Discard(j) == Moves(j, "dead", "over") /\ UNCHANGED <<budget, runs>>

JobInit ==
  /\ place = [j \in Jobs |-> "none"]
  /\ budget = [j \in Jobs |-> 0]
  /\ runs = [j \in Jobs |-> 0]

JobStep(j) ==
  \/ \E b \in Budgets : Submit(j, b)
  \/ Deliver(j) \/ Drop(j) \/ Retry(j) \/ Finish(j) \/ Bury(j) \/ Discard(j)

\* Every step moves a job.
JobNext == \E j \in {k \in Jobs : place'[k] # place[k]} : JobStep(j)

JobSpec == JobInit /\ [][JobNext]_jobVars
=============================================================================
