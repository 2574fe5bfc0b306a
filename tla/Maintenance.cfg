\* Three tasks, two calls, one permit and two rounds of patience: tasks queue
\* for the loop and for the semaphore, and calls time out.
CONSTANTS
  t1 = t1
  t2 = t2
  t3 = t3
  c1 = c1
  c2 = c2
  Tasks = {t1, t2, t3}
  Callers = {c1, c2}
  MaxConcurrent = 1
  MaxNeeds = 2
  Patience = 2
SPECIFICATION FairSpec
INVARIANTS RunsWithinLimit OnePlace QueueAdvances
PROPERTIES EndedIsFinal ScheduledEnds CallsReturn
