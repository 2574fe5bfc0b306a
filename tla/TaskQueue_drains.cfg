\* Two workers, two jobs of one attempt: no two owners, and the sorted set empties.
CONSTANTS
  w1 = w1
  w2 = w2
  None = None
  Tasks <- MCTasks2
  Workers = {w1, w2}
  Operators = {}
  MaxSize = 16
  MaxJobs = 2
  MaxAttempts = 1
  DefaultAttempts = 1
  NormalLevel = 1
  TopLevel = 2
SPECIFICATION FairSpec
 
PROPERTIES QueueDrains
\* The id pool runs out: the bounded model stops.
CHECK_DEADLOCK FALSE
