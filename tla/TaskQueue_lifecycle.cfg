\* One job through its budget of two attempts, its dead letter and an
\* operator's requeue, against a queue limit of three entries.
CONSTANTS
  w1 = w1
  w2 = w2
  o1 = o1
  None = None
  Tasks <- MCTasks3
  Workers = {w1, w2}
  Operators = {o1}
  MaxSize = 12
  MaxJobs = 1
  MaxAttempts = 2
  DefaultAttempts = 2
  NormalLevel = 1
  TopLevel = 1
SPECIFICATION Spec
SYMMETRY MCSymmetry
INVARIANTS TypeOK   
PROPERTIES DeadLetterNotLost
\* The id pool runs out: the bounded model stops.
CHECK_DEADLOCK FALSE
