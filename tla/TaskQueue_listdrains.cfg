\* Violated: the project list never shrinks.
CONSTANTS
  w1 = w1
  None = None
  Tasks <- MCTasks3
  Workers = {w1}
  Operators = {}
  MaxSize = 12
  MaxJobs = 1
  MaxAttempts = 3
  DefaultAttempts = 3
  NormalLevel = 1
  TopLevel = 1
SPECIFICATION Spec
INVARIANTS ProjectListDrains
\* The id pool runs out: the bounded model stops.
CHECK_DEADLOCK FALSE
