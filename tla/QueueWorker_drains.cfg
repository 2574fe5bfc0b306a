\* Violated: a dequeue in flight hands its task over after stop() returned.
CONSTANTS
  w1 = w1
  w2 = w2
  t1 = t1
  t2 = t2
  t3 = t3
  Workers = {w1, w2}
  Tasks = {t1, t2, t3}
  MaxConcurrent = 1
SPECIFICATION WorkerSpec
INVARIANTS StopDrains
\* A stopped pool with no work left does nothing more.
CHECK_DEADLOCK FALSE
