\* One worker of capacity two with four tasks that come back for ever and a pool
\* that is stopped at any time; three calls in flight around thresholds of
\* three; a buffer of two spans, which overflows before it reaches a size at
\* which it is saved.  No symmetry: liveness is checked.
CONSTANTS
  w1 = w1
  t1 = t1
  t2 = t2
  t3 = t3
  t4 = t4
  Workers = {w1}
  Tasks = {t1, t2, t3, t4}
  MaxConcurrent = 2
  c1 = c1
  c2 = c2
  c3 = c3
  Callers = {c1, c2, c3}
  FailureThreshold = 3
  SuccessThreshold = 3
  s1 = s1
  s2 = s2
  s3 = s3
  Spans = {s1, s2, s3}
  MaxBatch = 2
  MaxSize = 2
  BackupEvery = 3
SPECIFICATION RuntimeSpec
INVARIANTS RuntimeTypeOK CountersMatchState ClaimBound SentOnce
  RefusedAreKept
PROPERTIES ClosesOnStreak CircuitRecovers ClaimedEnds
  ReturnsUnlessStuck
\* A stopped pool with no work left, and an exporter that was shut down, do
\* nothing more.
CHECK_DEADLOCK FALSE
