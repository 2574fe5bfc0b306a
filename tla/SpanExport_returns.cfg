\* A buffer of three spans that is saved when it holds two, as the code's one of
\* 10000 is when it holds 100.
CONSTANTS
  s1 = s1
  s2 = s2
  s3 = s3
  Spans = {s1, s2, s3}
  MaxBatch = 2
  MaxSize = 3
  BackupEvery = 2
SPECIFICATION ExportFairSpec
PROPERTY ExportReturns
\* An exporter that was shut down does nothing more.
CHECK_DEADLOCK FALSE
