CONSTANTS
  p1 = p1
  p2 = p2
  u1 = u1
  u2 = u2
  en = en
  de = de
\* AgentExecutions
  AgentRequests = {"r1", "r2"}
  AgentUsers = {u1, u2}
  AgentProjects = {p1, p2}
  ProjectOwner <- MCProjectOwner
  AskedStatus = {"running"}
  ExecutionIds = {"e1", "e2"}
  NoExecution = NoExecution
\* TokenBucket
  BucketClients = {"c1", "c2"}
  BucketLimit = 3
  BucketWindow = 2
  BucketCosts = {1, 2}
  MaxBucketTime = 7
  MaxScriptLag = 2
\* ProgressStream
  Streams = {"s1", "s2"}
  Operations = {"o1", "o2"}
  MaxEvents = 2
\* VectorStore
  VectorRequests = {"v1", "v2"}
  VectorContexts <- MCVectorContexts
  PointIds = {"i1"}
  IndexFields = {"f1", "f2"}
  UpsertBatch = 1
  SearchLimit = 1
\* IsolatedRedis
  CacheClients = {"c1", "c2"}
  CacheProjects = {p1, p2}
  MaxPushed = 2
\* RedisConnections
  ConnUsers = {"a", "b"}
  ConnProjects = {p1}
  DefaultKey = "default"
  PoolIds = {1, 2, 3, 4}
  LoopIds = {1, 2}
  NoPool = NoPool
  NoLoop = NoLoop
  NoUser = NoUser
  NoProject = NoProject
\* DatabaseBackup
  BackupJobs = {"j1", "j2"}
  BackupKinds = {"full", "wal"}
  MaxBackupTime = 1
  MaxBackups = 2
  MaxBackupRun = 0
  BackupRetention = 1
\* AppLifespan
  Monitors <- MCMonitors
  Collectors = {"metrics"}
  Stops = {"m1", "m2"}
  TaskIds = {"k1", "k2"}
  NoTask = "no task"
SPECIFICATION Spec
INVARIANTS ServicesTypeOK BucketWithinRate  InitializedIsIndexed
   OnePoolPerProject  ShutdownIsComplete
PROPERTIES OnlyOwnersChange AnswersInContext
