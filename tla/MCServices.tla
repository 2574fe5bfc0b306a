----------------------------- MODULE MCServices -----------------------------
(* The services that share no state with one another, each checked on its    *)
(* own instance: part names the one a behaviour is about, the others stay as *)
(* they begin.  Two projects with an owner each, two languages of the first. *)
EXTENDS AgentExecutions, TokenBucket, ProgressStream, VectorStore, IsolatedRedis,
        RedisConnections, DatabaseBackup, AppLifespan, TLC

CONSTANTS p1, p2, u1, u2, en, de

VARIABLE part

MCProjectOwner == p1 :> u1 @@ p2 :> u2
MCVectorContexts == {[project |-> p1, language |-> en], [project |-> p1, language |-> de],
                     [project |-> p2, language |-> en]}
MCMonitors == <<"metrics", "health">>

\* Only the part a behaviour is about begins in more than one state.
Init ==
  /\ part \in {"agents", "bucket", "streams", "vector", "cache", "connections",
               "backups", "lifespan"}
  /\ AgentsInit /\ BucketInit /\ StreamInit /\ VectorInit
  /\ CacheInit /\ ConnInit /\ BackupInit /\ LifeInit
  /\ part = "backups" \/ compression = "gzip"
  /\ part = "streams" \/ \A s \in Streams : streamOf[s] = "o1"

NotAgents == UNCHANGED agentVars
NotBucket == UNCHANGED bucketVars
NotStreams == UNCHANGED streamVars
NotVector == UNCHANGED vectorVars
NotCache == UNCHANGED cacheVars
NotConnections == UNCHANGED connVars
NotBackups == UNCHANGED backupVars
NotLifespan == UNCHANGED lifeVars

Next ==
  /\ UNCHANGED part
  /\ \/ /\ part = "agents" /\ AgentsNext
        /\ NotBucket /\ NotStreams /\ NotVector
        /\ NotCache /\ NotConnections /\ NotBackups /\ NotLifespan
     \/ /\ part = "bucket" /\ BucketNext
        /\ NotAgents /\ NotStreams /\ NotVector
        /\ NotCache /\ NotConnections /\ NotBackups /\ NotLifespan
     \/ /\ part = "streams" /\ StreamNext
        /\ NotAgents /\ NotBucket /\ NotVector
        /\ NotCache /\ NotConnections /\ NotBackups /\ NotLifespan
     \/ /\ part = "vector" /\ VectorNext
        /\ NotAgents /\ NotBucket /\ NotStreams
        /\ NotCache /\ NotConnections /\ NotBackups /\ NotLifespan
     \/ /\ part = "cache" /\ CacheNext
        /\ NotAgents /\ NotBucket /\ NotStreams
        /\ NotVector /\ NotConnections /\ NotBackups /\ NotLifespan
     \/ /\ part = "connections" /\ ConnNext
        /\ NotAgents /\ NotBucket /\ NotStreams
        /\ NotVector /\ NotCache /\ NotBackups /\ NotLifespan
     \/ /\ part = "backups" /\ BackupNext
        /\ NotAgents /\ NotBucket /\ NotStreams
        /\ NotVector /\ NotCache /\ NotConnections /\ NotLifespan
     \/ /\ part = "lifespan" /\ LifeNext
        /\ NotAgents /\ NotBucket /\ NotStreams
        /\ NotVector /\ NotCache /\ NotConnections /\ NotBackups

servicesVars == <<part, agentVars, bucketVars, streamVars, vectorVars, cacheVars,
                  connVars, backupVars, lifeVars>>

Spec == Init /\ [][Next]_servicesVars

\* Every variable of the service a behaviour is about keeps its type; those of
\* the others do not change.
ServicesTypeOK ==
  CASE part = "agents" -> AgentsTypeOK
    [] part = "bucket" -> BucketTypeOK
    [] part = "streams" -> StreamTypeOK
    [] part = "vector" -> VectorTypeOK
    [] part = "cache" -> CacheTypeOK
    [] part = "connections" -> ConnTypeOK
    [] part = "backups" -> BackupTypeOK
    [] part = "lifespan" -> LifeTypeOK
=============================================================================
