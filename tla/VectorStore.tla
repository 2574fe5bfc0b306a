---------------------------- MODULE VectorStore ----------------------------
(***************************************************************************)
(* Vector points in one Qdrant collection for all projects (core/vector.py,*)
(* services/vector/, api/endpoints/vector.py).  A request is a sequence of *)
(* calls of the server, each in a thread, between which other requests of  *)
(* this and of other processes go on.  Initialisation looks for the        *)
(* collection, creates it and then its payload indexes, without a lock;    *)
(* what failed is tried again some times.  Reads take a context, a project *)
(* and a language; writes by point id do not look at whose the point is.   *)
(* Vectors, scores, the other filters, spans and metrics are left out.     *)
(***************************************************************************)
EXTENDS Naturals, Sequences, FiniteSets

CONSTANTS
  VectorRequests,
  VectorContexts,   \* [project, language] records that are asked for
  PointIds,
  IndexFields,      \* payload fields with an index, five in the code
  UpsertBatch,      \* MAX_BATCH_SIZE
  SearchLimit

ASSUME VectorAssumption ==
  /\ UpsertBatch \in Nat \ {0}
  /\ SearchLimit \in Nat \ {0}
  /\ IsFiniteSet(IndexFields)
  /\ \A c \in VectorContexts : c = [project |-> c.project, language |-> c.language]

VARIABLES
  collection,     \* the collection exists
  indexed,        \* fields with an index
  points,         \* id -> payload, or NoPoint
  vectorReady,    \* _initialized
  recreated,      \* the collection has been deleted once
  vectorAt,       \* the next step of a request
  vectorAsk,      \* what was asked
  vectorLeft,     \* what is still to do: fields to index, ids to send
  vectorAnswer    \* payloads a get or a search has returned

vectorVars == <<collection, indexed, points, vectorReady, recreated, vectorAt,
                vectorAsk, vectorLeft, vectorAnswer>>

NoPoint == [project |-> "none", language |-> "none"]
NoVectorAsk == [op |-> "none"]
VectorLabels ==
  {"idle", "exists", "create", "index", "upsert", "retrieve", "search", "delete",
   "count", "purge", "drop", "health", "schema", "statistics", "test"}

VectorAsks ==
  [op : {"initialize", "recreate", "health", "statistics", "test"}]
  \cup [op : {"search", "upsert", "delete", "purge"}, context : VectorContexts]
  \cup [op : {"get"}, context : VectorContexts, id : PointIds]

VectorGoes(r, label) == vectorAt' = [vectorAt EXCEPT ![r] = label]
Remains(r, S) == vectorLeft' = [vectorLeft EXCEPT ![r] = S]
VectorEnds(r) ==
  /\ VectorGoes(r, "idle")
  /\ Remains(r, {})
  /\ vectorAsk' = [vectorAsk EXCEPT ![r] = NoVectorAsk]
Stored == <<collection, indexed, points>>

\* The mandatory filter of searches, counts and deletions by context.
Matches(context, payload) == payload = context

-----------------------------------------------------------------------------
Begins(r, q, label, ids) ==
  /\ vectorAt[r] = "idle"
  /\ VectorGoes(r, label)
  /\ vectorAsk' = [vectorAsk EXCEPT ![r] = q]
  /\ Remains(r, ids)
  /\ vectorAnswer' = [vectorAnswer EXCEPT ![r] = {}]
  /\ UNCHANGED <<Stored, vectorReady, recreated>>

\* The endpoints of points refuse before the initialisation ...
GetVectorRepository == vectorReady

SearchVectors(r, context) ==
  GetVectorRepository /\ Begins(r, [op |-> "search", context |-> context], "search", {})
UpsertVectors(r, context, ids) ==
  GetVectorRepository /\ Begins(r, [op |-> "upsert", context |-> context], "upsert", ids)
GetPoint(r, context, i) ==
  GetVectorRepository
    /\ Begins(r, [op |-> "get", context |-> context, id |-> i], "retrieve", {})
DeletePoints(r, context, ids) ==
  GetVectorRepository /\ Begins(r, [op |-> "delete", context |-> context], "delete", ids)
DeleteByFilter(r, context) ==
  GetVectorRepository /\ Begins(r, [op |-> "purge", context |-> context], "count", {})

\* Test endpoints: points with new ids; a search with an argument the service
\* does not take, and a mix of such searches and of points of a type that is
\* none, which fail.
TestVectorUpsert(r, context, ids) ==
  (\A i \in ids : points[i] = NoPoint) /\ UpsertVectors(r, context, ids)
TestVectorSearch(r) == GetVectorRepository /\ Begins(r, [op |-> "test"], "test", {})
TestMixedWorkload(r) == Begins(r, [op |-> "test"], "test", {})

\* ... health and statistics start it, as the application does.
LazyStart(label) == IF vectorReady THEN label ELSE "exists"
HealthCheck(r) == Begins(r, [op |-> "health"], LazyStart("health"), {})
GetStatistics(r) == Begins(r, [op |-> "statistics"], LazyStart("statistics"), {})
InitializesVector(r) ==
  ~ vectorReady /\ Begins(r, [op |-> "initialize"], "exists", {})
RecreateCollection(r) == Begins(r, [op |-> "recreate"], "drop", {})

\* Any call may fail and end the request.
VectorFails(r) ==
  /\ vectorAt[r] # "idle"
  /\ VectorEnds(r)
  /\ UNCHANGED <<Stored, vectorReady, recreated, vectorAnswer>>

-----------------------------------------------------------------------------
(* Initialisation: initialize_collection and create_indexes. *)

LooksForCollection(r) ==
  /\ vectorAt[r] = "exists"
  /\ VectorGoes(r, IF collection THEN "index" ELSE "create")
  /\ Remains(r, IndexFields)
  /\ UNCHANGED <<Stored, vectorReady, recreated, vectorAsk, vectorAnswer>>

\* It fails when another request has created it meanwhile.
CreatesCollection(r) ==
  /\ vectorAt[r] = "create" /\ ~ collection
  /\ collection' = TRUE
  /\ VectorGoes(r, "index")
  /\ UNCHANGED <<indexed, points, vectorReady, recreated, vectorAsk, vectorLeft,
                 vectorAnswer>>

CreatesIndex(r, f) ==
  /\ vectorAt[r] = "index" /\ f \in vectorLeft[r]
  /\ collection
  /\ indexed' = indexed \cup {f}
  /\ Remains(r, vectorLeft[r] \ {f})
  /\ UNCHANGED <<collection, points, vectorReady, recreated, vectorAt, vectorAsk,
                 vectorAnswer>>

\* The retries of the indexes start with the first field, those of the
\* collection and of the manager with the look.
RetriesVector(r) ==
  /\ vectorAt[r] \in {"exists", "create", "index"}
  /\ Remains(r, IndexFields)
  /\ \E label \in {"exists", "index"} :
       /\ label = "index" => vectorAt[r] = "index"
       /\ VectorGoes(r, label)
  /\ UNCHANGED <<Stored, vectorReady, recreated, vectorAsk, vectorAnswer>>

\* mutant: a field whose index fails is passed over
SomeIndexed(r) == vectorAt[r] = "index" /\ vectorLeft[r] # IndexFields

AllIndexed(r) == vectorAt[r] = "index" /\ vectorLeft[r] = {}

\* _initialized is set by the manager; a recreation ends without it.
VectorInitialized(r) ==
  /\ AllIndexed(r)
  /\ vectorReady' = (vectorReady \/ vectorAsk[r].op # "recreate")
  /\ IF vectorAsk[r].op \in {"health", "statistics"}
       THEN VectorGoes(r, vectorAsk[r].op) /\ UNCHANGED <<vectorAsk, vectorLeft>>
       ELSE VectorEnds(r)
  /\ UNCHANGED <<Stored, recreated, vectorAnswer>>

\* recreate_collection: the collection goes with its points and indexes; in
\* between there is none.
DropsCollection(r) ==
  /\ vectorAt[r] = "drop"
  /\ collection' = FALSE
  /\ indexed' = {}
  /\ points' = [i \in PointIds |-> NoPoint]
  /\ recreated' = (recreated \/ collection)
  /\ VectorGoes(r, "exists")
  /\ UNCHANGED <<vectorReady, vectorAsk, vectorLeft, vectorAnswer>>

CleansUpVector ==
  /\ vectorReady
  /\ vectorReady' = FALSE
  /\ UNCHANGED <<Stored, recreated, vectorAt, vectorAsk, vectorLeft, vectorAnswer>>

\* get_collection_health: without a collection the status is unhealthy ...
ChecksCollection(r) ==
  /\ vectorAt[r] = "health"
  /\ IF collection THEN VectorGoes(r, "schema") /\ UNCHANGED <<vectorAsk, vectorLeft>>
     ELSE VectorEnds(r)
  /\ UNCHANGED <<Stored, vectorReady, recreated, vectorAnswer>>

\* ... else it is what validate_schema finds then, which is looked up anew.
ValidatesSchema(r) ==
  /\ vectorAt[r] = "schema"
  /\ VectorEnds(r)
  /\ UNCHANGED <<Stored, vectorReady, recreated, vectorAnswer>>

\* The statistics, and the health that they include.
ReportsStatistics(r) ==
  /\ vectorAt[r] = "statistics"
  /\ VectorGoes(r, "health")
  /\ UNCHANGED <<Stored, vectorReady, recreated, vectorAsk, vectorLeft, vectorAnswer>>

-----------------------------------------------------------------------------
(* Points.  All points of an upsert have the project of its context. *)

\* A batch of at most MAX_BATCH_SIZE points.
Batches(ids) ==
  {b \in SUBSET ids : b = ids \/ Cardinality(b) = UpsertBatch} \cap
    {b \in SUBSET ids : Cardinality(b) <= UpsertBatch}

\* The batches sent before stay when a later one fails.
UpsertsBatch(r) ==
  /\ vectorAt[r] = "upsert" /\ collection
  /\ \E batch \in Batches(vectorLeft[r]) :
       /\ points' = [i \in PointIds |-> IF i \in batch THEN vectorAsk[r].context
                                                       ELSE points[i]]
       /\ IF batch = vectorLeft[r] THEN VectorEnds(r)
          ELSE Remains(r, vectorLeft[r] \ batch) /\ UNCHANGED <<vectorAt, vectorAsk>>
  /\ UNCHANGED <<collection, indexed, vectorReady, recreated, vectorAnswer>>

\* mutant: the endpoint does not compare the language
OfProject(context, payload) == payload.project = context.project

\* get_point_by_id compares the project, the endpoint both.
Readable(context, payload) ==
  payload.project = context.project /\ payload.language = context.language

GetsPoint(r) ==
  LET q == vectorAsk[r]  found == points[q.id] IN
  /\ vectorAt[r] = "retrieve" /\ collection
  /\ vectorAnswer' = [vectorAnswer EXCEPT
                        ![r] = IF Readable(q.context, found) THEN {found} ELSE {}]
  /\ VectorEnds(r)
  /\ UNCHANGED <<Stored, vectorReady, recreated>>

\* What the server finds: some of the nearest of those that match.
Nearest(context) ==
  {found \in SUBSET {i \in PointIds : Matches(context, points[i])} :
     Cardinality(found) <= SearchLimit}

\* search_similar skips payloads that do not match after all.
SearchesPoints(r) ==
  LET context == vectorAsk[r].context IN
  /\ vectorAt[r] = "search" /\ collection
  /\ \E found \in Nearest(context) :
       vectorAnswer' = [vectorAnswer EXCEPT
         ![r] = {points[i] : i \in {j \in found : Readable(context, points[j])}}]
  /\ VectorEnds(r)
  /\ UNCHANGED <<Stored, vectorReady, recreated>>

\* delete_points gives the client a condition on ids, and no project.  Where
\* the client takes it, the points go, whosever they are.
DeletesPoints(r) ==
  /\ vectorAt[r] = "delete" /\ collection
  /\ points' = [i \in PointIds |-> IF i \in vectorLeft[r] THEN NoPoint ELSE points[i]]
  /\ VectorEnds(r)
  /\ UNCHANGED <<collection, indexed, vectorReady, recreated, vectorAnswer>>

\* delete_by_filter counts first and returns that number.
CountsPoints(r) ==
  /\ vectorAt[r] = "count" /\ collection
  /\ VectorGoes(r, "purge")
  /\ UNCHANGED <<Stored, vectorReady, recreated, vectorAsk, vectorLeft, vectorAnswer>>

PurgesPoints(r) ==
  /\ vectorAt[r] = "purge" /\ collection
  /\ points' = [i \in PointIds |-> IF Matches(vectorAsk[r].context, points[i])
                                     THEN NoPoint ELSE points[i]]
  /\ VectorEnds(r)
  /\ UNCHANGED <<collection, indexed, vectorReady, recreated, vectorAnswer>>

VectorInit ==
  /\ collection = FALSE
  /\ indexed = {}
  /\ points = [i \in PointIds |-> NoPoint]
  /\ vectorReady = FALSE
  /\ recreated = FALSE
  /\ vectorAt = [r \in VectorRequests |-> "idle"]
  /\ vectorAsk = [r \in VectorRequests |-> NoVectorAsk]
  /\ vectorLeft = [r \in VectorRequests |-> {}]
  /\ vectorAnswer = [r \in VectorRequests |-> {}]

VectorStep(r) ==
  \/ \E context \in VectorContexts :
       \/ SearchVectors(r, context) \/ DeleteByFilter(r, context)
       \/ \E i \in PointIds : GetPoint(r, context, i)
       \/ \E ids \in SUBSET PointIds \ {{}} :
            \/ UpsertVectors(r, context, ids) \/ DeletePoints(r, context, ids)
            \/ TestVectorUpsert(r, context, ids)
  \/ TestVectorSearch(r) \/ TestMixedWorkload(r)
  \/ HealthCheck(r) \/ GetStatistics(r) \/ InitializesVector(r) \/ RecreateCollection(r)
  \/ VectorFails(r) \/ LooksForCollection(r) \/ CreatesCollection(r)
  \/ \E f \in IndexFields : CreatesIndex(r, f)
  \/ RetriesVector(r) \/ VectorInitialized(r) \/ DropsCollection(r)
  \/ ChecksCollection(r) \/ ValidatesSchema(r) \/ ReportsStatistics(r)
  \/ UpsertsBatch(r) \/ GetsPoint(r) \/ SearchesPoints(r)
  \/ DeletesPoints(r) \/ CountsPoints(r) \/ PurgesPoints(r)

VectorNext == CleansUpVector \/ \E r \in VectorRequests : VectorStep(r)

VectorSpec == VectorInit /\ [][VectorNext]_vectorVars
-----------------------------------------------------------------------------
\* Every variable keeps its type, and nothing is indexed or stored without a
\* collection.
VectorTypeOK ==
  /\ collection \in BOOLEAN /\ vectorReady \in BOOLEAN /\ recreated \in BOOLEAN
  /\ indexed \subseteq IndexFields
  /\ points \in [PointIds -> VectorContexts \cup {NoPoint}]
  /\ ~ collection => indexed = {} /\ points = [i \in PointIds |-> NoPoint]
  /\ vectorAt \in [VectorRequests -> VectorLabels]
  /\ vectorAsk \in [VectorRequests -> VectorAsks \cup {NoVectorAsk}]
  /\ vectorLeft \in [VectorRequests -> SUBSET (IndexFields \cup PointIds)]
  /\ vectorAnswer \in [VectorRequests -> SUBSET VectorContexts]

\* Until somebody recreates the collection, a process that is initialised
\* finds it with every index, however many initialisations ran at once and
\* whichever of their calls failed.
InitializedIsIndexed == vectorReady /\ ~ recreated => collection /\ indexed = IndexFields

\* A get answers the point as it is stored and only in the context it was
\* stored in, also when another request has overwritten the id meanwhile.
AnswersInContext ==
  [][\A r \in VectorRequests :
       vectorAnswer'[r] # {} /\ vectorAnswer'[r] # vectorAnswer[r] =>
         vectorAnswer'[r] = {vectorAsk[r].context}]_vectorVars
=============================================================================
