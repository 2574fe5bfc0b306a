--------------------------- MODULE IsolatedRedis ---------------------------
(***************************************************************************)
(* What the project cache, the sessions, progress trackers and task lists  *)
(* beside it, and the repository and strategies of rate limits do with     *)
(* Redis.  Every operation is a sequence of commands of the client that    *)
(* prefixes keys with the project; a command the client has no method for  *)
(* raises, which ends the operation and undoes nothing.  Since SETEX is    *)
(* such a command no value is ever stored: reads find nothing, and what    *)
(* follows a GET is not reached.  Only the task lists hold anything.       *)
(* Answers, metrics and spans are left out.                                *)
(***************************************************************************)
EXTENDS Naturals, Sequences, SequencesExt

CONSTANTS
  CacheClients,
  CacheProjects,
  MaxPushed       \* tasks pushed to the list of a project, at most

ASSUME CacheAssumption == MaxPushed \in Nat

VARIABLES
  redisLists,   \* Redis key of a list -> tasks, the head first
  cacheCalls,   \* a client's call: its project and the commands to come
  pushed,       \* tasks a project has pushed, in order
  removed       \* tasks that left its list: taken, lost or cleared

cacheVars == <<redisLists, cacheCalls, pushed, removed>>

CacheTasks == CacheProjects \X (1..MaxPushed)

NoCall == [project |-> "none", commands |-> <<>>]

-----------------------------------------------------------------------------
(* The client: ProjectIsolatedRedisClient. *)

\* CLEAR is the DELETE of a list, and RAISE a call the code gets wrong: a
\* missing argument, a project id that is none, a script never loaded.
IsolatedCommands ==
  {"get", "delete", "exists", "expire", "ttl", "hgetall", "lpush", "rpop",
   "lrange", "llen", "zcount", "zrange", "scan", "eval", "info", "clear"}

\* mutant: the prefix is left out
SharedKey(p, name) == <<name>>

MakeKey(p, name) == <<p, name>>

-----------------------------------------------------------------------------
(* The repositories (cache_repository.py).  Operations that answer without *)
(* a command, for want of an index, are not listed.                        *)

SaveProjectCache == <<"setex">>
UpdateAccessStats == <<"get", "setex">>
FindProjectCache == <<"get">> \o UpdateAccessStats
InvalidateProject == <<"scan">>          \* no key matches project:...
ProjectKeyOps == {<<"delete">>, <<"exists">>, <<"ttl">>, <<"expire">>}

SaveSession == <<"setex">>
FindSession == <<"get">>
DropSession == <<"delete">>
ExtendSession == <<"get", "setex">>
UpdateActivity == <<"get", "ttl", "setex">>

UpdateTaskStatus == <<"get", "setex">>
EnqueueTask == <<"lpush", "setex">>
DequeueTask == <<"rpop">> \o UpdateTaskStatus
QueueReads == {<<"lrange">>, <<"llen">>}
FindTask == <<"get">>
MoveToDeadLetter == FindTask             \* never found, so never added
ClearQueue == <<"llen", "clear">>

SaveProgress == <<"setex">>
FindProgress == <<"get">>
UpdateProgress == FindProgress \o SaveProgress
DropProgress == {<<"delete">>, <<"expire">>}

SaveRateLimit == <<"setex">>
FindRateLimit == <<"get">>
CheckAndIncrement == <<"pipeline">>
RateLimitReads == {FindRateLimit}
ResetWindow == <<"delete">>

ServerInfo == <<"info">>
SlowLog == <<"slowlog_get">>
ServerMetrics == ServerInfo \o ServerInfo \o ServerInfo \o ServerInfo

RepositoryOps ==
  {SaveProjectCache, FindProjectCache, UpdateAccessStats, InvalidateProject,
   SaveSession, FindSession, DropSession, ExtendSession, UpdateActivity,
   EnqueueTask, DequeueTask, UpdateTaskStatus, FindTask, MoveToDeadLetter, ClearQueue,
   SaveProgress, FindProgress, UpdateProgress,
   SaveRateLimit, FindRateLimit, CheckAndIncrement, ResetWindow,
   ServerInfo, SlowLog, ServerMetrics}
    \cup ProjectKeyOps \cup QueueReads \cup DropProgress \cup RateLimitReads

-----------------------------------------------------------------------------
(* The services (domain_services.py). *)

InvalidateProjectCaches == InvalidateProject
CreateSession == SaveSession
ValidateSession == FindSession \o SaveSession
RevokeSession == FindSession \o SaveSession
GrantProjectAccess == FindSession \o SaveSession
CheckRateLimit == CheckAndIncrement \o FindRateLimit \o FindRateLimit \o FindRateLimit
ResetRateLimit == ResetWindow
RateLimitStatus == FindRateLimit
CheckHealth == ServerInfo \o ServerInfo \o ServerInfo \o ServerInfo
ReadPerformance == SlowLog

ServiceOps ==
  {InvalidateProjectCaches, CreateSession, ValidateSession, RevokeSession,
   GrantProjectAccess, CheckRateLimit, ResetRateLimit, RateLimitStatus, CheckHealth,
   ReadPerformance}

-----------------------------------------------------------------------------
(* The manager (cache_manager.py) catches what these raise and answers     *)
(* False, None, 0 or, for a rate limit, that the request is allowed.  Its  *)
(* calls for sessions and statistics leave the project out or pass another *)
(* argument in its place.                                                  *)

CacheProjectData == SaveProjectCache
GetProjectData == FindProjectCache
InvalidateProjectCache == InvalidateProjectCaches
ContextOps == {<<"setex">>, <<"get">>}
CreateUserSession == CreateSession
UserSessionOps == {<<"raise">>}
LimitOps == {CheckRateLimit, RateLimitStatus}
ProgressOps == {SaveProgress, UpdateProgress}
GetProgress == FindProgress
StatisticsOps == {<<"raise">>}
AgentConfigOps == {<<"setex">>, <<"get">>}
ManagerHealth == CheckHealth

ManagerOps ==
  {CacheProjectData, GetProjectData, InvalidateProjectCache, CreateUserSession,
   GetProgress, ManagerHealth}
    \cup ContextOps \cup UserSessionOps \cup LimitOps \cup ProgressOps
    \cup StatisticsOps \cup AgentConfigOps

-----------------------------------------------------------------------------
(* rate_limit_repository.py: the scripts are loaded through a connection   *)
(* without a project, which fails, so that no check finds its script and   *)
(* all answer that the request is allowed.  strategies.py: the sliding and *)
(* fixed windows need a pipeline.                                          *)

LoadScripts == <<"raise">>
CheckSlidingWindow == <<"raise">>
CheckTokenBucket == <<"raise">>
CurrentUsage == <<"zcount", "zrange", "zrange">>
ForgetLimit == <<"delete">>
CleanupLimits == <<"raise">>
LimitMetrics == <<"keys">>
CheckLimit == <<"raise">>
LimitReads == {<<"zcount">>, <<"zrange">>}
ForgetWindow == <<"delete">>
SlidingWindowCheck == <<"pipeline">>
FixedWindowCheck == <<"pipeline">>
AdaptiveMultiplier == <<"get", "hgetall">>
AdaptiveCheck == AdaptiveMultiplier \o SlidingWindowCheck

LimitRepositoryOps ==
  {LoadScripts, CheckSlidingWindow, CheckTokenBucket, CurrentUsage, ForgetLimit,
   CleanupLimits, LimitMetrics, CheckLimit, ForgetWindow, SlidingWindowCheck,
   FixedWindowCheck, AdaptiveCheck} \cup LimitReads

CacheOps == RepositoryOps \cup ServiceOps \cup ManagerOps \cup LimitRepositoryOps

-----------------------------------------------------------------------------
CallsCache(c, p, op) ==
  /\ cacheCalls[c] = NoCall
  /\ cacheCalls' = [cacheCalls EXCEPT ![c] = [project |-> p, commands |-> op]]
  /\ UNCHANGED <<redisLists, pushed, removed>>

\* The command of c is sent and answered; after the last one the call ends.
CommandDone(c) ==
  LET rest == Tail(cacheCalls[c].commands) IN
  cacheCalls' = [cacheCalls EXCEPT
                   ![c] = IF rest = <<>> THEN NoCall ELSE [@ EXCEPT !.commands = rest]]

Sends(c, command) == cacheCalls[c] # NoCall /\ Head(cacheCalls[c].commands) = command
ListOf(c) == MakeKey(cacheCalls[c].project, "queue")

\* LPUSH: a new task, with an id of its own, enters at the head.
PushesTask(c) ==
  LET p == cacheCalls[c].project  t == <<p, Len(pushed[p]) + 1>> IN
  /\ Sends(c, "lpush")
  /\ Len(pushed[p]) < MaxPushed
  /\ redisLists' = [redisLists EXCEPT ![ListOf(c)] = <<t>> \o @]
  /\ pushed' = [pushed EXCEPT ![p] = Append(@, t)]
  /\ CommandDone(c)
  /\ UNCHANGED removed

\* mutant: LPOP, the newest task
EndTaken(list) == 1

EndOfList(list) == Len(list)

\* RPOP of a list that is not empty; the status of the task is read next.
PopsTask(c) ==
  LET p == cacheCalls[c].project  list == redisLists[ListOf(c)] IN
  /\ Sends(c, "rpop") /\ list # <<>>
  /\ redisLists' = [redisLists EXCEPT ![ListOf(c)] = RemoveAt(@, EndOfList(@))]
  /\ removed' = [removed EXCEPT ![p] = Append(@, list[EndOfList(list)])]
  /\ CommandDone(c)
  /\ UNCHANGED pushed

\* DELETE of the list: also what came after the LLEN goes.
ClearsList(c) ==
  LET p == cacheCalls[c].project IN
  /\ Sends(c, "clear")
  /\ redisLists' = [redisLists EXCEPT ![ListOf(c)] = <<>>]
  /\ removed' = [removed EXCEPT ![p] = @ \o Reverse(redisLists[ListOf(c)])]
  /\ CommandDone(c)
  /\ UNCHANGED pushed

\* GET or RPOP of what is not there: the operation answers None or False.
FindsNothing(c) ==
  /\ \/ Sends(c, "get")
     \/ Sends(c, "rpop") /\ redisLists[ListOf(c)] = <<>>
  /\ cacheCalls' = [cacheCalls EXCEPT ![c] = NoCall]
  /\ UNCHANGED <<redisLists, pushed, removed>>

\* The adaptive strategy goes on when there is no load and no history.
ReadsOn(c) ==
  /\ cacheCalls[c] # NoCall
  /\ \/ Head(cacheCalls[c].commands) \in
          IsolatedCommands \ {"get", "lpush", "rpop", "clear"}
     \/ cacheCalls[c].commands = AdaptiveCheck
  /\ CommandDone(c)
  /\ UNCHANGED <<redisLists, pushed, removed>>

\* The client has no such method, or Redis does not answer: what the earlier
\* commands did remains.
CommandRaises(c) ==
  /\ cacheCalls[c] # NoCall
  /\ cacheCalls' = [cacheCalls EXCEPT ![c] = NoCall]
  /\ UNCHANGED <<redisLists, pushed, removed>>

CacheInit ==
  /\ redisLists = [k \in {MakeKey(p, "queue") : p \in CacheProjects} |-> <<>>]
  /\ cacheCalls = [c \in CacheClients |-> NoCall]
  /\ pushed = [p \in CacheProjects |-> <<>>]
  /\ removed = [p \in CacheProjects |-> <<>>]

CacheStep(c) ==
  \/ \E p \in CacheProjects, op \in CacheOps : CallsCache(c, p, op)
  \/ PushesTask(c) \/ PopsTask(c) \/ ClearsList(c) \/ FindsNothing(c) \/ ReadsOn(c) \/ CommandRaises(c)

CacheNext == \E c \in CacheClients : CacheStep(c)

CacheSpec == CacheInit /\ [][CacheNext]_cacheVars
-----------------------------------------------------------------------------
\* Lists, calls and histories have their types, and a call under way has a
\* command to send.
CacheTypeOK ==
  /\ redisLists \in [{MakeKey(p, "queue") : p \in CacheProjects} -> Seq(CacheTasks)]
  /\ \A c \in CacheClients :
       cacheCalls[c] # NoCall => /\ cacheCalls[c].project \in CacheProjects
                                 /\ cacheCalls[c].commands # <<>>
  /\ pushed \in [CacheProjects -> Seq(CacheTasks)]
  /\ removed \in [CacheProjects -> Seq(CacheTasks)]

\* The list of a project is a queue of its own: whatever calls of the projects
\* interleave and whichever fail half way, tasks leave it in the order they
\* were pushed, none twice, and none of another project's.
ProjectListIsFifo ==
  \A p \in CacheProjects :
    removed[p] \o Reverse(redisLists[MakeKey(p, "queue")]) = pushed[p]
=============================================================================
