-------------------------- MODULE AgentExecutions --------------------------
(***************************************************************************)
(* Agent executions of the projects (api/endpoints/agents.py, agents/):    *)
(* each request has a session, checks the project first and writes later.  *)
(* Creations and updates commit by themselves.  A workflow start opens a   *)
(* transaction in a session that has one, which fails; it then looks for   *)
(* its correlation id, marks what it finds as failed and raises, so that   *)
(* its session is rolled back.  Redis state and crew come after the        *)
(* failure and are never reached.                                          *)
(***************************************************************************)
CONSTANTS
  AgentRequests,
  AgentUsers,
  AgentProjects,
  ProjectOwner,   \* ProjectOwner[p]: created_by
  AskedStatus,    \* what updates ask for
  ExecutionIds,   \* pool of row ids; the correlation id of a row is its own
  NoExecution

ASSUME AgentsAssumption ==
  /\ ProjectOwner \in [AgentProjects -> AgentUsers]
  /\ NoExecution \notin ExecutionIds \cup AgentProjects

VARIABLES
  executions,  \* committed rows
  erased,      \* soft deleted projects
  agentAt,     \* the statement a request has come to
  agentAsk,    \* what was asked
  agentWrite   \* the uncommitted row of its transaction

agentVars == <<executions, erased, agentAt, agentAsk, agentWrite>>

ExecutionStatus == {"pending", "failed"} \cup AskedStatus
ExecutionRows == [project : AgentProjects, status : ExecutionStatus]
NoRow == [project |-> NoExecution, status |-> "none"]
NoAsk == [op |-> "none"]
NoAgentWrite == [id |-> NoExecution, row |-> NoRow]

AgentAsks ==
  [op : {"create", "read"}, user : AgentUsers, project : AgentProjects]
  \cup [op : {"update"}, user : AgentUsers, project : AgentProjects,
        id : ExecutionIds, status : AskedStatus]
  \cup [op : {"workflow"}, user : AgentUsers, project : AgentProjects,
        id : ExecutionIds \cup {NoExecution}]
AgentLabels == {"idle", "check", "insert", "select", "write", "mark", "raise", "commit"}

Recorded(e) == executions[e] # NoRow
Correlated(e) == e # NoExecution /\ Recorded(e)
Written(e) == \E s \in AgentRequests : agentWrite[s].id = e

AgentGoes(r, label) == agentAt' = [agentAt EXCEPT ![r] = label]
Writes(r, e, row) == agentWrite' = [agentWrite EXCEPT ![r] = [id |-> e, row |-> row]]
AgentEnds(r) ==
  /\ AgentGoes(r, "idle")
  /\ agentAsk' = [agentAsk EXCEPT ![r] = NoAsk]
  /\ agentWrite' = [agentWrite EXCEPT ![r] = NoAgentWrite]

-----------------------------------------------------------------------------
AsksAgents(r, q) ==
  /\ agentAt[r] = "idle"
  /\ AgentGoes(r, "check")
  /\ agentAsk' = [agentAsk EXCEPT ![r] = q]
  /\ UNCHANGED <<executions, erased, agentWrite>>

CreateAgentExecution(r, u, p) ==
  AsksAgents(r, [op |-> "create", user |-> u, project |-> p])
UpdateAgentExecution(r, u, p, e, s) ==
  AsksAgents(r, [op |-> "update", user |-> u, project |-> p, id |-> e, status |-> s])

\* The three reads differ only in what they select.
ReadOf(u, p) == [op |-> "read", user |-> u, project |-> p]
GetAgentExecution(r, u, p) == AsksAgents(r, ReadOf(u, p))
ListAgentExecutions(r, u, p) == AsksAgents(r, ReadOf(u, p))
GetAgentMetrics(r, u, p) == AsksAgents(r, ReadOf(u, p))

\* The correlation id comes with the request.
StartAgentWorkflow(r, u, p, e) ==
  AsksAgents(r, [op |-> "workflow", user |-> u, project |-> p, id |-> e])

OwnsProject(q) == ProjectOwner[q.project] = q.user /\ q.project \notin erased

\* The SELECT of the project that each operation begins with; a workflow also
\* compares the language.
ChecksProjectAccess(r) ==
  LET q == agentAsk[r] IN
  /\ agentAt[r] = "check"
  /\ OwnsProject(q)
  /\ AgentGoes(r, CASE q.op = "create" -> "insert"
                    [] q.op \in {"read", "update"} -> "select"
                    [] q.op = "workflow" -> "mark")
  /\ UNCHANGED <<executions, erased, agentAsk, agentWrite>>

\* 404, and 400 for a workflow, or a database error in any statement.
AgentRefused(r) ==
  /\ agentAt[r] # "idle"
  /\ AgentEnds(r)
  /\ UNCHANGED <<executions, erased>>

InsertsExecution(r) ==
  /\ agentAt[r] = "insert"
  /\ \E e \in ExecutionIds :
       /\ ~ Recorded(e) /\ ~ Written(e)
       /\ Writes(r, e, [project |-> agentAsk[r].project, status |-> "pending"])
  /\ AgentGoes(r, "commit")
  /\ UNCHANGED <<executions, erased, agentAsk>>

SelectsAndEnds(r) ==
  /\ agentAt[r] = "select" /\ agentAsk[r].op = "read"
  /\ AgentEnds(r)
  /\ UNCHANGED <<executions, erased>>

GetsById(r) == SelectsAndEnds(r)
GetsProjectExecutions(r) == SelectsAndEnds(r)
GetsMetrics(r) == SelectsAndEnds(r)

\* mutant: the project is left out of the WHERE clause
MatchedById(q) == Recorded(q.id)

Matched(q) == Recorded(q.id) /\ executions[q.id].project = q.project

SelectsExecution(r) ==
  /\ agentAt[r] = "select" /\ agentAsk[r].op = "update"
  /\ Matched(agentAsk[r])
  /\ AgentGoes(r, "write")
  /\ UNCHANGED <<executions, erased, agentAsk, agentWrite>>

\* An UPDATE by id; it waits for a transaction that has written the row.
UpdatesExecution(r) ==
  LET q == agentAsk[r] IN
  /\ agentAt[r] = "write"
  /\ ~ Written(q.id)
  /\ Writes(r, q.id, [executions[q.id] EXCEPT !.status = q.status])
  /\ AgentGoes(r, "commit")
  /\ UNCHANGED <<executions, erased, agentAsk>>

CommitsExecution(r) ==
  /\ agentAt[r] = "commit"
  /\ executions' = [executions EXCEPT ![agentWrite[r].id] = agentWrite[r].row]
  /\ AgentEnds(r)
  /\ UNCHANGED erased

\* mutant: the failure is recorded although the start has failed
AfterMark == "commit"

AfterFailure == "raise"

\* session.begin() has raised: fail_execution looks for the correlation id in
\* all projects and marks the row.
FailsExecution(r) ==
  LET e == agentAsk[r].id IN
  /\ agentAt[r] = "mark"
  /\ Correlated(e) /\ ~ Written(e)
  /\ Writes(r, e, [executions[e] EXCEPT !.status = "failed"])
  /\ AgentGoes(r, AfterFailure)
  /\ UNCHANGED <<executions, erased, agentAsk>>

\* The exception, that of the start or that of fail_execution (LookupError),
\* reaches the dependency, which rolls back.
WorkflowRaises(r) ==
  /\ \/ agentAt[r] = "raise"
     \/ agentAt[r] = "mark" /\ ~ Correlated(agentAsk[r].id)
  /\ AgentEnds(r)
  /\ UNCHANGED <<executions, erased>>

\* Another request deletes the project.
ErasesProject(p) ==
  /\ p \notin erased
  /\ erased' = erased \cup {p}
  /\ UNCHANGED <<executions, agentAt, agentAsk, agentWrite>>

-----------------------------------------------------------------------------
AgentsInit ==
  /\ executions = [e \in ExecutionIds |-> NoRow]
  /\ erased = {}
  /\ agentAt = [r \in AgentRequests |-> "idle"]
  /\ agentAsk = [r \in AgentRequests |-> NoAsk]
  /\ agentWrite = [r \in AgentRequests |-> NoAgentWrite]

AgentsStep(r) ==
  \/ \E u \in AgentUsers, p \in AgentProjects :
       \/ CreateAgentExecution(r, u, p)
       \/ \E e \in ExecutionIds, s \in AskedStatus : UpdateAgentExecution(r, u, p, e, s)
       \/ GetAgentExecution(r, u, p) \/ ListAgentExecutions(r, u, p)
       \/ GetAgentMetrics(r, u, p)
       \/ \E e \in ExecutionIds \cup {NoExecution} : StartAgentWorkflow(r, u, p, e)
  \/ ChecksProjectAccess(r) \/ AgentRefused(r)
  \/ InsertsExecution(r)
  \/ GetsById(r) \/ GetsProjectExecutions(r) \/ GetsMetrics(r)
  \/ SelectsExecution(r) \/ UpdatesExecution(r) \/ CommitsExecution(r)
  \/ FailsExecution(r) \/ WorkflowRaises(r)

AgentsNext ==
  \/ \E r \in AgentRequests : AgentsStep(r)
  \/ \E p \in AgentProjects : ErasesProject(p)

AgentsSpec == AgentsInit /\ [][AgentsNext]_agentVars
-----------------------------------------------------------------------------
\* Every variable keeps its type, and a request holds at most the row it is
\* about to commit or to roll back.
AgentsTypeOK ==
  /\ executions \in [ExecutionIds -> ExecutionRows \cup {NoRow}]
  /\ erased \in SUBSET AgentProjects
  /\ agentAt \in [AgentRequests -> AgentLabels]
  /\ agentAsk \in [AgentRequests -> AgentAsks \cup {NoAsk}]
  /\ agentWrite \in [AgentRequests ->
       [id : ExecutionIds, row : ExecutionRows] \cup {NoAgentWrite}]
  /\ \A r \in AgentRequests :
       (agentWrite[r] # NoAgentWrite) <=> (agentAt[r] \in {"commit", "raise"})

\* What is recorded about an execution changes only by a create or an update of
\* the owner of its project: neither an update that names another project nor
\* the failure of a workflow that carries its correlation id leaves a trace.
OnlyOwnersChange ==
  [][\A e \in ExecutionIds : executions'[e] # executions[e] =>
       \E r \in AgentRequests :
         /\ agentAt[r] = "commit" /\ agentAt'[r] = "idle"
         /\ agentAsk[r].op \in {"create", "update"}
         /\ agentAsk[r].project = executions'[e].project
         /\ agentAsk[r].user = ProjectOwner[executions'[e].project]]_agentVars
=============================================================================
