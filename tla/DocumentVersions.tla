-------------------------- MODULE DocumentVersions --------------------------
(***************************************************************************)
(* The project and document requests of api/endpoints/projects.py and       *)
(* api/endpoints/documents.py, over PostgreSQL at READ COMMITTED.            *)
(*                                                                         *)
(* A request runs its statements one await after another in one session.    *)
(* The session is a dependency with yield: its commit follows the answer.   *)
(* ProjectRepository.create alone commits before it answers.  A statement   *)
(* sees what is committed; the first to write a row, or a key of the unique *)
(* index on (project, type, version), makes the others wait for its end.    *)
(***************************************************************************)
EXTENDS Naturals, FiniteSets, FiniteSetsExt

CONSTANTS
  Requests,
  Users,
  Registered,   \* the users that have a row
  Clients,      \* the users that ask in an instance
  Types,        \* document types
  Fields,       \* columns an update may set
  OldProjects,  \* projects and documents there are before the first request
  OldDocuments,
  OwnerOf,      \* created_by of the old projects
  ProjectOf,    \* project of the old documents
  TypeOf,       \* their type
  MaxVersion,   \* bound: the largest version a client asks for
  Ops,          \* the operations the clients of an instance ask for
  None

ASSUME DocumentAssumption ==
  /\ IsFiniteSet(Requests) /\ IsFiniteSet(OldDocuments)
  /\ MaxVersion \in Nat /\ Registered \subseteq Users
  /\ Clients \subseteq Users
  /\ OwnerOf \in [OldProjects -> Users]
  /\ ProjectOf \in [OldDocuments -> OldProjects]
  /\ TypeOf \in [OldDocuments -> Types]
  /\ \A d, e \in OldDocuments :
       ProjectOf[d] = ProjectOf[e] /\ TypeOf[d] = TypeOf[e] => d = e
  /\ None \notin Requests
  /\ Requests \cap (OldProjects \cup OldDocuments) = {}

VARIABLES
  projects,   \* committed rows of projects
  documents,  \* committed rows of document_versions
  ask,        \* what a request asks for
  at,         \* the statement it is at
  answer,     \* what it was answered
  seen,       \* the columns of the document that get_by_id returned to it
  number,     \* the version that create chose or get_latest_version found
  write,      \* the uncommitted write of its transaction
  lastSet,    \* history: who set a column of a document last, in commit order
  before      \* history: the documents committed when it was asked

vars == <<projects, documents, ask, at, answer, seen, number, write, lastSet,
          before>>
tables == <<projects, documents, lastSet>>
asked == <<ask, before>>

\* A row made by a request has the request's name for its id.
ProjectIds == OldProjects \cup Requests
DocumentIds == OldDocuments \cup Requests
Columns == [Fields -> Requests \cup {None}]
Rows == [project: ProjectIds, type: Types, version: Nat, fields: Columns]
ProjectRows == [owner: Users, deleted: BOOLEAN, fields: Columns]

ASSUME NoneAssumption == None \notin Rows \cup ProjectRows

Unnumbered == 1   \* DocumentCreate.version when the client gives none

Questions ==
  [op: {"create_project"}, user: Clients]
    \cup [op: {"get_project", "delete_project"}, user: Clients, project: ProjectIds]
    \cup [op: {"update_project"}, user: Clients, project: ProjectIds,
          fields: SUBSET Fields]
    \cup [op: {"create"}, user: Clients, project: ProjectIds, type: Types,
          version: 1..MaxVersion]
    \cup [op: {"latest"}, user: Clients, project: ProjectIds, type: Types]
    \cup [op: {"get", "delete"}, user: Clients, project: ProjectIds,
          document: DocumentIds]
    \cup [op: {"update"}, user: Clients, project: ProjectIds,
          document: DocumentIds, fields: SUBSET Fields]

NoQuestion == [op |-> "none"]
OnDocument == {"get", "update", "delete"}

Exists(d) == documents[d] # None
Present == {d \in DocumentIds : Exists(d)}
Key(row) == <<row.project, row.type, row.version>>
KeyInUse(key) == \E d \in Present : Key(documents[d]) = key
Siblings(p, ty) ==
  {d \in Present : documents[d].project = p /\ documents[d].type = ty}
NewestVersion(p, ty) == Max({0} \cup {documents[d].version : d \in Siblings(p, ty)})

\* The keys and rows for which another transaction's end is awaited.
KeyBusy(r, key) ==
  \E s \in Requests \ {r} :
    \/ write[s].kind = "insert" /\ Key(write[s].row) = key
    \/ write[s].kind = "remove" /\ Key(documents[write[s].id]) = key
RowBusy(r, d) ==
  \E s \in Requests \ {r} : write[s].kind \in {"set", "remove"} /\ write[s].id = d
ProjectBusy(r, p) ==
  \E s \in Requests \ {r} : write[s].kind = "project" /\ write[s].id = p

NoWrite == [kind |-> "none"]

\* The handler goes on, ends without a write, or answers with its write open.
GoesTo(r, label) == at' = [at EXCEPT ![r] = label] /\ UNCHANGED <<answer, write>>
Ends(r, a) ==
  /\ at' = [at EXCEPT ![r] = "done"]
  /\ answer' = [answer EXCEPT ![r] = a]
  /\ UNCHANGED write
Writes(r, w, a) ==
  /\ write' = [write EXCEPT ![r] = w]
  /\ answer' = [answer EXCEPT ![r] = a]
  /\ at' = [at EXCEPT ![r] = "commit"]

-----------------------------------------------------------------------------
(* Statements that read *)

\* A client asks, with ids of rows that were committed.
Asks(r, q) ==
  /\ at[r] = "idle"
  /\ q.op \in Ops
  /\ q.op # "create_project" => projects[q.project] # None
  /\ q.op \in OnDocument => Exists(q.document)
  /\ ask' = [ask EXCEPT ![r] = q]
  /\ before' = [before EXCEPT ![r] = Present]
  /\ GoesTo(r, "check")
  /\ UNCHANGED <<tables, seen, number>>

Accessible(p, user) == projects[p].owner = user /\ ~ projects[p].deleted

\* Every operation on a project or in it first selects the project.
ChecksAccess(r) ==
  /\ at[r] = "check" /\ ask[r].op # "create_project"
  /\ IF ~ Accessible(ask[r].project, ask[r].user) THEN Ends(r, "missing")
     ELSE IF ask[r].op = "get_project" THEN Ends(r, "ok")
     ELSE IF ask[r].op \in {"update_project", "delete_project"}
     THEN GoesTo(r, "write") ELSE GoesTo(r, "read")
  /\ UNCHANGED <<tables, asked, seen, number>>

ChecksUser(r) ==
  /\ at[r] = "check" /\ ask[r].op = "create_project"
  /\ IF ask[r].user \in Registered THEN GoesTo(r, "write") ELSE Ends(r, "missing")
  /\ UNCHANGED <<tables, asked, seen, number>>

\* mutant: the count of the versions, not the largest
CountsVersions(p, ty) == Cardinality(Siblings(p, ty)) + 1

NextVersion(p, ty) == NewestVersion(p, ty) + 1

ChoosesVersion(r) ==
  LET q == ask[r] IN
  /\ at[r] = "read" /\ q.op = "create"
  /\ IF q.version = Unnumbered
     THEN /\ number' = [number EXCEPT ![r] = NextVersion(q.project, q.type)]
          /\ GoesTo(r, "write")
     ELSE IF KeyInUse(<<q.project, q.type, q.version>>)
     THEN Ends(r, "conflict") /\ UNCHANGED number
     ELSE number' = [number EXCEPT ![r] = q.version] /\ GoesTo(r, "write")
  /\ UNCHANGED <<tables, asked, seen>>

\* mutant: get_by_id without its project filter
SelectById(q) == Exists(q.document)

Selected(q) == Exists(q.document) /\ documents[q.document].project = q.project

\* get_by_id, for itself and for update and delete.
ReadsDocument(r) ==
  LET q == ask[r] IN
  /\ at[r] = "read" /\ q.op \in OnDocument
  /\ IF ~ Selected(q) THEN Ends(r, "missing") /\ UNCHANGED seen
     ELSE IF q.op = "get" \/ (q.op = "update" /\ q.fields = {})
     THEN Ends(r, "ok") /\ UNCHANGED seen
     ELSE /\ seen' = [seen EXCEPT ![r] = documents[q.document].fields]
          /\ GoesTo(r, "write")
  /\ UNCHANGED <<tables, asked, number>>

FirstListed(p, ty) == Max({documents[d].version : d \in Siblings(p, ty)})

ReadsLatest(r) ==
  LET q == ask[r] IN
  /\ at[r] = "read" /\ q.op = "latest"
  /\ IF Siblings(q.project, q.type) = {}
     THEN Ends(r, "missing") /\ UNCHANGED number
     ELSE /\ number' = [number EXCEPT ![r] = FirstListed(q.project, q.type)]
          /\ Ends(r, "ok")
  /\ UNCHANGED <<tables, asked, seen>>

-----------------------------------------------------------------------------
(* Statements that write *)

\* mutant: the index is not unique
NotUnique(key) == FALSE

\* The unique index refuses a key that is committed.
Refused(key) == KeyInUse(key)

NewRow(r) ==
  [project |-> ask[r].project, type |-> ask[r].type, version |-> number[r],
   fields |-> [f \in Fields |-> r]]

\* flush() of the new row.  IntegrityError becomes an HTTPException inside
\* the decorated method, so @retry never sees it.
InsertsDocument(r) ==
  /\ at[r] = "write" /\ ask[r].op = "create"
  /\ ~ KeyBusy(r, Key(NewRow(r)))
  /\ IF Refused(Key(NewRow(r))) THEN Ends(r, "conflict")
     ELSE Writes(r, [kind |-> "insert", row |-> NewRow(r)], "ok")
  /\ UNCHANGED <<tables, asked, seen, number>>

\* mutant: the columns not asked for are written back as they were read
SetAllColumns(r) ==
  [f \in Fields |-> IF f \in ask[r].fields THEN r ELSE seen[r][f]]

SetColumns(r) ==
  [f \in Fields |-> IF f \in ask[r].fields THEN r
                    ELSE documents[ask[r].document].fields[f]]

\* UPDATE by id, then refresh, which raises when the row is gone.
UpdatesDocument(r) ==
  LET d == ask[r].document IN
  /\ at[r] = "write" /\ ask[r].op = "update"
  /\ ~ RowBusy(r, d)
  /\ IF Exists(d)
     THEN Writes(r, [kind |-> "set", id |-> d, fields |-> SetColumns(r)], "ok")
     ELSE Ends(r, "error")
  /\ UNCHANGED <<tables, asked, seen, number>>

\* DELETE by id; a row that is gone is not noticed.
DeletesDocument(r) ==
  LET d == ask[r].document IN
  /\ at[r] = "write" /\ ask[r].op = "delete"
  /\ ~ RowBusy(r, d)
  /\ Writes(r, IF Exists(d) THEN [kind |-> "remove", id |-> d] ELSE NoWrite, "ok")
  /\ UNCHANGED <<tables, asked, seen, number>>

\* An update sets columns, a delete is_deleted; both by id.
UpdatesProject(r) ==
  LET p == ask[r].project IN
  /\ at[r] = "write" /\ ask[r].op = "update_project"
  /\ ask[r].fields = {} \/ ~ ProjectBusy(r, p)
  /\ IF ask[r].fields = {} THEN Ends(r, "ok")
     ELSE Writes(r, [kind |-> "project", id |-> p, fields |-> ask[r].fields,
                     deleted |-> projects[p].deleted], "ok")
  /\ UNCHANGED <<tables, asked, seen, number>>

DeletesProject(r) ==
  LET p == ask[r].project IN
  /\ at[r] = "write" /\ ask[r].op = "delete_project"
  /\ ~ ProjectBusy(r, p)
  /\ Writes(r, [kind |-> "project", id |-> p, fields |-> {}, deleted |-> TRUE], "ok")
  /\ UNCHANGED <<tables, asked, seen, number>>

AnswerAtFlush == "none"

InsertsProject(r) ==
  /\ at[r] = "write" /\ ask[r].op = "create_project"
  /\ Writes(r, [kind |-> "new_project", owner |-> ask[r].user], AnswerAtFlush)
  /\ UNCHANGED <<tables, asked, seen, number>>

-----------------------------------------------------------------------------
(* The end of a transaction *)

CommitDocument(r) ==
  LET w == write[r] IN
  CASE w.kind = "insert" ->
         /\ documents' = [documents EXCEPT ![r] = w.row]
         /\ lastSet' = [lastSet EXCEPT ![r] = [f \in Fields |-> r]]
    [] w.kind = "set" ->
         /\ documents' = [documents EXCEPT ![w.id].fields = w.fields]
         /\ lastSet' = [lastSet EXCEPT ![w.id] =
                          [f \in Fields |-> IF f \in ask[r].fields THEN r ELSE @[f]]]
    [] w.kind = "remove" ->
         documents' = [documents EXCEPT ![w.id] = None] /\ UNCHANGED lastSet
    [] OTHER -> UNCHANGED <<documents, lastSet>>

CommitProject(r) ==
  LET w == write[r] IN
  CASE w.kind = "project" ->
         projects' = [projects EXCEPT ![w.id] =
           [owner |-> @.owner, deleted |-> w.deleted,
            fields |-> [f \in Fields |-> IF f \in w.fields THEN r
                                        ELSE @.fields[f]]]]
    [] w.kind = "new_project" ->
         projects' = [projects EXCEPT ![r] =
           [owner |-> w.owner, deleted |-> FALSE, fields |-> [f \in Fields |-> r]]]
    [] OTHER -> UNCHANGED projects

\* mutant: a session that inserted is left open
KeepWrite(r) ==
  write' = IF write[r].kind = "insert" THEN write
           ELSE [write EXCEPT ![r] = NoWrite]

Release(r) == write' = [write EXCEPT ![r] = NoWrite]

Commits(r) ==
  /\ at[r] = "commit"
  /\ at' = [at EXCEPT ![r] = "done"]
  /\ answer' = [answer EXCEPT ![r] = "ok"]
  /\ CommitDocument(r) /\ CommitProject(r) /\ Release(r)
  /\ UNCHANGED <<asked, seen, number>>

\* The commit fails or the process dies.  Most answers have been sent.
RollsBack(r) ==
  /\ at[r] = "commit"
  /\ at' = [at EXCEPT ![r] = "done"]
  /\ answer' = [answer EXCEPT ![r] = IF @ = "none" THEN "error" ELSE @]
  /\ Release(r)
  /\ UNCHANGED <<tables, asked, seen, number>>

\* SQLAlchemyError of a statement: rolled back, answered 500.
StatementFails(r) ==
  /\ at[r] \in {"check", "read", "write"}
  /\ Ends(r, "error")
  /\ UNCHANGED <<tables, asked, seen, number>>

-----------------------------------------------------------------------------
Init ==
  /\ projects = [p \in ProjectIds |->
       IF p \in OldProjects
       THEN [owner |-> OwnerOf[p], deleted |-> FALSE, fields |-> [f \in Fields |-> None]]
       ELSE None]
  /\ documents = [d \in DocumentIds |->
       IF d \in OldDocuments
       THEN [project |-> ProjectOf[d], type |-> TypeOf[d], version |-> 1,
             fields |-> [f \in Fields |-> None]]
       ELSE None]
  /\ ask = [r \in Requests |-> NoQuestion]
  /\ at = [r \in Requests |-> "idle"]
  /\ answer = [r \in Requests |-> "none"]
  /\ seen = [r \in Requests |-> [f \in Fields |-> None]]
  /\ number = [r \in Requests |-> 0]
  /\ write = [r \in Requests |-> NoWrite]
  /\ lastSet = [d \in DocumentIds |-> [f \in Fields |-> None]]
  /\ before = [r \in Requests |-> {}]

Proceeds(r) ==
  \/ ChecksAccess(r) \/ ChecksUser(r)
  \/ ChoosesVersion(r) \/ ReadsDocument(r) \/ ReadsLatest(r)
  \/ InsertsDocument(r) \/ UpdatesDocument(r) \/ DeletesDocument(r)
  \/ InsertsProject(r) \/ UpdatesProject(r) \/ DeletesProject(r)
  \/ Commits(r) \/ RollsBack(r)

Next ==
  \E r \in Requests :
    (\E q \in Questions : Asks(r, q)) \/ Proceeds(r) \/ StatementFails(r)

Spec == Init /\ [][Next]_vars
-----------------------------------------------------------------------------
(* Properties *)

Labels == {"idle", "check", "read", "write", "commit", "done"}
WriteSet ==
  {NoWrite} \cup [kind: {"insert"}, row: Rows]
    \cup [kind: {"set"}, id: DocumentIds, fields: Columns]
    \cup [kind: {"remove"}, id: DocumentIds]
    \cup [kind: {"project"}, id: ProjectIds, fields: SUBSET Fields, deleted: BOOLEAN]
    \cup [kind: {"new_project"}, owner: Users]

\* Every variable keeps its type; membership is stated part by part, so that
\* TLC need not build the sets.
TypeOK ==
  /\ projects \in [ProjectIds -> ProjectRows \cup {None}]
  /\ documents \in [DocumentIds -> Rows \cup {None}]
  /\ ask \in [Requests -> Questions \cup {NoQuestion}]
  /\ at \in [Requests -> Labels]
  /\ answer \in [Requests -> {"none", "ok", "missing", "conflict", "error"}]
  /\ seen \in [Requests -> Columns]
  /\ number \in [Requests -> Nat]
  /\ write \in [Requests -> WriteSet]
  /\ lastSet \in [DocumentIds -> Columns]
  /\ before \in [Requests -> SUBSET DocumentIds]

\* A project never has two documents of one type and version, although
\* create() reads the largest version and inserts in two statements.
VersionsUnique ==
  \A d, e \in DocumentIds :
    Exists(d) /\ Exists(e) /\ Key(documents[d]) = Key(documents[e]) => d = e

\* The version create() chooses by itself is above that of every document of
\* the kind that was there when it was asked, and is there still.
AutoVersionIsNewest ==
  \A r \in Requests :
    ask[r].op = "create" /\ ask[r].version = Unnumbered /\ answer[r] = "ok" =>
      \A d \in before[r] \cap Siblings(ask[r].project, ask[r].type) :
        documents[d].version < number[r]

\* Two updates of a document, however they interleave, leave in each column
\* what the last transaction to set that column put there.
NoLostUpdate ==
  \A d \in Present : documents[d].fields = lastSet[d]

\* Access is checked two statements before the write, which goes by id alone:
\* even so only the owner of a document's project writes the document.
WritesAreOwned ==
  \A r \in Requests :
    LET w == write[r]
        p == IF w.kind = "insert" THEN w.row.project ELSE documents[w.id].project
    IN  w.kind \in {"insert", "set", "remove"} =>
          projects[p].owner = ask[r].user

\* Requests wait for each other's rows and keys in any order, and never in a
\* circle: who holds one has made its only write and waits for nothing.
HoldersWaitForNothing ==
  \A r \in Requests : write[r] # NoWrite => at[r] = "commit"
=============================================================================
