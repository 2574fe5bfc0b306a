----------------------- MODULE DocumentVersionsProofs -----------------------
(* Type correctness and the safety properties of DocumentVersions.          *)
EXTENDS DocumentVersions, FiniteSetTheorems, TLAPS

USE DocumentAssumption, NoneAssumption

-----------------------------------------------------------------------------
(* What a question carries *)

LEMMA CreateQuestion ==
  ASSUME NEW q \in Questions \cup {NoQuestion}, q.op \in {"create", "latest"}
  PROVE  q.project \in ProjectIds /\ q.type \in Types
BY DEF Questions, NoQuestion

LEMMA VersionAsked ==
  ASSUME NEW q \in Questions \cup {NoQuestion}, q.op = "create"
  PROVE  q.version \in Nat
BY DEF Questions, NoQuestion

LEMMA DocumentQuestion ==
  ASSUME NEW q \in Questions \cup {NoQuestion}, q.op \in OnDocument
  PROVE  q.document \in DocumentIds
BY DEF Questions, NoQuestion, OnDocument

LEMMA ProjectQuestion ==
  ASSUME NEW q \in Questions \cup {NoQuestion},
         q.op \in {"update_project", "delete_project"}
  PROVE  /\ q.project \in ProjectIds
         /\ q.op = "update_project" => q.fields \in SUBSET Fields
BY DEF Questions, NoQuestion

LEMMA UserQuestion ==
  ASSUME NEW q \in Questions \cup {NoQuestion}, q.op = "create_project"
  PROVE  q.user \in Users
BY DEF Questions, NoQuestion

-----------------------------------------------------------------------------
(* The largest element of a finite set of numbers *)

\* Every finite set of numbers that has an element has a largest one: a least
\* set without would still lack it after losing an element.
LEMMA MaxOfFinite ==
  ASSUME NEW S \in SUBSET Nat, IsFiniteSet(S), S # {}
  PROVE  Max(S) \in S /\ \A x \in S : x <= Max(S)
<1> DEFINE HasMax(A) == \E x \in A : \A y \in A : y <= x
           Bad == {A \in FiniteSubsetsOf(S) : A # {} /\ ~ HasMax(A)}
<1>1. Bad = {}
  <2> SUFFICES ASSUME Bad # {} PROVE FALSE
    OBVIOUS
  <2>1. PICK A \in Bad : \A B \in Bad : ~ (<<B, A>> \in StrictSubsetOrdering(S))
    <3> Bad \subseteq FiniteSubsetsOf(S)
      OBVIOUS
    <3> HIDE DEF Bad
    <3> QED  BY FS_StrictSubsetOrderingWellFounded, WFMin
  <2>2. A \in SUBSET Nat /\ A \in SUBSET S /\ IsFiniteSet(A) /\ A # {} /\ ~ HasMax(A)
    BY DEF FiniteSubsetsOf
  <2>3. PICK x \in A : TRUE
    BY <2>2
  <2> DEFINE B == A \ {x}
  <2>4. IsFiniteSet(B)
    BY <2>2, FS_RemoveElement
  <2>5. B \in SUBSET S /\ B \subseteq A /\ B # A /\ B \in FiniteSubsetsOf(S)
    BY <2>2, <2>3, <2>4 DEF FiniteSubsetsOf
  <2>6. <<B, A>> \in StrictSubsetOrdering(S)
    BY <2>2, <2>5 DEF StrictSubsetOrdering
  <2>7. B = {} \/ HasMax(B)
    BY <2>1, <2>5, <2>6
  <2>8. CASE B = {}
    <3>1. A = {x}
      BY <2>3, <2>8
    <3> QED  BY <2>2, <2>3, <3>1
  <2>9. CASE HasMax(B)
    <3>1. PICK z \in B : \A y \in B : y <= z
      BY <2>9
    <3>2. CASE z <= x
      <4>1. \A y \in A : y <= x
        BY <3>1, <3>2, <2>2, <2>3
      <4> QED  BY <4>1, <2>2, <2>3
    <3>3. CASE ~ (z <= x)
      <4>1. \A y \in A : y <= z
        BY <3>1, <3>3, <2>2, <2>3
      <4> QED  BY <4>1, <2>2, <3>1
    <3> QED  BY <3>2, <3>3
  <2> QED  BY <2>7, <2>8, <2>9
<1>2. S \in FiniteSubsetsOf(S)
  BY DEF FiniteSubsetsOf
<1>3. HasMax(S)
  BY <1>1, <1>2
<1>4. \E x \in S : \A y \in S : x >= y
  BY <1>3
<1> QED  BY <1>4 DEF Max

LEMMA DocumentsFinite ==
  IsFiniteSet(DocumentIds) /\ IsFiniteSet(Present)
<1>1. IsFiniteSet(DocumentIds)
  BY FS_Union DEF DocumentIds
<1> QED  BY <1>1, FS_Subset DEF Present

\* NextVersion is a number above every version of the kind.
LEMMA NextVersionIsNext ==
  ASSUME documents \in [DocumentIds -> Rows \cup {None}], NEW p, NEW ty
  PROVE  /\ NextVersion(p, ty) \in Nat
         /\ \A d \in Siblings(p, ty) : documents[d].version < NextVersion(p, ty)
<1> DEFINE Versions == {documents[d].version : d \in Siblings(p, ty)}
<1>1. IsFiniteSet(Siblings(p, ty))
  BY DocumentsFinite, FS_Subset DEF Siblings
<1>2. Versions \in SUBSET Nat
  BY DEF Siblings, Present, Exists, Rows
<1>3. IsFiniteSet(Versions)
  <2> DEFINE f == [d \in Siblings(p, ty) |-> documents[d].version]
  <2>1. f \in Surjection(Siblings(p, ty), Versions)
    BY DEF Surjection
  <2> QED  BY <1>1, <2>1, FS_Surjection
<1>4. IsFiniteSet({0} \cup Versions)
  BY <1>3, FS_Singleton, FS_Union
<1>5. /\ NewestVersion(p, ty) \in {0} \cup Versions
      /\ \A x \in {0} \cup Versions : x <= NewestVersion(p, ty)
  <2>1. {0} \cup Versions \in SUBSET Nat /\ {0} \cup Versions # {}
    BY <1>2
  <2> HIDE DEF Versions
  <2>2. Max({0} \cup Versions) \in {0} \cup Versions
    BY <1>4, <2>1, MaxOfFinite
  <2>3. \A x \in {0} \cup Versions : x <= Max({0} \cup Versions)
    BY <1>4, <2>1, MaxOfFinite
  <2> QED  BY <2>2, <2>3 DEF NewestVersion, Versions
<1>6. NewestVersion(p, ty) \in Nat
  BY <1>2, <1>5
<1>7. ASSUME NEW d \in Siblings(p, ty)
      PROVE  documents[d].version < NewestVersion(p, ty) + 1
  <2>1. documents[d].version \in Versions
    OBVIOUS
  <2>2. documents[d].version \in Nat
    BY <1>2, <2>1
  <2> HIDE DEF Versions
  <2>3. documents[d].version <= NewestVersion(p, ty)
    BY <1>5, <2>1
  <2> QED  BY <1>6, <2>2, <2>3
<1> QED  BY <1>6, <1>7 DEF NextVersion

LEMMA FirstListedType ==
  ASSUME documents \in [DocumentIds -> Rows \cup {None}], NEW p, NEW ty,
         Siblings(p, ty) # {}
  PROVE  FirstListed(p, ty) \in Nat
<1> DEFINE Versions == {documents[d].version : d \in Siblings(p, ty)}
           f == [d \in Siblings(p, ty) |-> documents[d].version]
<1>1. IsFiniteSet(Siblings(p, ty))
  BY DocumentsFinite, FS_Subset DEF Siblings
<1>2. f \in Surjection(Siblings(p, ty), Versions)
  BY DEF Surjection
<1>3. IsFiniteSet(Versions)
  BY <1>1, <1>2, FS_Surjection
<1>4. Versions \in SUBSET Nat
  BY DEF Siblings, Present, Exists, Rows
<1>6. Versions # {}
  OBVIOUS
<1>5. Max(Versions) \in Versions
  <2> HIDE DEF Versions
  <2> QED  BY <1>3, <1>4, <1>6, MaxOfFinite
<1> QED  BY <1>4, <1>5 DEF FirstListed

-----------------------------------------------------------------------------
(* The inductive invariant *)

\* A request that was asked is about a project there is.
AskedExists ==
  \A r \in Requests :
    at[r] # "idle" =>
      /\ ask[r] \in Questions
      /\ ask[r].op # "create_project" => projects[ask[r].project] # None

\* A row that is being written is there, and no one else writes it.
WrittenExists ==
  \A r \in Requests :
    /\ write[r].kind \in {"set", "remove"} => Exists(write[r].id)
    /\ write[r].kind = "project" => projects[write[r].id] # None

RowsLocked ==
  \A r, s \in Requests :
    /\ r # s
    /\ write[r].kind \in {"set", "remove"}
    /\ write[s].kind \in {"set", "remove"}
    => write[r].id # write[s].id

\* The keys of rows not yet committed are used nowhere else.
KeysFree ==
  /\ \A r \in Requests :
       write[r].kind = "insert" => ~ KeyInUse(Key(write[r].row))
  /\ \A r, s \in Requests :
       r # s /\ write[r].kind = "insert" /\ write[s].kind = "insert" =>
         Key(write[r].row) # Key(write[s].row)

IInv ==
  /\ TypeOK /\ AskedExists /\ WrittenExists /\ RowsLocked /\ KeysFree
  /\ VersionsUnique

-----------------------------------------------------------------------------
(* Type correctness *)

\* How a handler leaves a statement.
LEMMA LeavesTyped ==
  ASSUME TypeOK, NEW r \in Requests,
         \/ \E l \in Labels : GoesTo(r, l)
         \/ \E a \in {"ok", "missing", "conflict", "error"} : Ends(r, a)
         \/ \E w \in WriteSet, a \in {"ok", "none"} : Writes(r, w, a)
  PROVE  /\ at' \in [Requests -> Labels]
         /\ answer' \in [Requests -> {"none", "ok", "missing", "conflict", "error"}]
         /\ write' \in [Requests -> WriteSet]
<1>1. ASSUME NEW l \in Labels, GoesTo(r, l)
      PROVE  /\ at' \in [Requests -> Labels]
             /\ answer' \in [Requests -> {"none", "ok", "missing", "conflict", "error"}]
             /\ write' \in [Requests -> WriteSet]
  BY <1>1 DEF TypeOK, GoesTo
<1>2. ASSUME NEW a \in {"ok", "missing", "conflict", "error"}, Ends(r, a)
      PROVE  /\ at' \in [Requests -> Labels]
             /\ answer' \in [Requests -> {"none", "ok", "missing", "conflict", "error"}]
             /\ write' \in [Requests -> WriteSet]
  BY <1>2 DEF TypeOK, Ends, Labels
<1>3. ASSUME NEW w \in WriteSet, NEW a \in {"ok", "none"}, Writes(r, w, a)
      PROVE  /\ at' \in [Requests -> Labels]
             /\ answer' \in [Requests -> {"none", "ok", "missing", "conflict", "error"}]
             /\ write' \in [Requests -> WriteSet]
  BY <1>3 DEF TypeOK, Writes, Labels
<1> QED  BY <1>1, <1>2, <1>3

\* The part of the state that only an asking client changes, and the part that
\* only a commit changes.
Still == UNCHANGED <<projects, documents, lastSet, ask, before>>
Leaves(r) ==
  \/ \E l \in Labels : GoesTo(r, l)
  \/ \E a \in {"ok", "missing", "conflict", "error"} : Ends(r, a)
  \/ \E w \in WriteSet, a \in {"ok", "none"} : Writes(r, w, a)

LEMMA StatementTyped ==
  ASSUME TypeOK, NEW r \in Requests, Still, Leaves(r),
         \/ UNCHANGED seen
         \/ \E c \in Columns : seen' = [seen EXCEPT ![r] = c],
         \/ UNCHANGED number
         \/ \E n \in Nat : number' = [number EXCEPT ![r] = n]
  PROVE  TypeOK'
<1>1. /\ at' \in [Requests -> Labels]
      /\ answer' \in [Requests -> {"none", "ok", "missing", "conflict", "error"}]
      /\ write' \in [Requests -> WriteSet]
  BY LeavesTyped DEF Leaves
<1>2. seen' \in [Requests -> Columns] /\ number' \in [Requests -> Nat]
  BY DEF TypeOK
<1>3. /\ projects' \in [ProjectIds -> ProjectRows \cup {None}]
      /\ documents' \in [DocumentIds -> Rows \cup {None}]
      /\ ask' \in [Requests -> Questions \cup {NoQuestion}]
      /\ lastSet' \in [DocumentIds -> Columns]
      /\ before' \in [Requests -> SUBSET DocumentIds]
  BY DEF TypeOK, Still
<1> QED  BY <1>1, <1>2, <1>3 DEF TypeOK

LEMMA AsksTyped ==
  ASSUME TypeOK, NEW r \in Requests, NEW q \in Questions, Asks(r, q)
  PROVE  TypeOK'
<1>1. GoesTo(r, "check") /\ "check" \in Labels
  BY DEF Asks, Labels
<1>2. /\ at' \in [Requests -> Labels]
      /\ answer' \in [Requests -> {"none", "ok", "missing", "conflict", "error"}]
      /\ write' \in [Requests -> WriteSet]
  BY <1>1, LeavesTyped
<1>3. /\ ask' \in [Requests -> Questions \cup {NoQuestion}]
      /\ before' \in [Requests -> SUBSET DocumentIds]
  BY DEF TypeOK, Asks, Present
<1>4. UNCHANGED <<projects, documents, lastSet, seen, number>>
  BY DEF Asks, tables
<1> QED  BY <1>2, <1>3, <1>4 DEF TypeOK

LEMMA ReadsTyped ==
  ASSUME TypeOK, NEW r \in Requests,
         \/ ChecksAccess(r) \/ ChecksUser(r) \/ ChoosesVersion(r)
         \/ ReadsDocument(r) \/ ReadsLatest(r) \/ StatementFails(r)
  PROVE  TypeOK'
<1>0. {"read", "write"} \subseteq Labels
  BY DEF Labels
<1>1. CASE ChecksAccess(r) \/ ChecksUser(r) \/ StatementFails(r)
  <2>1. Leaves(r)
    BY <1>0, <1>1 DEF ChecksAccess, ChecksUser, StatementFails, Leaves
  <2>2. Still /\ UNCHANGED <<seen, number>>
    BY <1>1 DEF ChecksAccess, ChecksUser, StatementFails, Still, tables, asked
  <2> QED  BY <2>1, <2>2, StatementTyped
<1>2. CASE ChoosesVersion(r)
  <2>1. Leaves(r)
    BY <1>0, <1>2 DEF ChoosesVersion, Leaves
  <2>2. Still /\ UNCHANGED seen
    BY <1>2 DEF ChoosesVersion, Still, tables, asked
  <2>3. ask[r] \in Questions \cup {NoQuestion} /\ ask[r].op = "create"
    BY <1>2 DEF ChoosesVersion, TypeOK
  <2>4. ask[r].version \in Nat
    BY <2>3, VersionAsked
  <2>5. NextVersion(ask[r].project, ask[r].type) \in Nat
    BY NextVersionIsNext DEF TypeOK
  <2>6. \/ UNCHANGED number
        \/ \E n \in Nat : number' = [number EXCEPT ![r] = n]
    BY <1>2, <2>4, <2>5 DEF ChoosesVersion
  <2> QED  BY <2>1, <2>2, <2>6, StatementTyped
<1>3. CASE ReadsDocument(r)
  <2>1. Leaves(r)
    BY <1>0, <1>3 DEF ReadsDocument, Leaves
  <2>2. Still /\ UNCHANGED number
    BY <1>3 DEF ReadsDocument, Still, tables, asked
  <2>3. ask[r].document \in DocumentIds
    BY <1>3, DocumentQuestion DEF ReadsDocument, TypeOK
  <2>4. Selected(ask[r]) => documents[ask[r].document].fields \in Columns
    BY <2>3 DEF Selected, Exists, TypeOK, Rows
  <2>5. \/ UNCHANGED seen
        \/ \E c \in Columns : seen' = [seen EXCEPT ![r] = c]
    BY <1>3, <2>4 DEF ReadsDocument
  <2> QED  BY <2>1, <2>2, <2>5, StatementTyped
<1>4. CASE ReadsLatest(r)
  <2>1. Leaves(r)
    BY <1>4 DEF ReadsLatest, Leaves
  <2>2. Still /\ UNCHANGED seen
    BY <1>4 DEF ReadsLatest, Still, tables, asked
  <2>3. \/ UNCHANGED number
        \/ \E n \in Nat : number' = [number EXCEPT ![r] = n]
    BY <1>4, FirstListedType DEF ReadsLatest, TypeOK
  <2> QED  BY <2>1, <2>2, <2>3, StatementTyped
<1> QED  BY <1>1, <1>2, <1>3, <1>4

LEMMA WritesTyped ==
  ASSUME TypeOK, AskedExists, NEW r \in Requests,
         \/ InsertsDocument(r) \/ UpdatesDocument(r) \/ DeletesDocument(r)
         \/ InsertsProject(r) \/ UpdatesProject(r) \/ DeletesProject(r)
  PROVE  TypeOK'
<1>1. Still /\ UNCHANGED <<seen, number>>
  BY DEF InsertsDocument, UpdatesDocument, DeletesDocument, InsertsProject,
         UpdatesProject, DeletesProject, Still, tables, asked
<1>2. ask[r] \in Questions \cup {NoQuestion} /\ NoWrite \in WriteSet
  BY DEF TypeOK, WriteSet
<1>3. CASE InsertsDocument(r)
  <2>1. ask[r].project \in ProjectIds /\ ask[r].type \in Types
    BY <1>2, <1>3, CreateQuestion DEF InsertsDocument
  <2>2. NewRow(r) \in Rows
    BY <2>1 DEF NewRow, Rows, TypeOK, Columns
  <2>3. [kind |-> "insert", row |-> NewRow(r)] \in WriteSet
    BY <2>2 DEF WriteSet
  <2>4. Leaves(r)
    BY <1>3, <2>3 DEF InsertsDocument, Leaves
  <2> QED  BY <1>1, <2>4, StatementTyped
<1>4. CASE UpdatesDocument(r)
  <2>1. ask[r].document \in DocumentIds
    BY <1>2, <1>4, DocumentQuestion DEF UpdatesDocument, OnDocument
  <2>2. Exists(ask[r].document) => SetColumns(r) \in Columns
    BY <2>1 DEF SetColumns, Columns, TypeOK, Exists, Rows
  <2>3. Exists(ask[r].document) =>
          [kind |-> "set", id |-> ask[r].document, fields |-> SetColumns(r)]
            \in WriteSet
    BY <2>1, <2>2 DEF WriteSet
  <2>4. Leaves(r)
    BY <1>4, <2>3 DEF UpdatesDocument, Leaves
  <2> QED  BY <1>1, <2>4, StatementTyped
<1>5. CASE DeletesDocument(r)
  <2>1. ask[r].document \in DocumentIds
    BY <1>2, <1>5, DocumentQuestion DEF DeletesDocument, OnDocument
  <2>2. [kind |-> "remove", id |-> ask[r].document] \in WriteSet
    BY <2>1 DEF WriteSet
  <2>3. Leaves(r)
    BY <1>2, <1>5, <2>2 DEF DeletesDocument, Leaves
  <2> QED  BY <1>1, <2>3, StatementTyped
<1>6. CASE InsertsProject(r)
  <2>1. ask[r].user \in Users
    BY <1>2, <1>6, UserQuestion DEF InsertsProject
  <2>2. [kind |-> "new_project", owner |-> ask[r].user] \in WriteSet
    BY <2>1 DEF WriteSet
  <2>3. Leaves(r)
    BY <1>6, <2>2 DEF InsertsProject, Leaves, AnswerAtFlush
  <2> QED  BY <1>1, <2>3, StatementTyped
<1>7. CASE UpdatesProject(r)
  <2>1. ask[r].project \in ProjectIds /\ ask[r].fields \in SUBSET Fields
    BY <1>2, <1>7, ProjectQuestion DEF UpdatesProject
  <2>2. projects[ask[r].project].deleted \in BOOLEAN
    BY <1>7, <2>1 DEF TypeOK, ProjectRows, AskedExists, UpdatesProject
  <2>3. [kind |-> "project", id |-> ask[r].project, fields |-> ask[r].fields,
         deleted |-> projects[ask[r].project].deleted] \in WriteSet
    BY <2>1, <2>2 DEF WriteSet
  <2>4. Leaves(r)
    BY <1>7, <2>3 DEF UpdatesProject, Leaves
  <2> QED  BY <1>1, <2>4, StatementTyped
<1>8. CASE DeletesProject(r)
  <2>1. ask[r].project \in ProjectIds
    BY <1>2, <1>8, ProjectQuestion DEF DeletesProject
  <2>2. [kind |-> "project", id |-> ask[r].project, fields |-> {},
         deleted |-> TRUE] \in WriteSet
    BY <2>1 DEF WriteSet
  <2>3. Leaves(r)
    BY <1>8, <2>2 DEF DeletesProject, Leaves
  <2> QED  BY <1>1, <2>3, StatementTyped
<1> QED  BY <1>3, <1>4, <1>5, <1>6, <1>7, <1>8

\* What the writes carry.
LEMMA WriteCarries ==
  ASSUME NEW w \in WriteSet
  PROVE  /\ w.kind = "insert" => w.row \in Rows
         /\ w.kind = "set" => w.id \in DocumentIds /\ w.fields \in Columns
         /\ w.kind = "remove" => w.id \in DocumentIds
         /\ w.kind = "project" => /\ w.id \in ProjectIds
                                  /\ w.fields \in SUBSET Fields
                                  /\ w.deleted \in BOOLEAN
         /\ w.kind = "new_project" => w.owner \in Users
BY DEF WriteSet, NoWrite

LEMMA CommitProjectTyped ==
  ASSUME TypeOK, WrittenExists, NEW r \in Requests, CommitProject(r)
  PROVE  /\ projects' \in [ProjectIds -> ProjectRows \cup {None}]
         /\ \A p \in ProjectIds : projects[p] # None => projects'[p] # None
<1>1. write[r] \in WriteSet /\ r \in ProjectIds
  BY DEF TypeOK, ProjectIds
<1>2. CASE write[r].kind = "project"
  <2>1. /\ write[r].id \in ProjectIds /\ write[r].deleted \in BOOLEAN
        /\ projects[write[r].id] \in ProjectRows
    BY <1>1, <1>2, WriteCarries DEF WrittenExists, TypeOK
  <2> DEFINE old == projects[write[r].id]
             new == [owner |-> old.owner, deleted |-> write[r].deleted,
                     fields |-> [f \in Fields |-> IF f \in write[r].fields
                                  THEN r ELSE old.fields[f]]]
  <2>2. new \in ProjectRows
    BY <2>1 DEF ProjectRows, Columns
  <2>3. projects' = [projects EXCEPT ![write[r].id] = new]
    BY <1>2 DEF CommitProject
  <2> HIDE DEF new, old
  <2> QED  BY <2>1, <2>2, <2>3 DEF TypeOK
<1>3. CASE write[r].kind = "new_project"
  <2> DEFINE new == [owner |-> write[r].owner, deleted |-> FALSE,
                     fields |-> [f \in Fields |-> r]]
  <2>1. new \in ProjectRows
    BY <1>1, <1>3, WriteCarries DEF ProjectRows, Columns
  <2>2. projects' = [projects EXCEPT ![r] = new]
    BY <1>3 DEF CommitProject
  <2> HIDE DEF new
  <2> QED  BY <1>1, <2>1, <2>2 DEF TypeOK
<1>4. CASE write[r].kind \notin {"project", "new_project"}
  BY <1>4 DEF CommitProject, TypeOK
<1> QED  BY <1>2, <1>3, <1>4

LEMMA CommitDocumentTyped ==
  ASSUME TypeOK, WrittenExists, NEW r \in Requests, CommitDocument(r)
  PROVE  /\ documents' \in [DocumentIds -> Rows \cup {None}]
         /\ lastSet' \in [DocumentIds -> Columns]
<1>1. write[r] \in WriteSet /\ r \in DocumentIds
  BY DEF TypeOK, DocumentIds
<1>2. CASE write[r].kind = "insert"
  <2>1. documents' = [documents EXCEPT ![r] = write[r].row]
    BY <1>2 DEF CommitDocument
  <2>2. lastSet' = [lastSet EXCEPT ![r] = [f \in Fields |-> r]]
    BY <1>2 DEF CommitDocument
  <2>3. write[r].row \in Rows /\ [f \in Fields |-> r] \in Columns
    BY <1>1, <1>2, WriteCarries DEF Columns
  <2> QED  BY <1>1, <2>1, <2>2, <2>3 DEF TypeOK
<1>3. CASE write[r].kind = "set"
  <2>1. /\ write[r].id \in DocumentIds /\ write[r].fields \in Columns
        /\ documents[write[r].id] \in Rows
    BY <1>1, <1>3, WriteCarries DEF WrittenExists, Exists, TypeOK
  <2>2. [documents[write[r].id] EXCEPT !.fields = write[r].fields] \in Rows
    BY <2>1 DEF Rows
  <2>3. documents' = [documents EXCEPT ![write[r].id] =
                       [documents[write[r].id] EXCEPT !.fields = write[r].fields]]
    BY <1>3 DEF CommitDocument
  <2>4. lastSet' = [lastSet EXCEPT ![write[r].id] =
          [f \in Fields |-> IF f \in ask[r].fields THEN r
                            ELSE lastSet[write[r].id][f]]]
    BY <1>3 DEF CommitDocument
  <2>5. [f \in Fields |-> IF f \in ask[r].fields THEN r
                          ELSE lastSet[write[r].id][f]] \in Columns
    BY <2>1 DEF TypeOK, Columns
  <2> QED  BY <2>1, <2>2, <2>3, <2>4, <2>5 DEF TypeOK
<1>4. CASE write[r].kind = "remove"
  BY <1>1, <1>4, WriteCarries DEF CommitDocument, TypeOK
<1>5. CASE write[r].kind \notin {"insert", "set", "remove"}
  BY <1>5 DEF CommitDocument, TypeOK
<1> QED  BY <1>2, <1>3, <1>4, <1>5

LEMMA EndTyped ==
  ASSUME TypeOK, WrittenExists, NEW r \in Requests, Commits(r) \/ RollsBack(r)
  PROVE  TypeOK'
<1>1. /\ at' \in [Requests -> Labels]
      /\ answer' \in [Requests -> {"none", "ok", "missing", "conflict", "error"}]
      /\ write' \in [Requests -> WriteSet]
  BY SMTT(20) DEF TypeOK, Commits, RollsBack, Release, Labels, WriteSet
<1>2. UNCHANGED <<ask, before, seen, number>>
  BY DEF Commits, RollsBack, asked
<1>3. /\ projects' \in [ProjectIds -> ProjectRows \cup {None}]
      /\ documents' \in [DocumentIds -> Rows \cup {None}]
      /\ lastSet' \in [DocumentIds -> Columns]
  <2>1. CASE Commits(r)
    BY <2>1, CommitProjectTyped, CommitDocumentTyped DEF Commits
  <2>2. CASE RollsBack(r)
    BY <2>2 DEF RollsBack, tables, TypeOK
  <2> QED  BY <2>1, <2>2
<1> QED  BY <1>1, <1>2, <1>3 DEF TypeOK

\* What a commit does to the documents and their keys.
LEMMA CommitKeys ==
  ASSUME TypeOK, WrittenExists, NEW r \in Requests, CommitDocument(r),
         NEW d \in DocumentIds
  PROVE  /\ documents'[d] # None =>
              \/ /\ d = r /\ write[r].kind = "insert"
                 /\ documents'[d] = write[r].row
              \/ documents[d] # None /\ Key(documents'[d]) = Key(documents[d])
         /\ documents[d] # None =>
              \/ documents'[d] # None
              \/ write[r].kind = "remove" /\ write[r].id = d
<1>1. write[r] \in WriteSet /\ r \in DocumentIds
  BY DEF TypeOK, DocumentIds
<1>2. CASE write[r].kind = "insert"
  <2>1. documents' = [documents EXCEPT ![r] = write[r].row]
    BY <1>2 DEF CommitDocument
  <2>2. write[r].row # None
    BY <1>1, <1>2, WriteCarries
  <2> QED  BY <1>2, <2>1, <2>2 DEF TypeOK
<1>3. CASE write[r].kind = "set"
  <2>1. /\ write[r].id \in DocumentIds /\ write[r].fields \in Columns
        /\ documents[write[r].id] \in Rows
    BY <1>1, <1>3, WriteCarries DEF WrittenExists, Exists, TypeOK
  <2> DEFINE new == [documents[write[r].id] EXCEPT !.fields = write[r].fields]
  <2>2. new \in Rows /\ Key(new) = Key(documents[write[r].id])
    BY <2>1 DEF Rows, Key
  <2>3. documents' = [documents EXCEPT ![write[r].id] = new]
    BY <1>3 DEF CommitDocument
  <2> HIDE DEF new
  <2> QED  BY <2>1, <2>2, <2>3 DEF TypeOK
<1>4. CASE write[r].kind = "remove"
  <2>1. documents' = [documents EXCEPT ![write[r].id] = None]
    BY <1>4 DEF CommitDocument
  <2> QED  BY <1>4, <2>1 DEF TypeOK
<1>5. CASE write[r].kind \notin {"insert", "set", "remove"}
  BY <1>5 DEF CommitDocument
<1> QED  BY <1>2, <1>3, <1>4, <1>5

LEMMA QuestionProject ==
  ASSUME NEW q \in Questions, q.op # "create_project"
  PROVE  q.project \in ProjectIds
BY DEF Questions

-----------------------------------------------------------------------------
(* The rest of the inductive invariant *)

\* What any new write of r must respect.
Respects(r, w) ==
  /\ w.kind = "insert" =>
       /\ ~ KeyInUse(Key(w.row))
       /\ \A s \in Requests \ {r} :
            write[s].kind = "insert" => Key(write[s].row) # Key(w.row)
  /\ w.kind \in {"set", "remove"} =>
       /\ Exists(w.id)
       /\ \A s \in Requests \ {r} :
            write[s].kind \in {"set", "remove"} => write[s].id # w.id
  /\ w.kind = "project" => projects[w.id] # None

LEMMA StatementKeeps ==
  ASSUME IInv, TypeOK', NEW r \in Requests, Still, at[r] # "idle",
         \A s \in Requests \ {r} : at'[s] = at[s],
         \/ UNCHANGED write
         \/ \E w \in WriteSet : write' = [write EXCEPT ![r] = w] /\ Respects(r, w)
  PROVE  IInv'
<1>1. AskedExists'
  BY DEF IInv, AskedExists, Still
<1>2. VersionsUnique' /\ \A key : KeyInUse(key)' <=> KeyInUse(key)
  BY DEF IInv, VersionsUnique, Still, Exists, Key, KeyInUse, Present
<1>3. CASE UNCHANGED write
  BY <1>1, <1>2, <1>3
     DEF IInv, WrittenExists, RowsLocked, KeysFree, Still, Exists, KeyInUse, Present
<1>4. ASSUME NEW w \in WriteSet, write' = [write EXCEPT ![r] = w], Respects(r, w)
      PROVE  WrittenExists' /\ RowsLocked' /\ KeysFree'
  <2>1. write'[r] = w /\ \A s \in Requests \ {r} : write'[s] = write[s]
    BY <1>4 DEF IInv, TypeOK
  <2>2. WrittenExists'
    BY <1>4, <2>1 DEF IInv, WrittenExists, Respects, Still, Exists
  <2>3. RowsLocked'
    BY <1>4, <2>1 DEF IInv, RowsLocked, Respects
  <2>4. \A s \in Requests :
          write'[s].kind = "insert" => ~ KeyInUse(Key(write'[s].row))
    BY <1>4, <2>1 DEF IInv, KeysFree, Respects
  <2>5. \A s, u \in Requests :
          s # u /\ write'[s].kind = "insert" /\ write'[u].kind = "insert" =>
            Key(write'[s].row) # Key(write'[u].row)
    BY <1>4, <2>1 DEF IInv, KeysFree, Respects
  <2>6. KeysFree'
    BY <1>2, <2>4, <2>5 DEF KeysFree, Key, KeyInUse, Present, Exists, Still
  <2> QED  BY <2>2, <2>3, <2>6
<1> QED  BY <1>1, <1>2, <1>3, <1>4 DEF IInv

LEMMA AsksKeeps ==
  ASSUME IInv, TypeOK', NEW r \in Requests, NEW q \in Questions, Asks(r, q)
  PROVE  IInv'
<1>1. AskedExists'
  BY DEF IInv, AskedExists, Asks, TypeOK, GoesTo, tables
<1>2. UNCHANGED <<projects, documents, write>>
  BY DEF Asks, GoesTo, tables
<1>3. WrittenExists' /\ RowsLocked' /\ KeysFree' /\ VersionsUnique'
  BY <1>2 DEF IInv, WrittenExists, RowsLocked, KeysFree, VersionsUnique, Key,
              KeyInUse, Present, Exists
<1> QED  BY <1>1, <1>3 DEF IInv

LEMMA ReadsKeeps ==
  ASSUME IInv, NEW r \in Requests,
         \/ ChecksAccess(r) \/ ChecksUser(r) \/ ChoosesVersion(r)
         \/ ReadsDocument(r) \/ ReadsLatest(r) \/ StatementFails(r)
  PROVE  IInv'
<1>1. TypeOK'
  BY ReadsTyped DEF IInv
<1>2. Still /\ UNCHANGED write /\ at[r] # "idle"
  BY DEF ChecksAccess, ChecksUser, ChoosesVersion, ReadsDocument, ReadsLatest,
         StatementFails, Still, tables, asked, GoesTo, Ends
<1>3. \A s \in Requests \ {r} : at'[s] = at[s]
  BY DEF ChecksAccess, ChecksUser, ChoosesVersion, ReadsDocument, ReadsLatest,
         StatementFails, GoesTo, Ends, IInv, TypeOK
<1> QED  BY <1>1, <1>2, <1>3, StatementKeeps

LEMMA WritesKeeps ==
  ASSUME IInv, NEW r \in Requests,
         \/ InsertsDocument(r) \/ UpdatesDocument(r) \/ DeletesDocument(r)
         \/ InsertsProject(r) \/ UpdatesProject(r) \/ DeletesProject(r)
  PROVE  IInv'
<1>1. TypeOK' /\ TypeOK
  BY WritesTyped DEF IInv
<1>2. Still /\ at[r] # "idle"
  BY DEF InsertsDocument, UpdatesDocument, DeletesDocument, InsertsProject,
         UpdatesProject, DeletesProject, Still, tables, asked
<1>3. \A s \in Requests \ {r} : at'[s] = at[s]
  BY <1>1 DEF InsertsDocument, UpdatesDocument, DeletesDocument, InsertsProject,
         UpdatesProject, DeletesProject, Ends, Writes, TypeOK
<1>4. \/ UNCHANGED write
      \/ \E w : write' = [write EXCEPT ![r] = w] /\ Respects(r, w)
  <2>0. AskedExists /\ \A key : Refused(key) <=> KeyInUse(key)
    BY DEF IInv, Refused
  <2>1. CASE InsertsDocument(r)
    <3> DEFINE w == [kind |-> "insert", row |-> NewRow(r)]
    <3>1. UNCHANGED write \/ (write' = [write EXCEPT ![r] = w] /\ Respects(r, w))
      BY <2>0, <2>1 DEF InsertsDocument, Ends, Writes, Respects, KeyBusy
    <3> QED  BY <3>1
  <2>2. CASE UpdatesDocument(r)
    <3> DEFINE w == [kind |-> "set", id |-> ask[r].document,
                      fields |-> SetColumns(r)]
    <3>1. UNCHANGED write \/ (write' = [write EXCEPT ![r] = w] /\ Respects(r, w))
      BY <2>2 DEF UpdatesDocument, Ends, Writes, Respects, RowBusy
    <3> QED  BY <3>1
  <2>3. CASE DeletesDocument(r)
    <3> DEFINE w == IF Exists(ask[r].document)
                   THEN [kind |-> "remove", id |-> ask[r].document] ELSE NoWrite
    <3>1. UNCHANGED write \/ (write' = [write EXCEPT ![r] = w] /\ Respects(r, w))
      BY <2>3 DEF DeletesDocument, Ends, Writes, Respects, RowBusy, NoWrite
    <3> QED  BY <3>1
  <2>4. CASE InsertsProject(r)
    <3> DEFINE w == [kind |-> "new_project", owner |-> ask[r].user]
    <3>1. UNCHANGED write \/ (write' = [write EXCEPT ![r] = w] /\ Respects(r, w))
      BY <2>4 DEF InsertsProject, Ends, Writes, Respects
    <3> QED  BY <3>1
  <2>5. CASE UpdatesProject(r)
    <3> DEFINE w == [kind |-> "project", id |-> ask[r].project,
                     fields |-> ask[r].fields,
                     deleted |-> projects[ask[r].project].deleted]
    <3>1. UNCHANGED write \/ (write' = [write EXCEPT ![r] = w] /\ Respects(r, w))
      BY <2>0, <2>5 DEF UpdatesProject, Ends, Writes, Respects, AskedExists
    <3> QED  BY <3>1
  <2>6. CASE DeletesProject(r)
    <3> DEFINE w == [kind |-> "project", id |-> ask[r].project, fields |-> {},
                     deleted |-> TRUE]
    <3>1. UNCHANGED write \/ (write' = [write EXCEPT ![r] = w] /\ Respects(r, w))
      BY <2>0, <2>6 DEF DeletesProject, Ends, Writes, Respects, AskedExists
    <3> QED  BY <3>1
  <2> QED  BY <2>1, <2>2, <2>3, <2>4, <2>5, <2>6
<1>5. \A w : write' = [write EXCEPT ![r] = w] => w \in WriteSet
  BY <1>1 DEF TypeOK
<1> QED  BY <1>1, <1>2, <1>3, <1>4, <1>5, StatementKeeps

LEMMA RollsBackKeeps ==
  ASSUME IInv, NEW r \in Requests, RollsBack(r)
  PROVE  IInv'
<1>1. TypeOK'
  BY EndTyped DEF IInv
<1>2. Still /\ at[r] # "idle" /\ \A s \in Requests \ {r} : at'[s] = at[s]
  BY DEF RollsBack, Still, tables, asked, IInv, TypeOK
<1>3. write' = [write EXCEPT ![r] = NoWrite] /\ NoWrite \in WriteSet
  BY DEF RollsBack, Release, WriteSet
<1>4. Respects(r, NoWrite)
  BY DEF Respects, NoWrite
<1> QED  BY <1>1, <1>2, <1>3, <1>4, StatementKeeps

LEMMA CommitsKeeps ==
  ASSUME IInv, NEW r \in Requests, Commits(r)
  PROVE  IInv'
<1>1. TypeOK /\ WrittenExists /\ RowsLocked /\ KeysFree /\ VersionsUnique
  BY DEF IInv
<1>2. /\ CommitDocument(r) /\ CommitProject(r)
      /\ UNCHANGED ask /\ at[r] # "idle"
      /\ \A s \in Requests \ {r} : at'[s] = at[s]
  BY <1>1 DEF Commits, asked, TypeOK
<1>3. write'[r].kind = "none" /\ \A s \in Requests \ {r} : write'[s] = write[s]
  BY <1>1 DEF Commits, Release, TypeOK, NoWrite
<1>4. TypeOK'
  BY EndTyped DEF IInv
<1>5. \A p \in ProjectIds : projects[p] # None => projects'[p] # None
  BY <1>1, <1>2, CommitProjectTyped
<1>6. AskedExists'
  BY <1>2, <1>5, QuestionProject DEF IInv, AskedExists
<1>7. WrittenExists'
  <2> SUFFICES ASSUME NEW s \in Requests
               PROVE  /\ write'[s].kind \in {"set", "remove"} =>
                           documents'[write'[s].id] # None
                      /\ write'[s].kind = "project" =>
                           projects'[write'[s].id] # None
    BY DEF WrittenExists, Exists
  <2>1. CASE s = r
    BY <1>3, <2>1
  <2>2. CASE s # r
    <3>1. write'[s] = write[s] /\ write[s] \in WriteSet
      BY <1>1, <1>3, <2>2 DEF TypeOK
    <3>2. write[s].kind \in {"set", "remove"} =>
            /\ write[s].id \in DocumentIds /\ documents[write[s].id] # None
            /\ ~ (write[r].kind = "remove" /\ write[r].id = write[s].id)
      BY <1>1, <2>2, <3>1, WriteCarries DEF WrittenExists, RowsLocked, Exists
    <3>3. write[s].kind = "project" =>
            write[s].id \in ProjectIds /\ projects[write[s].id] # None
      BY <1>1, <3>1, WriteCarries DEF WrittenExists
    <3>4. write[s].kind \in {"set", "remove"} => documents'[write[s].id] # None
      BY <1>1, <1>2, <3>2, CommitKeys
    <3> QED  BY <1>5, <3>1, <3>3, <3>4
  <2> QED  BY <2>1, <2>2
<1>8. RowsLocked'
  BY <1>1, <1>3 DEF RowsLocked
<1>9. VersionsUnique'
  <2> SUFFICES ASSUME NEW d \in DocumentIds, NEW e \in DocumentIds, d # e,
                      documents'[d] # None, documents'[e] # None,
                      Key(documents'[d]) = Key(documents'[e])
               PROVE  FALSE
    BY DEF VersionsUnique, Exists, Key
  <2>1. /\ \/ d = r /\ write[r].kind = "insert" /\ documents'[d] = write[r].row
           \/ documents[d] # None /\ Key(documents'[d]) = Key(documents[d])
        /\ \/ e = r /\ write[r].kind = "insert" /\ documents'[e] = write[r].row
           \/ documents[e] # None /\ Key(documents'[e]) = Key(documents[e])
    BY <1>1, <1>2, CommitKeys
  <2>2. write[r].kind = "insert" =>
          \A x \in DocumentIds :
            documents[x] # None => Key(documents[x]) # Key(write[r].row)
    BY <1>1 DEF KeysFree, KeyInUse, Present, Exists
  <2> QED  BY <1>1, <2>1, <2>2 DEF VersionsUnique, Exists
<1>10. KeysFree'
  <2>1. \A s \in Requests, d \in DocumentIds :
          write'[s].kind = "insert" /\ documents'[d] # None =>
            Key(documents'[d]) # Key(write'[s].row)
    <3> SUFFICES ASSUME NEW s \in Requests \ {r}, NEW d \in DocumentIds,
                        write[s].kind = "insert", documents'[d] # None
                 PROVE  Key(documents'[d]) # Key(write[s].row)
      BY <1>3
    <3>1. CASE d = r /\ write[r].kind = "insert" /\ documents'[d] = write[r].row
      BY <1>1, <3>1 DEF KeysFree
    <3>2. CASE documents[d] # None /\ Key(documents'[d]) = Key(documents[d])
      BY <1>1, <3>2 DEF KeysFree, KeyInUse, Present, Exists
    <3> QED  BY <1>1, <1>2, <3>1, <3>2, CommitKeys
  <2>2. \A s, u \in Requests :
          s # u /\ write'[s].kind = "insert" /\ write'[u].kind = "insert" =>
            Key(write'[s].row) # Key(write'[u].row)
    BY <1>1, <1>3 DEF KeysFree
  <2> QED  BY <2>1, <2>2 DEF KeysFree, KeyInUse, Present, Exists, Key
<1> QED  BY <1>4, <1>6, <1>7, <1>8, <1>9, <1>10 DEF IInv

LEMMA InitIInv == ASSUME Init PROVE IInv
<1>1. TypeOK
  BY DEF Init, TypeOK, Rows, ProjectRows, Columns, Labels, WriteSet, NoQuestion,
         ProjectIds, DocumentIds
<1>2. AskedExists /\ WrittenExists /\ RowsLocked /\ KeysFree
  BY DEF Init, AskedExists, WrittenExists, RowsLocked, KeysFree, NoWrite
<1>3. VersionsUnique
  BY DEF Init, VersionsUnique, Exists, Key, DocumentIds
<1> QED  BY <1>1, <1>2, <1>3 DEF IInv

LEMMA StepIInv == ASSUME IInv, [Next]_vars PROVE IInv'
<1>1. ASSUME NEW r \in Requests, NEW q \in Questions, Asks(r, q) PROVE IInv'
  BY <1>1, AsksTyped, AsksKeeps DEF IInv
<1>2. ASSUME NEW r \in Requests, Proceeds(r) \/ StatementFails(r) PROVE IInv'
  BY <1>2, ReadsKeeps, WritesKeeps, CommitsKeeps, RollsBackKeeps DEF Proceeds
<1>3. CASE UNCHANGED vars
  BY <1>3 DEF vars, IInv, TypeOK, AskedExists, WrittenExists, RowsLocked,
              KeysFree, VersionsUnique, Exists, Key, KeyInUse, Present
<1> QED  BY <1>1, <1>2, <1>3 DEF Next

LEMMA IInvAlways == Spec => []IInv
<1>1. Init => IInv
  BY InitIInv
<1>2. IInv /\ [Next]_vars => IInv'
  BY StepIInv
<1> QED  BY <1>1, <1>2, PTL DEF Spec

-----------------------------------------------------------------------------
\* Every row, request and transaction keeps its type.
THEOREM DocumentsTypeCorrect == Spec => []TypeOK
<1>1. IInv => TypeOK
  BY DEF IInv
<1> QED  BY <1>1, IInvAlways, PTL

\* However many requests create, update and delete documents, a project never
\* has two documents of one type and version.
THEOREM VersionsStayUnique == Spec => []VersionsUnique
<1>1. IInv => VersionsUnique
  BY DEF IInv
<1> QED  BY <1>1, IInvAlways, PTL

\* No step of a request lets it go on while it holds an uncommitted write.
LEMMA HoldersStep ==
  TypeOK /\ HoldersWaitForNothing /\ [Next]_vars => HoldersWaitForNothing'
<1> SUFFICES ASSUME TypeOK, HoldersWaitForNothing, [Next]_vars
             PROVE  HoldersWaitForNothing'
  OBVIOUS
<1>t. at \in [Requests -> Labels] /\ DOMAIN write = Requests
  BY DEF TypeOK
<1>1. ASSUME NEW r \in Requests, NEW label \in Labels,
             write[r] = NoWrite, at' = [at EXCEPT ![r] = label], UNCHANGED write
      PROVE  HoldersWaitForNothing'
  BY <1>1, <1>t DEF HoldersWaitForNothing
<1>2. ASSUME NEW r \in Requests, NEW w, at' = [at EXCEPT ![r] = "commit"],
             write' = [write EXCEPT ![r] = w]
      PROVE  HoldersWaitForNothing'
  BY <1>2, <1>t DEF HoldersWaitForNothing
<1>3. ASSUME NEW r \in Requests, at' = [at EXCEPT ![r] = "done"], Release(r)
      PROVE  HoldersWaitForNothing'
  BY <1>3, <1>t DEF HoldersWaitForNothing, Release
<1>4. ASSUME NEW r \in Requests, at[r] # "commit"
      PROVE  write[r] = NoWrite
  BY <1>4 DEF HoldersWaitForNothing
<1>5. ASSUME NEW r \in Requests, NEW q \in Questions, Asks(r, q)
      PROVE  HoldersWaitForNothing'
  BY <1>5, <1>1, <1>4 DEF Asks, GoesTo, Labels
<1>6. ASSUME NEW r \in Requests, NEW label \in Labels, at[r] # "commit",
             GoesTo(r, label)
      PROVE  HoldersWaitForNothing'
  BY <1>6, <1>1, <1>4 DEF GoesTo
<1>7. ASSUME NEW r \in Requests, NEW a, at[r] # "commit", Ends(r, a)
      PROVE  HoldersWaitForNothing'
  BY <1>7, <1>1, <1>4 DEF Ends, Labels
<1>8. ASSUME NEW r \in Requests, NEW w, NEW a, Writes(r, w, a)
      PROVE  HoldersWaitForNothing'
  BY <1>8, <1>2 DEF Writes
<1>9. ASSUME NEW r \in Requests,
             ChecksAccess(r) \/ ChecksUser(r) \/ ChoosesVersion(r)
               \/ ReadsDocument(r) \/ ReadsLatest(r) \/ StatementFails(r)
      PROVE  HoldersWaitForNothing'
  BY <1>9, <1>6, <1>7
     DEF ChecksAccess, ChecksUser, ChoosesVersion, ReadsDocument, ReadsLatest,
         StatementFails, Labels
<1>10. ASSUME NEW r \in Requests,
              InsertsDocument(r) \/ UpdatesDocument(r) \/ DeletesDocument(r)
                \/ InsertsProject(r) \/ UpdatesProject(r) \/ DeletesProject(r)
       PROVE  HoldersWaitForNothing'
  BY <1>10, <1>7, <1>8
     DEF InsertsDocument, UpdatesDocument, DeletesDocument, InsertsProject,
         UpdatesProject, DeletesProject
<1>11. ASSUME NEW r \in Requests, Commits(r) \/ RollsBack(r)
       PROVE  HoldersWaitForNothing'
  BY <1>11, <1>3 DEF Commits, RollsBack
<1>12. CASE UNCHANGED vars
  BY <1>12 DEF vars, HoldersWaitForNothing
<1>13. QED
  BY <1>5, <1>9, <1>10, <1>11, <1>12 DEF Next, Proceeds

\* Whoever holds a row or a key has come to the end of its transaction, so that
\* requests cannot wait for each other in a circle.
THEOREM HoldersOnlyCommit == Spec => []HoldersWaitForNothing
<1>1. Init => HoldersWaitForNothing
  BY DEF Init, HoldersWaitForNothing
<1>2. TypeOK /\ HoldersWaitForNothing /\ [Next]_vars => HoldersWaitForNothing'
  BY HoldersStep
<1>3. QED
  BY <1>1, <1>2, DocumentsTypeCorrect, PTL DEF Spec
-----------------------------------------------------------------------------
(* Who writes what *)

\* A request has no row under its name before its transaction ends.
NotYet ==
  \A r \in Requests :
    at[r] # "done" => documents[r] = None /\ projects[r] = None

\* A document that was asked about is not still to be made.
AskedIds ==
  \A r \in Requests :
    at[r] # "idle" /\ ask[r].op \in OnDocument =>
      ask[r].document \in OldDocuments \/ at[ask[r].document] = "done"

\* Past the check, the project is the user's.
Owns(r) ==
  at[r] \in {"read", "write", "commit"} /\ ask[r].op # "create_project" =>
    projects[ask[r].project].owner = ask[r].user

\* Past get_by_id, the document is in the project, as long as there is one.
Right(r) ==
  /\ at[r] = "write" /\ ask[r].op \in {"update", "delete"}
  /\ documents[ask[r].document] # None
  => documents[ask[r].document].project = ask[r].project

\* What is written is what was asked for; an update has the columns it did not
\* set from the last commit, which its lock keeps as it was.
Matches(r) ==
  /\ write[r].kind = "insert" =>
       /\ ask[r].op = "create" /\ write[r].row.project = ask[r].project
       /\ write[r].row.fields = [f \in Fields |-> r]
  /\ write[r].kind \in {"set", "remove"} =>
       /\ ask[r].op \in {"update", "delete"} /\ write[r].id = ask[r].document
       /\ documents[write[r].id].project = ask[r].project
  /\ write[r].kind = "set" =>
       write[r].fields = [f \in Fields |-> IF f \in ask[r].fields THEN r
                                           ELSE lastSet[write[r].id][f]]

OwnInv ==
  /\ IInv /\ HoldersWaitForNothing /\ NotYet /\ AskedIds /\ NoLostUpdate
  /\ \A r \in Requests : Owns(r) /\ Right(r) /\ Matches(r)

\* The conjuncts a step must keep beside those proved above.
OwnRest ==
  /\ NotYet /\ AskedIds /\ NoLostUpdate
  /\ \A r \in Requests : Owns(r) /\ Right(r) /\ Matches(r)

LEMMA NamesAreIds ==
  \A r \in Requests : r \in DocumentIds /\ r \in ProjectIds /\ r \notin OldDocuments
BY DEF DocumentIds, ProjectIds

\* A statement changes nothing for the other requests.
LEMMA StatementOwns ==
  ASSUME OwnInv, NEW r \in Requests, Still,
         at[r] \notin {"idle", "done"}, at'[r] # "idle",
         \A s \in Requests \ {r} : at'[s] = at[s] /\ write'[s] = write[s],
         Owns(r)', Right(r)', Matches(r)'
  PROVE  OwnRest'
<1>1. NotYet'
  BY DEF OwnInv, NotYet, Still
<1>2. AskedIds'
  <2> SUFFICES ASSUME NEW s \in Requests, at'[s] # "idle", ask[s].op \in OnDocument,
                      ask[s].document \notin OldDocuments
               PROVE  at'[ask[s].document] = "done"
    BY DEF AskedIds, Still
  <2>1. at[ask[s].document] = "done"
    BY DEF OwnInv, AskedIds
  <2>2. ask[s].document \in Requests
    <3>1. ask[s] \in Questions \cup {NoQuestion}
      BY DEF OwnInv, IInv, TypeOK
    <3>2. ask[s].document \in DocumentIds
      BY <3>1, DocumentQuestion
    <3> QED  BY <3>2 DEF DocumentIds
  <2> QED  BY <2>1, <2>2
<1>3. NoLostUpdate'
  BY DEF OwnInv, NoLostUpdate, Still, Present, Exists
<1>4. ASSUME NEW s \in Requests, s # r
      PROVE  Owns(s)' /\ Right(s)' /\ Matches(s)'
  <2>1. at'[s] = at[s] /\ write'[s] = write[s] /\ Owns(s) /\ Right(s) /\ Matches(s)
    BY <1>4 DEF OwnInv
  <2>2. UNCHANGED <<projects, documents, lastSet, ask>>
    BY DEF Still
  <2> QED  BY <2>1, <2>2 DEF Owns, Right, Matches
<1> QED  BY <1>1, <1>2, <1>3, <1>4 DEF OwnRest

LEMMA AsksOwns ==
  ASSUME OwnInv, NEW r \in Requests, NEW q \in Questions, Asks(r, q)
  PROVE  OwnRest'
<1>0. TypeOK
  BY DEF OwnInv, IInv
<1>1. /\ UNCHANGED <<projects, documents, lastSet, write>> /\ at[r] = "idle"
      /\ at'[r] = "check" /\ ask'[r] = q
      /\ \A s \in Requests \ {r} : at'[s] = at[s] /\ ask'[s] = ask[s]
  BY <1>0 DEF Asks, GoesTo, tables, TypeOK
<1>2. write[r].kind = "none"
  BY <1>1 DEF OwnInv, HoldersWaitForNothing, NoWrite
<1>3. NotYet' /\ NoLostUpdate'
  BY <1>1 DEF OwnInv, NotYet, NoLostUpdate, Present, Exists
<1>4. \A s \in Requests : Owns(s)' /\ Right(s)' /\ Matches(s)'
  <2>1. Owns(r)' /\ Right(r)' /\ Matches(r)'
    BY <1>1, <1>2 DEF Owns, Right, Matches
  <2>2. ASSUME NEW s \in Requests \ {r}
        PROVE  Owns(s)' /\ Right(s)' /\ Matches(s)'
    <3>1. Owns(s) /\ Right(s) /\ Matches(s)
      BY DEF OwnInv
    <3> QED  BY <1>1, <3>1 DEF Owns, Right, Matches
  <2> QED  BY <2>1, <2>2
<1>5. AskedIds'
  <2> SUFFICES ASSUME NEW s \in Requests, at'[s] # "idle", ask'[s].op \in OnDocument,
                      ask'[s].document \notin OldDocuments
               PROVE  at'[ask'[s].document] = "done"
    BY DEF AskedIds
  <2>1. ask'[s].document \in Requests
    <3>1. ask'[s] \in Questions \cup {NoQuestion}
      BY <1>0, <1>1 DEF TypeOK
    <3>2. ask'[s].document \in DocumentIds
      BY <3>1, DocumentQuestion
    <3> QED  BY <3>2 DEF DocumentIds
  <2>2. at[ask'[s].document] = "done"
    <3>1. CASE s = r
      <4>1. documents[q.document] # None
        BY <1>1, <3>1 DEF Asks, Exists
      <4> QED  BY <1>1, <2>1, <3>1, <4>1 DEF OwnInv, NotYet
    <3>2. CASE s # r
      BY <1>1, <3>2 DEF OwnInv, AskedIds
    <3> QED  BY <3>1, <3>2
  <2> QED  BY <1>1, <2>1, <2>2
<1> QED  BY <1>3, <1>4, <1>5 DEF OwnRest

LEMMA ReadsOwn ==
  ASSUME OwnInv, NEW r \in Requests,
         \/ ChecksAccess(r) \/ ChecksUser(r) \/ ChoosesVersion(r)
         \/ ReadsDocument(r) \/ ReadsLatest(r) \/ StatementFails(r)
  PROVE  OwnRest'
<1>0. TypeOK /\ Owns(r) /\ Matches(r)
  BY DEF OwnInv, IInv
<1>1. Still /\ UNCHANGED write
  BY DEF ChecksAccess, ChecksUser, ChoosesVersion, ReadsDocument, ReadsLatest,
         StatementFails, Still, tables, asked, GoesTo, Ends
<1>2. /\ at[r] \in {"check", "read", "write"}
      /\ \E l \in {"read", "write", "done"} : at' = [at EXCEPT ![r] = l]
  BY DEF ChecksAccess, ChecksUser, ChoosesVersion, ReadsDocument, ReadsLatest,
         StatementFails, GoesTo, Ends
<1>3. at'[r] \in {"read", "write", "done"} /\ \A s \in Requests \ {r} : at'[s] = at[s]
  BY <1>0, <1>2 DEF TypeOK
<1>4. Matches(r)'
  BY <1>0, <1>1 DEF Matches, Still
<1>5. Owns(r)'
  <2> SUFFICES ASSUME at'[r] \in {"read", "write"}, ask[r].op # "create_project"
               PROVE  projects[ask[r].project].owner = ask[r].user
    BY <1>1, <1>3 DEF Owns, Still
  <2>1. CASE ChecksAccess(r)
    BY <1>0, <2>1 DEF ChecksAccess, Accessible, Ends, GoesTo, TypeOK
  <2>2. CASE at[r] \in {"read", "write"}
    BY <1>0, <2>2 DEF Owns
  <2>3. at[r] = "check" => ChecksAccess(r)
    BY <1>0 DEF ChecksUser, ChoosesVersion, ReadsDocument, ReadsLatest, StatementFails,
                Ends, TypeOK
  <2> QED  BY <1>2, <2>1, <2>2, <2>3
<1>6. Right(r)'
  <2> SUFFICES ASSUME at'[r] = "write", ask[r].op \in {"update", "delete"},
                      documents[ask[r].document] # None
               PROVE  documents[ask[r].document].project = ask[r].project
    BY <1>1 DEF Right, Still
  <2>1. ReadsDocument(r)
    BY <1>0 DEF ChecksAccess, ChecksUser, ChoosesVersion, ReadsLatest, StatementFails,
                GoesTo, Ends, TypeOK
  <2>2. Selected(ask[r])
    BY <1>0, <2>1 DEF ReadsDocument, GoesTo, Ends, TypeOK
  <2> QED  BY <2>2 DEF Selected
<1> QED  BY <1>1, <1>2, <1>3, <1>4, <1>5, <1>6, StatementOwns

LEMMA WritesOwn ==
  ASSUME OwnInv, NEW r \in Requests,
         \/ InsertsDocument(r) \/ UpdatesDocument(r) \/ DeletesDocument(r)
         \/ InsertsProject(r) \/ UpdatesProject(r) \/ DeletesProject(r)
  PROVE  OwnRest'
<1>0. TypeOK /\ Owns(r) /\ Right(r) /\ Matches(r) /\ NoLostUpdate
  BY DEF OwnInv, IInv
<1>1. Still /\ at[r] = "write"
  BY DEF InsertsDocument, UpdatesDocument, DeletesDocument, InsertsProject,
         UpdatesProject, DeletesProject, Still, tables, asked
<1>2. \/ at' = [at EXCEPT ![r] = "done"] /\ UNCHANGED write
      \/ at' = [at EXCEPT ![r] = "commit"] /\ \E w : write' = [write EXCEPT ![r] = w]
  BY DEF InsertsDocument, UpdatesDocument, DeletesDocument, InsertsProject,
         UpdatesProject, DeletesProject, Ends, Writes
<1>3. /\ at'[r] \in {"commit", "done"}
      /\ \A s \in Requests \ {r} : at'[s] = at[s] /\ write'[s] = write[s]
  BY <1>0, <1>2 DEF TypeOK
<1>4. Owns(r)' /\ Right(r)'
  BY <1>0, <1>1, <1>3 DEF Owns, Right, Still
<1>5. Matches(r)'
  <2>1. CASE UNCHANGED write
    BY <1>0, <1>1, <2>1 DEF Matches, Still
  <2>2. CASE InsertsDocument(r) /\ ~ UNCHANGED write
    <3>1. write'[r] = [kind |-> "insert", row |-> NewRow(r)] /\ ask[r].op = "create"
      BY <1>0, <2>2 DEF InsertsDocument, Ends, Writes, TypeOK
    <3>2. write'[r].kind = "insert" /\ write'[r].row = NewRow(r)
      BY <3>1
    <3>3. NewRow(r).project = ask[r].project /\ NewRow(r).fields = [f \in Fields |-> r]
      BY DEF NewRow
    <3> QED  BY <1>1, <3>1, <3>2, <3>3 DEF Matches, Still
  <2>3. CASE UpdatesDocument(r) /\ ~ UNCHANGED write
    <3> DEFINE d == ask[r].document
    <3>1. /\ write'[r] = [kind |-> "set", id |-> d, fields |-> SetColumns(r)]
          /\ ask[r].op = "update" /\ documents[d] # None
      BY <1>0, <2>3 DEF UpdatesDocument, Ends, Writes, TypeOK, Exists
    <3>2. d \in DocumentIds
      BY <1>0, <3>1, DocumentQuestion DEF TypeOK, OnDocument
    <3>3. documents[d].fields = lastSet[d]
      BY <1>0, <3>1, <3>2 DEF NoLostUpdate, Present, Exists
    <3>4. SetColumns(r) = [f \in Fields |-> IF f \in ask[r].fields THEN r
                                            ELSE lastSet[d][f]]
      BY <3>3 DEF SetColumns
    <3>5. documents[d].project = ask[r].project
      BY <1>0, <1>1, <3>1 DEF Right
    <3>6. write'[r].kind = "set" /\ write'[r].id = d /\ write'[r].fields = SetColumns(r)
      BY <3>1
    <3> QED  BY <1>1, <3>1, <3>4, <3>5, <3>6 DEF Matches, Still
  <2>4. CASE DeletesDocument(r) /\ ~ UNCHANGED write
    <3> DEFINE d == ask[r].document
    <3>1. /\ write'[r] = IF Exists(d) THEN [kind |-> "remove", id |-> d] ELSE NoWrite
          /\ ask[r].op = "delete"
      BY <1>0, <2>4 DEF DeletesDocument, Writes, TypeOK
    <3>2. CASE Exists(d)
      <4>1. write'[r].kind = "remove" /\ write'[r].id = d
        BY <3>1, <3>2
      <4>2. documents[d].project = ask[r].project
        BY <1>0, <1>1, <3>1, <3>2 DEF Right, Exists
      <4> QED  BY <1>1, <3>1, <4>1, <4>2 DEF Matches, Still
    <3>3. CASE ~ Exists(d)
      BY <3>1, <3>3 DEF Matches, NoWrite
    <3> QED  BY <3>2, <3>3
  <2>5. CASE (InsertsProject(r) \/ UpdatesProject(r) \/ DeletesProject(r))
               /\ ~ UNCHANGED write
    <3>1. write'[r].kind \in {"project", "new_project"}
      BY <1>0, <2>5 DEF InsertsProject, UpdatesProject, DeletesProject, Ends, Writes,
                        TypeOK
    <3> QED  BY <3>1 DEF Matches
  <2> QED  BY <2>1, <2>2, <2>3, <2>4, <2>5
<1> QED  BY <1>1, <1>3, <1>4, <1>5, StatementOwns

LEMMA RollsBackOwns ==
  ASSUME OwnInv, NEW r \in Requests, RollsBack(r)
  PROVE  OwnRest'
<1>0. TypeOK
  BY DEF OwnInv, IInv
<1>1. Still /\ at[r] = "commit"
  BY DEF RollsBack, Still, tables, asked
<1>2. /\ at'[r] = "done" /\ write'[r] = NoWrite
      /\ \A s \in Requests \ {r} : at'[s] = at[s] /\ write'[s] = write[s]
  BY <1>0 DEF RollsBack, Release, TypeOK
<1>3. Owns(r)' /\ Right(r)' /\ Matches(r)'
  BY <1>2 DEF Owns, Right, Matches, NoWrite
<1> QED  BY <1>1, <1>2, <1>3, StatementOwns

\* A commit keeps the owner of every project and makes at most its own.
LEMMA CommitKeepsOwners ==
  ASSUME OwnInv, NEW r \in Requests, CommitProject(r), at[r] = "commit",
         NEW p \in ProjectIds
  PROVE  /\ projects[p] # None => projects'[p].owner = projects[p].owner
         /\ projects[p] = None /\ p # r => projects'[p] = None
<1>0. TypeOK /\ WrittenExists /\ projects[r] = None /\ r \in ProjectIds
  BY NamesAreIds DEF OwnInv, IInv, NotYet
<1>1. CASE write[r].kind = "project"
  <2>1. write[r].id \in ProjectIds /\ projects[write[r].id] # None
    BY <1>0, <1>1, WriteCarries DEF WrittenExists, TypeOK
  <2> DEFINE old == projects[write[r].id]
             new == [owner |-> old.owner, deleted |-> write[r].deleted,
                     fields |-> [f \in Fields |-> IF f \in write[r].fields
                                  THEN r ELSE old.fields[f]]]
  <2>2. projects' = [projects EXCEPT ![write[r].id] = new]
    BY <1>1 DEF CommitProject
  <2>3. new.owner = projects[write[r].id].owner
    OBVIOUS
  <2> HIDE DEF new
  <2> QED  BY <1>0, <2>1, <2>2, <2>3 DEF TypeOK
<1>2. CASE write[r].kind = "new_project"
  <2> DEFINE new == [owner |-> write[r].owner, deleted |-> FALSE,
                     fields |-> [f \in Fields |-> r]]
  <2>1. projects' = [projects EXCEPT ![r] = new]
    BY <1>2 DEF CommitProject
  <2> HIDE DEF new
  <2> QED  BY <1>0, <2>1 DEF TypeOK
<1>3. CASE write[r].kind \notin {"project", "new_project"}
  BY <1>3 DEF CommitProject
<1> QED  BY <1>1, <1>2, <1>3

\* A commit writes its own row or the row it has locked, in both histories.
LEMMA CommitWritesOne ==
  ASSUME OwnInv, NEW r \in Requests, CommitDocument(r), at[r] = "commit",
         NEW d \in DocumentIds
  PROVE  /\ d # r /\ (write[r].kind \in {"set", "remove"} => write[r].id # d) =>
              documents'[d] = documents[d] /\ lastSet'[d] = lastSet[d]
         /\ documents[d] # None /\ documents'[d] # None =>
              documents'[d].project = documents[d].project
         /\ documents[d] = None /\ d # r => documents'[d] = None
         /\ documents'[d] # None => documents'[d].fields = lastSet'[d]
<1>0. /\ TypeOK /\ WrittenExists /\ documents[r] = None /\ r \in DocumentIds
      /\ Matches(r) /\ NoLostUpdate /\ write[r] \in WriteSet
  BY NamesAreIds DEF OwnInv, IInv, NotYet, TypeOK
<1>1. documents[d] # None => documents[d].fields = lastSet[d]
  BY <1>0 DEF NoLostUpdate, Present, Exists
<1>2. CASE write[r].kind = "insert"
  <2>1. /\ documents' = [documents EXCEPT ![r] = write[r].row]
        /\ lastSet' = [lastSet EXCEPT ![r] = [f \in Fields |-> r]]
    BY <1>2 DEF CommitDocument
  <2>2. write[r].row.fields = [f \in Fields |-> r]
    BY <1>0, <1>2 DEF Matches
  <2> QED  BY <1>0, <1>1, <1>2, <2>1, <2>2 DEF TypeOK
<1>3. CASE write[r].kind = "set"
  <2>1. /\ write[r].id \in DocumentIds /\ documents[write[r].id] \in Rows
    BY <1>0, <1>3, WriteCarries DEF WrittenExists, Exists, TypeOK
  <2> DEFINE id == write[r].id
             new == [documents[id] EXCEPT !.fields = write[r].fields]
             columns == [f \in Fields |-> IF f \in ask[r].fields THEN r ELSE lastSet[id][f]]
  <2>2. documents' = [documents EXCEPT ![id] = new]
    BY <1>3 DEF CommitDocument
  <2>3. lastSet' = [lastSet EXCEPT ![id] = columns]
    BY <1>3 DEF CommitDocument
  <2>4. new.fields = columns /\ new.project = documents[id].project
    BY <1>0, <1>3, <2>1 DEF Matches, Rows
  <2> HIDE DEF new, columns
  <2> QED  BY <1>0, <1>1, <1>3, <2>1, <2>2, <2>3, <2>4 DEF TypeOK
<1>4. CASE write[r].kind = "remove"
  <2>1. documents' = [documents EXCEPT ![write[r].id] = None] /\ lastSet' = lastSet
    BY <1>4 DEF CommitDocument
  <2>2. write[r].id \in DocumentIds
    BY <1>0, <1>4, WriteCarries
  <2> QED  BY <1>0, <1>1, <1>4, <2>1, <2>2 DEF TypeOK
<1>5. CASE write[r].kind \notin {"insert", "set", "remove"}
  BY <1>1, <1>5 DEF CommitDocument
<1> QED  BY <1>2, <1>3, <1>4, <1>5

LEMMA CommitsOwns ==
  ASSUME OwnInv, NEW r \in Requests, Commits(r)
  PROVE  OwnRest'
<1>0. TypeOK /\ AskedExists /\ WrittenExists /\ RowsLocked
  BY DEF OwnInv, IInv
<1>1. /\ CommitDocument(r) /\ CommitProject(r) /\ UNCHANGED ask /\ at[r] = "commit"
      /\ at'[r] = "done" /\ write'[r] = NoWrite
      /\ \A s \in Requests \ {r} : at'[s] = at[s] /\ write'[s] = write[s]
  BY <1>0 DEF Commits, Release, asked, TypeOK
<1>2. NotYet'
  BY <1>1, CommitKeepsOwners, CommitWritesOne, NamesAreIds DEF OwnInv, NotYet
<1>3. AskedIds'
  <2> SUFFICES ASSUME NEW s \in Requests, at'[s] # "idle", ask[s].op \in OnDocument,
                      ask[s].document \notin OldDocuments
               PROVE  at'[ask[s].document] = "done"
    BY <1>1 DEF AskedIds
  <2>1. at[ask[s].document] = "done"
    BY <1>1 DEF OwnInv, AskedIds
  <2>2. ask[s].document \in Requests
    BY <1>0, DocumentQuestion DEF TypeOK, DocumentIds
  <2> QED  BY <1>1, <2>1, <2>2
<1>4. NoLostUpdate'
  BY <1>1, CommitWritesOne DEF NoLostUpdate, Present, Exists
<1>5. Owns(r)' /\ Right(r)' /\ Matches(r)'
  BY <1>1 DEF Owns, Right, Matches, NoWrite
<1>6. ASSUME NEW s \in Requests \ {r}
      PROVE  Owns(s)' /\ Right(s)' /\ Matches(s)'
  <2>1. /\ Owns(s) /\ Right(s) /\ Matches(s)
        /\ at'[s] = at[s] /\ write'[s] = write[s] /\ ask'[s] = ask[s]
    BY <1>1 DEF OwnInv
  <2>2. Owns(s)'
    <3> SUFFICES ASSUME at[s] \in {"read", "write", "commit"},
                        ask[s].op # "create_project"
                 PROVE  projects'[ask[s].project].owner = ask[s].user
      BY <2>1 DEF Owns
    <3>1. projects[ask[s].project] # None /\ ask[s].project \in ProjectIds
      BY <1>0, QuestionProject DEF AskedExists
    <3> QED  BY <1>1, <2>1, <3>1, CommitKeepsOwners DEF Owns
  <2>3. Right(s)'
    <3> SUFFICES ASSUME at[s] = "write", ask[s].op \in {"update", "delete"},
                        documents'[ask[s].document] # None
                 PROVE  documents'[ask[s].document].project = ask[s].project
      BY <2>1 DEF Right
    <3>1. ask[s].document \in DocumentIds
      BY <1>0, DocumentQuestion DEF TypeOK, OnDocument
    <3>2. ask[s].document # r
      BY <1>1, NamesAreIds DEF OwnInv, AskedIds, OnDocument
    <3>3. documents[ask[s].document] # None
      BY <1>1, <3>1, <3>2, CommitWritesOne
    <3> QED  BY <1>1, <2>1, <3>1, <3>3, CommitWritesOne DEF Right
  <2>4. Matches(s)'
    <3>1. CASE write[s].kind \notin {"set", "remove"}
      BY <2>1, <3>1 DEF Matches
    <3>2. CASE write[s].kind \in {"set", "remove"}
      <4> DEFINE id == write[s].id
      <4>1. id \in DocumentIds /\ documents[id] # None
        BY <1>0, <3>2, WriteCarries DEF WrittenExists, Exists, TypeOK
      <4>2. id # r
        BY <1>1, <4>1 DEF OwnInv, NotYet
      <4>3. write[r].kind \in {"set", "remove"} => write[r].id # id
        BY <1>0, <3>2 DEF RowsLocked
      <4>4. documents'[id] = documents[id] /\ lastSet'[id] = lastSet[id]
        BY <1>1, <4>1, <4>2, <4>3, CommitWritesOne
      <4> QED  BY <2>1, <3>2, <4>4 DEF Matches
    <3> QED  BY <3>1, <3>2
  <2> QED  BY <2>2, <2>3, <2>4
<1> QED  BY <1>2, <1>3, <1>4, <1>5, <1>6 DEF OwnRest

LEMMA InitOwnInv == ASSUME Init PROVE OwnInv
<1>1. IInv
  BY InitIInv
<1>2. NotYet
  BY NamesAreIds DEF Init, NotYet, ProjectIds, DocumentIds
<1>3. HoldersWaitForNothing /\ AskedIds
  BY DEF Init, HoldersWaitForNothing, AskedIds
<1>4. \A r \in Requests : Owns(r) /\ Right(r) /\ Matches(r)
  BY DEF Init, Owns, Right, Matches, NoWrite
<1>5. NoLostUpdate
  BY DEF Init, NoLostUpdate, Present, Exists
<1> QED  BY <1>1, <1>2, <1>3, <1>4, <1>5 DEF OwnInv

LEMMA StepOwnInv == ASSUME OwnInv, [Next]_vars PROVE OwnInv'
<1>1. IInv' /\ HoldersWaitForNothing'
  BY StepIInv, HoldersStep DEF OwnInv, IInv
<1>2. ASSUME NEW r \in Requests, NEW q \in Questions, Asks(r, q) PROVE OwnRest'
  BY <1>2, AsksOwns
<1>3. ASSUME NEW r \in Requests, Proceeds(r) \/ StatementFails(r) PROVE OwnRest'
  BY <1>3, ReadsOwn, WritesOwn, CommitsOwns, RollsBackOwns DEF Proceeds
<1>4. ASSUME UNCHANGED vars PROVE OwnRest'
  <2>1. UNCHANGED <<projects, documents, ask, at, write, lastSet>>
    BY <1>4 DEF vars, tables, asked
  <2>2. NotYet' /\ AskedIds' /\ NoLostUpdate'
    BY <2>1 DEF OwnInv, NotYet, AskedIds, NoLostUpdate, Present, Exists
  <2>3. ASSUME NEW r \in Requests PROVE Owns(r)' /\ Right(r)' /\ Matches(r)'
    <3>1. Owns(r) /\ Right(r) /\ Matches(r)
      BY DEF OwnInv
    <3>2. Owns(r)'
      BY <2>1, <3>1 DEF Owns
    <3>3. Right(r)'
      BY <2>1, <3>1 DEF Right
    <3>4. Matches(r)'
      BY <2>1, <3>1 DEF Matches
    <3> QED  BY <3>2, <3>3, <3>4
  <2> QED  BY <2>2, <2>3 DEF OwnRest
<1>5. ASSUME Next PROVE OwnRest'
  <2> HIDE DEF OwnRest
  <2>1. CASE \E r \in Requests, q \in Questions : Asks(r, q)
    BY <1>2, <2>1
  <2>2. CASE \E r \in Requests : Proceeds(r) \/ StatementFails(r)
    BY <1>3, <2>2
  <2> QED  BY <1>5, <2>1, <2>2 DEF Next
<1>6. OwnRest'
  BY <1>4, <1>5
<1> QED  BY <1>1, <1>6 DEF OwnInv, OwnRest

LEMMA OwnInvAlways == Spec => []OwnInv
<1>1. Init => OwnInv
  BY InitOwnInv
<1>2. OwnInv /\ [Next]_vars => OwnInv'
  BY StepOwnInv
<1> QED  BY <1>1, <1>2, PTL DEF Spec

\* Two updates of a document never undo each other's columns: each column holds
\* what the last transaction to set it committed.
THEOREM UpdatesAreKept == Spec => []NoLostUpdate
<1>1. OwnInv => NoLostUpdate
  BY DEF OwnInv
<1> QED  BY <1>1, OwnInvAlways, PTL

\* Only the owner of a document's project ever writes the document, although
\* the project, the document and the write are three statements.
THEOREM OnlyOwnersWrite == Spec => []WritesAreOwned
<1>1. OwnInv => WritesAreOwned
  <2> SUFFICES ASSUME OwnInv, NEW r \in Requests,
                      write[r].kind \in {"insert", "set", "remove"}
               PROVE  projects[IF write[r].kind = "insert" THEN write[r].row.project
                               ELSE documents[write[r].id].project].owner = ask[r].user
    BY DEF WritesAreOwned
  <2>1. Owns(r) /\ Matches(r) /\ at[r] = "commit"
    BY DEF OwnInv, HoldersWaitForNothing, NoWrite
  <2> QED  BY <2>1 DEF Owns, Matches
<1> QED  BY <1>1, OwnInvAlways, PTL
-----------------------------------------------------------------------------
(* The version chosen by create() *)

\* No answer before the last statement, and a document that was there when a
\* request was asked is not still to be made: it can only go, never come.
Unanswered ==
  \A r \in Requests : at[r] \notin {"commit", "done"} => answer[r] = "none"
BeforeIsMade ==
  \A r \in Requests : \A d \in before[r] : d \in OldDocuments \/ at[d] = "done"

\* Once the version is chosen, it is above those documents of its kind.
Chosen(r) ==
  /\ ask[r].op = "create" /\ ask[r].version = Unnumbered
  /\ at[r] \in {"write", "commit"} \/ answer[r] = "ok"
Newest(r) ==
  Chosen(r) =>
    \A d \in before[r] \cap Siblings(ask[r].project, ask[r].type) :
      documents[d].version < number[r]

NewRest == Unanswered /\ BeforeIsMade /\ \A r \in Requests : Newest(r)
NewInv == OwnInv /\ NewRest

\* A statement concerns its own request only.
LEMMA StatementNew ==
  ASSUME NewInv, NEW r \in Requests, Still,
         at[r] # "done", Unanswered', Newest(r)',
         \A s \in Requests \ {r} :
           at'[s] = at[s] /\ answer'[s] = answer[s] /\ number'[s] = number[s]
  PROVE  NewRest'
<1>1. BeforeIsMade'
  <2> SUFFICES ASSUME NEW s \in Requests, NEW d \in before[s], d \notin OldDocuments
               PROVE  at'[d] = "done"
    BY DEF BeforeIsMade, Still
  <2>1. at[d] = "done" /\ d \in Requests
    BY DEF NewInv, NewRest, BeforeIsMade, OwnInv, IInv, TypeOK, DocumentIds
  <2> QED  BY <2>1
<1>2. ASSUME NEW s \in Requests \ {r} PROVE Newest(s)'
  <2>1. Newest(s)
    BY DEF NewInv, NewRest
  <2> QED  BY <1>2, <2>1 DEF Newest, Chosen, Siblings, Present, Exists, Still
<1> QED  BY <1>1, <1>2 DEF NewRest

LEMMA AsksNew ==
  ASSUME NewInv, NEW r \in Requests, NEW q \in Questions, Asks(r, q)
  PROVE  NewRest'
<1>0. TypeOK /\ Unanswered /\ BeforeIsMade /\ NotYet
  BY DEF NewInv, NewRest, OwnInv, IInv
<1>1. /\ UNCHANGED <<documents, answer, number>> /\ at[r] = "idle"
      /\ at'[r] = "check" /\ before'[r] = Present
      /\ \A s \in Requests \ {r} :
           at'[s] = at[s] /\ ask'[s] = ask[s] /\ before'[s] = before[s]
  BY <1>0 DEF Asks, GoesTo, tables, TypeOK
<1>2. Unanswered'
  BY <1>0, <1>1 DEF Unanswered
<1>3. BeforeIsMade'
  <2> SUFFICES ASSUME NEW s \in Requests, NEW d \in before'[s], d \notin OldDocuments
               PROVE  at'[d] = "done"
    BY DEF BeforeIsMade
  <2>1. CASE s = r
    <3>1. documents[d] # None /\ d \in Requests
      BY <1>1, <2>1 DEF Present, Exists, DocumentIds
    <3> QED  BY <1>0, <1>1, <3>1 DEF NotYet
  <2>2. CASE s # r
    <3>1. at[d] = "done" /\ d \in Requests
      BY <1>0, <1>1, <2>2 DEF BeforeIsMade, TypeOK, DocumentIds
    <3> QED  BY <1>1, <3>1
  <2> QED  BY <2>1, <2>2
<1>4. Newest(r)'
  <2>1. answer'[r] = "none"
    BY <1>0, <1>1 DEF Unanswered
  <2> QED  BY <1>1, <2>1 DEF Newest, Chosen
<1>5. ASSUME NEW s \in Requests \ {r} PROVE Newest(s)'
  <2>1. Newest(s)
    BY DEF NewInv, NewRest
  <2> QED  BY <1>1, <2>1 DEF Newest, Chosen, Siblings, Present, Exists
<1> QED  BY <1>2, <1>3, <1>4, <1>5 DEF NewRest

LEMMA ReadsNew ==
  ASSUME NewInv, NEW r \in Requests,
         \/ ChecksAccess(r) \/ ChecksUser(r) \/ ChoosesVersion(r)
         \/ ReadsDocument(r) \/ ReadsLatest(r) \/ StatementFails(r)
  PROVE  NewRest'
<1>0. TypeOK /\ Unanswered /\ Newest(r)
  BY DEF NewInv, NewRest, OwnInv, IInv
<1>1. Still /\ at[r] \in {"check", "read", "write"}
  BY DEF ChecksAccess, ChecksUser, ChoosesVersion, ReadsDocument, ReadsLatest,
         StatementFails, Still, tables, asked
<1>2. \A s \in Requests \ {r} :
        at'[s] = at[s] /\ answer'[s] = answer[s] /\ number'[s] = number[s]
  BY <1>0 DEF ChecksAccess, ChecksUser, ChoosesVersion, ReadsDocument, ReadsLatest,
              StatementFails, GoesTo, Ends, TypeOK
<1>3. at'[r] = "done" \/ answer'[r] = answer[r]
  BY <1>0 DEF ChecksAccess, ChecksUser, ChoosesVersion, ReadsDocument, ReadsLatest,
              StatementFails, GoesTo, Ends, TypeOK
<1>4. Unanswered'
  <2> SUFFICES ASSUME NEW s \in Requests, at'[s] \notin {"commit", "done"}
               PROVE  answer'[s] = "none"
    BY DEF Unanswered
  <2> QED  BY <1>0, <1>1, <1>2, <1>3 DEF Unanswered
<1>5. Newest(r)'
  <2> SUFFICES ASSUME ask[r].op = "create", ask[r].version = Unnumbered,
                      at'[r] \in {"write", "commit"} \/ answer'[r] = "ok",
                      NEW d \in before[r] \cap Siblings(ask[r].project, ask[r].type)
               PROVE  documents[d].version < number'[r]
    BY <1>1 DEF Newest, Chosen, Siblings, Present, Exists, Still
  <2>1. answer[r] = "none"
    BY <1>0, <1>1 DEF Unanswered
  <2>2. ChoosesVersion(r)
    BY <1>0, <2>1 DEF ChecksAccess, ChecksUser, ReadsDocument, ReadsLatest, StatementFails,
                      OnDocument, GoesTo, Ends, TypeOK
  <2>3. number'[r] = NextVersion(ask[r].project, ask[r].type)
    BY <1>0, <2>2 DEF ChoosesVersion, TypeOK
  <2>4. documents[d].version < NextVersion(ask[r].project, ask[r].type)
    BY <1>0, NextVersionIsNext DEF TypeOK
  <2> QED  BY <2>3, <2>4
<1> QED  BY <1>1, <1>2, <1>4, <1>5, StatementNew

LEMMA WritesNew ==
  ASSUME NewInv, NEW r \in Requests,
         \/ InsertsDocument(r) \/ UpdatesDocument(r) \/ DeletesDocument(r)
         \/ InsertsProject(r) \/ UpdatesProject(r) \/ DeletesProject(r)
         \/ RollsBack(r)
  PROVE  NewRest'
<1>0. TypeOK /\ Unanswered /\ Newest(r)
  BY DEF NewInv, NewRest, OwnInv, IInv
<1>1. Still /\ UNCHANGED number /\ at[r] \in {"write", "commit"}
  BY DEF InsertsDocument, UpdatesDocument, DeletesDocument, InsertsProject,
         UpdatesProject, DeletesProject, RollsBack, Still, tables, asked
<1>2. /\ at'[r] \in {"commit", "done"}
      /\ \A s \in Requests \ {r} : at'[s] = at[s] /\ answer'[s] = answer[s]
  BY <1>0 DEF InsertsDocument, UpdatesDocument, DeletesDocument, InsertsProject,
              UpdatesProject, DeletesProject, RollsBack, Ends, Writes, TypeOK
<1>3. Unanswered'
  BY <1>0, <1>2 DEF Unanswered
<1>4. Newest(r)'
  BY <1>0, <1>1 DEF Newest, Chosen, Siblings, Present, Exists, Still
<1> QED  BY <1>1, <1>2, <1>3, <1>4, StatementNew

LEMMA CommitsNew ==
  ASSUME NewInv, NEW r \in Requests, Commits(r)
  PROVE  NewRest'
<1>0. TypeOK /\ WrittenExists /\ Unanswered /\ BeforeIsMade
  BY DEF NewInv, NewRest, OwnInv, IInv
<1>1. /\ CommitDocument(r) /\ UNCHANGED <<ask, before, number>> /\ at[r] = "commit"
      /\ at'[r] = "done"
      /\ \A s \in Requests \ {r} : at'[s] = at[s] /\ answer'[s] = answer[s]
  BY <1>0 DEF Commits, asked, TypeOK
<1>2. Unanswered'
  BY <1>0, <1>1 DEF Unanswered
<1>3. BeforeIsMade'
  <2> SUFFICES ASSUME NEW s \in Requests, NEW d \in before[s], d \notin OldDocuments
               PROVE  at'[d] = "done"
    BY <1>1 DEF BeforeIsMade
  <2>1. at[d] = "done" /\ d \in Requests
    BY <1>0 DEF BeforeIsMade, TypeOK, DocumentIds
  <2> QED  BY <1>1, <2>1
<1>4. ASSUME NEW s \in Requests PROVE Newest(s)'
  <2> SUFFICES ASSUME Chosen(s)',
                      NEW d \in before[s] \cap Siblings(ask[s].project, ask[s].type)'
               PROVE  documents'[d].version < number[s]
    BY <1>1 DEF Newest
  <2>1. Newest(s) /\ Chosen(s)
    <3>1. Newest(s)
      BY DEF NewInv, NewRest
    <3> QED  BY <1>1, <3>1 DEF Chosen
  <2>2. /\ d \in DocumentIds /\ documents'[d] # None
        /\ documents'[d].project = ask[s].project /\ documents'[d].type = ask[s].type
    BY <1>1 DEF Siblings, Present, Exists
  <2>3. d # r
    BY <1>0, <1>1, NamesAreIds DEF BeforeIsMade
  <2>4. documents[d] # None /\ Key(documents'[d]) = Key(documents[d])
    BY <1>0, <1>1, <2>2, <2>3, CommitKeys
  <2>5. /\ documents'[d].project = documents[d].project
        /\ documents'[d].type = documents[d].type
        /\ documents'[d].version = documents[d].version
    BY <2>4 DEF Key
  <2>6. d \in before[s] \cap Siblings(ask[s].project, ask[s].type)
    BY <2>2, <2>4, <2>5 DEF Siblings, Present, Exists
  <2> QED  BY <2>1, <2>5, <2>6 DEF Newest
<1> QED  BY <1>2, <1>3, <1>4 DEF NewRest

LEMMA StepNewInv == ASSUME NewInv, [Next]_vars PROVE NewInv'
<1>1. OwnInv'
  BY StepOwnInv DEF NewInv
<1>2. ASSUME NEW r \in Requests, NEW q \in Questions, Asks(r, q) PROVE NewRest'
  BY <1>2, AsksNew
<1>3. ASSUME NEW r \in Requests, Proceeds(r) \/ StatementFails(r) PROVE NewRest'
  BY <1>3, ReadsNew, WritesNew, CommitsNew DEF Proceeds
<1>4. ASSUME UNCHANGED vars PROVE NewRest'
  <2>1. UNCHANGED <<documents, ask, at, answer, number, before>>
    BY <1>4 DEF vars
  <2>2. Unanswered' /\ BeforeIsMade'
    BY <2>1 DEF NewInv, NewRest, Unanswered, BeforeIsMade
  <2>3. ASSUME NEW r \in Requests PROVE Newest(r)'
    <3>1. Newest(r)
      BY DEF NewInv, NewRest
    <3> QED  BY <2>1, <3>1 DEF Newest, Chosen, Siblings, Present, Exists
  <2> QED  BY <2>2, <2>3 DEF NewRest
<1>5. ASSUME Next PROVE NewRest'
  <2> HIDE DEF NewRest
  <2>1. CASE \E r \in Requests, q \in Questions : Asks(r, q)
    BY <1>2, <2>1
  <2>2. CASE \E r \in Requests : Proceeds(r) \/ StatementFails(r)
    BY <1>3, <2>2
  <2> QED  BY <1>5, <2>1, <2>2 DEF Next
<1>6. NewRest'
  BY <1>4, <1>5
<1> QED  BY <1>1, <1>6 DEF NewInv

\* The version create() chooses by itself is above every document of the kind
\* that was there when the request came and is still, whatever is deleted and
\* created meanwhile.
THEOREM ChosenVersionIsNewest == Spec => []AutoVersionIsNewest
<1>1. Init => NewInv
  <2> SUFFICES ASSUME Init PROVE NewInv
    OBVIOUS
  <2>1. OwnInv
    BY InitOwnInv
  <2>2. Unanswered /\ BeforeIsMade
    BY DEF Init, Unanswered, BeforeIsMade
  <2>3. \A r \in Requests : Newest(r)
    BY DEF Init, Newest, Chosen, NoQuestion
  <2> QED  BY <2>1, <2>2, <2>3 DEF NewInv, NewRest
<1>2. NewInv /\ [Next]_vars => NewInv'
  BY StepNewInv
<1>3. NewInv => AutoVersionIsNewest
  BY DEF NewInv, NewRest, Newest, Chosen, AutoVersionIsNewest
<1> QED  BY <1>1, <1>2, <1>3, PTL DEF Spec
=============================================================================
