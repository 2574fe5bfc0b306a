CONSTANTS
  r1 = r1
  r2 = r2
  r3 = r3
  pa = pa
  pb = pb
  da = da
  db = db
  ua = ua
  ub = ub
  spec = spec
  None = None
  Requests = {r1, r2, r3}
  Users = {ua, ub}
  Registered = {ua}
  Clients = {ua}
  Types = {spec}
  Fields = {content, score}
  OldProjects = {pa, pb}
  OldDocuments = {da, db}
  OwnerOf <- MCOwnerOf
  ProjectOf <- MCProjectOf
  TypeOf <- MCTypeOf
  MaxVersion = 3
  Ops = {"create", "latest", "update", "delete",
         "create_project", "update_project", "delete_project"}
SPECIFICATION Spec
SYMMETRY MCSymmetry
INVARIANTS VersionsUnique AutoVersionIsNewest NoLostUpdate
  WritesAreOwned HoldersWaitForNothing
\* Every request ends.
CHECK_DEADLOCK FALSE
