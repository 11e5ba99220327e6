SPECIFICATION Spec
CONSTANTS
  UserIds = {u1}
  Users = {u1}
  FolderIds = {f1, f2}
  NoteIds = {n1}
  Texts = {x1}
  u1 = u1
  u2 = u2
  reader = reader
  owner = owner
  Requests <- OneClient
  Callers <- AnyUser
  Ops <- Unshared
  Redis = TRUE
  Faults = {"db", "redis", "crash", "expiry"}
  None = None
INVARIANTS
  TypeOK
  CopiesKeepTheirHome
