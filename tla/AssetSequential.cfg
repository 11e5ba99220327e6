SPECIFICATION Spec
CONSTANTS
  UserIds = {u1, u2}
  Users = {u1, u2}
  FolderIds = {f1}
  NoteIds = {n1}
  Texts = {x1}
  u1 = u1
  u2 = u2
  reader = reader
  owner = owner
  Requests <- OneClient
  Callers <- AnyUser
  Ops <- Everything
  Redis = TRUE
  Faults = {}
  None = None
SYMMETRY UserSymmetry
INVARIANTS
  CacheCoherent
  AccessListNamesTheReaders
