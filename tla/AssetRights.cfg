SPECIFICATION Spec
CONSTANTS
  UserIds = {u1, u2}
  Users = {u1, u2}
  FolderIds = {f1}
  NoteIds = {n1}
  Texts = {x1, x2}
  u1 = u1
  u2 = u2
  reader = reader
  owner = owner
  Requests <- TwoClients
  Callers <- OneUserEach
  Ops <- ReaderAndOwner
  Redis = TRUE
  Faults = {}
  None = None
SYMMETRY TextSymmetry
INVARIANTS
  RowsIntegrity
  ReadsJustified
PROPERTIES
  RightsBehindChanges
