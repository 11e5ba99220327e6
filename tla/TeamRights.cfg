SPECIFICATION Spec
CONSTANTS
  UserIds = {u1, u2}
  Users = {u1, u2}
  Managers = {u1}
  TeamIds = {t1}
  Names = {n1, n2}
  Requests = {r1, r2}
  Ops = {"CreateTeam", "UpdateTeam", "DeleteTeam", "AddMember", "RemoveMember", "UpdateMemberRole"}
  Redis = FALSE
  Faults = {}
  None = None
SYMMETRY RequestAndNameSymmetry
INVARIANTS
  RowsIntegrity
PROPERTIES
  RightsBehindChanges
  HeadlessTeamIsStuck
