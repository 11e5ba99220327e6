SPECIFICATION Spec
CONSTANTS
  UserIds = {u1, u2, u3}
  Users = {u1, u2}
  Managers = {u1}
  TeamIds = {t1, t2}
  Names = {n1}
  Requests = {r1}
  Ops = {"CreateTeam", "GetTeamByID", "GetTeamsByUserID", "UpdateTeam", "DeleteTeam", "AddMember", "RemoveMember", "UpdateMemberRole"}
  Redis = TRUE
  Faults = {}
  None = None
SYMMETRY TeamSymmetry
INVARIANTS
  TeamCacheCoherent
  ListMembershipCoherent
PROPERTIES
  MainManagerProtected
