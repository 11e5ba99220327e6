SPECIFICATION FairSpec
CONSTANTS
  UserIds = {u1}
  Users = {u1}
  Managers = {u1}
  TeamIds = {t1}
  Names = {n1}
  Requests = {r1, r2}
  Ops = {"CreateTeam", "GetTeamByID", "GetTeamsByUserID", "UpdateTeam", "DeleteTeam", "AddMember", "RemoveMember"}
  Redis = TRUE
  Faults = {"db", "redis", "crash"}
  None = None
INVARIANTS
  TypeOK
  AnswerMatchesEffect
PROPERTIES
  EveryRequestAnswered
  StaleEntriesGoAway
  ImplementsDirectory
