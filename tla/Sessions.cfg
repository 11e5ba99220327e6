SPECIFICATION Spec
CONSTANTS
  Emails = {admin, e1}
  Admin = admin
  AdminPassword = p1
  Passwords = {p1, p2}
  Requests = {r1, r2}
  Lifetime = 3
  Second = 3
  MaxTime = 3
  MaxTokens = 1
  Faults = {"db", "redis", "crash"}
  Forever = Forever
  None = None
SYMMETRY SessionSymmetry
INVARIANTS
  TypeOK
  TokensMatchAccounts
  ImportersAreManagers
  AnswersTellTheTruth
  BlacklistCoversToken
  BlacklistEntriesExpire
