SPECIFICATION Spec
CONSTANTS
  Emails = {admin, e1}
  Admin = admin
  AdminPassword = p1
  Passwords = {p1, p2}
  Requests = {r1, r2}
  Lifetime = 1
  Second = 1
  MaxTime = 1
  MaxTokens = 2
  Faults = {}
  Forever = Forever
  None = None
PROPERTIES
  LogoutInvalidates
