SPECIFICATION Spec
CONSTANTS
  Handlers = {h1, h2}
  Users = {u1}
  Passwords = {p1}
  Apps = {a1}
  SessionIds = {s1}
  NoSession = NoSession
  NoPass = NoPass
  Ops = {"login", "logout", "validate"}
  Faults = {}
  RefreshTTL = 1
  CacheTTL = 1
  GraceTTL = 1
  MaxTime = 0
INVARIANT ValidateAfterLogout
