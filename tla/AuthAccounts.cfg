SPECIFICATION Spec
CONSTANTS
  Handlers = {h1, h2}
  Users = {u1}
  Passwords = {p1, p2}
  Apps = {a1, a2}
  SessionIds = {s1, s2}
  NoSession = NoSession
  NoPass = NoPass
  Ops = {"register", "login", "logout", "refresh"}
  Faults = {"users", "token"}
  RefreshTTL = 1
  CacheTTL = 1
  GraceTTL = 1
  MaxTime = 2
SYMMETRY Symmetry
INVARIANT CredentialsHold
INVARIANT RotationRetires
INVARIANT RefreshKeepsOwner
PROPERTY LogoutWinsOnce
