SPECIFICATION Spec
CONSTANTS
  Handlers = {h1, h2}
  Users = {u1}
  Passwords = {p1}
  Apps = {a1}
  SessionIds = {s1, s2}
  NoSession = NoSession
  NoPass = NoPass
  Ops <- SessionOps
  Faults = {"sessions", "crash", "cache"}
  RefreshTTL = 1
  CacheTTL = 1
  GraceTTL = 1
  MaxTime = 1
SYMMETRY Symmetry
INVARIANT IInv
INVARIANT CopiesArePast
INVARIANT NoRefreshAfterRevoke
INVARIANT IssuedBacked
PROPERTY LedgerSpec
PROPERTY StaleDiesOut
