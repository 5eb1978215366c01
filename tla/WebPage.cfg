SPECIFICATION FairSpec
CONSTANTS
  Users <- TwoUsers
  Calls = {c1, c2}
  Sockets = {s1, s2, s3}
  None = None
INVARIANT OneLiveSocket
INVARIANT NeverDeaf
INVARIANT SameUser
PROPERTY Reconnects
