SPECIFICATION FairSpec
CONSTANTS
  Users = {u1, u2}
  Streams = {s1, s2, s3}
  Pushers = {p1}
  Nobody = Nobody
  Arrays <- HubArrays
INVARIANT HubExact
INVARIANT OwnStreamsOnly
PROPERTY QuietPushComplete
PROPERTY BoardSpec
PROPERTY LeaverGoes
CHECK_DEADLOCK FALSE
