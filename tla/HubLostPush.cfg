SPECIFICATION Spec
CONSTANTS
  Users = {u1}
  Streams = {s1, s2, s3}
  Pushers = {p1}
  Nobody = Nobody
  Arrays <- HubArrays
PROPERTY PushReachesAll
CHECK_DEADLOCK FALSE
