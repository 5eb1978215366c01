SPECIFICATION Spec
CONSTANTS
  Messages = {m1, m2, m3}
  Limits <- FewLimits
  MaxLimit = 2
  DefaultLimit = 2
  MaxTime = 2
  Delay = 1
  Newest = Newest
INVARIANT DistinctReceived
CHECK_DEADLOCK FALSE
