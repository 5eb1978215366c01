SPECIFICATION FairSpec
CONSTANTS
  Messages = {m1, m2, m3, m4, m5}
  Limits <- FewLimits
  MaxLimit = 2
  DefaultLimit = 2
  MaxTime = 2
  Delay = 1
  Newest = Newest
INVARIANT HistoryBackwards
PROPERTY ScrollsBack
PROPERTY ScrollEnds
CHECK_DEADLOCK FALSE
