SPECIFICATION Spec
CONSTANTS
  Callers = {c1}
  Users = {u1, u2}
  Chats <- OneChat
  Sessions = {s1, s2}
  Junk = 9
  Numbers <- FewNumbers
  PageSizes <- OneRow
  Nothing = Nothing
  AccessTTL = 1
  RefreshTTL = 2
  MaxTime = 2
  Faults = {"auth", "crash", "big", "gateway"}
  MaxInt64 = 50
  MinInt64 <- LeastNumber
  DefaultLimit = 50
SYMMETRY Symmetry
INVARIANT TypeOK
INVARIANT StatusTellsTruth
INVARIANT ActsAsOwner
INVARIANT LateCallsRefused
