SPECIFICATION FairSpec
CONSTANTS
  Callers = {w1, w2}
  Pushers = {p1, p2}
  Users <- OneUser
  Chats <- OneChat
  Sessions <- OneSession
  Junk = 9
  Numbers <- NoNumbers
  Nothing = Nothing
  AccessTTL = 1
  RefreshTTL = 1
  MaxTime = 0
  Faults = {"crash", "gateway"}
  Window = 1
  Modulus = 2
  NoMessage = NoMessage
INVARIANT DeliveredInOrder
INVARIANT PushWaitsForReader
PROPERTY PushReturns
PROPERTY GoneIsNoticed
PROPERTY StopWaitsForStreams
