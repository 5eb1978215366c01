SPECIFICATION Spec
CONSTANTS
  Handlers = {h1, h2}
  Users <- ChatUsers
  Chats <- OneChat
  NoRow = NoRow
  NoChat = NoChat
  Faults = {"chats", "members", "messages", "unread", "crash"}
  MaxMessages = 3
SYMMETRY Symmetry
INVARIANT BothMembersOrOrphan
INVARIANT SentByMembers
INVARIANT UnreadExact
PROPERTY TalkSpec
