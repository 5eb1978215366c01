SPECIFICATION Spec
CONSTANTS
  Handlers = {h1, h2}
  Users <- ChatUsers
  Chats <- OneChat
  NoRow = NoRow
  NoChat = NoChat
  Faults = {}
  MaxMessages = 1
SYMMETRY Symmetry
INVARIANT ReturnedChatHasMembers
