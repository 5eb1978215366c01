---------------------------- MODULE ChatService ----------------------------
(***************************************************************************)
(* The chat service: GetOrCreateChat, SendMessage and GetMessages, from    *)
(* the gRPC server (internal/grpc/chat/server.go) through the service      *)
(* (internal/service/service.go) to the tables chats, chat_members and     *)
(* messages (internal/repository, migrations/0001_init.up.sql).            *)
(*                                                                         *)
(* Every handler is a process, every SQL statement a step: the code opens  *)
(* no transaction, so a statement commits on its own and two handlers      *)
(* interleave between any two of them.  A statement in Faults may fail,    *)
(* without effect or after it took effect (the answer of the database is   *)
(* lost), and the service may crash between two statements.                *)
(*                                                                         *)
(* A chat is the set of its two users: user1_id < user2_id and the unique  *)
(* constraint make the row of a pair unique.  A message is its place in    *)
(* the table.  hub.Push is one step here; module Hub has its inside, and   *)
(* module Pagination the pages of GetMessages.                             *)
(***************************************************************************)
EXTENDS Naturals, Sequences, SequencesExt, FiniteSetsExt

CONSTANTS
  Handlers,     \* calls in progress
  Users,        \* user ids
  Chats,        \* the pairs of users that may ask for a chat
  NoRow,        \* no row in chat_members
  NoChat,
  Faults,       \* subset of {"chats", "members", "messages", "unread", "crash"}
  MaxMessages   \* bound on the table messages

ASSUME ChatAssumption ==
  /\ Users \subseteq Nat
  /\ \A c \in Chats : \E user1, user2 \in Users : user1 < user2 /\ c = {user1, user2}
  /\ NoRow \notin Nat
  /\ NoChat \notin Chats
  /\ MaxMessages \in Nat

VARIABLES
  chats,      \* table chats
  unread,     \* table chat_members: unread[c][u] is unread_count, or NoRow
  messages,   \* table messages, in the order of its ids
  pc,         \* pc[h]: the next step of handler h
  call,       \* call[h]: the request, the user of its token and the local variables
  pushed,     \* history: pushed[m] is the users message m was pushed to
  acked,      \* history: messages whose SendMessage has answered
  returned,   \* history: chats a GetOrCreateChat has answered with
  orphaned,   \* history: chats whose members could not be inserted
  resetAt     \* history: resetAt[c][u] is Len(messages) at the last ResetUnread

tables == <<chats, unread, messages>>
history == <<pushed, acked, returned, orphaned, resetAt>>
vars == <<chats, unread, messages, pc, call, pushed, acked, returned, orphaned, resetAt>>

-----------------------------------------------------------------------------
Message == [chat : Chats, sender : Users]

\* token: the user of the access token, user: the user id in the request,
\* message: what SendMessage stored.
Call == [token : Users \cup {0}, user : Users \cup {0}, chat : Chats \cup {NoChat}, message : Nat]
NoCall == [token |-> 0, user |-> 0, chat |-> NoChat, message |-> 0]

Steps == {"idle", "upsert", "members", "sendcheck", "store", "participants", "push1", "push2",
          "readcheck", "page", "reset"}

PerMember(S) == [Chats -> [Users -> S]]

TypeOK ==
  /\ chats \subseteq Chats
  /\ unread \in PerMember(Nat \cup {NoRow})
  /\ messages \in Seq(Message)
  /\ pc \in [Handlers -> Steps]
  /\ call \in [Handlers -> Call]
  /\ pushed \in [1..MaxMessages -> SUBSET Users]
  /\ acked \subseteq 1..MaxMessages
  /\ returned \subseteq Chats
  /\ orphaned \subseteq Chats
  /\ resetAt \in PerMember(Nat)

Init ==
  /\ chats = {}
  /\ unread = [c \in Chats |-> [u \in Users |-> NoRow]]
  /\ messages = <<>>
  /\ pc = [h \in Handlers |-> "idle"]
  /\ call = [h \in Handlers |-> NoCall]
  /\ pushed = [m \in 1..MaxMessages |-> {}]
  /\ acked = {}
  /\ returned = {}
  /\ orphaned = {}
  /\ resetAt = [c \in Chats |-> [u \in Users |-> 0]]

-----------------------------------------------------------------------------
Members(c) == {u \in Users : unread[c][u] # NoRow}

\* A handler goes on, or answers and is free.
Goto(h, step) == pc' = [pc EXCEPT ![h] = step]

Answer(h) ==
  /\ pc' = [pc EXCEPT ![h] = "idle"]
  /\ call' = [call EXCEPT ![h] = NoCall]

\* A statement that fails without effect.
Fails(h, table) ==
  /\ table \in Faults
  /\ Answer(h)
  /\ UNCHANGED <<tables, history>>

\* A new call.  The server refuses a request that names another user than the
\* token; it never reaches the service.
MayActAs(token, user) == token = user

Start(h, token, user, c, step) ==
  /\ pc[h] = "idle"
  /\ MayActAs(token, user)
  /\ pc' = [pc EXCEPT ![h] = step]
  /\ call' = [call EXCEPT ![h] = [NoCall EXCEPT !.token = token, !.user = user, !.chat = c]]
  /\ UNCHANGED <<tables, history>>

-----------------------------------------------------------------------------
\* A mutant: whoever asks for a chat goes on to insert its members.
FaultyCreateAgain(h) ==
  LET c == call[h].chat
  IN  /\ pc[h] = "upsert"
      /\ chats' = chats \cup {c}
      /\ Goto(h, "members")
      /\ UNCHANGED <<unread, messages, call, history>>

\* GetOrCreateChat, first statement: INSERT ... ON CONFLICT DO UPDATE.  Only the
\* call that inserted the row goes on to insert the members.
UpsertChat(h) ==
  LET c == call[h].chat
  IN  /\ pc[h] = "upsert"
      /\ chats' = chats \cup {c}
      /\ \/ /\ c \notin chats
            /\ Goto(h, "members")
            /\ UNCHANGED <<call, returned, orphaned>>
         \/ /\ c \in chats
            /\ Answer(h)
            /\ returned' = returned \cup {c}
            /\ UNCHANGED orphaned
         \/ /\ "chats" \in Faults
            /\ Answer(h)
            /\ orphaned' = IF c \in chats THEN orphaned ELSE orphaned \cup {c}
            /\ UNCHANGED returned
      /\ UNCHANGED <<unread, messages, pushed, acked, resetAt>>

\* A mutant: only the one who asked becomes a member.
FaultyOneMember(h) ==
  LET c == call[h].chat
  IN  /\ pc[h] = "members"
      /\ unread' = [unread EXCEPT ![c][call[h].user] = 0]
      /\ Answer(h)
      /\ returned' = returned \cup {c}
      /\ UNCHANGED <<chats, messages, pushed, acked, orphaned, resetAt>>

\* Second statement: both rows of chat_members in one INSERT.
InsertMembers(h) ==
  LET c == call[h].chat
  IN  /\ pc[h] = "members"
      /\ unread' = [unread EXCEPT ![c] = [u \in Users |-> IF u \in c THEN 0 ELSE NoRow]]
      /\ \/ Answer(h) /\ returned' = returned \cup {c}
         \/ "members" \in Faults /\ Answer(h) /\ UNCHANGED returned
      /\ UNCHANGED <<chats, messages, pushed, acked, orphaned, resetAt>>

MembersFail(h) ==
  /\ pc[h] = "members"
  /\ "members" \in Faults
  /\ Answer(h)
  /\ orphaned' = orphaned \cup {call[h].chat}
  /\ UNCHANGED <<tables, pushed, acked, returned, resetAt>>

-----------------------------------------------------------------------------
\* A mutant: everybody may go on.
FaultyAnyone(h, at, next) ==
  /\ pc[h] = at
  /\ Goto(h, next)
  /\ UNCHANGED <<call, tables, history>>

\* SendMessage and GetMessages begin with IsMember.
CheckMember(h, at, next) ==
  /\ pc[h] = at
  /\ \/ /\ call[h].user \in Members(call[h].chat)
        /\ Goto(h, next)
        /\ UNCHANGED call
     \/ /\ call[h].user \notin Members(call[h].chat)
        /\ Answer(h)
  /\ UNCHANGED <<tables, history>>

\* A mutant: the sender is counted too.
FaultyEverybody(c, sender) == Members(c)

\* Who is counted the message: all members but the sender.
Others(c, sender) == Members(c) \ {sender}

\* SendMessage: one statement stores the message and counts it for the others.
StoreMessage(h) ==
  LET c == call[h].chat
      others == Others(c, call[h].user)
      m == Len(messages) + 1
  IN  /\ pc[h] = "store"
      /\ m <= MaxMessages
      /\ messages' = Append(messages, [chat |-> c, sender |-> call[h].user])
      /\ unread' = [unread EXCEPT ![c] = [u \in Users |-> IF u \in others THEN @[u] + 1 ELSE @[u]]]
      /\ \/ /\ others # {}
            /\ pc' = [pc EXCEPT ![h] = "participants"]
            /\ call' = [call EXCEPT ![h].message = m]
         \/ /\ others = {} \/ "messages" \in Faults
            /\ Answer(h)
      /\ UNCHANGED <<chats, pushed, acked, returned, orphaned, resetAt>>

\* GetParticipants reads the row of the chat; it is there.
GetParticipants(h) ==
  /\ pc[h] = "participants"
  /\ call[h].chat \in chats
  /\ Goto(h, "push1")
  /\ UNCHANGED <<call, tables, history>>

\* Push to user1_id, then to user2_id, and the answer.
PushTo(h, u) == pushed' = [pushed EXCEPT ![call[h].message] = @ \cup {u}]

PushFirst(h) ==
  /\ pc[h] = "push1"
  /\ PushTo(h, Min(call[h].chat))
  /\ Goto(h, "push2")
  /\ UNCHANGED <<call, tables, acked, returned, orphaned, resetAt>>

\* A mutant: the first user again.
FaultyPushTwice(h) ==
  /\ pc[h] = "push2"
  /\ PushTo(h, Min(call[h].chat))
  /\ acked' = acked \cup {call[h].message}
  /\ Answer(h)
  /\ UNCHANGED <<tables, returned, orphaned, resetAt>>

PushSecond(h) ==
  /\ pc[h] = "push2"
  /\ PushTo(h, Max(call[h].chat))
  /\ acked' = acked \cup {call[h].message}
  /\ Answer(h)
  /\ UNCHANGED <<tables, returned, orphaned, resetAt>>

-----------------------------------------------------------------------------
\* GetMessages: the SELECT of the page.  Whatever the page holds (module
\* Pagination), the handler goes on to reset the whole count.
ReadPage(h) ==
  /\ pc[h] = "page"
  /\ Goto(h, "reset")
  /\ UNCHANGED <<call, tables, history>>

\* UPDATE chat_members SET unread_count = 0 WHERE chat_id = c AND user_id = u, and
\* a mutant without the condition on user_id.
FaultyZeroedAll(c, u) == [unread EXCEPT ![c] = [v \in Users |-> IF v \in Members(c) THEN 0 ELSE NoRow]]

Zeroed(c, u) == [unread EXCEPT ![c][u] = 0]

\* ResetUnread, and the answer: the page, or an error if the statement took
\* effect and its answer was lost.
ResetUnread(h) ==
  LET c == call[h].chat
      u == call[h].user
  IN  /\ pc[h] = "reset"
      /\ unread' = Zeroed(c, u)
      /\ resetAt' = [resetAt EXCEPT ![c][u] = Len(messages)]
      /\ Answer(h)
      /\ UNCHANGED <<chats, messages, pushed, acked, returned, orphaned>>

\* The process dies: every call in progress is gone, the tables stay.
Crash ==
  /\ "crash" \in Faults
  /\ pc' = [h \in Handlers |-> "idle"]
  /\ call' = [h \in Handlers |-> NoCall]
  /\ orphaned' = orphaned \cup {call[h].chat : h \in {g \in Handlers : pc[g] = "members"}}
  /\ UNCHANGED <<tables, pushed, acked, returned, resetAt>>

-----------------------------------------------------------------------------
StartCreate(h) ==
  \E token, initiator \in Users, c \in Chats :
    initiator \in c /\ Start(h, token, initiator, c, "upsert")

StartSend(h) ==
  \E token, sender \in Users, c \in Chats : Start(h, token, sender, c, "sendcheck")

StartRead(h) ==
  \E token \in Users, c \in Chats : Start(h, token, token, c, "readcheck")

StatementFails(h) ==
  \/ pc[h] = "upsert" /\ Fails(h, "chats")
  \/ pc[h] \in {"sendcheck", "readcheck"} /\ Fails(h, "members")
  \/ pc[h] \in {"store", "page"} /\ Fails(h, "messages")
  \/ pc[h] = "participants" /\ Fails(h, "chats")
  \/ pc[h] = "reset" /\ Fails(h, "unread")

Step(h) ==
  \/ UpsertChat(h) \/ InsertMembers(h) \/ MembersFail(h)
  \/ CheckMember(h, "sendcheck", "store") \/ StoreMessage(h)
  \/ GetParticipants(h) \/ PushFirst(h) \/ PushSecond(h)
  \/ CheckMember(h, "readcheck", "page") \/ ReadPage(h) \/ ResetUnread(h)
  \/ StatementFails(h)

Next ==
  \/ \E h \in Handlers : StartCreate(h) \/ StartSend(h) \/ StartRead(h) \/ Step(h)
  \/ Crash

Spec == Init /\ [][Next]_vars

-----------------------------------------------------------------------------
\* A chat has both of its users as members, or none: while the call that created
\* it has still to insert them, or for ever when that failed (the two statements
\* of GetOrCreateChat are not a transaction).
BothMembersOrOrphan ==
  \A c \in Chats :
    \/ c \in chats /\ Members(c) = c
    \/ /\ Members(c) = {}
       /\ c \in chats => \/ c \in orphaned
                         \/ \E h \in Handlers : pc[h] = "members" /\ call[h].chat = c

\* Every stored message is its sender's own: sent with the sender's token, by a
\* member of the chat (the checks of the server and of Service.SendMessage).
SentByMembers ==
  /\ \A m \in DOMAIN messages : messages[m].sender \in Members(messages[m].chat)
  /\ \A h \in Handlers :
       call[h].message # 0 => messages[call[h].message].sender = call[h].token

\* unread_count is the number of messages the other user has stored since the
\* last ResetUnread, however sends, reads, failures and crashes interleave.
UnreadExact ==
  \A c \in chats : \A u \in Members(c) :
    unread[c][u] = Cardinality({m \in DOMAIN messages :
      messages[m].chat = c /\ messages[m].sender # u /\ m > resetAt[c][u]})

\* A push follows the stored message and goes to the two users of its chat; a
\* SendMessage that answered ok has pushed to both.
PushMatchesTable ==
  /\ \A m \in 1..MaxMessages :
       pushed[m] # {} => m \in DOMAIN messages /\ pushed[m] \subseteq messages[m].chat
  /\ \A m \in acked : pushed[m] = messages[m].chat

\* The members who have not reset their count since message m was stored.
Waiting(m) ==
  LET c == messages[m].chat
  IN  {u \in Members(c) \ {messages[m].sender} : m > resetAt[c][u]}

Talk == INSTANCE Conversations
          WITH Numbers <- 1..MaxMessages,
               None <- NoRow,
               log <- messages,
               waiting <- [m \in DOMAIN messages |-> Waiting(m)],
               badge <- unread,
               told <- pushed,
               answered <- acked

\* With statements that commit one by one, handlers that interleave between
\* them, failures and crashes, the tables and the pushes still show the
\* conversations of module Conversations: chats created whole, exact counts,
\* every message pushed once to each member before its sender is answered.
TalkSpec == Talk!Spec

\* "Create a chat between two users or get the existing one" (chat.proto): both
\* users are members of a chat that a call has returned.
ReturnedChatHasMembers == \A c \in returned : Members(c) = c
=============================================================================
