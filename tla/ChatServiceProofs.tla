-------------------------- MODULE ChatServiceProofs --------------------------
(***************************************************************************)
(* The invariants of the chat service for any number of handlers, users,   *)
(* chats and messages, and any faults.                                     *)
(***************************************************************************)
EXTENDS ChatService, FiniteSetTheorems, TLAPS

Sending == {"participants", "push1", "push2"}

\* What a handler may rely on between two of its statements.
Phase(h) ==
  LET c == call[h].chat
      m == call[h].message
  IN  /\ pc[h] # "idle" => c \in Chats /\ call[h].user \in Users /\ call[h].token = call[h].user
      /\ pc[h] = "members" => c \in chats /\ Members(c) = {}
      /\ pc[h] \in Sending \cup {"store", "page", "reset"} => call[h].user \in Members(c)
      /\ pc[h] \notin Sending => m = 0
      /\ pc[h] \in Sending =>
           /\ m \in DOMAIN messages /\ messages[m] = [chat |-> c, sender |-> call[h].user]
           /\ m \notin acked
           /\ pushed[m] = IF pc[h] = "push2" THEN {Min(c)} ELSE {}

Phases == \A h \in Handlers : Phase(h)

\* Two handlers never insert the members of one chat, nor push one message.
Apart ==
  \A g, h \in Handlers : g # h =>
    /\ pc[g] = "members" /\ pc[h] = "members" => call[g].chat # call[h].chat
    /\ pc[g] \in Sending /\ pc[h] \in Sending => call[g].message # call[h].message

\* The rows of messages and chat_members.
Kept ==
  /\ Len(messages) <= MaxMessages
  /\ acked \subseteq DOMAIN messages
  /\ \A m \in DOMAIN messages : messages[m].sender \in Members(messages[m].chat)
  /\ \A c \in Chats, u \in Users : resetAt[c][u] <= Len(messages)

IInv ==
  /\ TypeOK
  /\ Phases
  /\ Apart
  /\ Kept
  /\ BothMembersOrOrphan
  /\ UnreadExact
  /\ PushMatchesTable

-----------------------------------------------------------------------------
(* The two users of a chat.                                                *)

LEMMA PairOf ==
  ASSUME NEW c \in Chats
  PROVE  Min(c) \in Users /\ Max(c) \in Users /\ Min(c) # Max(c) /\ c = {Min(c), Max(c)}
  <1>1. PICK a, b \in Users : a < b /\ c = {a, b}
    BY ChatAssumption
  <1>2. a \in Nat /\ b \in Nat
    BY ChatAssumption
  <1>3. Min(c) = a
    BY <1>1, <1>2 DEF Min
  <1>4. Max(c) = b
    BY <1>1, <1>2 DEF Max
  <1> QED BY <1>1, <1>2, <1>3, <1>4

-----------------------------------------------------------------------------
(* What the steps leave alone.                                             *)

\* Only handler h moves.
Alone(h) == \A g \in Handlers \ {h} : pc'[g] = pc[g] /\ call'[g] = call[g]

LEMMA OtherPhase ==
  ASSUME NEW g \in Handlers, Phase(g), pc'[g] = pc[g], call'[g] = call[g],
         chats \subseteq chats',
         \A c \in Chats : Members(c) \subseteq Members(c)',
         \A c \in Chats : pc[g] = "members" /\ call[g].chat = c => Members(c)' = {},
         pc[g] \in Sending =>
           /\ call[g].message \in DOMAIN messages'
           /\ messages'[call[g].message] = messages[call[g].message]
           /\ call[g].message \notin acked'
           /\ pushed'[call[g].message] = pushed[call[g].message]
  PROVE  Phase(g)'
  <1>1. call[g].chat \in Chats \/ pc[g] \notin {"members", "store", "page", "reset"} \cup Sending
    BY DEF Phase, Sending
  <1>2. pc[g] = "members" => call[g].chat \in chats' /\ Members(call[g].chat)' = {}
    BY <1>1 DEF Phase
  <1>3. pc[g] \in Sending \cup {"store", "page", "reset"} => call[g].user \in Members(call[g].chat)
    BY DEF Phase
  <1>4. \A c \in Chats : call[g].chat = c /\ pc[g] \in Sending \cup {"store", "page", "reset"}
          => call[g].user \in Members(c)'
    BY <1>3
  <1> QED BY <1>1, <1>2, <1>4 DEF Phase

\* A step of the variables of one handler alone.
LEMMA LocalStep ==
  ASSUME IInv, TypeOK', NEW h \in Handlers, Alone(h), Phase(h)',
         UNCHANGED <<chats, unread, messages, pushed, acked, resetAt>>,
         orphaned \subseteq orphaned',
         pc'[h] # "members",
         pc[h] = "members" => call[h].chat \in orphaned',
         pc'[h] \in Sending => pc[h] \in Sending /\ call'[h].message = call[h].message
  PROVE  IInv'
  <1>1. \A c : Members(c)' = Members(c)
    BY DEF Members
  <1>2. Phases'
    <2> SUFFICES ASSUME NEW g \in Handlers, g # h PROVE Phase(g)'
      BY DEF Phases
    <2>1. Phase(g) /\ pc'[g] = pc[g] /\ call'[g] = call[g]
      BY DEF IInv, Phases, Alone
    <2>2. pc[g] = "members" => Members(call[g].chat) = {}
      BY <2>1 DEF Phase
    <2>3. pc[g] \in Sending => call[g].message \in DOMAIN messages /\ call[g].message \notin acked
      BY <2>1 DEF Phase
    <2> QED BY <1>1, <2>1, <2>2, <2>3, OtherPhase
  <1>3. Apart'
    BY DEF IInv, Apart, Alone, Sending
  <1>4. Kept'
    BY <1>1 DEF IInv, Kept
  <1>5. BothMembersOrOrphan'
    <2> SUFFICES ASSUME NEW c \in Chats
                 PROVE  \/ c \in chats /\ Members(c) = c
                        \/ /\ Members(c) = {}
                           /\ c \in chats => \/ c \in orphaned'
                                             \/ \E g \in Handlers : pc'[g] = "members" /\ call'[g].chat = c
      BY <1>1 DEF BothMembersOrOrphan
    <2>1. CASE \E g \in Handlers : pc[g] = "members" /\ call[g].chat = c
      <3>1. PICK g \in Handlers : pc[g] = "members" /\ call[g].chat = c
        BY <2>1
      <3>2. g = h => c \in orphaned'
        BY <3>1
      <3>3. g # h => pc'[g] = "members" /\ call'[g].chat = c
        BY <3>1 DEF Alone
      <3>4. Members(c) = {}
        BY <3>1 DEF IInv, Phases, Phase
      <3> QED BY <3>2, <3>3, <3>4
    <2>2. CASE ~ \E g \in Handlers : pc[g] = "members" /\ call[g].chat = c
      BY <2>2 DEF IInv, BothMembersOrOrphan
    <2> QED BY <2>1, <2>2
  <1>6. UnreadExact'
    BY <1>1 DEF IInv, UnreadExact
  <1>8. PushMatchesTable'
    BY DEF IInv, PushMatchesTable
  <1> QED BY <1>2, <1>3, <1>4, <1>5, <1>6, <1>8 DEF IInv

-----------------------------------------------------------------------------
(* The steps that touch no table, or only its list of chats.               *)

LEMMA AnswerStep ==
  ASSUME IInv, TypeOK', NEW h \in Handlers, Answer(h),
         UNCHANGED <<chats, unread, messages, pushed, acked, resetAt>>,
         orphaned \subseteq orphaned',
         pc[h] = "members" => call[h].chat \in orphaned'
  PROVE  IInv'
  <1>1. pc'[h] = "idle" /\ call'[h] = NoCall /\ Alone(h)
    BY DEF Answer, Alone, IInv, TypeOK
  <1>2. Phase(h)'
    BY <1>1 DEF Phase, NoCall, Sending
  <1> QED BY <1>1, <1>2, LocalStep DEF Sending

LEMMA StartStep ==
  ASSUME IInv, NEW h \in Handlers, NEW token \in Users, NEW u \in Users, NEW c \in Chats,
         NEW step \in {"upsert", "sendcheck", "readcheck"}, Start(h, token, u, c, step)
  PROVE  IInv'
  <1>1. /\ pc'[h] = step
        /\ call'[h] = [token |-> token, user |-> u, chat |-> c, message |-> 0]
        /\ Alone(h) /\ token = u
    BY DEF Start, Alone, IInv, TypeOK, NoCall, MayActAs
  <1>2. TypeOK'
    <2>1. call'[h] \in Call
      BY <1>1 DEF Call
    <2>2. call' \in [Handlers -> Call] /\ pc' \in [Handlers -> Steps]
      BY <2>1 DEF Start, IInv, TypeOK, Steps
    <2> QED BY <2>2 DEF Start, tables, history, IInv, TypeOK
  <1>3. Phase(h)'
    BY <1>1 DEF Phase, Sending
  <1> QED
    BY <1>1, <1>2, <1>3, LocalStep DEF Start, tables, history, Sending, IInv, TypeOK

LEMMA AnswerTypes ==
  ASSUME TypeOK, NEW h \in Handlers, Answer(h)
  PROVE  pc' \in [Handlers -> Steps] /\ call' \in [Handlers -> Call]
  BY DEF TypeOK, Answer, Steps, Call, NoCall

LEMMA FailsStep ==
  ASSUME IInv, NEW h \in Handlers, NEW table, Fails(h, table), pc[h] # "members"
  PROVE  IInv'
  <1>1. TypeOK'
    BY AnswerTypes DEF Fails, tables, history, IInv, TypeOK
  <1> QED BY <1>1, AnswerStep DEF Fails, tables, history

LEMMA MembersFailStep ==
  ASSUME IInv, NEW h \in Handlers, MembersFail(h)
  PROVE  IInv'
  <1>1. call[h].chat \in Chats
    BY DEF MembersFail, IInv, Phases, Phase
  <1>2. TypeOK'
    BY <1>1, AnswerTypes DEF MembersFail, tables, IInv, TypeOK
  <1> QED BY <1>2, AnswerStep DEF MembersFail, tables

LEMMA CheckMemberStep ==
  ASSUME IInv, NEW h \in Handlers, NEW at, NEW next,
         \/ at = "sendcheck" /\ next = "store"
         \/ at = "readcheck" /\ next = "page",
         CheckMember(h, at, next)
  PROVE  IInv'
  <1>1. CASE Answer(h)
    <2>1. TypeOK'
      BY <1>1, AnswerTypes DEF CheckMember, tables, history, IInv, TypeOK
    <2> QED BY <1>1, <2>1, AnswerStep DEF CheckMember, tables, history
  <1>2. CASE call[h].user \in Members(call[h].chat) /\ Goto(h, next) /\ UNCHANGED call
    <2>1. pc'[h] = next /\ call'[h] = call[h] /\ Alone(h)
      BY <1>2 DEF Goto, Alone, IInv, TypeOK
    <2>2. TypeOK'
      BY <1>2 DEF CheckMember, Goto, tables, history, IInv, TypeOK, Steps
    <2>3. Phase(h)
      BY DEF IInv, Phases
    <2>4. Members(call[h].chat)' = Members(call[h].chat)
      BY <1>2 DEF CheckMember, Members, tables
    <2>5. Phase(h)'
      BY <1>2, <2>1, <2>3, <2>4 DEF CheckMember, Phase, Sending
    <2> QED
      BY <2>1, <2>2, <2>5, LocalStep DEF CheckMember, tables, history, Sending, IInv, TypeOK
  <1> QED BY <1>1, <1>2 DEF CheckMember

LEMMA GetParticipantsStep ==
  ASSUME IInv, NEW h \in Handlers, GetParticipants(h)
  PROVE  IInv'
  <1>1. pc'[h] = "push1" /\ call'[h] = call[h] /\ Alone(h)
    BY DEF GetParticipants, Goto, Alone, IInv, TypeOK
  <1>2. TypeOK'
    BY DEF GetParticipants, Goto, tables, history, IInv, TypeOK, Steps
  <1>3. Members(call[h].chat)' = Members(call[h].chat)
    BY DEF GetParticipants, Members, tables
  <1>4. Phase(h)'
    BY <1>1, <1>3 DEF GetParticipants, Phase, Sending, tables, history, IInv, Phases
  <1> QED
    BY <1>1, <1>2, <1>4, LocalStep DEF GetParticipants, tables, history, Sending

LEMMA ReadPageStep ==
  ASSUME IInv, NEW h \in Handlers, ReadPage(h)
  PROVE  IInv'
  <1>1. pc[h] = "page" /\ pc'[h] = "reset" /\ call' = call /\ Alone(h)
    BY DEF ReadPage, Goto, Alone, IInv, TypeOK
  <1>2. TypeOK'
    BY DEF ReadPage, Goto, tables, history, IInv, TypeOK, Steps
  <1>3. Members(call[h].chat)' = Members(call[h].chat)
    BY <1>1 DEF ReadPage, Members, tables
  <1>4. Phase(h)'
    BY <1>1, <1>3 DEF ReadPage, Phase, Sending, IInv, Phases
  <1> QED
    BY <1>1, <1>2, <1>4, LocalStep DEF ReadPage, tables, history, Sending

LEMMA UpsertChatStep ==
  ASSUME IInv, NEW h \in Handlers, UpsertChat(h)
  PROVE  IInv'
  <1>c. PICK c \in Chats : c = call[h].chat
    BY DEF UpsertChat, IInv, Phases, Phase
  <1>1. /\ pc[h] = "upsert" /\ chats' = chats \cup {c} /\ c \in Chats
        /\ UNCHANGED <<unread, messages, pushed, acked, resetAt>>
        /\ \A d : Members(d)' = Members(d)
    BY <1>c DEF UpsertChat, Members
  <1>2. TypeOK'
    <2>1. pc' \in [Handlers -> Steps] /\ call' \in [Handlers -> Call]
      BY AnswerTypes DEF UpsertChat, Goto, IInv, TypeOK, Steps
    <2>2. returned' \subseteq Chats /\ orphaned' \subseteq Chats /\ chats' \subseteq Chats
      BY <1>1 DEF UpsertChat, IInv, TypeOK
    <2> QED BY <1>1, <2>1, <2>2 DEF IInv, TypeOK
  <1>3. CASE c \in chats
    <2>1. Answer(h) /\ orphaned' = orphaned /\ chats' = chats
      BY <1>c, <1>1, <1>3 DEF UpsertChat
    <2> QED BY <1>1, <1>2, <2>1, AnswerStep
  <1>4. CASE c \notin chats
    <2>1. Members(c) = {}
      BY <1>1, <1>4 DEF IInv, BothMembersOrOrphan
    <2>2. \/ pc'[h] = "members" /\ call'[h] = call[h] /\ orphaned' = orphaned
          \/ pc'[h] = "idle" /\ call'[h] = NoCall /\ orphaned' = orphaned \cup {c}
      BY <1>c, <1>4 DEF UpsertChat, Answer, Goto, IInv, TypeOK
    <2>3. Alone(h)
      BY DEF UpsertChat, Answer, Goto, Alone, IInv, TypeOK
    <2>4. \A g \in Handlers : pc[g] = "members" => call[g].chat # c
      BY <1>4 DEF IInv, Phases, Phase
    <2>5. Phases'
      <3>1. Phase(h)'
        <4>1. CASE pc'[h] = "members" /\ call'[h] = call[h]
          <5>1. Members(c)' = {}
            BY <1>1, <2>1
          <5> QED BY <1>c, <1>1, <4>1, <5>1 DEF Phase, Sending, IInv, Phases
        <4>2. CASE pc'[h] = "idle" /\ call'[h] = NoCall
          BY <4>2 DEF Phase, Sending, NoCall
        <4> QED BY <2>2, <4>1, <4>2
      <3>2. ASSUME NEW g \in Handlers, g # h PROVE Phase(g)'
        <4>1. Phase(g) /\ pc'[g] = pc[g] /\ call'[g] = call[g] /\ chats \subseteq chats'
          BY <1>1, <2>3, <3>2 DEF IInv, Phases, Alone
        <4>2. pc[g] = "members" => Members(call[g].chat) = {}
          BY <4>1 DEF Phase
        <4>3. pc[g] \in Sending => call[g].message \in DOMAIN messages /\ call[g].message \notin acked
          BY <4>1 DEF Phase
        <4> QED BY <1>1, <4>1, <4>2, <4>3, OtherPhase
      <3> QED BY <3>1, <3>2 DEF Phases
    <2>6. Apart'
      BY <1>c, <2>2, <2>3, <2>4 DEF IInv, Apart, Alone, Sending
    <2>7. Kept'
      BY <1>1 DEF IInv, Kept
    <2>8. BothMembersOrOrphan'
      <3> SUFFICES ASSUME NEW d \in Chats
                   PROVE  \/ d \in chats' /\ Members(d) = d
                          \/ /\ Members(d) = {}
                             /\ d \in chats' => \/ d \in orphaned'
                                                \/ \E g \in Handlers : pc'[g] = "members" /\ call'[g].chat = d
        BY <1>1 DEF BothMembersOrOrphan
      <3>1. CASE d = c
        BY <1>c, <1>1, <2>1, <2>2, <3>1
      <3>2. CASE d # c
        <4>1. \A g \in Handlers : pc[g] = "members" => pc'[g] = "members" /\ call'[g].chat = call[g].chat
          BY <1>1, <2>3 DEF Alone
        <4>2. d \in chats' <=> d \in chats
          BY <1>1, <3>2
        <4>3. orphaned \subseteq orphaned'
          BY <2>2
        <4> QED BY <4>1, <4>2, <4>3 DEF IInv, BothMembersOrOrphan
      <3> QED BY <3>1, <3>2
    <2>9. UnreadExact'
      <3>1. \A d \in chats' : \A u \in Members(d) : d \in chats
        BY <1>1, <2>1
      <3> QED BY <1>1, <3>1 DEF IInv, UnreadExact
    <2>11. PushMatchesTable'
      BY <1>1 DEF IInv, PushMatchesTable
    <2> QED BY <1>2, <2>5, <2>6, <2>7, <2>8, <2>9, <2>11 DEF IInv
  <1> QED BY <1>3, <1>4

-----------------------------------------------------------------------------
(* The members of a new chat.                                              *)

LEMMA InsertMembersStep ==
  ASSUME IInv, NEW h \in Handlers, InsertMembers(h)
  PROVE  IInv'
  <1>c. PICK c \in Chats : c = call[h].chat
    BY DEF InsertMembers, IInv, Phases, Phase
  <1>1. /\ pc[h] = "members" /\ c \in Chats /\ c \in chats /\ Members(c) = {}
        /\ unread' = [unread EXCEPT ![c] = [u \in Users |-> IF u \in c THEN 0 ELSE NoRow]]
        /\ Answer(h)
        /\ UNCHANGED <<chats, messages, pushed, acked, orphaned, resetAt>>
    BY <1>c DEF InsertMembers, IInv, Phases, Phase
  <1>2. pc'[h] = "idle" /\ call'[h] = NoCall /\ Alone(h)
    BY <1>1 DEF Answer, Alone, IInv, TypeOK
  <1>3. TypeOK'
    <2>1. unread' \in PerMember(Nat \cup {NoRow})
      BY <1>1 DEF IInv, TypeOK, PerMember
    <2>2. returned' \subseteq Chats
      BY <1>c, <1>1 DEF InsertMembers, IInv, TypeOK
    <2> QED BY <1>1, <2>1, <2>2, AnswerTypes DEF IInv, TypeOK
  <1>4. Members(c)' = c
    <2>1. unread'[c] = [u \in Users |-> IF u \in c THEN 0 ELSE NoRow]
      BY <1>1 DEF IInv, TypeOK, PerMember
    <2>2. c \subseteq Users
      BY PairOf
    <2>3. {u \in Users : unread'[c][u] # NoRow} = c
      BY <2>1, <2>2, ChatAssumption
    <2> QED BY <2>3 DEF Members
  <1>5. \A d \in Chats \ {c} : Members(d)' = Members(d) /\ unread'[d] = unread[d]
    BY <1>1 DEF Members, IInv, TypeOK, PerMember
  <1>6. \A m \in DOMAIN messages : messages[m].chat # c
    BY <1>1 DEF IInv, Kept
  <1>7. \A d \in Chats : Members(d) \subseteq Members(d)'
    BY <1>1, <1>5
  <1>8. Phases'
    <2>1. Phase(h)'
      BY <1>2 DEF Phase, Sending, NoCall
    <2>2. ASSUME NEW g \in Handlers, g # h PROVE Phase(g)'
      <3>1. Phase(g) /\ pc'[g] = pc[g] /\ call'[g] = call[g] /\ chats \subseteq chats'
        BY <1>1, <1>2, <2>2 DEF IInv, Phases, Alone
      <3>2. pc[g] = "members" => call[g].chat # c /\ Members(call[g].chat) = {}
        BY <1>c, <1>1, <2>2, <3>1 DEF IInv, Apart, Phase
      <3>3. pc[g] \in Sending => call[g].message \in DOMAIN messages /\ call[g].message \notin acked
        BY <3>1 DEF Phase
      <3>4. \A d \in Chats : pc[g] = "members" /\ call[g].chat = d => Members(d)' = {}
        BY <1>5, <3>2
      <3> QED BY <1>1, <1>7, <3>1, <3>3, <3>4, OtherPhase
    <2> QED BY <2>1, <2>2 DEF Phases
  <1>9. Apart'
    BY <1>2 DEF IInv, Apart, Alone, Sending
  <1>10. Kept'
    <2>1. \A m \in DOMAIN messages : messages[m].chat \in Chats
      <3>1. messages \in Seq(Message)
        BY DEF IInv, TypeOK
      <3>2. \A m \in DOMAIN messages : messages[m] \in Message
        BY <3>1
      <3> QED BY <3>2 DEF Message
    <2>2. \A m \in DOMAIN messages : messages[m].sender \in Members(messages[m].chat)
      BY DEF IInv, Kept
    <2>3. \A m \in DOMAIN messages, d \in Chats : messages[m].chat = d => messages[m].sender \in Members(d)'
      BY <1>7, <2>2
    <2>4. \A m \in DOMAIN messages' : messages'[m].sender \in Members(messages[m].chat)'
      BY <1>1, <2>1, <2>3
    <2> QED BY <1>1, <2>4 DEF IInv, Kept
  <1>11. BothMembersOrOrphan'
    <2> SUFFICES ASSUME NEW d \in Chats, d # c
                 PROVE  \/ d \in chats /\ Members(d) = d
                        \/ /\ Members(d) = {}
                           /\ d \in chats => \/ d \in orphaned
                                             \/ \E g \in Handlers : pc'[g] = "members" /\ call'[g].chat = d
      BY <1>1, <1>4, <1>5 DEF BothMembersOrOrphan
    <2>1. \A g \in Handlers : pc[g] = "members" /\ call[g].chat = d => pc'[g] = "members" /\ call'[g].chat = d
      BY <1>c, <1>2 DEF Alone
    <2> QED BY <2>1 DEF IInv, BothMembersOrOrphan
  <1>12. UnreadExact'
    <2> SUFFICES ASSUME NEW d \in chats', NEW u \in Members(d)'
                 PROVE  unread'[d][u] = Cardinality({m \in DOMAIN messages :
                          messages[m].chat = d /\ messages[m].sender # u /\ m > resetAt[d][u]})
      BY <1>1 DEF UnreadExact
    <2>1. CASE d = c
      <3>1. {m \in DOMAIN messages : messages[m].chat = d /\ messages[m].sender # u /\ m > resetAt[d][u]} = {}
        BY <1>6, <2>1
      <3>2. u \in c
        BY <1>4, <2>1
      <3>3. u \in Users
        BY <3>2, PairOf
      <3>4. unread'[d][u] = 0
        BY <1>1, <2>1, <3>2, <3>3 DEF IInv, TypeOK, PerMember
      <3> QED BY <3>1, <3>4, FS_EmptySet
    <2>2. CASE d # c
      <3>1. d \in Chats /\ d \in chats
        BY <1>1 DEF IInv, TypeOK
      <3>2. u \in Members(d) /\ unread'[d] = unread[d]
        BY <1>5, <2>2, <3>1
      <3> QED BY <3>1, <3>2 DEF IInv, UnreadExact
    <2> QED BY <2>1, <2>2
  <1>14. PushMatchesTable'
    BY <1>1 DEF IInv, PushMatchesTable
  <1> QED BY <1>3, <1>8, <1>9, <1>10, <1>11, <1>12, <1>14 DEF IInv

-----------------------------------------------------------------------------
(* SendMessage: the row and its counts, then the pushes.                   *)

\* The messages that unread[c][u] counts.
Counted(c, u) ==
  {m \in DOMAIN messages : messages[m].chat = c /\ messages[m].sender # u /\ m > resetAt[c][u]}

LEMMA CountedFinite ==
  ASSUME TypeOK, NEW c, NEW u
  PROVE  IsFiniteSet(Counted(c, u))
  <1>1. DOMAIN messages = 1..Len(messages) /\ Len(messages) \in Nat
    BY DEF TypeOK
  <1>2. IsFiniteSet(1..Len(messages)) /\ Counted(c, u) \subseteq 1..Len(messages)
    BY <1>1, FS_Interval DEF Counted
  <1> QED BY <1>2, FS_Subset

\* The statement of SendMessage that counts the message makes nobody a member.
LEMMA StoreCounts ==
  ASSUME TypeOK, NEW c \in Chats, NEW me \in Users,
         unread' = [unread EXCEPT ![c] = [u \in Users |-> IF u \in Others(c, me) THEN @[u] + 1 ELSE @[u]]]
  PROVE  /\ \A d \in Chats, u \in Users : unread'[d][u] =
              IF d = c /\ u \in Others(c, me) THEN unread[d][u] + 1 ELSE unread[d][u]
         /\ unread' \in PerMember(Nat \cup {NoRow})
         /\ \A d \in Chats : Members(d)' = Members(d)
  <1>1. \A u \in Others(c, me) : unread[c][u] \in Nat
    BY DEF Others, Members, TypeOK, PerMember
  <1>2. /\ \A d \in Chats, u \in Users : unread'[d][u] =
             IF d = c /\ u \in Others(c, me) THEN unread[d][u] + 1 ELSE unread[d][u]
        /\ unread' \in PerMember(Nat \cup {NoRow})
    BY <1>1 DEF TypeOK, PerMember
  <1>3. \A d \in Chats, u \in Users : unread'[d][u] = NoRow <=> unread[d][u] = NoRow
    BY <1>1, <1>2, ChatAssumption
  <1> QED BY <1>2, <1>3 DEF Members

LEMMA StoreMessageStep ==
  ASSUME IInv, NEW h \in Handlers, StoreMessage(h)
  PROVE  IInv'
  <1>1. PICK c \in Chats, me \in Users : c = call[h].chat /\ me = call[h].user /\ me \in Members(c)
    BY DEF StoreMessage, IInv, Phases, Phase
  <1>2. PICK M \in Nat : M = Len(messages) + 1
    BY DEF IInv, TypeOK
  <1> DEFINE row == [chat |-> c, sender |-> me]
  <1>3. /\ pc[h] = "store" /\ M <= MaxMessages
        /\ messages' = Append(messages, row)
        /\ unread' = [unread EXCEPT ![c] = [u \in Users |-> IF u \in Others(c, me) THEN @[u] + 1 ELSE @[u]]]
        /\ \/ pc' = [pc EXCEPT ![h] = "participants"] /\ call' = [call EXCEPT ![h].message = M]
           \/ Answer(h)
        /\ UNCHANGED <<chats, pushed, acked, returned, orphaned, resetAt>>
    BY <1>1, <1>2 DEF StoreMessage
  <1>4. row \in Message /\ messages \in Seq(Message)
    BY DEF Message, IInv, TypeOK
  <1>5. /\ messages' \in Seq(Message) /\ DOMAIN messages' = 1..M /\ Len(messages') = M
        /\ DOMAIN messages = 1..(M - 1)
        /\ messages'[M] = row
        /\ \A m \in 1..(M - 1) : messages'[m] = messages[m]
    BY <1>2, <1>3, <1>4
  <1>6. /\ \A d \in Chats, u \in Users : unread'[d][u] =
             IF d = c /\ u \in Others(c, me) THEN unread[d][u] + 1 ELSE unread[d][u]
        /\ unread' \in PerMember(Nat \cup {NoRow})
    BY <1>3, StoreCounts DEF IInv
  <1>7. \A d \in Chats : Members(d)' = Members(d)
    BY <1>3, StoreCounts DEF IInv
  <1>9. /\ \/ /\ pc'[h] = "participants"
              /\ call'[h] = [call[h] EXCEPT !.message = M]
           \/ pc'[h] = "idle" /\ call'[h] = NoCall
        /\ Alone(h)
    BY <1>3 DEF Answer, Alone, IInv, TypeOK
  <1>10. TypeOK'
    <2>1. [call[h] EXCEPT !.message = M] \in Call
      BY DEF IInv, TypeOK, Call
    <2>2. call' \in [Handlers -> Call] /\ pc' \in [Handlers -> Steps]
      BY <1>3, <2>1, AnswerTypes DEF IInv, TypeOK, Steps
    <2> QED BY <1>3, <1>5, <1>6, <2>2 DEF IInv, TypeOK
  <1>11. pushed[M] = {} /\ M \notin acked
    <2>1. M \in 1..MaxMessages /\ M \notin DOMAIN messages
      BY <1>2, <1>3, <1>5
    <2> QED BY <2>1 DEF IInv, PushMatchesTable, Kept
  <1>12. Phases'
    <2>1. Phase(h)'
      <3>1. CASE pc'[h] = "participants" /\ call'[h] = [call[h] EXCEPT !.message = M]
        <4>1. call[h] \in Call /\ call[h].token = me
          BY <1>1, <1>3 DEF IInv, TypeOK, Phases, Phase
        <4>2. call'[h].chat = c /\ call'[h].user = me /\ call'[h].token = me /\ call'[h].message = M
          BY <1>1, <3>1, <4>1 DEF Call
        <4>3. me \in Members(c)'
          BY <1>1, <1>7
        <4>4. M \in DOMAIN messages' /\ messages'[M] = row /\ M \notin acked' /\ pushed'[M] = {}
          BY <1>3, <1>5, <1>11
        <4> QED BY <3>1, <4>2, <4>3, <4>4 DEF Phase, Sending
      <3>2. CASE pc'[h] = "idle" /\ call'[h] = NoCall
        BY <3>2 DEF Phase, Sending, NoCall
      <3> QED BY <1>9, <3>1, <3>2
    <2>2. ASSUME NEW g \in Handlers, g # h PROVE Phase(g)'
      <3>1. Phase(g) /\ pc'[g] = pc[g] /\ call'[g] = call[g] /\ chats \subseteq chats'
        BY <1>3, <1>9, <2>2 DEF IInv, Phases, Alone
      <3>2. \A d \in Chats : pc[g] = "members" /\ call[g].chat = d => Members(d)' = {}
        BY <1>7, <3>1 DEF Phase
      <3>3. pc[g] \in Sending => call[g].message \in DOMAIN messages /\ call[g].message \notin acked
        BY <3>1 DEF Phase
      <3>4. pc[g] \in Sending =>
               /\ call[g].message \in DOMAIN messages'
               /\ messages'[call[g].message] = messages[call[g].message]
        BY <1>5, <3>3
      <3> QED BY <1>3, <1>7, <3>1, <3>2, <3>3, <3>4, OtherPhase
    <2> QED BY <2>1, <2>2 DEF Phases
  <1>13. Apart'
    <2>1. ASSUME NEW g \in Handlers, pc[g] \in Sending PROVE call[g].message # M
      <3>1. call[g].message \in DOMAIN messages
        BY <2>1 DEF IInv, Phases, Phase
      <3> QED BY <1>5, <3>1
    <2>2. pc'[h] \in Sending => call'[h].message = M
      BY <1>9 DEF Sending, IInv, TypeOK, Call
    <2> QED BY <1>9, <2>1, <2>2 DEF IInv, Apart, Alone, Sending
  <1>14. Kept'
    <2>1. ASSUME NEW m \in DOMAIN messages' PROVE messages'[m].sender \in Members(messages[m].chat)'
      <3>1. PICK d \in Chats : d = messages'[m].chat
        <4>1. messages'[m] \in Message
          BY <1>5
        <4> QED BY <4>1 DEF Message
      <3>2. messages'[m].sender \in Members(d)
        <4>1. CASE m = M
          BY <1>1, <1>5, <3>1, <4>1
        <4>2. CASE m # M
          BY <1>5, <3>1, <4>2 DEF IInv, Kept
        <4> QED BY <4>1, <4>2
      <3> QED BY <1>7, <3>1, <3>2
    <2>2. acked' \subseteq DOMAIN messages' /\ Len(messages') <= MaxMessages
      BY <1>3, <1>5 DEF IInv, Kept
    <2>3. \A d \in Chats, u \in Users : resetAt'[d][u] <= Len(messages')
      <3>1. \A d \in Chats, u \in Users : resetAt[d][u] \in Nat /\ resetAt[d][u] <= Len(messages)
        BY DEF IInv, Kept, TypeOK, PerMember
      <3> QED BY <1>2, <1>3, <1>5, <3>1
    <2> QED BY <2>1, <2>2, <2>3 DEF Kept
  <1>15. BothMembersOrOrphan'
    <2> SUFFICES ASSUME NEW d \in Chats
                 PROVE  \/ d \in chats /\ Members(d) = d
                        \/ /\ Members(d) = {}
                           /\ d \in chats => \/ d \in orphaned
                                             \/ \E g \in Handlers : pc'[g] = "members" /\ call'[g].chat = d
      BY <1>3, <1>7 DEF BothMembersOrOrphan
    <2>1. \A g \in Handlers : pc[g] = "members" => pc'[g] = "members" /\ call'[g].chat = call[g].chat
      BY <1>3, <1>9 DEF Alone
    <2> QED BY <2>1 DEF IInv, BothMembersOrOrphan
  <1>16. UnreadExact'
    <2> SUFFICES ASSUME NEW d \in chats, NEW u \in Members(d)
                 PROVE  unread'[d][u] = Cardinality(Counted(d, u)')
      <3>1. chats' = chats /\ \A d \in chats : Members(d)' = Members(d)
        BY <1>3, <1>7 DEF IInv, TypeOK
      <3> QED BY <3>1 DEF UnreadExact, Counted
    <2>1. d \in Chats /\ u \in Users
      BY DEF IInv, TypeOK, Members
    <2>2. unread[d][u] = Cardinality(Counted(d, u)) /\ IsFiniteSet(Counted(d, u))
      BY CountedFinite DEF IInv, UnreadExact, Counted
    <2>3. resetAt[d][u] \in Nat /\ resetAt[d][u] < M
      BY <1>2, <1>4, <2>1 DEF IInv, Kept, TypeOK, PerMember
    <2>4. CASE d = c /\ u # me
      <3>1. Counted(d, u)' = Counted(d, u) \cup {M} /\ M \notin Counted(d, u)
        BY <1>3, <1>5, <2>3, <2>4 DEF Counted
      <3>2. Cardinality(Counted(d, u)') = Cardinality(Counted(d, u)) + 1
        BY <2>2, <3>1, FS_AddElement
      <3>3. unread'[d][u] = unread[d][u] + 1
        BY <1>6, <2>1, <2>4 DEF Others
      <3> QED BY <2>2, <3>2, <3>3
    <2>5. CASE ~(d = c /\ u # me)
      <3>1. Counted(d, u)' = Counted(d, u)
        BY <1>3, <1>5, <2>5 DEF Counted
      <3>2. unread'[d][u] = unread[d][u]
        BY <1>6, <2>1, <2>5 DEF Others
      <3> QED BY <2>2, <3>1, <3>2
    <2> QED BY <2>4, <2>5
  <1>18. PushMatchesTable'
    BY <1>3, <1>5 DEF IInv, PushMatchesTable, Kept
  <1> QED BY <1>10, <1>12, <1>13, <1>14, <1>15, <1>16, <1>18 DEF IInv

\* One push of SendMessage, to either user.
LEMMA PushStep ==
  ASSUME IInv, NEW h \in Handlers, pc[h] \in Sending,
         NEW c \in Chats, NEW m, c = call[h].chat, m = call[h].message,
         NEW u \in c, PushTo(h, u),
         UNCHANGED <<chats, unread, messages, returned, orphaned, resetAt>>,
         \/ pc[h] = "push1" /\ u = Min(c) /\ Goto(h, "push2") /\ UNCHANGED <<call, acked>>
         \/ pc[h] = "push2" /\ u = Max(c) /\ Answer(h) /\ acked' = acked \cup {m}
  PROVE  IInv'
  <1>1. /\ m \in DOMAIN messages /\ messages[m].chat = c /\ m \in 1..MaxMessages
        /\ m \notin acked /\ u \in Users /\ u \in messages[m].chat /\ c = {Min(c), Max(c)}
        /\ pushed[m] = IF pc[h] = "push2" THEN {Min(c)} ELSE {}
    <2>1. DOMAIN messages = 1..Len(messages) /\ Len(messages) \in Nat /\ MaxMessages \in Nat
      BY ChatAssumption DEF IInv, TypeOK
    <2>2. Len(messages) <= MaxMessages
      BY DEF IInv, Kept
    <2>3. Phase(h)
      BY DEF IInv, Phases
    <2>4. /\ m \in DOMAIN messages /\ messages[m] = [chat |-> c, sender |-> call[h].user]
          /\ m \notin acked
          /\ pushed[m] = IF pc[h] = "push2" THEN {Min(c)} ELSE {}
      BY <2>3 DEF Phase
    <2>5. u \in Users /\ c = {Min(c), Max(c)}
      BY PairOf
    <2> QED BY <2>1, <2>2, <2>4, <2>5
  <1>2. /\ pushed'[m] = pushed[m] \cup {u}
        /\ \A k \in 1..MaxMessages : k # m => pushed'[k] = pushed[k]
        /\ pushed' \in [1..MaxMessages -> SUBSET Users]
    BY <1>1 DEF PushTo, IInv, TypeOK
  <1>3. /\ Alone(h)
        /\ \/ pc'[h] = "push2" /\ call'[h] = call[h]
           \/ pc'[h] = "idle" /\ call'[h] = NoCall
    BY DEF Goto, Answer, Alone, IInv, TypeOK
  <1>4. TypeOK'
    BY <1>1, <1>2, AnswerTypes DEF Goto, IInv, TypeOK, Steps
  <1>5. \A d : Members(d)' = Members(d)
    BY DEF Members
  <1>6. Phases'
    <2>1. Phase(h)'
      <3>1. CASE pc[h] = "push1"
        <4>1. /\ pc'[h] = "push2" /\ call'[h] = call[h] /\ acked' = acked
              /\ pushed'[m] = {Min(c)} /\ Members(c)' = Members(c)
          BY <1>1, <1>2, <1>3, <1>5, <3>1 DEF IInv, TypeOK, Goto
        <4>2. /\ call[h].user \in Members(c) /\ call[h].user \in Users /\ call[h].token = call[h].user
              /\ messages[m] = [chat |-> c, sender |-> call[h].user]
          BY <3>1 DEF Phase, Sending, IInv, Phases
        <4>3. call[h].user \in Members(c)'
          BY <4>1, <4>2
        <4> QED BY <1>1, <3>1, <4>1, <4>2, <4>3 DEF Phase, Sending
      <3>2. CASE pc[h] = "push2"
        <4>1. pc'[h] = "idle" /\ call'[h] = NoCall
          BY <3>2 DEF Answer, IInv, TypeOK
        <4> QED BY <4>1 DEF Phase, Sending, NoCall
      <3> QED BY <3>1, <3>2
    <2>2. ASSUME NEW g \in Handlers, g # h PROVE Phase(g)'
      <3>1. Phase(g) /\ pc'[g] = pc[g] /\ call'[g] = call[g]
        BY <1>3, <2>2 DEF IInv, Phases, Alone
      <3>2. pc[g] = "members" => Members(call[g].chat) = {}
        BY <3>1 DEF Phase
      <3>3. pc[g] \in Sending => call[g].message \in DOMAIN messages /\ call[g].message \notin acked
        BY <3>1 DEF Phase
      <3>4. pc[g] \in Sending => call[g].message # m
        BY <2>2 DEF IInv, Apart
      <3>5. pc[g] \in Sending => call[g].message \in 1..MaxMessages
        <4>1. DOMAIN messages = 1..Len(messages) /\ Len(messages) \in Nat /\ MaxMessages \in Nat
          BY ChatAssumption DEF IInv, TypeOK
        <4>2. Len(messages) <= MaxMessages
          BY DEF IInv, Kept
        <4> QED BY <3>3, <4>1, <4>2
      <3>6. pc[g] \in Sending => call[g].message \notin acked' /\ pushed'[call[g].message] = pushed[call[g].message]
        BY <1>2, <3>3, <3>4, <3>5
      <3>7. \A d \in Chats : pc[g] = "members" /\ call[g].chat = d => Members(d)' = {}
        BY <1>5, <3>2
      <3> QED BY <1>5, <3>1, <3>3, <3>6, <3>7, OtherPhase
    <2> QED BY <2>1, <2>2 DEF Phases
  <1>7. Apart'
    BY <1>3 DEF IInv, Apart, Alone, Sending
  <1>8. Kept'
    BY <1>1, <1>5 DEF IInv, Kept
  <1>9. BothMembersOrOrphan'
    <2>1. \A g \in Handlers : pc[g] = "members" => pc'[g] = "members" /\ call'[g] = call[g]
      BY <1>3 DEF Alone, Sending
    <2> QED BY <1>5, <2>1 DEF IInv, BothMembersOrOrphan
  <1>10. UnreadExact'
    BY <1>5 DEF IInv, UnreadExact
  <1>12. PushMatchesTable'
    <2>1. \A k \in 1..MaxMessages : pushed'[k] # {} =>
             k \in DOMAIN messages /\ pushed'[k] \subseteq messages[k].chat
      BY <1>1, <1>2 DEF IInv, PushMatchesTable
    <2>2. ASSUME NEW k \in acked' PROVE pushed'[k] = messages[k].chat
      <3>1. CASE k = m
        <4>1. pc[h] = "push2" /\ u = Max(c)
          BY <1>1, <2>2, <3>1
        <4> QED BY <1>1, <1>2, <3>1, <4>1
      <3>2. CASE k # m
        <4>1. k \in acked /\ k \in 1..MaxMessages
          BY <2>2, <3>2 DEF IInv, TypeOK
        <4> QED BY <1>2, <3>2, <4>1 DEF IInv, PushMatchesTable
      <3> QED BY <3>1, <3>2
    <2> QED BY <2>1, <2>2 DEF PushMatchesTable
  <1> QED BY <1>4, <1>6, <1>7, <1>8, <1>9, <1>10, <1>12 DEF IInv

LEMMA PushFirstStep ==
  ASSUME IInv, NEW h \in Handlers, PushFirst(h)
  PROVE  IInv'
  <1>1. PICK c \in Chats : c = call[h].chat
    BY DEF PushFirst, IInv, Phases, Phase
  <1>2. Min(c) \in c
    BY PairOf
  <1> QED BY <1>1, <1>2, PushStep DEF PushFirst, tables, Sending

LEMMA PushSecondStep ==
  ASSUME IInv, NEW h \in Handlers, PushSecond(h)
  PROVE  IInv'
  <1>1. PICK c \in Chats : c = call[h].chat
    BY DEF PushSecond, IInv, Phases, Phase
  <1>2. Max(c) \in c
    BY PairOf
  <1> QED BY <1>1, <1>2, PushStep DEF PushSecond, tables, Sending

-----------------------------------------------------------------------------
(* GetMessages stops counting, and the process dies.                       *)

LEMMA ResetUnreadStep ==
  ASSUME IInv, NEW h \in Handlers, ResetUnread(h)
  PROVE  IInv'
  <1>1. PICK c \in Chats, u \in Users : c = call[h].chat /\ u = call[h].user /\ u \in Members(c)
    BY DEF ResetUnread, IInv, Phases, Phase
  <1>2. PICK n \in Nat : n = Len(messages) /\ DOMAIN messages = 1..n
    BY DEF IInv, TypeOK
  <1>3. /\ pc[h] = "reset" /\ Answer(h)
        /\ unread' = [unread EXCEPT ![c][u] = 0]
        /\ resetAt' = [resetAt EXCEPT ![c][u] = n]
        /\ UNCHANGED <<chats, messages, pushed, acked, returned, orphaned>>
    BY <1>1, <1>2 DEF ResetUnread, Zeroed
  <1>4. /\ \A d \in Chats, v \in Users : unread'[d][v] = IF d = c /\ v = u THEN 0 ELSE unread[d][v]
        /\ \A d \in Chats, v \in Users : resetAt'[d][v] = IF d = c /\ v = u THEN n ELSE resetAt[d][v]
        /\ unread' \in PerMember(Nat \cup {NoRow}) /\ resetAt' \in PerMember(Nat)
    BY <1>3 DEF IInv, TypeOK, PerMember
  <1>6. \A d \in Chats : Members(d)' = Members(d)
    <2>1. 0 # NoRow /\ unread[c][u] # NoRow
      BY <1>1, ChatAssumption DEF Members
    <2>2. \A d \in Chats, v \in Users : unread'[d][v] = NoRow <=> unread[d][v] = NoRow
      BY <1>4, <2>1
    <2> QED BY <2>2 DEF Members
  <1>7. pc'[h] = "idle" /\ call'[h] = NoCall /\ Alone(h)
    BY <1>3 DEF Answer, Alone, IInv, TypeOK
  <1>8. TypeOK'
    BY <1>3, <1>4, AnswerTypes DEF IInv, TypeOK
  <1>9. Phases'
    <2>1. Phase(h)'
      BY <1>7 DEF Phase, Sending, NoCall
    <2>2. ASSUME NEW g \in Handlers, g # h PROVE Phase(g)'
      <3>1. Phase(g) /\ pc'[g] = pc[g] /\ call'[g] = call[g]
        BY <1>7, <2>2 DEF IInv, Phases, Alone
      <3>2. \A d \in Chats : pc[g] = "members" /\ call[g].chat = d => Members(d)' = {}
        BY <1>6, <3>1 DEF Phase
      <3>3. pc[g] \in Sending => call[g].message \in DOMAIN messages /\ call[g].message \notin acked
        BY <3>1 DEF Phase
      <3> QED BY <1>3, <1>6, <3>1, <3>2, <3>3, OtherPhase
    <2> QED BY <2>1, <2>2 DEF Phases
  <1>10. Apart'
    BY <1>7 DEF IInv, Apart, Alone, Sending
  <1>11. Kept'
    <2>1. ASSUME NEW m \in DOMAIN messages' PROVE messages'[m].sender \in Members(messages[m].chat)'
      <3>1. PICK d \in Chats : d = messages[m].chat
        <4>1. messages[m] \in Message
          BY <1>3, <2>1 DEF IInv, TypeOK
        <4> QED BY <4>1 DEF Message
      <3>2. messages[m].sender \in Members(d)
        BY <1>3, <2>1, <3>1 DEF IInv, Kept
      <3> QED BY <1>3, <1>6, <3>1, <3>2
    <2>2. \A d \in Chats, v \in Users : resetAt'[d][v] <= Len(messages')
      BY <1>2, <1>3, <1>4 DEF IInv, Kept
    <2> QED BY <1>3, <2>1, <2>2 DEF IInv, Kept
  <1>12. BothMembersOrOrphan'
    <2>1. \A g \in Handlers : pc[g] = "members" => pc'[g] = "members" /\ call'[g] = call[g]
      BY <1>3, <1>7 DEF Alone
    <2> QED BY <1>3, <1>6, <2>1 DEF IInv, BothMembersOrOrphan
  <1>13. UnreadExact'
    <2> SUFFICES ASSUME NEW d \in chats, NEW v \in Members(d)
                 PROVE  unread'[d][v] = Cardinality(Counted(d, v)')
      <3>1. chats' = chats /\ \A d \in chats : Members(d)' = Members(d)
        BY <1>3, <1>6 DEF IInv, TypeOK
      <3> QED BY <3>1 DEF UnreadExact, Counted
    <2>1. d \in Chats /\ v \in Users
      BY DEF IInv, TypeOK, Members
    <2>2. CASE d = c /\ v = u
      <3>1. Counted(d, v)' = {}
        BY <1>2, <1>3, <1>4, <2>2 DEF Counted
      <3> QED BY <1>4, <2>2, <3>1, FS_EmptySet
    <2>3. CASE ~(d = c /\ v = u)
      <3>1. Counted(d, v)' = Counted(d, v)
        BY <1>3, <1>4, <2>1, <2>3 DEF Counted
      <3> QED BY <1>4, <2>1, <2>3, <3>1 DEF IInv, UnreadExact, Counted
    <2> QED BY <2>2, <2>3
  <1>15. PushMatchesTable'
    BY <1>3 DEF IInv, PushMatchesTable
  <1> QED BY <1>8, <1>9, <1>10, <1>11, <1>12, <1>13, <1>15 DEF IInv

LEMMA CrashStep ==
  ASSUME IInv, Crash
  PROVE  IInv'
  <1>1. \A h \in Handlers : pc'[h] = "idle" /\ call'[h] = NoCall
    BY DEF Crash
  <1>2. UNCHANGED <<chats, unread, messages, pushed, acked, resetAt>>
        /\ returned' = returned /\ \A c : Members(c)' = Members(c)
    BY DEF Crash, tables, Members
  <1>3. \A h \in Handlers : pc[h] = "members" => call[h].chat \in orphaned' /\ call[h].chat \in Chats
    BY DEF Crash, IInv, Phases, Phase
  <1>4. TypeOK'
    <2>1. NoCall \in Call
      BY DEF NoCall, Call
    <2>2. orphaned' \subseteq Chats
      BY <1>3 DEF Crash, IInv, TypeOK
    <2> QED BY <1>2, <2>1, <2>2 DEF Crash, IInv, TypeOK, Steps
  <1>5. Phases'
    BY <1>1 DEF Phases, Phase, Sending, NoCall
  <1>6. Apart'
    BY <1>1 DEF Apart, Sending
  <1>7. Kept'
    BY <1>2 DEF IInv, Kept
  <1>8. BothMembersOrOrphan'
    <2>1. orphaned \subseteq orphaned'
      BY DEF Crash
    <2> QED BY <1>2, <1>3, <2>1 DEF IInv, BothMembersOrOrphan
  <1>9. UnreadExact'
    BY <1>2 DEF IInv, UnreadExact
  <1>11. PushMatchesTable'
    BY <1>2 DEF IInv, PushMatchesTable
  <1> QED BY <1>4, <1>5, <1>6, <1>7, <1>8, <1>9, <1>11 DEF IInv

-----------------------------------------------------------------------------
LEMMA InitHolds == Init => IInv
  <1> SUFFICES ASSUME Init PROVE IInv
    OBVIOUS
  <1>1. \A h \in Handlers : pc[h] = "idle" /\ call[h] = NoCall
    BY DEF Init
  <1>2. messages = <<>> /\ DOMAIN messages = {} /\ Len(messages) = 0 /\ messages \in Seq(Message)
    BY DEF Init
  <1>3. \A c \in Chats : Members(c) = {}
    BY DEF Init, Members
  <1>4. TypeOK
    <2>1. NoCall \in Call
      BY DEF NoCall, Call
    <2> QED BY <1>2, <2>1 DEF Init, TypeOK, PerMember, Steps
  <1>5. Phases /\ Apart
    BY <1>1 DEF Phases, Phase, Apart, Sending, NoCall
  <1>6. Kept
    BY <1>2, ChatAssumption DEF Init, Kept
  <1>7. BothMembersOrOrphan /\ UnreadExact
    BY <1>3 DEF Init, BothMembersOrOrphan, UnreadExact
  <1>9. PushMatchesTable
    BY DEF Init, PushMatchesTable
  <1> QED BY <1>4, <1>5, <1>6, <1>7, <1>9 DEF IInv

LEMMA StutterStep ==
  ASSUME IInv, UNCHANGED vars
  PROVE  IInv'
  <1>1. \A c : Members(c)' = Members(c)
    BY DEF vars, Members
  <1>2. Phases'
    BY <1>1 DEF vars, IInv, Phases, Phase
  <1>3. TypeOK' /\ Apart' /\ PushMatchesTable'
    BY DEF vars, IInv, TypeOK, Apart, PushMatchesTable
  <1>4. Kept' /\ BothMembersOrOrphan' /\ UnreadExact'
    BY <1>1 DEF vars, IInv, Kept, BothMembersOrOrphan, UnreadExact
  <1> QED BY <1>2, <1>3, <1>4 DEF IInv

\* The invariant of the chat service: every statement, failure and crash keeps
\* what the handlers and the tables know of each other (service.go, chatrepository.go,
\* messagerepository.go).
THEOREM ChatInvariance == Spec => []IInv
  <1>1. ASSUME IInv, [Next]_vars PROVE IInv'
    <2>1. CASE \E h \in Handlers : StartCreate(h) \/ StartSend(h) \/ StartRead(h)
      BY <1>1, <2>1, StartStep DEF StartCreate, StartSend, StartRead
    <2>2. ASSUME NEW h \in Handlers, Step(h) PROVE IInv'
      <3>1. CASE UpsertChat(h) \/ InsertMembers(h) \/ MembersFail(h)
        BY <1>1, <3>1, UpsertChatStep, InsertMembersStep, MembersFailStep
      <3>2. CASE CheckMember(h, "sendcheck", "store") \/ CheckMember(h, "readcheck", "page")
        BY <1>1, <3>2, CheckMemberStep
      <3>3. CASE StoreMessage(h) \/ GetParticipants(h) \/ PushFirst(h) \/ PushSecond(h)
        BY <1>1, <3>3, StoreMessageStep, GetParticipantsStep, PushFirstStep, PushSecondStep
      <3>4. CASE ReadPage(h) \/ ResetUnread(h)
        BY <1>1, <3>4, ReadPageStep, ResetUnreadStep
      <3>5. CASE StatementFails(h)
        BY <1>1, <3>5, FailsStep DEF StatementFails
      <3> QED BY <2>2, <3>1, <3>2, <3>3, <3>4, <3>5 DEF Step
    <2>3. CASE Crash
      BY <1>1, <2>3, CrashStep
    <2>4. CASE UNCHANGED vars
      BY <1>1, <2>4, StutterStep
    <2> QED BY <1>1, <2>1, <2>2, <2>3, <2>4 DEF Next
  <1> QED BY InitHolds, <1>1, PTL DEF Spec

\* The tables and the local variables keep their types (0001_init.up.sql).
THEOREM ChatTypes == Spec => []TypeOK
  <1>1. IInv => TypeOK
    BY DEF IInv
  <1> QED BY <1>1, ChatInvariance, PTL

\* GetOrCreateChat leaves a chat with both members or, when it was cut short,
\* with none (service.go:38).
THEOREM MembersHold == Spec => []BothMembersOrOrphan
  <1>1. IInv => BothMembersOrOrphan
    BY DEF IInv
  <1> QED BY <1>1, ChatInvariance, PTL

\* Only members send, and in their own name (server.go:110, service.go:122).
THEOREM SendersHold == Spec => []SentByMembers
  <1>1. IInv => SentByMembers
    <2> SUFFICES ASSUME IInv PROVE SentByMembers
      OBVIOUS
    <2>1. \A h \in Handlers : Phase(h)
      BY DEF IInv, Phases
    <2>2. ASSUME NEW h \in Handlers, call[h].message # 0
          PROVE  messages[call[h].message].sender = call[h].token
      <3>1. pc[h] \in Sending /\ Phase(h)
        BY <2>1, <2>2 DEF Phase
      <3>2. messages[call[h].message] = [chat |-> call[h].chat, sender |-> call[h].user]
            /\ call[h].token = call[h].user
        BY <3>1 DEF Phase, Sending
      <3> QED BY <3>2
    <2> QED BY <2>2 DEF IInv, Kept, SentByMembers
  <1> QED BY <1>1, ChatInvariance, PTL

\* unread_count is exact (messagerepository.go, chatrepository.go).
THEOREM UnreadHolds == Spec => []UnreadExact
  <1>1. IInv => UnreadExact
    BY DEF IInv
  <1> QED BY <1>1, ChatInvariance, PTL

\* Pushes follow the table, and an answered SendMessage has pushed to both users
\* (service.go:143).
THEOREM PushesHold == Spec => []PushMatchesTable
  <1>1. IInv => PushMatchesTable
    BY DEF IInv
  <1> QED BY <1>1, ChatInvariance, PTL
-----------------------------------------------------------------------------
(* The chat service implements Conversations.                              *)

Waits == [m \in DOMAIN messages |-> Waiting(m)]

\* A chat that has members has both users, and is in the table.
LEMMA WholeChats ==
  ASSUME IInv, NEW c \in Chats, Members(c) # {}
  PROVE  c \in chats /\ Members(c) = c
  BY DEF IInv, BothMembersOrOrphan

LEMMA MessagesTyped ==
  ASSUME IInv, NEW m \in DOMAIN messages
  PROVE  /\ messages[m].chat \in Chats /\ messages[m].sender \in Users
         /\ messages[m].sender \in Members(messages[m].chat)
  <1>1. messages[m] \in Message
    BY DEF IInv, TypeOK
  <1> QED BY <1>1 DEF Message, IInv, Kept

\* What a member's count counts are the messages that wait for that member.
LEMMA CountedWaits ==
  ASSUME NEW c \in Chats, NEW u \in Members(c)
  PROVE  Counted(c, u) = {m \in DOMAIN messages : messages[m].chat = c /\ u \in Waiting(m)}
  BY DEF Counted, Waiting

\* When nobody becomes a member, the stored counts are the sizes they stand for.
LEMMA BadgesAreCounts ==
  ASSUME IInv, IInv', \A c \in Chats : Members(c)' = Members(c)
  PROVE  unread' = Talk!Counts(messages', Waits')
  <1> DEFINE Size(c, u) ==
        IF u \in Members(c)
        THEN Cardinality({m \in DOMAIN messages' : messages'[m].chat = c /\ u \in Waits'[m]})
        ELSE NoRow
  <1>1. ASSUME NEW c \in Chats, NEW u \in Users
        PROVE  unread'[c][u] = Size(c, u)
    <2>1. CASE u \in Members(c)
      <3>1. c \in chats' /\ u \in Members(c)'
        <4>1. Members(c)' # {}
          BY <2>1
        <4>2. c \in chats' /\ Members(c)' = c
          BY <4>1 DEF IInv, BothMembersOrOrphan
        <4> QED BY <2>1, <4>2
      <3>2. unread'[c][u] = Cardinality(Counted(c, u)')
        BY <3>1 DEF IInv, UnreadExact, Counted
      <3>3. Counted(c, u)' = {m \in DOMAIN messages' : messages'[m].chat = c /\ u \in Waiting(m)'}
        BY <3>1 DEF Counted, Waiting
      <3>4. \A m \in DOMAIN messages' : Waits'[m] = Waiting(m)'
        BY DEF Waits
      <3>5. Counted(c, u)' = {m \in DOMAIN messages' : messages'[m].chat = c /\ u \in Waits'[m]}
        BY <3>3, <3>4
      <3> QED BY <2>1, <3>2, <3>5
    <2>2. CASE u \notin Members(c)
      <3>1. u \notin Members(c)'
        BY <2>2
      <3> QED BY <2>2, <3>1 DEF Members
    <2> QED BY <2>1, <2>2
  <1>2. unread' = [c \in Chats |-> [u \in Users |-> unread'[c][u]]]
    BY DEF IInv, TypeOK, PerMember
  <1> HIDE DEF Size
  <1>3. unread' = [c \in Chats |-> [u \in Users |-> Size(c, u)]]
    BY <1>1, <1>2
  <1>4. \A c \in Chats, u \in Users : Size(c, u) =
          IF u \in Talk!Members(c)
          THEN Cardinality({m \in DOMAIN messages' : messages'[m].chat = c /\ u \in Waits'[m]})
          ELSE NoRow
    BY DEF Size, Talk!Members, Talk!IsMember, Members
  <1>5. Talk!Counts(messages', Waits') = [c \in Chats |-> [u \in Users |-> Size(c, u)]]
    <2>1. \A S : Talk!Cardinality(S) = Cardinality(S)
      BY DEF Talk!Cardinality, Cardinality
    <2> QED BY <1>4, <2>1 DEF Talk!Counts
  <1> QED BY <1>3, <1>5

\* Statements that touch neither counts nor messages nor pushes are hidden.
LEMMA Hidden ==
  ASSUME UNCHANGED <<unread, messages, resetAt, pushed, acked>>
  PROVE  UNCHANGED Talk!conversationVars
  <1>1. \A m : Waiting(m)' = Waiting(m)
    BY DEF Waiting, Members
  <1> QED BY <1>1 DEF Talk!conversationVars

LEMMA InsertCreates ==
  ASSUME IInv, NEW h \in Handlers, InsertMembers(h)
  PROVE  \E c \in Chats : Talk!Create(c)
  <1>1. PICK c \in Chats : c = call[h].chat
    BY DEF InsertMembers, IInv, Phases, Phase
  <1>2. /\ Members(c) = {}
        /\ unread' = [unread EXCEPT ![c] = [u \in Users |-> IF u \in c THEN 0 ELSE NoRow]]
        /\ UNCHANGED <<messages, pushed, acked, resetAt>>
    BY <1>1 DEF InsertMembers, IInv, Phases, Phase
  <1>3. \A d \in Chats \ {c} : Members(d)' = Members(d)
    BY <1>2 DEF Members, IInv, TypeOK, PerMember
  <1>4. ASSUME NEW m \in DOMAIN messages
        PROVE  Waiting(m)' = Waiting(m)
    <2>1. PICK d \in Chats : d = messages[m].chat /\ d # c
      BY <1>2, MessagesTyped
    <2>2. Members(d)' = Members(d)
      BY <1>3, <2>1
    <2> QED BY <1>2, <2>1, <2>2 DEF Waiting
  <1>5. [m \in DOMAIN messages |-> Waiting(m)]' = [m \in DOMAIN messages |-> Waiting(m)]
    BY <1>2, <1>4
  <1> QED BY <1>2, <1>5 DEF Talk!Create, Talk!Members, Talk!IsMember, Members

LEMMA StorePosts ==
  ASSUME IInv, IInv', NEW h \in Handlers, StoreMessage(h)
  PROVE  \E c \in Chats, u \in Users : Talk!Post(c, u)
  <1>1. PICK c \in Chats, me \in Users : c = call[h].chat /\ me = call[h].user /\ me \in Members(c)
    BY DEF StoreMessage, IInv, Phases, Phase
  <1>2. PICK M \in Nat : M = Len(messages) + 1
    BY DEF IInv, TypeOK
  <1> DEFINE row == [chat |-> c, sender |-> me]
  <1>3. /\ M <= MaxMessages /\ messages' = Append(messages, row)
        /\ unread' = [unread EXCEPT ![c] = [u \in Users |-> IF u \in Others(c, me) THEN @[u] + 1 ELSE @[u]]]
        /\ UNCHANGED <<pushed, acked, resetAt>>
    BY <1>1, <1>2 DEF StoreMessage
  <1>4. /\ M \in 1..MaxMessages /\ DOMAIN messages = 1..(M - 1) /\ DOMAIN messages' = 1..M
        /\ messages'[M] = row /\ \A m \in 1..(M - 1) : messages'[m] = messages[m]
    <2>1. row \in Message /\ messages \in Seq(Message) /\ MaxMessages \in Nat
      BY ChatAssumption DEF Message, IInv, TypeOK
    <2> QED BY <1>2, <1>3, <2>1
  <1>5. \A d \in Chats : Members(d)' = Members(d)
    BY <1>3, StoreCounts DEF IInv
  <1>6. ASSUME NEW m \in 1..(M - 1)
        PROVE  Waiting(m)' = Waiting(m)
    <2>1. PICK d \in Chats : d = messages[m].chat
      BY <1>4, MessagesTyped
    <2>2. messages'[m] = messages[m] /\ Members(d)' = Members(d) /\ resetAt' = resetAt
      BY <1>3, <1>4, <1>5, <2>1
    <2> QED BY <2>1, <2>2 DEF Waiting
  <1>7. Waiting(M)' = Members(c) \ {me}
    <2>1. \A u \in Users : resetAt[c][u] \in Nat /\ resetAt[c][u] <= Len(messages) /\ Len(messages) \in Nat
      BY DEF IInv, Kept, TypeOK, PerMember
    <2>2. \A u \in Users : M > resetAt[c][u]
      BY <1>2, <2>1
    <2>3. messages'[M].chat = c /\ messages'[M].sender = me /\ resetAt' = resetAt /\ Members(c)' = Members(c)
      BY <1>3, <1>4, <1>5
    <2>4. Members(c) \subseteq Users
      BY DEF Members
    <2> QED BY <2>2, <2>3, <2>4 DEF Waiting
  <1>8. Waits' = Append(Waits, Members(c) \ {me})
    <2>1. Waits \in Seq(SUBSET Users) /\ Len(Waits) = M - 1
      <3>1. \A m \in DOMAIN messages : Waiting(m) \in SUBSET Users
        BY DEF Waiting, Members
      <3>2. Waits \in [1..(M - 1) -> SUBSET Users] /\ M - 1 \in Nat
        BY <1>2, <1>4, <3>1 DEF Waits, IInv, TypeOK
      <3> QED BY <3>2
    <2>2. DOMAIN Waits' = 1..M /\ \A m \in 1..M : Waits'[m] = Waiting(m)'
      BY <1>4 DEF Waits
    <2>3. \A m \in 1..(M - 1) : Waits[m] = Waiting(m)
      BY <1>4 DEF Waits
    <2>4. Waits' = [m \in 1..M |-> Waiting(m)']
      BY <1>4 DEF Waits
    <2> QED BY <1>6, <1>7, <2>1, <2>3, <2>4
  <1>9. unread' = Talk!Counts(messages', Waits')
    BY <1>5, BadgesAreCounts
  <1>10. Talk!Post(c, me)
    <2>1. Talk!Members(c) = Members(c)
      BY DEF Talk!Members, Talk!IsMember, Members
    <2>2. Len(messages) + 1 \in 1..MaxMessages /\ me \in Talk!Members(c)
      BY <1>1, <1>2, <1>4, <2>1
    <2>3. Waits' = Append(Waits, Talk!Members(c) \ {me})
      BY <1>8, <2>1
    <2> QED BY <1>3, <1>9, <2>2, <2>3 DEF Talk!Post, Talk!Members, Talk!IsMember, Waits
  <1> QED BY <1>10

LEMMA PushAnnounces ==
  ASSUME IInv, NEW h \in Handlers, PushFirst(h) \/ PushSecond(h)
  PROVE  \E m \in DOMAIN messages \ acked, u \in Users : Talk!Announce(m, u)
  <1>0. pc[h] \in {"push1", "push2"} /\ Phase(h)
    BY DEF PushFirst, PushSecond, IInv, Phases
  <1>1. PICK c \in Chats : c = call[h].chat
    BY <1>0 DEF Phase
  <1> DEFINE m == call[h].message
  <1>2. /\ m \in DOMAIN messages /\ m \notin acked /\ messages[m].chat = c
        /\ messages[m].sender \in Members(c)
        /\ pushed[m] = IF pc[h] = "push2" THEN {Min(c)} ELSE {}
    <2>1. /\ m \in DOMAIN messages /\ messages[m] = [chat |-> c, sender |-> call[h].user]
          /\ m \notin acked
          /\ pushed[m] = IF pc[h] = "push2" THEN {Min(c)} ELSE {}
      BY <1>0, <1>1 DEF Phase, Sending
    <2>2. messages[m].chat = c
      BY <2>1
    <2> QED BY <2>1, <2>2, MessagesTyped
  <1>3. Members(c) = {Min(c), Max(c)} /\ Min(c) \in Users /\ Max(c) \in Users /\ Min(c) # Max(c)
    BY <1>2, PairOf, WholeChats
  <1>4. m \in 1..MaxMessages
    <2>1. DOMAIN messages = 1..Len(messages) /\ Len(messages) \in Nat /\ MaxMessages \in Nat
      BY ChatAssumption DEF IInv, TypeOK
    <2> QED BY <1>2, <2>1 DEF IInv, Kept
  <1>5. UNCHANGED <<unread, messages, resetAt>>
    BY DEF PushFirst, PushSecond, tables
  <1>6. PICK u \in Users :
          /\ u \in Members(c) \ pushed[m]
          /\ pushed' = [pushed EXCEPT ![m] = @ \cup {u}]
          /\ acked' = IF pushed'[m] = Members(c) THEN acked \cup {m} ELSE acked
    <2>1. CASE PushFirst(h)
      <3>1. pc[h] = "push1" /\ pushed[m] = {} /\ acked' = acked
        BY <1>2, <2>1 DEF PushFirst
      <3>2. pushed' = [pushed EXCEPT ![m] = @ \cup {Min(c)}]
        BY <1>1, <2>1 DEF PushFirst, PushTo
      <3>3. pushed'[m] = {Min(c)}
        BY <1>4, <3>1, <3>2 DEF IInv, TypeOK
      <3> QED BY <1>3, <3>1, <3>2, <3>3
    <2>2. CASE PushSecond(h)
      <3>1. pc[h] = "push2" /\ pushed[m] = {Min(c)} /\ acked' = acked \cup {m}
        BY <1>1, <1>2, <2>2 DEF PushSecond
      <3>2. pushed' = [pushed EXCEPT ![m] = @ \cup {Max(c)}]
        BY <1>1, <2>2 DEF PushSecond, PushTo
      <3>3. pushed'[m] = {Min(c), Max(c)}
        BY <1>4, <3>1, <3>2 DEF IInv, TypeOK
      <3> QED BY <1>3, <3>1, <3>2, <3>3
    <2> QED BY <2>1, <2>2
  <1>7. Talk!Announce(m, u)
    <2>1. Talk!Members(messages[m].chat) = Members(c)
      BY <1>2 DEF Talk!Members, Talk!IsMember, Members
    <2>2. [k \in DOMAIN messages |-> Waiting(k)]' = [k \in DOMAIN messages |-> Waiting(k)]
      BY <1>5 DEF Waiting, Members
    <2>3. u \notin pushed[m] /\ Talk!IsMember(messages[m].chat, u)
      BY <1>2, <1>6, <2>1 DEF Talk!Members
    <2> QED BY <1>5, <1>6, <2>1, <2>2, <2>3 DEF Talk!Announce
  <1> QED BY <1>2, <1>7

LEMMA ResetReads ==
  ASSUME IInv, IInv', NEW h \in Handlers, ResetUnread(h)
  PROVE  \/ \E c \in Chats, u \in Users : Talk!Read(c, u)
         \/ UNCHANGED Talk!conversationVars
  <1>1. PICK c \in Chats, u \in Users : c = call[h].chat /\ u = call[h].user /\ u \in Members(c)
    BY DEF ResetUnread, IInv, Phases, Phase
  <1>2. PICK n \in Nat : n = Len(messages) /\ DOMAIN messages = 1..n
    BY DEF IInv, TypeOK
  <1>3. /\ unread' = [unread EXCEPT ![c][u] = 0]
        /\ resetAt' = [resetAt EXCEPT ![c][u] = n]
        /\ UNCHANGED <<messages, pushed, acked>>
    BY <1>1, <1>2 DEF ResetUnread, Zeroed
  <1>4. /\ \A d \in Chats, v \in Users : unread'[d][v] = IF d = c /\ v = u THEN 0 ELSE unread[d][v]
        /\ \A d \in Chats, v \in Users : resetAt'[d][v] = IF d = c /\ v = u THEN n ELSE resetAt[d][v]
    BY <1>3 DEF IInv, TypeOK, PerMember
  <1>5. \A d \in Chats : Members(d)' = Members(d)
    <2>1. 0 # NoRow /\ unread[c][u] # NoRow
      BY <1>1, ChatAssumption DEF Members
    <2>2. \A d \in Chats, v \in Users : unread'[d][v] = NoRow <=> unread[d][v] = NoRow
      BY <1>4, <2>1
    <2> QED BY <2>2 DEF Members
  <1>6. ASSUME NEW m \in DOMAIN messages
        PROVE  Waiting(m)' = IF messages[m].chat = c THEN Waiting(m) \ {u} ELSE Waiting(m)
    <2>1. PICK d \in Chats : d = messages[m].chat
      BY MessagesTyped
    <2>2. /\ Members(d)' = Members(d) /\ Members(d) \subseteq Users
          /\ messages'[m] = messages[m] /\ ~(m > n)
      BY <1>2, <1>3, <1>5, <2>1 DEF Members
    <2>3. /\ Waiting(m) = {v \in Members(d) \ {messages[m].sender} : m > resetAt[d][v]}
          /\ Waiting(m)' = {v \in Members(d) \ {messages[m].sender} : m > resetAt'[d][v]}
      BY <2>1, <2>2 DEF Waiting
    <2>4. CASE d = c
      <3>1. \A v \in Members(d) : m > resetAt'[d][v] <=> m > resetAt[d][v] /\ v # u
        BY <1>4, <2>2, <2>4
      <3> QED BY <2>1, <2>3, <2>4, <3>1
    <2>5. CASE d # c
      <3>1. \A v \in Members(d) : resetAt'[d][v] = resetAt[d][v]
        BY <1>4, <2>2, <2>5
      <3> QED BY <2>1, <2>3, <2>5, <3>1
    <2> QED BY <2>4, <2>5
  <1>7. CASE unread[c][u] = 0
    <2>1. unread' = unread
      BY <1>3, <1>7 DEF IInv, TypeOK, PerMember
    <2>2. Counted(c, u) = {}
      <3>1. c \in chats
        BY <1>1, WholeChats
      <3>2. Cardinality(Counted(c, u)) = 0
        BY <1>1, <1>7, <3>1 DEF IInv, UnreadExact, Counted
      <3> QED BY <3>2, CountedFinite, FS_EmptySet DEF IInv
    <2>3. \A m \in DOMAIN messages : messages[m].chat = c => u \notin Waiting(m)
      BY <1>1, <2>2, CountedWaits
    <2>4. \A m \in DOMAIN messages : Waiting(m)' = Waiting(m)
      BY <1>6, <2>3
    <2>5. [m \in DOMAIN messages |-> Waiting(m)]' = [m \in DOMAIN messages |-> Waiting(m)]
      BY <1>3, <2>4
    <2> QED BY <1>3, <2>1, <2>5 DEF Talk!conversationVars
  <1>8. CASE unread[c][u] # 0
    <2>1. unread[c][u] \notin {NoRow, 0}
      BY <1>1, <1>8 DEF Members
    <2>2. unread' = Talk!Counts(messages', Waits')
      BY <1>5, BadgesAreCounts
    <2>3. Waits' = [m \in DOMAIN messages |-> IF messages[m].chat = c THEN Waits[m] \ {u} ELSE Waits[m]]
      <3>1. Waits' = [m \in DOMAIN messages |-> Waiting(m)']
        BY <1>3 DEF Waits
      <3>2. \A m \in DOMAIN messages : Waits[m] = Waiting(m)
        BY DEF Waits
      <3> QED BY <1>6, <3>1, <3>2
    <2>4. Talk!Read(c, u)
      BY <1>3, <1>4, <2>1, <2>2, <2>3 DEF Talk!Read, Waits
    <2> QED BY <2>4
  <1> QED BY <1>7, <1>8

LEMMA TalkInit == Init => Talk!Init
  <1> SUFFICES ASSUME Init PROVE Talk!Init
    OBVIOUS
  <1>1. messages = <<>> /\ DOMAIN messages = {}
    BY DEF Init
  <1>2. [m \in DOMAIN messages |-> Waiting(m)] = <<>>
    BY <1>1
  <1> QED BY <1>1, <1>2 DEF Init, Talk!Init

LEMMA TalkStep ==
  ASSUME IInv, IInv', [Next]_vars
  PROVE  [Talk!Next]_(Talk!conversationVars)
  <1>1. ASSUME NEW h \in Handlers, StartCreate(h) \/ StartSend(h) \/ StartRead(h)
        PROVE  UNCHANGED Talk!conversationVars
    BY <1>1, Hidden DEF StartCreate, StartSend, StartRead, Start, tables, history
  <1>2. ASSUME NEW h \in Handlers, Step(h)
        PROVE  [Talk!Next]_(Talk!conversationVars)
    <2>1. CASE InsertMembers(h)
      BY <2>1, InsertCreates DEF Talk!Next
    <2>2. CASE StoreMessage(h)
      BY <2>2, StorePosts DEF Talk!Next
    <2>3. CASE PushFirst(h) \/ PushSecond(h)
      BY <2>3, PushAnnounces DEF Talk!Next
    <2>4. CASE ResetUnread(h)
      BY <2>4, ResetReads DEF Talk!Next
    <2>5. CASE UpsertChat(h) \/ MembersFail(h) \/ GetParticipants(h) \/ ReadPage(h)
      BY <2>5, Hidden DEF UpsertChat, MembersFail, GetParticipants, ReadPage, tables, history
    <2>6. CASE CheckMember(h, "sendcheck", "store") \/ CheckMember(h, "readcheck", "page")
      BY <2>6, Hidden DEF CheckMember, tables, history
    <2>7. CASE StatementFails(h)
      BY <2>7, Hidden DEF StatementFails, Fails, tables, history
    <2> QED BY <1>2, <2>1, <2>2, <2>3, <2>4, <2>5, <2>6, <2>7 DEF Step
  <1>3. Crash \/ UNCHANGED vars => UNCHANGED Talk!conversationVars
    BY Hidden DEF Crash, vars, tables
  <1> QED BY <1>1, <1>2, <1>3 DEF Next

\* The chat service, statement by statement and through failures and crashes,
\* shows its users the conversations of Conversations (service.go).
THEOREM TalkImplements == Spec => TalkSpec
  <1>1. IInv /\ IInv' /\ [Next]_vars => [Talk!Next]_(Talk!conversationVars)
    BY TalkStep
  <1> QED BY <1>1, TalkInit, ChatInvariance, PTL DEF Spec, TalkSpec, Talk!Spec
=============================================================================
