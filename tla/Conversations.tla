--------------------------- MODULE Conversations ---------------------------
(***************************************************************************)
(* What the chat service promises to its users, without saying how: no     *)
(* statements, no handlers, no failures.                                   *)
(*                                                                         *)
(* A chat gets both of its users in one instant and keeps them.  A member  *)
(* posts; the message waits for the other member until that member reads   *)
(* the chat.  The badge of a member is the number of messages that wait,   *)
(* at every instant.  A posted message is announced to each of the two     *)
(* members at most once, and its sender is answered when both have been    *)
(* told, neither earlier nor later.                                        *)
(***************************************************************************)
EXTENDS Naturals, Sequences, FiniteSets

CONSTANTS
  Users,
  Chats,      \* sets of two users
  Numbers,    \* the places of the log a message may get
  None        \* the badge of one who is not a member

VARIABLES
  log,        \* all messages, in the order they were posted
  waiting,    \* waiting[m]: the users who have not read message m yet
  badge,      \* badge[c][u]: the number shown to u for chat c
  told,       \* told[m]: the users message m was announced to
  answered    \* the messages whose sender has been answered

conversationVars == <<log, waiting, badge, told, answered>>

Init ==
  /\ log = <<>>
  /\ waiting = <<>>
  /\ badge = [c \in Chats |-> [u \in Users |-> None]]
  /\ told = [m \in Numbers |-> {}]
  /\ answered = {}

IsMember(c, u) == badge[c][u] # None

Members(c) == {u \in Users : IsMember(c, u)}

\* How many of the messages wait for whom.
Counts(messages, waits) ==
  [c \in Chats |-> [u \in Users |->
    IF u \in Members(c)
    THEN Cardinality({m \in DOMAIN messages : messages[m].chat = c /\ u \in waits[m]})
    ELSE None]]

Create(c) ==
  /\ \A u \in Users : ~IsMember(c, u)
  /\ badge' = [badge EXCEPT ![c] = [u \in Users |-> IF u \in c THEN 0 ELSE None]]
  /\ UNCHANGED <<log, waiting, told, answered>>

Post(c, u) ==
  /\ Len(log) + 1 \in Numbers
  /\ IsMember(c, u)
  /\ log' = Append(log, [chat |-> c, sender |-> u])
  /\ waiting' = Append(waiting, Members(c) \ {u})
  /\ badge' = Counts(log', waiting')
  /\ UNCHANGED <<told, answered>>

\* To read a chat where nothing waits changes nothing.
Read(c, u) ==
  /\ badge[c][u] \notin {None, 0} /\ badge'[c][u] = 0
  /\ waiting' = [m \in DOMAIN log |-> IF log[m].chat = c THEN waiting[m] \ {u} ELSE waiting[m]]
  /\ badge' = Counts(log, waiting')
  /\ UNCHANGED <<log, told, answered>>

Announce(m, u) ==
  /\ u \notin told[m] /\ IsMember(log[m].chat, u)
  /\ told' = [told EXCEPT ![m] = @ \cup {u}]
  /\ answered' = IF told'[m] = Members(log[m].chat) THEN answered \cup {m} ELSE answered
  /\ UNCHANGED <<log, waiting, badge>>

Next ==
  \/ \E c \in Chats : Create(c) \/ \E u \in Users : Post(c, u) \/ Read(c, u)
  \/ \E m \in DOMAIN log \ answered, u \in Users : Announce(m, u)

Spec == Init /\ [][Next]_conversationVars
=============================================================================
