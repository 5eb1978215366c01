-------------------------------- MODULE Wire --------------------------------
(***************************************************************************)
(* What travels between the gateway and the two services: the messages of  *)
(* auth.proto and chat.proto, as the generated Go types carry them, and    *)
(* the status of an answer.                                                *)
(*                                                                         *)
(* A field is left out of a proto3 message when it has its zero value, and *)
(* the nil-safe getters give that value back: every record has all of its  *)
(* fields.  Timestamps are left out: no property tells them apart.         *)
(***************************************************************************)
EXTENDS Integers, Sequences

CONSTANTS
  Users,      \* user ids
  Chats,      \* chat ids
  Sessions,   \* session ids; a session's refresh token is named by its id
  Junk,       \* a token that was never signed or stored
  Numbers     \* values of limit and offset

ASSUME WireAssumption ==
  /\ 0 \notin Users \cup Chats \cup Sessions
  /\ Junk \notin Sessions \cup {0}
  /\ Numbers \subseteq Int

-----------------------------------------------------------------------------
\* 0 is the id, and "" the string, of a field that was left out.
UserId == Users \cup {0}
ChatId == Chats \cup {0}
Text == {"", "text"}
Token == Sessions \cup {Junk, 0}

\* An address may be missing or malformed, a password missing or too short.
Email == {"", "malformed", "address"}
Password == {"", "short", "password"}

\* auth.proto
RegisterRequest == [email : Email, password : Password]
RegisterResponse == [user_id : UserId]
LoginRequest == [email : Email, password : Password, app_id : {0, 1}]
LoginResponse == [access_token : Token, refresh_token : Token]
IsAdminRequest == [user_id : UserId]
IsAdminResponse == [is_admin : BOOLEAN]
LogoutRequest == [refresh_token : Token]
LogoutResponse == [success : BOOLEAN]
RefreshTokenRequest == [refresh_token : Token]
RefreshTokenResponse == [access_token : Token, refresh_token : Token]
ValidateSessionRequest == [session_id : Sessions \cup {0}]
ValidateSessionResponse == [active : BOOLEAN]

\* chat.proto
GetOrCreateChatRequest == [initiator_id : UserId, recipient_id : UserId]
GetOrCreateChatResponse == [chat_id : ChatId, created : BOOLEAN]
GetMessagesRequest == [chat_id : ChatId, limit : Numbers, cursor : Text]
MessageDTO == [chat_id : ChatId, sender_id : UserId, text : Text]
GetMessagesResponse == [messages : Seq(MessageDTO), next_cursor : Text]
GetUserChatsRequest == [user_id : UserId, limit : Numbers, offset : Numbers]
ChatPreviewDTO == [chat_id : ChatId, companion_id : UserId, last_message : Text,
                   unread_count : Nat]
GetUserChatsResponse == [chats : Seq(ChatPreviewDTO)]
SendMessageRequest == [chat_id : ChatId, sender_id : UserId, text : Text]
SendMessageResponse == [message_id : Nat]

-----------------------------------------------------------------------------
Code == {"OK", "Canceled", "InvalidArgument", "NotFound", "AlreadyExists", "PermissionDenied",
         "ResourceExhausted", "Internal", "Unavailable", "Unauthenticated"}

\* A mutant: what the services call an internal error is the client's fault.
FaultyStatusToHTTP(code) ==
  CASE code = "OK" -> 200
    [] code \in {"InvalidArgument", "Internal"} -> 400
    [] code = "NotFound" -> 404
    [] code = "AlreadyExists" -> 409
    [] code = "Unauthenticated" -> 401
    [] code = "PermissionDenied" -> 403
    [] code = "ResourceExhausted" -> 429
    [] code = "Unavailable" -> 503
    [] OTHER -> 500

\* The HTTP status of a gRPC code; a code that is not named is an error of
\* the server.
GrpcStatusToHTTP(code) ==
  CASE code = "OK" -> 200
    [] code = "InvalidArgument" -> 400
    [] code = "NotFound" -> 404
    [] code = "AlreadyExists" -> 409
    [] code = "Unauthenticated" -> 401
    [] code = "PermissionDenied" -> 403
    [] code = "ResourceExhausted" -> 429
    [] code = "Unavailable" -> 503
    [] OTHER -> 500
=============================================================================
