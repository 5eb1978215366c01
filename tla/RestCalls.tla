----------------------------- MODULE RestCalls -----------------------------
(***************************************************************************)
(* A REST call from end to end: the handler of the gateway                 *)
(* (gateway/internal/handler), the generated client and server stubs, the  *)
(* interceptor of the chat service (Access), the handler of the auth or    *)
(* the chat service, the gRPC status and the HTTP status it becomes.       *)
(*                                                                         *)
(* The goroutine of the gateway and that of the service have each their    *)
(* own progress: the browser may leave or the connection break while the   *)
(* service goes on.  An operation of a service is one step here (two for   *)
(* RefreshToken) and leaves in did[c] what it wrote; AuthService and       *)
(* ChatService have its statements.  A failed operation may have written.  *)
(***************************************************************************)
EXTENDS Access

CONSTANTS
  MaxInt64,       \* what ParseInt gives for a number that is too big ...
  MinInt64,       \* ... or too small
  DefaultLimit,   \* 50
  PageSizes       \* bounds the lists of an answer

ASSUME RestAssumption ==
  {0, MaxInt64, MinInt64, DefaultLimit} \subseteq Numbers /\ PageSizes \subseteq Nat

VARIABLES
  api,      \* api[c]: the route of the request
  gw,       \* gw[c]: the goroutine of the gateway
  srv,      \* srv[c]: the goroutine of the service
  req,      \* req[c]: the gRPC request
  status,   \* status[c]: the gRPC code the service ended with
  resp,     \* resp[c]: its answer, when the code is OK
  http,     \* http[c]: the HTTP status the browser got
  did       \* history: what the operation wrote

callVars == <<api, gw, srv, req, status, resp, http, did>>
vars == <<book, clock, verdict, token, gate, header, since,
          api, gw, srv, req, status, resp, http, did>>

-----------------------------------------------------------------------------
AuthRoutes == {"register", "login", "logout", "refresh", "is-admin"}
ChatRoutes == {"get-or-create", "messages", "chats", "send"}
Routes == AuthRoutes \cup ChatRoutes \cup {"none", "options", "health", "unrouted"}

Request ==
  RegisterRequest \cup LoginRequest \cup LogoutRequest \cup RefreshTokenRequest
    \cup IsAdminRequest \cup GetOrCreateChatRequest \cup GetMessagesRequest
    \cup GetUserChatsRequest \cup SendMessageRequest

Response ==
  RegisterResponse \cup LoginResponse \cup LogoutResponse \cup RefreshTokenResponse
    \cup IsAdminResponse \cup GetOrCreateChatResponse \cup GetMessagesResponse
    \cup GetUserChatsResponse \cup SendMessageResponse

Effects == {"user", "open", "close", "chat", "reset", "message"}

TypeOK ==
  /\ AccessTypeOK
  /\ api \in [Callers -> Routes]
  /\ gw \in [Callers -> {"idle", "wait", "answered"}]
  /\ srv \in [Callers -> {"none", "sent", "gate", "serve", "rotate", "done"}]
  /\ req \in [Callers -> Request \cup {Nothing}]
  /\ status \in [Callers -> Code]
  /\ resp \in [Callers -> Response \cup {Nothing}]
  /\ http \in [Callers -> {0, 200, 201, 204, 400, 401, 403, 404, 405, 409, 429, 500, 503}]
  /\ did \in [Callers -> SUBSET Effects]

Init ==
  /\ AccessInit
  /\ api = [c \in Callers |-> "none"]
  /\ gw = [c \in Callers |-> "idle"]
  /\ srv = [c \in Callers |-> "none"]
  /\ req = [c \in Callers |-> Nothing]
  /\ status = [c \in Callers |-> "OK"]
  /\ resp = [c \in Callers |-> Nothing]
  /\ http = [c \in Callers |-> 0]
  /\ did = [c \in Callers |-> {}]

-----------------------------------------------------------------------------
(* The handlers of the gateway: the request a body or a query becomes, or  *)
(* Nothing, which is answered with 400.                                    *)

Register(body) == IF body.email = "" \/ body.password = "" THEN Nothing ELSE body

Login(body) ==
  IF body.email = "" \/ body.password = "" THEN Nothing ELSE [body EXCEPT !.app_id = IF @ = 0 THEN 1 ELSE @]

\* Logout and Refresh.
WithRefreshToken(body) == IF body.refresh_token = 0 THEN Nothing ELSE body

GetOrCreateChat(body) ==
  IF body.initiator_id = 0 \/ body.recipient_id = 0 THEN Nothing ELSE body

SendMessage(body) ==
  IF body.chat_id = 0 \/ body.sender_id = 0 \/ body.text = "" THEN Nothing ELSE body

\* queryInt64: a number, or an error, which comes with 0 or, when the number
\* is out of range, with the int64 nearest to it.
QueryInt64(S) ==
  [ok : {TRUE}, value : S] \cup [ok : {FALSE}, value : {0, MaxInt64, MinInt64}]

IsAdmin(query) == IF query.user_id.ok THEN [user_id |-> query.user_id.value] ELSE Nothing

\* Mutant: the default is added.
FaultyOrDefault(limit) == limit.value + DefaultLimit

\* The error of limit and offset is ignored, and limit 0 becomes 50.
OrDefault(limit) == IF limit.value = 0 THEN DefaultLimit ELSE limit.value

GetMessages(query) ==
  IF query.chat_id.ok
  THEN [chat_id |-> query.chat_id.value, limit |-> OrDefault(query.limit), cursor |-> query.cursor]
  ELSE Nothing

GetUserChats(query) ==
  IF query.user_id.ok
  THEN [user_id |-> query.user_id.value, limit |-> OrDefault(query.limit),
        offset |-> query.offset.value]
  ELSE Nothing

\* What a browser may ask, route by route: the mux and the decoded input.
Asked(route) ==
  CASE route = "register" -> {Register(b) : b \in RegisterRequest}
    [] route = "login" -> {Login(b) : b \in LoginRequest}
    [] route \in {"logout", "refresh"} -> {WithRefreshToken(b) : b \in LogoutRequest}
    [] route = "is-admin" -> {IsAdmin(q) : q \in [user_id : QueryInt64(UserId)]}
    [] route = "get-or-create" -> {GetOrCreateChat(b) : b \in GetOrCreateChatRequest}
    [] route = "messages" ->
         {GetMessages(q) : q \in [chat_id : QueryInt64(ChatId), limit : QueryInt64(Numbers),
                                  cursor : Text]}
    [] route = "chats" ->
         {GetUserChats(q) : q \in [user_id : QueryInt64(UserId), limit : QueryInt64(Numbers),
                                   offset : QueryInt64(Numbers)]}
    [] route = "send" -> {SendMessage(b) : b \in SendMessageRequest}

\* writeJSON and writeError.
AnswerHTTP(c, code) ==
  /\ gw' = [gw EXCEPT ![c] = "answered"]
  /\ http' = [http EXCEPT ![c] = code]

\* A handler that does not get past its input.
Receive(c, route) ==
  /\ gw[c] = "idle"
  /\ api' = [api EXCEPT ![c] = route]

BadRequest(c) ==
  /\ \E route \in AuthRoutes \cup ChatRoutes : Receive(c, route)
  /\ AnswerHTTP(c, 400)
  /\ UNCHANGED <<accessVars, srv, req, status, resp, did>>

\* The client stub: the request goes out, and the goroutine waits.
Invoke(c, route) ==
  /\ Receive(c, route)
  /\ \E r \in Asked(route) \ {Nothing} : req' = [req EXCEPT ![c] = r]
  /\ gw' = [gw EXCEPT ![c] = "wait"]
  /\ srv' = [srv EXCEPT ![c] = "sent"]
  /\ UNCHANGED <<ledger, token, gate, since, status, resp, http, did>>

CallAuth(c) == \E route \in AuthRoutes : Invoke(c, route) /\ UNCHANGED header

\* With the Authorization header of the browser, if any.
CallChat(c) ==
  \E route \in ChatRoutes, h \in Headers :
    Invoke(c, route) /\ header' = [header EXCEPT ![c] = h]

\* CORS answers OPTIONS itself; the mux answers what has no route, or one for
\* another method.
AnswerAtOnce(c) ==
  /\ \/ Receive(c, "options") /\ AnswerHTTP(c, 204)
     \/ Receive(c, "health") /\ AnswerHTTP(c, 200)
     \/ Receive(c, "unrouted") /\ (AnswerHTTP(c, 404) \/ AnswerHTTP(c, 405))
  /\ UNCHANGED <<accessVars, srv, req, status, resp, did>>

\* A request body cannot be closed: decodeJSON ends the process, and whoever
\* waits for an answer gets none.  The services go on.
GatewayDies ==
  /\ "gateway" \in Faults
  /\ gw' = [c \in Callers |-> IF gw[c] = "wait" THEN "answered" ELSE gw[c]]
  /\ UNCHANGED <<accessVars, api, srv, req, status, resp, http, did>>

-----------------------------------------------------------------------------
(* The services.                                                           *)

\* The operation of call c ends with a code and has written eff.
Ends(c, code, r, eff) ==
  /\ srv' = [srv EXCEPT ![c] = "done"]
  /\ status' = [status EXCEPT ![c] = code]
  /\ resp' = [resp EXCEPT ![c] = r]
  /\ did' = [did EXCEPT ![c] = @ \cup eff]
  /\ UNCHANGED <<api, gw, req, http>>

Fails(c, code) == Ends(c, code, Nothing, {})

\* An internal error, before or after the operation has written.
Breaks(c, eff) == \E e \in SUBSET eff : Ends(c, "Internal", Nothing, e)

\* The server's stub decodes the request and calls the interceptor, if any.
Arrive(c) ==
  /\ srv[c] = "sent"
  /\ IF api[c] \in ChatRoutes
     THEN Enter(c) /\ srv' = [srv EXCEPT ![c] = "gate"]
     ELSE UNCHANGED accessVars /\ srv' = [srv EXCEPT ![c] = "serve"]
  /\ UNCHANGED <<api, gw, req, status, resp, http, did>>

\* The gateway takes a body of any length, a gRPC server 4 MB: a longer request
\* is refused before anyone looks at it.
RefuseLong(c) ==
  /\ "big" \in Faults
  /\ srv[c] = "sent" /\ api[c] \in {"register", "login", "logout", "refresh", "send"}
  /\ Fails(c, "ResourceExhausted")
  /\ UNCHANGED accessVars

InGate(c) ==
  /\ srv[c] = "gate"
  /\ Intercept(c)
  /\ UNCHANGED callVars

Unauthenticated(c) ==
  /\ srv[c] = "gate" /\ gate[c] = "refused"
  /\ Fails(c, "Unauthenticated")
  /\ UNCHANGED accessVars

Serving(c, route) == srv[c] = "serve" /\ api[c] = route

\* ozzo-validation: an address, and a password of 6 to 100 characters.
ValidateRegisterRequest(r) == r.email = "address" /\ r.password = "password"

ServeRegister(c) ==
  /\ Serving(c, "register")
  /\ IF ValidateRegisterRequest(req[c])
     THEN \/ Fails(c, "AlreadyExists")
          \/ \E u \in Users : Ends(c, "OK", [user_id |-> u], {"user"})
          \/ Breaks(c, {"user"})
     ELSE Fails(c, "InvalidArgument")
  /\ UNCHANGED accessVars

Pair(s) == [access_token |-> s, refresh_token |-> s]

\* The end of Login and of RefreshToken: a session, and a token for it.
NewPair(c, u) ==
  /\ \E s \in Sessions :
       /\ OpenSession(s, u)
       /\ \/ Sign(s, u) /\ Ends(c, "OK", Pair(s), {"open"})
          \/ UNCHANGED token /\ Ends(c, "Internal", Nothing, {"open"})
  /\ UNCHANGED <<gate, header, since>>

ServeLogin(c) ==
  /\ Serving(c, "login")
  /\ \/ \E u \in Users : NewPair(c, u)
     \/ (Fails(c, "Unauthenticated") \/ Fails(c, "Internal")) /\ UNCHANGED accessVars

ServeIsAdmin(c) ==
  /\ Serving(c, "is-admin")
  /\ \/ \E b \in BOOLEAN : Ends(c, "OK", [is_admin |-> b], {})
     \/ Fails(c, "NotFound") \/ Fails(c, "Internal")
  /\ UNCHANGED accessVars

\* The session of a refresh token; there is none for Junk.
Known(c) == req[c].refresh_token \in Sessions /\ book[req[c].refresh_token] # Ledger!NoRow

\* An error of the lookup is the answer false, an unknown session an error.
ServeLogout(c) ==
  /\ Serving(c, "logout")
  /\ \/ /\ Known(c)
        /\ CloseSession(req[c].refresh_token)
        /\ \/ Ends(c, "OK", [success |-> TRUE], {"close"})
           \/ Ends(c, "Internal", Nothing, {"close"})
        /\ UNCHANGED <<gate, header, since>>
     \/ /\ Known(c) => \/ book[req[c].refresh_token].status = "revoked"
                       \/ "auth" \in Faults
        /\ Ends(c, "OK", [success |-> FALSE], {}) \/ Fails(c, "Internal")
        /\ UNCHANGED accessVars

Refreshable(s) == book[s].status = "active" /\ clock <= book[s].expiry

\* RefreshToken revokes the old session, or fails to and goes on all the same.
ServeRefresh(c) ==
  /\ Serving(c, "refresh")
  /\ \/ /\ Known(c) /\ Refreshable(req[c].refresh_token)
        /\ \/ /\ CloseSession(req[c].refresh_token)
              /\ did' = [did EXCEPT ![c] = {"close"}]
           \/ "auth" \in Faults /\ UNCHANGED <<ledger, token, did>>
        /\ srv' = [srv EXCEPT ![c] = "rotate"]
        /\ UNCHANGED <<gate, header, since, api, gw, req, status, resp, http>>
     \/ /\ \/ Known(c) /\ ~Refreshable(req[c].refresh_token) /\ Fails(c, "Unauthenticated")
           \/ Fails(c, "Internal")
        /\ UNCHANGED accessVars

\* ... and then opens a new one.
Rotate(c) ==
  /\ srv[c] = "rotate"
  /\ \/ NewPair(c, book[req[c].refresh_token].owner)
     \/ Fails(c, "Internal") /\ UNCHANGED accessVars

\* ctx.Value(UserIDKey): the user of the token.
Caller(c) == token[header[c]].user

\* The handlers of the chat service run behind the interceptor.
Handling(c, route) == srv[c] = "gate" /\ gate[c] = "passed" /\ api[c] = route

\* A mutant: nobody compares.
FaultyMayActAs(c, user) == TRUE

\* The user a request names must be the user of its token.
MayActAs(c, user) == Caller(c) = user

ServeGetOrCreateChat(c) ==
  /\ Handling(c, "get-or-create")
  /\ IF MayActAs(c, req[c].initiator_id)
     THEN \/ \E chat \in Chats, new \in BOOLEAN :
               Ends(c, "OK", [chat_id |-> chat, created |-> new], IF new THEN {"chat"} ELSE {})
          \/ Breaks(c, {"chat"})
     ELSE Fails(c, "PermissionDenied")
  /\ UNCHANGED accessVars

\* Who is no member is told of an internal error, like everything that goes
\* wrong in the service.
ServeSendMessage(c) ==
  /\ Handling(c, "send")
  /\ IF MayActAs(c, req[c].sender_id)
     THEN Ends(c, "OK", [message_id |-> 1], {"message"}) \/ Breaks(c, {"message"})
     ELSE Fails(c, "PermissionDenied")
  /\ UNCHANGED accessVars

\* The reader is the user of the token; reading resets the unread count.
ServeGetMessages(c) ==
  /\ Handling(c, "messages")
  /\ \/ \E n \in PageSizes, u \in Users :
          Ends(c, "OK",
               [messages |-> [i \in 1..n |-> [chat_id |-> req[c].chat_id, sender_id |-> u,
                                              text |-> "text"]],
                next_cursor |-> ""],
               {"reset"})
     \/ Breaks(c, {"reset"})
  /\ UNCHANGED accessVars

\* PostgreSQL refuses a negative OFFSET; the limit has been put right.
ServeGetUserChats(c) ==
  /\ Handling(c, "chats")
  /\ IF MayActAs(c, req[c].user_id)
     THEN \/ /\ req[c].offset >= 0
             /\ \E n \in PageSizes, chat \in Chats, u \in Users \ {Caller(c)} :
                  Ends(c, "OK",
                       [chats |-> [i \in 1..n |-> [chat_id |-> chat, companion_id |-> u,
                                                   last_message |-> "", unread_count |-> 0]]],
                       {})
          \/ Fails(c, "Internal")
     ELSE Fails(c, "PermissionDenied")
  /\ UNCHANGED accessVars

\* The service dies with the call, or never got it.
Cut(c) ==
  /\ "crash" \in Faults
  /\ srv[c] \notin {"none", "done"}
  /\ Fails(c, "Unavailable")
  /\ UNCHANGED accessVars

Serve(c) ==
  \/ Arrive(c) \/ RefuseLong(c) \/ InGate(c) \/ Unauthenticated(c)
  \/ ServeRegister(c) \/ ServeLogin(c) \/ ServeIsAdmin(c) \/ ServeLogout(c)
  \/ ServeRefresh(c) \/ Rotate(c)
  \/ ServeGetOrCreateChat(c) \/ ServeSendMessage(c)
  \/ ServeGetMessages(c) \/ ServeGetUserChats(c)
  \/ Cut(c)

-----------------------------------------------------------------------------
(* The answer.                                                             *)

CreatedOrOK(c) == IF api[c] = "register" THEN 201 ELSE 200

\* Invoke returns, and the handler writes the answer or the error.
Return(c) ==
  /\ gw[c] = "wait" /\ srv[c] = "done"
  /\ AnswerHTTP(c, IF status[c] = "OK" THEN CreatedOrOK(c) ELSE GrpcStatusToHTTP(status[c]))
  /\ UNCHANGED <<accessVars, api, srv, req, status, resp, did>>

\* The browser leaves, which cancels the call, or the connection to the service
\* breaks: the gateway stops waiting, whatever the service does.
GiveUp(c) ==
  /\ gw[c] = "wait"
  /\ \E code \in {"Canceled", "Unavailable"} : AnswerHTTP(c, GrpcStatusToHTTP(code))
  /\ UNCHANGED <<accessVars, api, srv, req, status, resp, did>>

\* Both goroutines are done.
Forget(c) ==
  /\ gw[c] = "answered" /\ srv[c] \in {"none", "done"}
  /\ Exit(c)
  /\ api' = [api EXCEPT ![c] = "none"]
  /\ gw' = [gw EXCEPT ![c] = "idle"]
  /\ srv' = [srv EXCEPT ![c] = "none"]
  /\ req' = [req EXCEPT ![c] = Nothing]
  /\ status' = [status EXCEPT ![c] = "OK"]
  /\ resp' = [resp EXCEPT ![c] = Nothing]
  /\ http' = [http EXCEPT ![c] = 0]
  /\ did' = [did EXCEPT ![c] = {}]

Next ==
  \/ \E c \in Callers :
       \/ BadRequest(c) \/ AnswerAtOnce(c) \/ CallAuth(c) \/ CallChat(c)
       \/ Serve(c)
       \/ Return(c) \/ GiveUp(c) \/ Forget(c)
  \/ GatewayDies
  \/ Elsewhere /\ UNCHANGED callVars

Spec == Init /\ [][Next]_vars

-----------------------------------------------------------------------------
\* What the browser may conclude from a status, whatever broke on the way: a
\* status of success means the operation has written what it is for, and the
\* tokens it hands out are those of a session of that user; a refusal means
\* nothing was written and nothing will be.  Only after 5xx, or no answer, the
\* outcome is open (grpc_errors.go:14 over the statuses of both services).
StatusTellsTruth ==
  \A c \in Callers :
    /\ http[c] \in {200, 201} =>
         /\ api[c] = "register" => "user" \in did[c]
         /\ api[c] = "send" => "message" \in did[c]
         /\ api[c] = "messages" => "reset" \in did[c]
         /\ api[c] = "logout" /\ resp[c].success => "close" \in did[c]
         /\ api[c] \in {"login", "refresh"} =>
              LET s == resp[c].refresh_token
              IN  "open" \in did[c] /\ book[s] # Ledger!NoRow
                    /\ token[s] # Nothing /\ token[s].user = book[s].owner
    /\ http[c] \in {400, 401, 403, 404, 405, 409, 429} => did[c] = {} /\ srv[c] \in {"none", "done"}

\* What call c has written or been told is in the name of this user.
Actor(c) ==
  CASE api[c] = "get-or-create" -> req[c].initiator_id
    [] api[c] = "send" -> req[c].sender_id
    [] api[c] = "chats" -> req[c].user_id
    [] OTHER -> Caller(c)

Effective(c) ==
  /\ api[c] \in ChatRoutes
  /\ did[c] # {} \/ resp[c] # Nothing

\* The chat service writes and reads in the name of the user who owns the
\* session of the token, from the interceptor through the comparison of the
\* handlers to the operation (auth.go:63, server.go:54, 110, 151).
ActsAsOwner ==
  \A c \in Callers : Effective(c) =>
    header[c] \in Sessions /\ Actor(c) = book[header[c]].owner

\* A call that reaches the chat service when its token or its session has run
\* out has no effect and no answer with data, however late the cache notices;
\* nor has one the auth service has not vouched for, whatever fails
\* (auth.go:32, 43).
LateCallsRefused ==
  \A c \in Callers : Effective(c) =>
    /\ header[c] \in Sessions /\ token[header[c]] # Nothing
    /\ since[c] < token[header[c]].exp /\ since[c] < book[header[c]].expiry
    /\ verdict[c] = [sid |-> header[c], active |-> TRUE]
=============================================================================
