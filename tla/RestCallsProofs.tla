-------------------------- MODULE RestCallsProofs --------------------------
(***************************************************************************)
(* What a status means and in whose name the chat service acts, for any    *)
(* number of callers, users and sessions and for every failure.            *)
(***************************************************************************)
EXTENDS RestCalls, AccessProofs, SequenceTheorems

CallTypes ==
  /\ api \in [Callers -> Routes]
  /\ gw \in [Callers -> {"idle", "wait", "answered"}]
  /\ srv \in [Callers -> {"none", "sent", "gate", "serve", "rotate", "done"}]
  /\ req \in [Callers -> Request \cup {Nothing}]
  /\ status \in [Callers -> Code]
  /\ resp \in [Callers -> Response \cup {Nothing}]
  /\ http \in [Callers -> {0, 200, 201, 204, 400, 401, 403, 404, 405, 409, 429, 500, 503}]
  /\ did \in [Callers -> SUBSET Effects]

\* Nothing is written before the operation, and a refresh under way has found
\* its session.
Progress(c) ==
  /\ gw[c] = "idle" => srv[c] = "none"
  /\ gw[c] \in {"idle", "wait"} => http[c] = 0
  /\ srv[c] \in {"none", "sent", "serve"} => gate[c] = "none"
  /\ srv[c] \in {"none", "sent", "serve", "gate"} => did[c] = {} /\ resp[c] = Nothing
  /\ srv[c] = "gate" => api[c] \in ChatRoutes
  /\ srv[c] = "rotate" => /\ api[c] = "refresh" /\ resp[c] = Nothing
                          /\ req[c].refresh_token \in Sessions
                          /\ book[req[c].refresh_token] # Ledger!NoRow
  /\ srv[c] = "sent" /\ api[c] = "messages" => req[c].chat_id \in ChatId
  /\ srv[c] = "gate" /\ api[c] = "messages" => req[c].chat_id \in ChatId

\* Only a call that has passed has an effect on a chat.
Behind(c) ==
  Effective(c) => srv[c] = "done" /\ gate[c] = "passed" /\ Actor(c) = Caller(c)

\* What the operation of call c has done when it ends well.
Done(c) ==
  /\ api[c] = "register" => "user" \in did[c]
  /\ api[c] = "send" => "message" \in did[c]
  /\ api[c] = "messages" => "reset" \in did[c]
  /\ api[c] = "logout" /\ resp[c].success => "close" \in did[c]
  /\ api[c] \in {"login", "refresh"} =>
       /\ "open" \in did[c]
       /\ resp[c].refresh_token \in Sessions /\ token[resp[c].refresh_token] # Nothing

Refusals == {"InvalidArgument", "NotFound", "AlreadyExists", "PermissionDenied",
             "Unauthenticated", "ResourceExhausted"}

Told(c) ==
  /\ srv[c] = "done" /\ status[c] = "OK" => Done(c)
  /\ srv[c] = "done" /\ status[c] \in Refusals => did[c] = {}
  /\ http[c] \in {200, 201} => api[c] = "health" \/ (srv[c] = "done" /\ status[c] = "OK")
  /\ http[c] \in {400, 401, 403, 404, 405, 409, 429} =>
       srv[c] = "none" \/ (srv[c] = "done" /\ status[c] \in Refusals)

CallInv(c) == Progress(c) /\ Behind(c) /\ Told(c)

IInv ==
  /\ AccessInv
  /\ CallTypes
  /\ \A c \in Callers : CallInv(c)

-----------------------------------------------------------------------------
(* Whatever happens elsewhere, a call keeps what is true of it.            *)

LEMMA Untouched ==
  ASSUME IInv, Lasting, NEW c \in Callers,
         UNCHANGED <<gate[c], header[c], api[c], gw[c], srv[c], req[c], status[c], resp[c],
                     http[c], did[c]>>
  PROVE  CallInv(c)'
  <1>1. CallInv(c)
    BY DEF IInv
  <1>2. Progress(c)'
    BY <1>1 DEF CallInv, Progress, Lasting
  <1>3. Behind(c)'
    <2> SUFFICES ASSUME Effective(c)'
                 PROVE  (srv[c] = "done" /\ gate[c] = "passed" /\ Actor(c) = Caller(c))'
      BY DEF Behind
    <2>1. Effective(c)
      BY DEF Effective
    <2>2. srv[c] = "done" /\ gate[c] = "passed" /\ Actor(c) = Caller(c)
      BY <1>1, <2>1 DEF CallInv, Behind
    <2>3. header[c] \in Sessions /\ token[header[c]] # Nothing
      BY <2>2 DEF IInv, AccessInv, PassedInTime
    <2>4. token'[header'[c]] = token[header[c]]
      BY <2>3 DEF Lasting
    <2>5. Caller(c)' = Caller(c)
      BY <2>4 DEF Caller
    <2>6. Actor(c)' = Actor(c)
      BY <2>5 DEF Actor
    <2> QED BY <2>2, <2>5, <2>6
  <1>4. Told(c)'
    <2>1. srv[c] = "done" /\ status[c] = "OK" => Done(c)'
      BY <1>1 DEF CallInv, Told, Done, Lasting
    <2> QED BY <1>1, <2>1 DEF CallInv, Told
  <1> QED BY <1>2, <1>3, <1>4 DEF CallInv

LEMMA Still == ASSUME UNCHANGED <<book, token>> PROVE Lasting
  BY DEF Lasting

-----------------------------------------------------------------------------
(* The end of an operation.                                                *)

\* Call c ends with what its route promises.
LEMMA EndsStep ==
  ASSUME IInv, AccessInv', Lasting, UNCHANGED <<gate, header>>,
         NEW c \in Callers, NEW code \in Code, NEW r \in Response \cup {Nothing},
         NEW eff \in SUBSET Effects, Ends(c, code, r, eff),
         srv[c] \notin {"none", "done"},
         code = "OK" => Done(c)',
         code \in Refusals => did[c] \cup eff = {},
         (Effective(c) => gate[c] = "passed" /\ Actor(c) = Caller(c))'
  PROVE  IInv'
  <1>1. /\ srv' = [srv EXCEPT ![c] = "done"]
        /\ status' = [status EXCEPT ![c] = code]
        /\ resp' = [resp EXCEPT ![c] = r]
        /\ did' = [did EXCEPT ![c] = did[c] \cup eff]
        /\ UNCHANGED <<api, gw, req, http>>
    BY DEF Ends
  <1>2. did[c] \cup eff \in SUBSET Effects
    BY DEF IInv, CallTypes
  <1>3. CallTypes'
    BY <1>1, <1>2 DEF IInv, CallTypes
  <1>4. /\ srv'[c] = "done" /\ status'[c] = code /\ did'[c] = did[c] \cup eff
        /\ \A d \in Callers : d # c =>
             UNCHANGED <<gate[d], header[d], api[d], gw[d], srv[d], req[d], status[d],
                         resp[d], http[d], did[d]>>
    BY <1>1 DEF IInv, CallTypes
  <1>5. CallInv(c)'
    <2>1. CallInv(c)
      BY DEF IInv
    <2>2. Progress(c)'
      BY <1>1, <1>4, <2>1 DEF CallInv, Progress
    <2>3. Behind(c)'
      BY <1>4 DEF Behind
    <2>4. Told(c)'
      BY <1>1, <1>4, <2>1 DEF CallInv, Told, Refusals
    <2> QED BY <2>2, <2>3, <2>4 DEF CallInv
  <1> QED BY <1>3, <1>4, <1>5, Untouched DEF IInv

\* An operation that fails without a trace.
LEMMA FailsStep ==
  ASSUME IInv, AccessInv', Lasting, UNCHANGED <<gate, header>>,
         NEW c \in Callers, NEW code \in Code \ {"OK"}, Fails(c, code),
         srv[c] \in {"sent", "gate", "serve"} \/ (srv[c] = "rotate" /\ code \notin Refusals)
  PROVE  IInv'
  <1>1. Ends(c, code, Nothing, {}) /\ {} \in SUBSET Effects /\ code \in Code
        /\ srv[c] \notin {"none", "done"} /\ code # "OK"
    BY DEF Fails
  <1>2. Progress(c)
    BY DEF IInv, CallInv
  <1>3. code \in Refusals => did[c] \cup {} = {}
    BY <1>2 DEF Progress
  <1>4. did'[c] = did[c] \cup {} /\ resp'[c] = Nothing /\ api' = api
    BY <1>1 DEF Ends, IInv, CallTypes
  <1>5. ~Effective(c)'
    BY <1>2, <1>4 DEF Effective, Progress, ChatRoutes
  <1> QED BY <1>1, <1>3, <1>5, EndsStep

\* One that ends on a route of the auth service.
LEMMA AuthEndsStep ==
  ASSUME IInv, AccessInv', Lasting, UNCHANGED <<gate, header>>,
         NEW c \in Callers, NEW code \in Code \ Refusals, NEW r \in Response \cup {Nothing},
         NEW eff \in SUBSET Effects, Ends(c, code, r, eff),
         srv[c] \in {"serve", "rotate"}, api[c] \in AuthRoutes,
         code = "OK" => Done(c)'
  PROVE  IInv'
  <1>1. ~Effective(c)'
    BY DEF Ends, Effective, AuthRoutes, ChatRoutes
  <1> QED BY <1>1, EndsStep

\* And one of the chat service, in the name of the user of the token.
LEMMA ChatEndsStep ==
  ASSUME IInv, UNCHANGED accessVars,
         NEW c \in Callers, NEW code \in Code \ Refusals, NEW r \in Response \cup {Nothing},
         NEW eff \in SUBSET Effects, Ends(c, code, r, eff),
         srv[c] = "gate", gate[c] = "passed", Actor(c) = Caller(c),
         code = "OK" => Done(c)'
  PROVE  IInv'
  <1>1. AccessInv' /\ Lasting /\ UNCHANGED <<gate, header, token>>
    BY AccessStutter, Still DEF IInv, accessVars
  <1>2. UNCHANGED <<api, req>>
    BY DEF Ends
  <1>3. Actor(c)' = Caller(c)'
    BY <1>1, <1>2 DEF Actor, Caller
  <1> QED BY <1>1, <1>3, EndsStep

LEMMA EndsValues ==
  ASSUME IInv, NEW c \in Callers, NEW code, NEW r, NEW eff, Ends(c, code, r, eff)
  PROVE  did'[c] = did[c] \cup eff /\ resp'[c] = r /\ api'[c] = api[c]
  BY DEF Ends, IInv, CallTypes

\* An internal error, with or without a trace, on a route of the chat service.
LEMMA BreaksStep ==
  ASSUME IInv, UNCHANGED accessVars, NEW c \in Callers, NEW eff \in SUBSET Effects,
         Breaks(c, eff), srv[c] = "gate", gate[c] = "passed", Actor(c) = Caller(c)
  PROVE  IInv'
  <1>1. PICK e \in SUBSET eff : Ends(c, "Internal", Nothing, e)
    BY DEF Breaks
  <1>2. e \in SUBSET Effects /\ "Internal" \in Code \ Refusals /\ "Internal" # "OK"
    BY DEF Code, Refusals
  <1> QED BY <1>1, <1>2, ChatEndsStep

-----------------------------------------------------------------------------
(* The services.                                                           *)

LEMMA Unwritten ==
  ASSUME UNCHANGED accessVars, IInv
  PROVE  AccessInv' /\ Lasting /\ UNCHANGED <<gate, header>>
  BY AccessStutter, Still DEF IInv, accessVars

LEMMA CutStep ==
  ASSUME IInv, NEW c \in Callers, Cut(c)
  PROVE  IInv'
  <1>1. Fails(c, "Unavailable") /\ UNCHANGED accessVars
        /\ srv[c] \in {"sent", "gate", "serve", "rotate"}
    BY DEF Cut, IInv, CallTypes
  <1>2. "Unavailable" \in Code \ {"OK"} /\ "Unavailable" \notin Refusals
    BY DEF Code, Refusals
  <1> QED BY <1>1, <1>2, Unwritten, FailsStep

LEMMA RefuseLongStep ==
  ASSUME IInv, NEW c \in Callers, RefuseLong(c)
  PROVE  IInv'
  <1>1. "ResourceExhausted" \in Code \ {"OK"}
    BY DEF Code
  <1> QED BY <1>1, Unwritten, FailsStep DEF RefuseLong

LEMMA UnauthenticatedStep ==
  ASSUME IInv, NEW c \in Callers, Unauthenticated(c)
  PROVE  IInv'
  <1>1. "Unauthenticated" \in Code \ {"OK"}
    BY DEF Code
  <1> QED BY <1>1, Unwritten, FailsStep DEF Unauthenticated

\* The steps of the call itself on its way.
LEMMA ArriveStep ==
  ASSUME IInv, NEW c \in Callers, Arrive(c)
  PROVE  IInv'
  <1>1. PICK to \in {"gate", "serve"} :
          /\ srv' = [srv EXCEPT ![c] = to]
          /\ IF to = "gate" THEN api[c] \in ChatRoutes /\ Enter(c) ELSE UNCHANGED accessVars
    BY DEF Arrive
  <1>2. srv[c] = "sent" /\ UNCHANGED <<api, gw, req, status, resp, http, did>>
    BY DEF Arrive
  <1>3. AccessInv' /\ UNCHANGED <<book, token, header>>
    BY <1>1, EnterKeeps, AccessStutter DEF IInv, Enter, ledger, accessVars
  <1>4. Lasting
    BY <1>3, Still
  <1>5. /\ srv'[c] = to
        /\ \A d \in Callers : d # c => srv'[d] = srv[d] /\ gate'[d] = gate[d]
        /\ to = "serve" => gate'[c] = gate[c]
    BY <1>1 DEF Enter, accessVars, IInv, CallTypes, AccessInv, AccessTypeOK
  <1>6. CallTypes'
    BY <1>1, <1>2 DEF IInv, CallTypes
  <1>7. CallInv(c)'
    <2>1. CallInv(c)
      BY DEF IInv
    <2>2. Progress(c)'
      BY <1>1, <1>2, <1>5, <2>1 DEF CallInv, Progress
    <2>3. did'[c] = {} /\ resp'[c] = Nothing
      BY <1>2, <2>1 DEF CallInv, Progress
    <2>4. Behind(c)' /\ Told(c)'
      BY <1>2, <1>5, <2>1, <2>3 DEF CallInv, Behind, Effective, Told
    <2> QED BY <2>2, <2>4 DEF CallInv
  <1> QED BY <1>2, <1>3, <1>4, <1>5, <1>6, <1>7, Untouched DEF IInv

LEMMA InGateStep ==
  ASSUME IInv, NEW c \in Callers, InGate(c)
  PROVE  IInv'
  <1>1. Intercept(c) /\ UNCHANGED callVars /\ srv[c] = "gate"
    BY DEF InGate
  <1>2. AccessInv'
    BY <1>1, InterceptKeeps DEF IInv
  <1>3. /\ UNCHANGED <<book, token, header>>
        /\ \A d \in Callers : d # c => gate'[d] = gate[d]
    BY <1>1 DEF Intercept, CheckToken, AskSession, ValidateSession, Decide, ledger,
                Ledger!TellActive, Ledger!TellInactive, IInv, AccessInv, AccessTypeOK
  <1>4. Lasting
    BY <1>3, Still
  <1>5. CallTypes'
    BY <1>1 DEF callVars, IInv, CallTypes
  <1>6. CallInv(c)'
    <2>1. CallInv(c)
      BY DEF IInv
    <2>2. did[c] = {} /\ resp[c] = Nothing
      BY <1>1, <2>1 DEF CallInv, Progress
    <2> QED BY <1>1, <1>3, <2>1, <2>2
         DEF callVars, CallInv, Progress, Behind, Effective, Told
  <1> QED BY <1>1, <1>2, <1>3, <1>4, <1>5, <1>6, Untouched DEF callVars, IInv

LEMMA RegisterStep ==
  ASSUME IInv, NEW c \in Callers, ServeRegister(c)
  PROVE  IInv'
  <1>1. srv[c] = "serve" /\ api[c] = "register" /\ UNCHANGED accessVars
    BY DEF ServeRegister, Serving
  <1>2. AccessInv' /\ Lasting /\ UNCHANGED <<gate, header>>
    BY <1>1, Unwritten
  <1>3. CASE Fails(c, "AlreadyExists") \/ Fails(c, "InvalidArgument")
    <2>1. {"AlreadyExists", "InvalidArgument"} \subseteq Code \ {"OK"}
      BY DEF Code
    <2> QED BY <1>1, <1>2, <1>3, <2>1, FailsStep
  <1>4. ASSUME NEW u \in Users, Ends(c, "OK", [user_id |-> u], {"user"})
        PROVE  IInv'
    <2>1. [user_id |-> u] \in Response /\ {"user"} \in SUBSET Effects /\ "OK" \in Code \ Refusals
      BY DEF Response, RegisterResponse, UserId, Effects, Code, Refusals
    <2>2. Done(c)'
      BY <1>1, <1>4, EndsValues DEF Done
    <2> QED BY <1>1, <1>2, <1>4, <2>1, <2>2, AuthEndsStep DEF AuthRoutes
  <1>5. CASE Breaks(c, {"user"})
    <2>1. PICK e \in SUBSET {"user"} : Ends(c, "Internal", Nothing, e)
      BY <1>5 DEF Breaks
    <2>2. e \in SUBSET Effects /\ "Internal" \in Code \ Refusals /\ "Internal" # "OK"
      BY DEF Effects, Code, Refusals
    <2> QED BY <1>1, <1>2, <2>1, <2>2, AuthEndsStep DEF AuthRoutes
  <1> QED BY <1>3, <1>4, <1>5 DEF ServeRegister

LEMMA NewPairStep ==
  ASSUME IInv, NEW c \in Callers, NEW u \in Users, NewPair(c, u),
         srv[c] \in {"serve", "rotate"}, api[c] \in {"login", "refresh"}
  PROVE  IInv'
  <1>1. PICK s \in Sessions :
          /\ OpenSession(s, u)
          /\ \/ Sign(s, u) /\ Ends(c, "OK", Pair(s), {"open"})
             \/ UNCHANGED token /\ Ends(c, "Internal", Nothing, {"open"})
    BY DEF NewPair
  <1>2. UNCHANGED <<gate, header, since>>
    BY DEF NewPair
  <1>3. AccessInv' /\ Lasting /\ (Sign(s, u) => token'[s] # Nothing)
    BY <1>1, <1>2, OpenKeeps DEF IInv
  <1>4. /\ {"open"} \in SUBSET Effects /\ api[c] \in AuthRoutes
        /\ "OK" \in Code \ Refusals /\ "Internal" \in Code \ Refusals /\ "Internal" # "OK"
    BY DEF Effects, AuthRoutes, Code, Refusals
  <1>5. CASE Ends(c, "Internal", Nothing, {"open"})
    BY <1>2, <1>3, <1>4, <1>5, AuthEndsStep
  <1>6. CASE Sign(s, u) /\ Ends(c, "OK", Pair(s), {"open"})
    <2>1. Pair(s) \in Response /\ Pair(s).refresh_token = s
      BY DEF Pair, Response, LoginResponse, Token
    <2>2. Done(c)'
      BY <1>3, <1>6, <2>1, EndsValues DEF Done
    <2> QED BY <1>2, <1>3, <1>4, <1>6, <2>1, <2>2, AuthEndsStep
  <1> QED BY <1>1, <1>5, <1>6

LEMMA LoginStep ==
  ASSUME IInv, NEW c \in Callers, ServeLogin(c)
  PROVE  IInv'
  <1>1. srv[c] = "serve" /\ api[c] = "login"
    BY DEF ServeLogin, Serving
  <1>2. {"Unauthenticated", "Internal"} \subseteq Code \ {"OK"}
    BY DEF Code
  <1> QED BY <1>1, <1>2, NewPairStep, FailsStep, Unwritten DEF ServeLogin

LEMMA IsAdminStep ==
  ASSUME IInv, NEW c \in Callers, ServeIsAdmin(c)
  PROVE  IInv'
  <1>1. srv[c] = "serve" /\ api[c] = "is-admin"
    BY DEF ServeIsAdmin, Serving
  <1>2. AccessInv' /\ Lasting /\ UNCHANGED <<gate, header>>
    BY Unwritten DEF ServeIsAdmin
  <1>3. {"NotFound", "Internal"} \subseteq Code \ {"OK"}
    BY DEF Code
  <1>4. ASSUME NEW b \in BOOLEAN, Ends(c, "OK", [is_admin |-> b], {})
        PROVE  IInv'
    <2>1. [is_admin |-> b] \in Response /\ {} \in SUBSET Effects /\ "OK" \in Code \ Refusals
      BY DEF Response, IsAdminResponse, Code, Refusals
    <2>2. Done(c)'
      BY <1>1, <1>4, EndsValues DEF Done
    <2> QED BY <1>1, <1>2, <1>4, <2>1, <2>2, AuthEndsStep DEF AuthRoutes
  <1> QED BY <1>1, <1>2, <1>3, <1>4, FailsStep DEF ServeIsAdmin

LEMMA LogoutStep ==
  ASSUME IInv, NEW c \in Callers, ServeLogout(c)
  PROVE  IInv'
  <1>1. srv[c] = "serve" /\ api[c] = "logout"
    BY DEF ServeLogout, Serving
  <1>2. /\ {"Internal"} \subseteq Code \ {"OK"} /\ {"close"} \in SUBSET Effects
        /\ {} \in SUBSET Effects /\ {"OK", "Internal"} \subseteq Code \ Refusals
        /\ \A b \in BOOLEAN : [success |-> b] \in Response
        /\ [success |-> TRUE].success /\ ~[success |-> FALSE].success
    BY DEF Code, Effects, Refusals, Response, LogoutResponse
  <1>3. CASE /\ Known(c) /\ CloseSession(req[c].refresh_token)
             /\ \/ Ends(c, "OK", [success |-> TRUE], {"close"})
                \/ Ends(c, "Internal", Nothing, {"close"})
             /\ UNCHANGED <<gate, header, since>>
    <2>1. AccessInv' /\ Lasting /\ UNCHANGED <<gate, header>>
      BY <1>3, CloseKeeps DEF IInv, Known
    <2>2. CASE Ends(c, "OK", [success |-> TRUE], {"close"})
      <3>1. Done(c)'
        BY <1>1, <2>2, EndsValues DEF Done
      <3> QED BY <1>1, <1>2, <2>1, <2>2, <3>1, AuthEndsStep DEF AuthRoutes
    <2>3. CASE Ends(c, "Internal", Nothing, {"close"})
      BY <1>1, <1>2, <2>1, <2>3, AuthEndsStep DEF AuthRoutes
    <2> QED BY <1>3, <2>2, <2>3
  <1>4. CASE /\ Ends(c, "OK", [success |-> FALSE], {}) \/ Fails(c, "Internal")
             /\ UNCHANGED accessVars
    <2>1. AccessInv' /\ Lasting /\ UNCHANGED <<gate, header>>
      BY <1>4, Unwritten
    <2>2. CASE Ends(c, "OK", [success |-> FALSE], {})
      <3>1. Done(c)'
        BY <1>1, <1>2, <2>2, EndsValues DEF Done
      <3> QED BY <1>1, <1>2, <2>1, <2>2, <3>1, AuthEndsStep DEF AuthRoutes
    <2>3. CASE Fails(c, "Internal")
      BY <1>1, <1>2, <2>1, <2>3, FailsStep
    <2> QED BY <1>4, <2>2, <2>3
  <1> QED BY <1>3, <1>4 DEF ServeLogout

\* The old session is revoked, or not, and the new one is still to come.
LEMMA RefreshStep ==
  ASSUME IInv, NEW c \in Callers, ServeRefresh(c)
  PROVE  IInv'
  <1>1. srv[c] = "serve" /\ api[c] = "refresh"
    BY DEF ServeRefresh, Serving
  <1>2. CASE srv' = [srv EXCEPT ![c] = "rotate"] /\ Known(c)
             /\ UNCHANGED <<gate, header, since, api, gw, req, status, resp, http>>
             /\ \/ CloseSession(req[c].refresh_token) /\ did' = [did EXCEPT ![c] = {"close"}]
                \/ UNCHANGED <<ledger, token, did>>
    <2>1. AccessInv' /\ Lasting
      <3>1. CASE CloseSession(req[c].refresh_token)
        BY <1>2, <3>1, CloseKeeps DEF IInv, Known
      <3>2. CASE UNCHANGED <<ledger, token, did>>
        <4>1. UNCHANGED accessVars
          BY <1>2, <3>2 DEF ledger, accessVars
        <4> QED BY <4>1, Unwritten
      <3> QED BY <1>2, <3>1, <3>2
    <2>2. did' \in [Callers -> SUBSET Effects] /\ \A d \in Callers : d # c => did'[d] = did[d]
      BY <1>2 DEF IInv, CallTypes, Effects
    <2>3. CallTypes'
      BY <1>2, <2>2 DEF IInv, CallTypes
    <2>4. srv'[c] = "rotate" /\ \A d \in Callers : d # c => srv'[d] = srv[d]
      BY <1>2 DEF IInv, CallTypes
    <2>5. CallInv(c)'
      <3>1. CallInv(c)
        BY DEF IInv
      <3>2. Progress(c)'
        BY <1>1, <1>2, <2>1, <2>4, <3>1 DEF CallInv, Progress, Known, Lasting
      <3>3. Behind(c)'
        BY <1>1, <1>2 DEF Behind, Effective, ChatRoutes
      <3>4. Told(c)'
        BY <1>1, <1>2, <2>4, <3>1 DEF CallInv, Told
      <3> QED BY <3>2, <3>3, <3>4 DEF CallInv
    <2> QED BY <1>2, <2>1, <2>2, <2>3, <2>4, <2>5, Untouched DEF IInv
  <1>3. CASE UNCHANGED accessVars /\ (Fails(c, "Unauthenticated") \/ Fails(c, "Internal"))
    <2>1. {"Unauthenticated", "Internal"} \subseteq Code \ {"OK"}
      BY DEF Code
    <2> QED BY <1>1, <1>3, <2>1, Unwritten, FailsStep
  <1> QED BY <1>2, <1>3 DEF ServeRefresh

LEMMA RotateStep ==
  ASSUME IInv, NEW c \in Callers, Rotate(c)
  PROVE  IInv'
  <1>1. srv[c] = "rotate" /\ api[c] = "refresh" /\ req[c].refresh_token \in Sessions
        /\ book[req[c].refresh_token] # Ledger!NoRow
    BY DEF Rotate, IInv, CallInv, Progress
  <1>2. CASE NewPair(c, book[req[c].refresh_token].owner)
    <2>1. book[req[c].refresh_token].owner \in Users
      BY <1>1, Rows DEF IInv, AccessInv, AccessTypeOK
    <2> QED BY <1>1, <1>2, <2>1, NewPairStep
  <1>3. CASE Fails(c, "Internal") /\ UNCHANGED accessVars
    <2>1. "Internal" \in Code \ {"OK"} /\ "Internal" \notin Refusals
      BY DEF Code, Refusals
    <2> QED BY <1>1, <1>3, <2>1, Unwritten, FailsStep
  <1> QED BY <1>2, <1>3 DEF Rotate

LEMMA Denied ==
  ASSUME IInv, NEW c \in Callers, srv[c] = "gate", UNCHANGED accessVars,
         Fails(c, "PermissionDenied") \/ Fails(c, "Internal")
  PROVE  IInv'
  <1>1. {"PermissionDenied", "Internal"} \subseteq Code \ {"OK"}
    BY DEF Code
  <1> QED BY <1>1, Unwritten, FailsStep

LEMMA GetOrCreateStep ==
  ASSUME IInv, NEW c \in Callers, ServeGetOrCreateChat(c)
  PROVE  IInv'
  <1>1. srv[c] = "gate" /\ gate[c] = "passed" /\ api[c] = "get-or-create"
        /\ UNCHANGED accessVars
    BY DEF ServeGetOrCreateChat, Handling
  <1>2. MayActAs(c, req[c].initiator_id) => Actor(c) = Caller(c)
    BY <1>1 DEF MayActAs, Actor
  <1>3. ASSUME NEW chat \in Chats, NEW new \in BOOLEAN, MayActAs(c, req[c].initiator_id),
               Ends(c, "OK", [chat_id |-> chat, created |-> new],
                    IF new THEN {"chat"} ELSE {})
        PROVE  IInv'
    <2>1. /\ [chat_id |-> chat, created |-> new] \in Response
          /\ (IF new THEN {"chat"} ELSE {}) \in SUBSET Effects /\ "OK" \in Code \ Refusals
      BY DEF Response, GetOrCreateChatResponse, ChatId, Effects, Code, Refusals
    <2>2. Done(c)'
      BY <1>1, <1>3, EndsValues DEF Done
    <2> QED BY <1>1, <1>2, <1>3, <2>1, <2>2, ChatEndsStep
  <1>4. {"chat"} \in SUBSET Effects
    BY DEF Effects
  <1> QED BY <1>1, <1>2, <1>3, <1>4, BreaksStep, Denied DEF ServeGetOrCreateChat

LEMMA SendMessageStep ==
  ASSUME IInv, NEW c \in Callers, ServeSendMessage(c)
  PROVE  IInv'
  <1>1. srv[c] = "gate" /\ gate[c] = "passed" /\ api[c] = "send" /\ UNCHANGED accessVars
    BY DEF ServeSendMessage, Handling
  <1>2. MayActAs(c, req[c].sender_id) => Actor(c) = Caller(c)
    BY <1>1 DEF MayActAs, Actor
  <1>3. {"message"} \in SUBSET Effects
    BY DEF Effects
  <1>4. CASE MayActAs(c, req[c].sender_id) /\ Ends(c, "OK", [message_id |-> 1], {"message"})
    <2>1. [message_id |-> 1] \in Response /\ "OK" \in Code \ Refusals
      BY DEF Response, SendMessageResponse, Code, Refusals
    <2>2. Done(c)'
      BY <1>1, <1>4, EndsValues DEF Done
    <2> QED BY <1>1, <1>2, <1>3, <1>4, <2>1, <2>2, ChatEndsStep
  <1> QED BY <1>1, <1>2, <1>3, <1>4, BreaksStep, Denied DEF ServeSendMessage

\* A list of n rows.
LEMMA Rowed ==
  ASSUME NEW n \in PageSizes, NEW S, NEW row \in S
  PROVE  [i \in 1..n |-> row] \in Seq(S)
  <1>1. n \in Nat
    BY RestAssumption
  <1>2. [i \in 1..n |-> row] \in [1..n -> S]
    OBVIOUS
  <1> QED BY <1>1, <1>2, SeqDef

LEMMA GetMessagesStep ==
  ASSUME IInv, NEW c \in Callers, ServeGetMessages(c)
  PROVE  IInv'
  <1>1. srv[c] = "gate" /\ gate[c] = "passed" /\ api[c] = "messages" /\ UNCHANGED accessVars
    BY DEF ServeGetMessages, Handling
  <1>2. Actor(c) = Caller(c)
    BY <1>1 DEF Actor
  <1>3. {"reset"} \in SUBSET Effects
    BY DEF Effects
  <1>4. ASSUME NEW n \in PageSizes, NEW u \in Users,
               Ends(c, "OK",
                    [messages |-> [i \in 1..n |-> [chat_id |-> req[c].chat_id,
                                                   sender_id |-> u, text |-> "text"]],
                     next_cursor |-> ""], {"reset"})
        PROVE  IInv'
    <2> DEFINE row == [chat_id |-> req[c].chat_id, sender_id |-> u, text |-> "text"]
               rows == [i \in 1..n |-> row]
               r == [messages |-> rows, next_cursor |-> ""]
    <2>1. row \in MessageDTO
      BY <1>1 DEF MessageDTO, UserId, Text, IInv, CallInv, Progress
    <2>2. rows \in Seq(MessageDTO)
      <3> HIDE DEF row
      <3> QED BY <2>1, Rowed
    <2>3. r \in Response
      <3> HIDE DEF rows
      <3> QED BY <2>2 DEF Response, GetMessagesResponse, Text
    <2>4. Ends(c, "OK", r, {"reset"})
      BY <1>4
    <2> HIDE DEF r
    <2>5. Done(c)' /\ "OK" \in Code \ Refusals
      BY <1>1, <2>4, EndsValues DEF Done, Code, Refusals
    <2> QED BY <1>1, <1>2, <1>3, <2>3, <2>4, <2>5, ChatEndsStep
  <1> QED BY <1>1, <1>2, <1>3, <1>4, BreaksStep DEF ServeGetMessages

LEMMA GetUserChatsStep ==
  ASSUME IInv, NEW c \in Callers, ServeGetUserChats(c)
  PROVE  IInv'
  <1>1. srv[c] = "gate" /\ gate[c] = "passed" /\ api[c] = "chats" /\ UNCHANGED accessVars
    BY DEF ServeGetUserChats, Handling
  <1>2. MayActAs(c, req[c].user_id) => Actor(c) = Caller(c)
    BY <1>1 DEF MayActAs, Actor
  <1>3. ASSUME MayActAs(c, req[c].user_id), NEW n \in PageSizes, NEW chat \in Chats,
               NEW u \in Users,
               Ends(c, "OK",
                    [chats |-> [i \in 1..n |-> [chat_id |-> chat, companion_id |-> u,
                                                last_message |-> "", unread_count |-> 0]]],
                    {})
        PROVE  IInv'
    <2> DEFINE row == [chat_id |-> chat, companion_id |-> u, last_message |-> "",
                       unread_count |-> 0]
               rows == [i \in 1..n |-> row]
               r == [chats |-> rows]
    <2>1. row \in ChatPreviewDTO
      BY DEF ChatPreviewDTO, ChatId, UserId, Text
    <2>2. rows \in Seq(ChatPreviewDTO)
      <3> HIDE DEF row
      <3> QED BY <2>1, Rowed
    <2>3. r \in Response
      <3> HIDE DEF rows
      <3> QED BY <2>2 DEF Response, GetUserChatsResponse
    <2>4. Ends(c, "OK", r, {})
      BY <1>3
    <2> HIDE DEF r
    <2>5. Done(c)' /\ "OK" \in Code \ Refusals /\ {} \in SUBSET Effects
      BY <1>1, <2>4, EndsValues DEF Done, Code, Refusals
    <2> QED BY <1>1, <1>2, <1>3, <2>3, <2>4, <2>5, ChatEndsStep
  <1> QED BY <1>1, <1>2, <1>3, Denied DEF ServeGetUserChats

LEMMA ServeStep ==
  ASSUME IInv, NEW c \in Callers, Serve(c)
  PROVE  IInv'
  BY ArriveStep, InGateStep, UnauthenticatedStep, RegisterStep, LoginStep, IsAdminStep,
     LogoutStep, RefreshStep, RotateStep, GetOrCreateStep, SendMessageStep, GetMessagesStep,
     GetUserChatsStep, CutStep, RefuseLongStep DEF Serve

-----------------------------------------------------------------------------
(* The gateway.                                                            *)

\* Whatever a browser sends, what goes out is a request.
LEMMA AskedAuth ==
  ASSUME NEW route \in AuthRoutes, NEW r \in Asked(route) \ {Nothing}
  PROVE  r \in Request
  <1>1. CASE route = "register"
    BY <1>1 DEF Asked, Register, Request
  <1>2. CASE route = "login"
    <2>1. PICK b \in LoginRequest : r = [b EXCEPT !.app_id = IF b.app_id = 0 THEN 1 ELSE b.app_id]
      BY <1>2 DEF Asked, Login
    <2>2. r \in LoginRequest
      BY <2>1 DEF LoginRequest
    <2> QED BY <2>2 DEF Request
  <1>3. CASE route \in {"logout", "refresh"}
    BY <1>3 DEF Asked, WithRefreshToken, Request
  <1>4. CASE route = "is-admin"
    <2>1. PICK q \in [user_id : QueryInt64(UserId)] : r = IsAdmin(q)
      BY <1>4 DEF Asked
    <2>2. q.user_id.ok /\ q.user_id \in QueryInt64(UserId) /\ r = [user_id |-> q.user_id.value]
      BY <2>1 DEF IsAdmin
    <2>3. q.user_id.value \in UserId
      BY <2>2 DEF QueryInt64
    <2> QED BY <2>2, <2>3 DEF IsAdminRequest, Request
  <1> QED BY <1>1, <1>2, <1>3, <1>4 DEF AuthRoutes

LEMMA QueryNumbers ==
  ASSUME NEW q \in QueryInt64(Numbers)
  PROVE  q.value \in Numbers /\ OrDefault(q) \in Numbers
  BY RestAssumption DEF QueryInt64, OrDefault

LEMMA AskedChat ==
  ASSUME NEW route \in ChatRoutes, NEW r \in Asked(route) \ {Nothing}
  PROVE  r \in Request /\ (route = "messages" => r.chat_id \in ChatId)
  <1>1. CASE route \in {"get-or-create", "send"}
    BY <1>1 DEF Asked, GetOrCreateChat, SendMessage, Request
  <1>2. CASE route = "messages"
    <2>1. PICK q \in [chat_id : QueryInt64(ChatId), limit : QueryInt64(Numbers), cursor : Text] :
            r = GetMessages(q)
      BY <1>2 DEF Asked
    <2>2. /\ q.chat_id.ok /\ q.chat_id \in QueryInt64(ChatId)
          /\ q.limit \in QueryInt64(Numbers) /\ q.cursor \in Text
          /\ r = [chat_id |-> q.chat_id.value, limit |-> OrDefault(q.limit), cursor |-> q.cursor]
      BY <2>1 DEF GetMessages
    <2>3. q.chat_id.value \in ChatId
      BY <2>2 DEF QueryInt64
    <2>4. OrDefault(q.limit) \in Numbers
      BY <2>2, QueryNumbers
    <2>5. r \in GetMessagesRequest /\ r.chat_id \in ChatId
      BY <2>2, <2>3, <2>4 DEF GetMessagesRequest
    <2> QED BY <2>5 DEF Request
  <1>3. CASE route = "chats"
    <2>1. PICK q \in [user_id : QueryInt64(UserId), limit : QueryInt64(Numbers),
                      offset : QueryInt64(Numbers)] : r = GetUserChats(q)
      BY <1>3 DEF Asked
    <2>2. /\ q.user_id.ok /\ q.user_id \in QueryInt64(UserId)
          /\ q.limit \in QueryInt64(Numbers) /\ q.offset \in QueryInt64(Numbers)
          /\ r = [user_id |-> q.user_id.value, limit |-> OrDefault(q.limit),
                  offset |-> q.offset.value]
      BY <2>1 DEF GetUserChats
    <2>3. q.user_id.value \in UserId
      BY <2>2 DEF QueryInt64
    <2>4. OrDefault(q.limit) \in Numbers /\ q.offset.value \in Numbers
      BY <2>2, QueryNumbers
    <2>5. r \in GetUserChatsRequest
      BY <2>2, <2>3, <2>4 DEF GetUserChatsRequest
    <2> QED BY <1>3, <2>5 DEF Request
  <1> QED BY <1>1, <1>2, <1>3 DEF ChatRoutes

LEMMA InvokeStep ==
  ASSUME IInv, AccessInv', NEW c \in Callers, NEW route \in AuthRoutes \cup ChatRoutes,
         Invoke(c, route), \A d \in Callers : d # c => header'[d] = header[d]
  PROVE  IInv'
  <1>1. PICK r \in Asked(route) \ {Nothing} : req' = [req EXCEPT ![c] = r]
    BY DEF Invoke
  <1>2. /\ api' = [api EXCEPT ![c] = route]
        /\ gw' = [gw EXCEPT ![c] = "wait"]
        /\ srv' = [srv EXCEPT ![c] = "sent"]
        /\ gw[c] = "idle"
        /\ UNCHANGED <<book, token, gate, status, resp, http, did>>
    BY DEF Invoke, Receive, ledger
  <1>3. r \in Request /\ (route = "messages" => r.chat_id \in ChatId)
    BY AskedAuth, AskedChat DEF AuthRoutes
  <1>4. route \in Routes
    BY DEF Routes
  <1>5. CallTypes'
    BY <1>1, <1>2, <1>3, <1>4 DEF IInv, CallTypes
  <1>6. api'[c] = route /\ gw'[c] = "wait" /\ srv'[c] = "sent" /\ req'[c] = r
    BY <1>1, <1>2 DEF IInv, CallTypes
  <1>7. \A d \in Callers : d # c =>
          api'[d] = api[d] /\ gw'[d] = gw[d] /\ srv'[d] = srv[d] /\ req'[d] = req[d]
    BY <1>1, <1>2 DEF IInv, CallTypes
  <1>8. Lasting
    BY <1>2, Still
  <1>9. CallInv(c)'
    <2>1. CallInv(c) /\ srv[c] = "none"
      BY <1>2 DEF IInv, CallInv, Progress
    <2>2. Progress(c)'
      BY <1>2, <1>3, <1>6, <2>1 DEF CallInv, Progress
    <2>3. Behind(c)' /\ Told(c)'
      <3>1. did'[c] = {} /\ resp'[c] = Nothing
        BY <1>2, <2>1 DEF CallInv, Progress
      <3>2. ~Effective(c)'
        BY <3>1 DEF Effective
      <3>3. http'[c] = http[c] /\ http[c] = 0
        BY <1>2, <2>1 DEF CallInv, Progress, Told
      <3> QED BY <1>6, <3>2, <3>3 DEF Behind, Told
    <2> QED BY <2>2, <2>3 DEF CallInv
  <1> QED BY <1>2, <1>5, <1>7, <1>8, <1>9, Untouched DEF IInv

LEMMA CallStep ==
  ASSUME IInv, NEW c \in Callers, CallAuth(c) \/ CallChat(c)
  PROVE  IInv'
  <1>1. gate[c] = "none"
    BY DEF CallAuth, CallChat, Invoke, Receive, IInv, CallInv, Progress
  <1>2. CASE CallAuth(c)
    <2>1. PICK route \in AuthRoutes : Invoke(c, route) /\ UNCHANGED header
      BY <1>2 DEF CallAuth
    <2>2. UNCHANGED accessVars
      BY <2>1 DEF Invoke, ledger, accessVars
    <2> QED BY <2>1, <2>2, Unwritten, InvokeStep
  <1>3. CASE CallChat(c)
    <2>1. PICK route \in ChatRoutes, h \in Headers :
            Invoke(c, route) /\ header' = [header EXCEPT ![c] = h]
      BY <1>3 DEF CallChat
    <2>2. AccessInv'
      BY <1>1, <2>1, HeaderKeeps DEF Invoke, ledger, IInv
    <2>3. \A d \in Callers : d # c => header'[d] = header[d]
      BY <2>1 DEF IInv, AccessInv, AccessTypeOK
    <2> QED BY <2>1, <2>2, <2>3, InvokeStep
  <1> QED BY <1>2, <1>3

\* The browser of call c is answered.
LEMMA AnswerStep ==
  ASSUME IInv, UNCHANGED accessVars, NEW c \in Callers,
         NEW code \in {200, 201, 204, 400, 401, 403, 404, 405, 409, 429, 500, 503},
         AnswerHTTP(c, code), UNCHANGED <<srv, req, status, resp, did>>,
         api' \in [Callers -> Routes], \A d \in Callers : d # c => api'[d] = api[d],
         srv[c] = "none" \/ api'[c] = api[c],
         code \in {200, 201} => api'[c] = "health" \/ (srv[c] = "done" /\ status[c] = "OK"),
         code \in {400, 401, 403, 404, 405, 409, 429} =>
           srv[c] = "none" \/ (srv[c] = "done" /\ status[c] \in Refusals)
  PROVE  IInv'
  <1>1. AccessInv' /\ Lasting /\ UNCHANGED <<gate, header, book, token>>
    BY Unwritten DEF accessVars
  <1>2. gw' = [gw EXCEPT ![c] = "answered"] /\ http' = [http EXCEPT ![c] = code]
    BY DEF AnswerHTTP
  <1>3. CallTypes'
    BY <1>2 DEF IInv, CallTypes
  <1>4. /\ gw'[c] = "answered" /\ http'[c] = code
        /\ \A d \in Callers : d # c => gw'[d] = gw[d] /\ http'[d] = http[d]
    BY <1>2 DEF IInv, CallTypes
  <1>5. CallInv(c)'
    <2>1. CallInv(c)
      BY DEF IInv
    <2>2. Progress(c)'
      BY <1>1, <1>4, <2>1 DEF CallInv, Progress
    <2>3. CASE srv[c] = "none"
      <3>1. did'[c] = {} /\ resp'[c] = Nothing
        BY <2>1, <2>3 DEF CallInv, Progress
      <3> QED BY <1>4, <2>2, <2>3, <3>1 DEF CallInv, Behind, Effective, Told
    <2>4. CASE api'[c] = api[c]
      <3>1. Actor(c)' = Actor(c) /\ Caller(c)' = Caller(c) /\ (Effective(c)' <=> Effective(c))
        BY <1>1, <1>4, <2>4 DEF Actor, Caller, Effective
      <3>2. Behind(c)'
        BY <1>1, <2>1, <3>1 DEF CallInv, Behind
      <3>3. Told(c)'
        BY <1>1, <1>4, <2>1, <2>4 DEF CallInv, Told, Done
      <3> QED BY <2>2, <3>2, <3>3 DEF CallInv
    <2> QED BY <2>3, <2>4
  <1> QED BY <1>1, <1>3, <1>4, <1>5, Untouched DEF IInv

\* The browser of a call that went out is answered.
LEMMA AnswerBackStep ==
  ASSUME IInv, UNCHANGED accessVars, NEW c \in Callers,
         NEW code \in {200, 201, 400, 401, 403, 404, 409, 429, 500, 503},
         AnswerHTTP(c, code), UNCHANGED <<api, srv, req, status, resp, did>>,
         code \in {200, 201} => srv[c] = "done" /\ status[c] = "OK",
         code \in {400, 401, 403, 404, 405, 409, 429} => srv[c] = "done" /\ status[c] \in Refusals
  PROVE  IInv'
  <1>1. api' \in [Callers -> Routes]
    BY DEF IInv, CallTypes
  <1> QED BY <1>1, AnswerStep

LEMMA RefusedAtOnceStep ==
  ASSUME IInv, NEW c \in Callers, BadRequest(c) \/ AnswerAtOnce(c)
  PROVE  IInv'
  <1>1. srv[c] = "none"
    BY DEF BadRequest, AnswerAtOnce, Receive, IInv, CallInv, Progress
  <1>2. CASE BadRequest(c)
    <2>1. PICK route \in AuthRoutes \cup ChatRoutes : api' = [api EXCEPT ![c] = route]
      BY <1>2 DEF BadRequest, Receive
    <2>2. api' \in [Callers -> Routes] /\ \A d \in Callers : d # c => api'[d] = api[d]
      BY <2>1 DEF Routes, IInv, CallTypes
    <2>3. UNCHANGED accessVars /\ AnswerHTTP(c, 400) /\ UNCHANGED <<srv, req, status, resp, did>>
      BY <1>2 DEF BadRequest
    <2> QED BY <1>1, <2>2, <2>3, AnswerStep
  <1>3. CASE AnswerAtOnce(c)
    <2>1. \/ api' = [api EXCEPT ![c] = "options"] /\ AnswerHTTP(c, 204)
          \/ api' = [api EXCEPT ![c] = "health"] /\ AnswerHTTP(c, 200)
          \/ /\ api' = [api EXCEPT ![c] = "unrouted"]
             /\ AnswerHTTP(c, 404) \/ AnswerHTTP(c, 405)
      BY <1>3 DEF AnswerAtOnce, Receive
    <2>2. /\ api' \in [Callers -> Routes] /\ \A d \in Callers : d # c => api'[d] = api[d]
          /\ \/ AnswerHTTP(c, 204) \/ AnswerHTTP(c, 404) \/ AnswerHTTP(c, 405)
             \/ AnswerHTTP(c, 200) /\ api'[c] = "health"
      BY <2>1 DEF Routes, IInv, CallTypes
    <2>3. UNCHANGED accessVars /\ UNCHANGED <<srv, req, status, resp, did>>
      BY <1>3 DEF AnswerAtOnce
    <2> QED BY <1>1, <2>2, <2>3, AnswerStep
  <1> QED BY <1>2, <1>3

\* 4xx is a refusal, 200 and 201 are said when all went well.
LEMMA Statuses ==
  ASSUME NEW code \in Code \ {"OK"}
  PROVE  /\ GrpcStatusToHTTP(code) \in {400, 401, 403, 404, 409, 429, 500, 503}
         /\ GrpcStatusToHTTP(code) \in {400, 401, 403, 404, 405, 409, 429} => code \in Refusals
         /\ GrpcStatusToHTTP("Canceled") = 500 /\ GrpcStatusToHTTP("Unavailable") = 503
  BY DEF Code, GrpcStatusToHTTP, Refusals

\* The gateway dies: those who wait are not answered.
LEMMA GatewayDiesStep ==
  ASSUME IInv, GatewayDies
  PROVE  IInv'
  <1>1. /\ UNCHANGED <<api, srv, req, status, resp, http, did>>
        /\ AccessInv' /\ Lasting /\ UNCHANGED <<gate, header>>
    BY Unwritten DEF GatewayDies
  <1>2. gw' = [c \in Callers |-> IF gw[c] = "wait" THEN "answered" ELSE gw[c]]
    BY DEF GatewayDies
  <1>3. CallTypes'
    BY <1>1, <1>2 DEF IInv, CallTypes
  <1>4. ASSUME NEW c \in Callers
        PROVE  CallInv(c)'
    <2>1. CASE gw[c] # "wait"
      <3>1. gw'[c] = gw[c]
        BY <1>2, <2>1
      <3> QED BY <1>1, <3>1, Untouched
    <2>2. CASE gw[c] = "wait"
      <3>1. gw'[c] = "answered" /\ CallInv(c)
        BY <1>2, <2>2 DEF IInv
      <3>2. http'[c] = 0
        BY <1>1, <2>2, <3>1 DEF CallInv, Progress
      <3>3. Progress(c)'
        BY <1>1, <3>1 DEF CallInv, Progress, Lasting
      <3>4. Behind(c)'
        <4> SUFFICES ASSUME Effective(c)'
                     PROVE  (srv[c] = "done" /\ gate[c] = "passed" /\ Actor(c) = Caller(c))'
          BY DEF Behind
        <4>1. Effective(c)
          BY <1>1 DEF Effective
        <4>2. srv[c] = "done" /\ gate[c] = "passed" /\ Actor(c) = Caller(c)
          BY <3>1, <4>1 DEF CallInv, Behind
        <4>3. Caller(c)' = Caller(c)
          BY <1>1 DEF Caller, GatewayDies, accessVars
        <4>4. Actor(c)' = Actor(c)
          BY <1>1, <4>3 DEF Actor
        <4> QED BY <1>1, <4>2, <4>3, <4>4
      <3>5. Told(c)'
        <4>1. srv[c] = "done" /\ status[c] = "OK" => Done(c)'
          BY <1>1, <3>1 DEF CallInv, Told, Done, Lasting
        <4> QED BY <1>1, <3>1, <3>2, <4>1 DEF CallInv, Told
      <3> QED BY <3>3, <3>4, <3>5 DEF CallInv
    <2> QED BY <2>1, <2>2
  <1> QED BY <1>1, <1>3, <1>4 DEF IInv

LEMMA ReturnStep ==
  ASSUME IInv, NEW c \in Callers, Return(c) \/ GiveUp(c)
  PROVE  IInv'
  <1>1. /\ UNCHANGED accessVars /\ UNCHANGED <<api, srv, req, status, resp, did>>
        /\ status[c] \in Code
    BY DEF Return, GiveUp, IInv, CallTypes
  <1>2. "Internal" \in Code \ {"OK"}
    BY DEF Code
  <1>3. CASE GiveUp(c)
    <2>1. AnswerHTTP(c, 500) \/ AnswerHTTP(c, 503)
      BY <1>2, <1>3, Statuses DEF GiveUp
    <2> QED BY <1>1, <2>1, AnswerBackStep
  <1>4. CASE Return(c)
    <2>1. srv[c] = "done"
      BY <1>4 DEF Return
    <2>2. CASE status[c] = "OK" /\ AnswerHTTP(c, CreatedOrOK(c))
      BY <1>1, <2>1, <2>2, AnswerBackStep DEF CreatedOrOK
    <2>3. CASE status[c] # "OK" /\ AnswerHTTP(c, GrpcStatusToHTTP(status[c]))
      <3> DEFINE code == GrpcStatusToHTTP(status[c])
      <3>1. /\ code \in {400, 401, 403, 404, 409, 429, 500, 503}
            /\ code \in {400, 401, 403, 404, 405, 409, 429} => status[c] \in Refusals
            /\ AnswerHTTP(c, code)
        BY <1>1, <2>3, Statuses
      <3> HIDE DEF code
      <3> QED BY <1>1, <2>1, <3>1, AnswerBackStep
    <2> QED BY <1>4, <2>2, <2>3 DEF Return
  <1> QED BY <1>3, <1>4

LEMMA ForgetStep ==
  ASSUME IInv, NEW c \in Callers, Forget(c)
  PROVE  IInv'
  <1>1. /\ Exit(c)
        /\ api' = [api EXCEPT ![c] = "none"] /\ gw' = [gw EXCEPT ![c] = "idle"]
        /\ srv' = [srv EXCEPT ![c] = "none"] /\ req' = [req EXCEPT ![c] = Nothing]
        /\ status' = [status EXCEPT ![c] = "OK"] /\ resp' = [resp EXCEPT ![c] = Nothing]
        /\ http' = [http EXCEPT ![c] = 0] /\ did' = [did EXCEPT ![c] = {}]
    BY DEF Forget
  <1>2. AccessInv' /\ UNCHANGED <<book, token>>
    BY <1>1, ExitKeeps DEF IInv, Exit, Ledger!Ask
  <1>3. CallTypes'
    BY <1>1 DEF IInv, CallTypes, Routes, Code
  <1>4. /\ gate'[c] = "none"
        /\ \A d \in Callers : d # c => gate'[d] = gate[d] /\ header'[d] = header[d]
    BY <1>1 DEF Exit, IInv, AccessInv, AccessTypeOK
  <1>5. /\ api'[c] = "none" /\ gw'[c] = "idle" /\ srv'[c] = "none" /\ resp'[c] = Nothing
        /\ http'[c] = 0 /\ did'[c] = {}
    BY <1>1 DEF IInv, CallTypes
  <1>6. \A d \in Callers : d # c =>
          UNCHANGED <<api[d], gw[d], srv[d], req[d], status[d], resp[d], http[d], did[d]>>
    BY <1>1 DEF IInv, CallTypes
  <1>7. CallInv(c)'
    BY <1>4, <1>5 DEF CallInv, Progress, Behind, Effective, Told
  <1>8. Lasting
    BY <1>2, Still
  <1> QED BY <1>2, <1>3, <1>4, <1>6, <1>7, <1>8, Untouched DEF IInv

-----------------------------------------------------------------------------
LEMMA Start == Init => IInv
  <1> SUFFICES ASSUME Init PROVE IInv
    OBVIOUS
  <1>1. AccessInv /\ gate = [x \in Callers |-> "none"]
    BY AccessStart DEF Init, AccessInit
  <1>2. CallTypes
    BY DEF Init, CallTypes, Routes, Code
  <1>3. \A c \in Callers : CallInv(c)
    BY <1>1 DEF Init, CallInv, Progress, Behind, Effective, Told
  <1> QED BY <1>1, <1>2, <1>3 DEF IInv

LEMMA Step == IInv /\ [Next]_vars => IInv'
  <1> SUFFICES ASSUME IInv, [Next]_vars PROVE IInv'
    OBVIOUS
  <1>1. ASSUME AccessInv', Lasting, UNCHANGED <<gate, header>>, UNCHANGED callVars
        PROVE  IInv'
    <2>1. CallTypes'
      BY <1>1 DEF callVars, IInv, CallTypes
    <2> QED BY <1>1, <2>1, Untouched DEF callVars, IInv
  <1>2. CASE UNCHANGED vars
    <2>1. UNCHANGED accessVars /\ UNCHANGED callVars
      BY <1>2 DEF vars, accessVars, callVars
    <2> QED BY <1>1, <2>1, Unwritten
  <1>3. CASE Elsewhere /\ UNCHANGED callVars
    <2>1. AccessInv' /\ Lasting /\ UNCHANGED <<gate, header>>
      BY <1>3, ElsewhereKeeps DEF Elsewhere, IInv
    <2> QED BY <1>1, <1>3, <2>1
  <1> QED BY <1>2, <1>3, RefusedAtOnceStep, CallStep, ServeStep, ReturnStep, ForgetStep,
             GatewayDiesStep DEF Next

LEMMA Invariance == Spec => []IInv
  BY Start, Step, PTL DEF Spec

-----------------------------------------------------------------------------
(* The theorems.                                                           *)

\* Requests, answers, statuses and the tables keep their types, whatever a
\* browser sends.
THEOREM RestTypes == Spec => []TypeOK
  <1>1. IInv => TypeOK
    BY DEF IInv, AccessInv, CallTypes, TypeOK
  <1> QED BY <1>1, Invariance, PTL

\* A status of success means the operation has written, a refusal that nothing
\* was and will be written (grpc_errors.go:14).
THEOREM StatusHolds == Spec => []StatusTellsTruth
  <1>1. ASSUME IInv, NEW c \in Callers, http[c] \in {200, 201}
        PROVE  /\ api[c] = "register" => "user" \in did[c]
               /\ api[c] = "send" => "message" \in did[c]
               /\ api[c] = "messages" => "reset" \in did[c]
               /\ api[c] = "logout" /\ resp[c].success => "close" \in did[c]
               /\ api[c] \in {"login", "refresh"} =>
                    LET s == resp[c].refresh_token
                    IN  "open" \in did[c] /\ book[s] # Ledger!NoRow
                          /\ token[s] # Nothing /\ token[s].user = book[s].owner
    <2>1. CASE api[c] = "health"
      BY <2>1
    <2>2. CASE Done(c)
      BY <1>1, <2>2 DEF Done, IInv, AccessInv, TokensBacked
    <2> QED BY <1>1, <2>1, <2>2 DEF IInv, CallInv, Told
  <1>2. ASSUME IInv, NEW c \in Callers, http[c] \in {400, 401, 403, 404, 405, 409, 429}
        PROVE  did[c] = {} /\ srv[c] \in {"none", "done"}
    BY <1>2 DEF IInv, CallInv, Told, Progress
  <1>3. IInv => StatusTellsTruth
    BY <1>1, <1>2 DEF StatusTellsTruth
  <1> QED BY <1>3, Invariance, PTL

\* The chat service acts only in the name of the owner of the session
\* (server.go:54, 110, 151).
THEOREM OwnerActs == Spec => []ActsAsOwner
  <1>1. IInv => ActsAsOwner
    BY DEF IInv, CallInv, Behind, AccessInv, PassedInTime, ActsAsOwner, Caller
  <1> QED BY <1>1, Invariance, PTL

\* A call that comes too late, or that the auth service has not vouched for, has
\* no effect (auth.go:32, 43).
THEOREM LateCallsAreRefused == Spec => []LateCallsRefused
  <1>1. IInv => LateCallsRefused
    BY DEF IInv, CallInv, Behind, AccessInv, PassedInTime, LateCallsRefused
  <1> QED BY <1>1, Invariance, PTL
=============================================================================
