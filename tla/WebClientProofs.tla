-------------------------- MODULE WebClientProofs --------------------------
(***************************************************************************)
(* The safety properties of WebClient for any number of users, calls and   *)
(* sockets.                                                                *)
(***************************************************************************)
EXTENDS WebClient, TLAPS

\* A socket that lives is the one ws names and still has its onclose; ws names
\* a socket that is not yet closed.
LiveIsNamed ==
  /\ \A w \in Sockets : Live(w) => ws = w /\ socket[w].onclose
  /\ ws # None => socket[ws] # None

\* Who is logged in has tokens; a refresh carries some; a login is under way
\* only while the form is shown, and only one.
CallsInOrder ==
  /\ user # None => token # None
  /\ \A c \in Calls : Under(c, "refresh") \/ Under(c, "auto") => call[c].of # None
  /\ \A c \in Calls : Under(c, "login") => user = None
  /\ \A c, d \in Calls : Under(c, "login") /\ Under(d, "login") => c = d

\* A refresh of this login carries the tokens of this user.
FreshIsOwn ==
  ~crossed =>
    \A c \in Calls : /\ Under(c, "refresh") \/ Under(c, "auto")
                     /\ ~call[c].stale
                     => call[c].of = user

IInv ==
  /\ TypeOK
  /\ LiveIsNamed
  /\ CallsInOrder
  /\ FreshIsOwn
  /\ NeverDeaf
  /\ SameUser

-----------------------------------------------------------------------------
(* The sockets.                                                            *)

\* socks and at, as socket and ws: types and LiveIsNamed.
Named(socks, at) ==
  /\ socks \in [Sockets -> Socket \cup {None}]
  /\ at \in Sockets \cup {None}
  /\ at # None => socks[at] # None
  /\ \A w \in Sockets : socks[w] # None /\ socks[w].state \in {"connecting", "open"}
                          => at = w /\ socks[w].onclose

LEMMA NamedNow == IInv => Named(socket, ws)
  BY DEF IInv, TypeOK, LiveIsNamed, Live, Named

LEMMA NewSocket ==
  ASSUME NEW u \in Users
  PROVE  /\ New(u) \in Socket /\ New(u) # None
         /\ New(u).state = "connecting" /\ New(u).of = u /\ New(u).onclose
  <1>1. New(u) \in Socket
    BY DEF New, Socket
  <1> QED BY <1>1, WebAssumption DEF New

LEMMA NothingLeft ==
  ASSUME Named(socket, ws)
  PROVE  /\ Named(Disconnected, None)
         /\ \A w \in Sockets :
              Disconnected[w] # None => Disconnected[w].state = "closing"
  <1>1. CASE ws = None
    BY <1>1, WebAssumption DEF Named, Disconnected, Socket
  <1>2. CASE ws # None
    <2> DEFINE closing == [socket[ws] EXCEPT !.onclose = FALSE, !.state = "closing"]
    <2>1. socket[ws] \in Socket /\ ws \in Sockets
      BY <1>2 DEF Named
    <2>2. closing \in Socket /\ closing # None /\ closing.state = "closing"
      <3>1. closing \in Socket /\ closing.state = "closing"
        BY <2>1 DEF Socket
      <3> QED BY <3>1, WebAssumption
    <2>3. Disconnected = [socket EXCEPT ![ws] = closing]
      BY <1>2, <2>1 DEF Disconnected, Named
    <2> HIDE DEF closing
    <2>4. \A w \in Sockets : Disconnected[w] = IF w = ws THEN closing ELSE socket[w]
      BY <2>1, <2>3 DEF Named
    <2>5. Disconnected \in [Sockets -> Socket \cup {None}]
      BY <2>1, <2>2, <2>3 DEF Named
    <2>6. \A w \in Sockets : Disconnected[w] # None => Disconnected[w].state = "closing"
      BY <2>2, <2>4 DEF Named, Socket
    <2> QED BY <2>5, <2>6 DEF Named
  <1> QED BY <1>1, <1>2

\* wsConnect keeps the sockets in order, leaves a page with tokens a socket
\* that will tell of its end, and adds none but one of u.
LEMMA ConnectedOnce ==
  ASSUME NEW u \in Users \cup {None}, NEW socks, NEW at, Named(socks, at),
         WsConnect(u, socks, at)
  PROVE  /\ Named(socket', ws')
         /\ u # None => ws' # None /\ socket'[ws'].onclose
         /\ \A w \in Sockets : socket'[w] = socks[w] \/ socket'[w].of = u
  <1>1. CASE u = None \/ (at # None /\ socks[at].state # "closing")
    <2>1. socket' = socks /\ ws' = at
      BY <1>1 DEF WsConnect
    <2>2. at # None /\ socks[at].state # "closing" => socks[at].onclose
      BY DEF Named, Socket
    <2> QED BY <1>1, <2>1, <2>2
  <1>2. CASE ~(u = None \/ (at # None /\ socks[at].state # "closing"))
    <2>1. PICK w \in Sockets : /\ socks[w] = None
                               /\ socket' = [socks EXCEPT ![w] = New(u)]
                               /\ ws' = w
      BY <1>2 DEF WsConnect
    <2>2. u \in Users
      BY <1>2
    <2>3. socket' \in [Sockets -> Socket \cup {None}]
      BY <2>1, <2>2, NewSocket DEF Named
    <2>4. \A v \in Sockets : socket'[v] = IF v = w THEN New(u) ELSE socks[v]
      BY <2>1 DEF Named
    <2>5. \A v \in Sockets : socks[v] # None => ~(socks[v].state \in {"connecting", "open"})
      BY <1>2, WebAssumption DEF Named
    <2>6. \A v \in Sockets : socket'[v] # None /\ socket'[v].state \in {"connecting", "open"}
                               => ws' = v /\ socket'[v].onclose
      BY <2>1, <2>2, <2>4, <2>5, NewSocket
    <2>7. Named(socket', ws')
      BY <2>1, <2>2, <2>3, <2>4, <2>6, NewSocket DEF Named
    <2> QED BY <2>1, <2>2, <2>4, <2>7, NewSocket, WebAssumption
  <1> QED BY <1>1, <1>2

-----------------------------------------------------------------------------
(* The calls.                                                              *)

Calling(f) == f \in [Calls -> Call \cup {None}]

LEMMA SentCalls ==
  ASSUME IInv, NEW c \in Calls, NEW kind \in {"login", "logout", "refresh", "auto"},
         Send(c, kind)
  PROVE  /\ Calling(call')
         /\ \A d \in Calls : d # c => call'[d] = call[d]
         /\ Under(c, kind)' /\ call'[c].of = token /\ call'[c].stale = FALSE
         /\ call'[c].kind = kind
         /\ UNCHANGED <<token, user, socket, ws, timer, stray, crossed>>
  <1> DEFINE r == [kind |-> kind, of |-> token, stale |-> FALSE]
  <1>1. r \in Call /\ r # None
    <2>1. r \in Call
      BY DEF IInv, TypeOK, Call
    <2> QED BY <2>1, WebAssumption
  <1>2. r.kind = kind /\ r.of = token /\ r.stale = FALSE
    OBVIOUS
  <1>3. call' = [call EXCEPT ![c] = r]
    BY DEF Send
  <1> HIDE DEF r
  <1>4. call \in [Calls -> Call \cup {None}]
    BY DEF IInv, TypeOK
  <1>5. Calling(call') /\ \A d \in Calls : call'[d] = IF d = c THEN r ELSE call[d]
    BY <1>1, <1>3, <1>4 DEF Calling
  <1> QED BY <1>1, <1>2, <1>5 DEF Send, Under

LEMMA AnsweredCalls ==
  ASSUME IInv, NEW c \in Calls, Answered(c)
  PROVE  /\ Calling(call')
         /\ call'[c] = None
         /\ \A d \in Calls : d # c => call'[d] = call[d]
  BY DEF IInv, TypeOK, Answered, Calling

LEMMA CallTypes ==
  ASSUME IInv, NEW c \in Calls, call[c] # None
  PROVE  call[c].of \in Users \cup {None} /\ call[c].stale \in BOOLEAN
  BY DEF IInv, TypeOK, Call

-----------------------------------------------------------------------------
(* The steps.                                                              *)

\* The state of the page does not change but for a call that is new or over.
LEMMA SameSockets ==
  ASSUME IInv, UNCHANGED <<token, user, socket, ws, timer, stray, crossed>>, Calling(call')
  PROVE  TypeOK' /\ LiveIsNamed' /\ NeverDeaf' /\ SameUser'
  BY DEF IInv, TypeOK, Calling, LiveIsNamed, Live, NeverDeaf, SameUser

\* What Named says is what the invariant says of the sockets.
LEMMA NamedThen ==
  ASSUME Named(socket, ws)'
  PROVE  /\ LiveIsNamed'
         /\ socket' \in [Sockets -> Socket \cup {None}]
         /\ ws' \in Sockets \cup {None}
  BY DEF Named, LiveIsNamed, Live

LEMMA SendStep ==
  ASSUME IInv, NEW c \in Calls,
         HandleLogin(c) \/ Logout(c) \/ RefreshToken(c) \/ AutoRefresh(c)
  PROVE  IInv'
  <1>1. CASE HandleLogin(c)
    <2>1. Send(c, "login")
      BY <1>1 DEF HandleLogin
    <2>2. CallsInOrder'
      BY <1>1, <2>1, SentCalls DEF HandleLogin, IInv, CallsInOrder, Under
    <2>3. FreshIsOwn'
      BY <2>1, SentCalls DEF IInv, FreshIsOwn, Under
    <2> QED BY <2>1, <2>2, <2>3, SentCalls, SameSockets DEF IInv
  <1>2. CASE Logout(c)
    <2>1. Send(c, "logout")
      BY <1>2 DEF Logout
    <2>2. \A d \in Calls, k \in {"login", "refresh", "auto"} :
            Under(d, k)' => Under(d, k) /\ call'[d] = call[d]
      BY <2>1, SentCalls DEF Under
    <2>3. CallsInOrder'
      BY <2>1, <2>2, SentCalls DEF IInv, CallsInOrder
    <2>4. FreshIsOwn'
      <3> SUFFICES ASSUME ~crossed', NEW d \in Calls, (Under(d, "refresh") \/ Under(d, "auto"))',
                          ~call'[d].stale
                   PROVE  call'[d].of = user'
        BY DEF FreshIsOwn
      <3>1. ~crossed /\ user' = user
        BY <2>1, SentCalls
      <3>2. (Under(d, "refresh") \/ Under(d, "auto")) /\ call'[d] = call[d]
        BY <2>2
      <3> QED BY <3>1, <3>2 DEF IInv, FreshIsOwn
    <2> QED BY <2>1, <2>3, <2>4, SentCalls, SameSockets DEF IInv
  <1>3. ASSUME NEW kind \in {"refresh", "auto"}, Send(c, kind), token # None
        PROVE  IInv'
    <2>0. /\ call'[c].kind = kind /\ call'[c].of = token
          /\ \A d \in Calls : d # c => call'[d] = call[d]
          /\ UNCHANGED <<token, user, crossed>>
      BY <1>3, SentCalls
    <2>1. CallsInOrder'
      BY <1>3, <2>0 DEF IInv, CallsInOrder, Under
    <2>2. FreshIsOwn'
      BY <1>3, <2>0 DEF IInv, FreshIsOwn, SameUser, Under
    <2> QED BY <1>3, <2>1, <2>2, SentCalls, SameSockets DEF IInv
  <1>4. RefreshToken(c) => token # None
    BY DEF RefreshToken, IInv, CallsInOrder
  <1> QED BY <1>1, <1>2, <1>3, <1>4 DEF RefreshToken, AutoRefresh

LEMMA FailStep ==
  ASSUME IInv, NEW c \in Calls, Fail(c)
  PROVE  IInv'
  <1>1. Answered(c)
    BY DEF Fail
  <1>2. CallsInOrder' /\ FreshIsOwn'
    BY <1>1, AnsweredCalls DEF Fail, IInv, CallsInOrder, FreshIsOwn, Under
  <1> QED BY <1>1, <1>2, AnsweredCalls, SameSockets DEF Fail, IInv

LEMMA LoggedInStep ==
  ASSUME IInv, NEW c \in Calls, NEW u \in Users, LoggedIn(c, u)
  PROVE  IInv'
  <1>1. /\ Answered(c) /\ token' = u /\ user' = u /\ user = None /\ u # None
        /\ UNCHANGED <<timer, stray, crossed>>
    BY WebAssumption DEF LoggedIn, IInv, CallsInOrder
  <1>2. /\ Named(socket, ws)'
        /\ ws' # None /\ socket'[ws'].onclose
        /\ \A w \in Sockets : socket'[w] = socket[w] \/ socket'[w].of = u
    BY <1>1, NamedNow, ConnectedOnce DEF LoggedIn, Named
  <1>3. TypeOK' /\ LiveIsNamed'
    BY <1>1, <1>2, NamedThen, AnsweredCalls DEF IInv, TypeOK, Calling
  <1>4. CallsInOrder'
    BY <1>1, AnsweredCalls DEF LoggedIn, IInv, CallsInOrder, Under
  <1>5. FreshIsOwn'
    BY <1>1, AnsweredCalls DEF IInv, FreshIsOwn, CallsInOrder, Under
  <1>6. NeverDeaf'
    BY <1>2 DEF NeverDeaf
  <1>7. SameUser'
    <2>1. ASSUME ~crossed, NEW w \in Sockets, Live(w)'
          PROVE  socket'[w].of = u
      <3>1. ASSUME socket'[w] = socket[w] PROVE FALSE
        <4>1. socket[w] \in Socket /\ Live(w)
          BY <2>1, <3>1 DEF IInv, TypeOK, Live
        <4>2. socket[w].of = None
          BY <1>1, <2>1, <4>1 DEF IInv, SameUser
        <4> QED BY <4>1, <4>2, WebAssumption DEF Socket
      <3> QED BY <1>2, <3>1
    <2> QED BY <1>1, <2>1 DEF SameUser
  <1> QED BY <1>3, <1>4, <1>5, <1>6, <1>7 DEF IInv

LEMMA LoggedOutStep ==
  ASSUME IInv, NEW c \in Calls, LoggedOut(c)
  PROVE  IInv'
  <1>1. /\ socket' = Disconnected /\ ws' = None /\ timer' = FALSE /\ stray' = stray
        /\ token' = None /\ user' = None /\ crossed' = FALSE
    BY DEF LoggedOut, WsDisconnect
  <1>2. \A d \in Calls :
          call'[d] = IF d = c \/ call[d] = None THEN None ELSE [call[d] EXCEPT !.stale = TRUE]
    BY DEF LoggedOut
  <1>3. ASSUME NEW d \in Calls, call'[d] # None
        PROVE  /\ call'[d] \in Call /\ call[d] # None /\ call'[d].stale = TRUE
               /\ call'[d].kind = call[d].kind /\ call'[d].of = call[d].of
    <2>1. call[d] # None /\ call[d] \in Call /\ call'[d] = [call[d] EXCEPT !.stale = TRUE]
      BY <1>2, <1>3 DEF IInv, TypeOK
    <2> QED BY <2>1 DEF Call
  <1>4. Calling(call')
    <2>1. DOMAIN call' = Calls /\ call' = [d \in Calls |-> call'[d]]
      BY DEF LoggedOut
    <2> QED BY <1>3, <2>1 DEF Calling
  <1>5. Named(socket, ws)' /\ \A w \in Sockets : ~Live(w)'
    BY <1>1, NamedNow, NothingLeft DEF Named, Live
  <1>6. TypeOK' /\ LiveIsNamed'
    BY <1>1, <1>4, <1>5, NamedThen DEF IInv, TypeOK, Calling
  <1>7. CallsInOrder'
    BY <1>1, <1>3 DEF IInv, CallsInOrder, Under
  <1>8. FreshIsOwn'
    BY <1>3 DEF FreshIsOwn, Under
  <1>9. NeverDeaf' /\ SameUser'
    BY <1>1, <1>5 DEF NeverDeaf, SameUser
  <1> QED BY <1>6, <1>7, <1>8, <1>9 DEF IInv

\* The answer of a refresh of this login brings the tokens of this user.
LEMMA AnswerIsOwn ==
  ASSUME IInv, NEW c \in Calls, Under(c, "refresh") \/ Under(c, "auto"), NewToken(c)
  PROVE  /\ token' \in Users /\ crossed' \in BOOLEAN
         /\ ~crossed' => ~crossed /\ token' = user
  <1>1. call[c].of \in Users /\ call[c].stale \in BOOLEAN
    BY CallTypes DEF IInv, CallsInOrder, Under
  <1>2. ~(crossed \/ call[c].stale) => call[c].of = user
    BY DEF IInv, FreshIsOwn
  <1> QED BY <1>1, <1>2 DEF NewToken

LEMMA RefreshedStep ==
  ASSUME IInv, NEW c \in Calls, Refreshed(c)
  PROVE  IInv'
  <1>1. /\ Answered(c) /\ NewToken(c) /\ Under(c, "refresh")
        /\ UNCHANGED <<user, socket, ws, timer, stray>>
    BY DEF Refreshed
  <1>2. /\ token' \in Users /\ crossed' \in BOOLEAN
        /\ ~crossed' => ~crossed /\ token' = user
    BY <1>1, AnswerIsOwn
  <1>3. TypeOK' /\ LiveIsNamed' /\ NeverDeaf'
    BY <1>1, <1>2, AnsweredCalls DEF IInv, TypeOK, Calling, LiveIsNamed, Live, NeverDeaf
  <1>4. CallsInOrder'
    BY <1>1, <1>2, AnsweredCalls, WebAssumption DEF IInv, CallsInOrder, Under
  <1>5. FreshIsOwn'
    BY <1>1, <1>2, AnsweredCalls DEF IInv, FreshIsOwn, Under
  <1>6. SameUser'
    BY <1>1, <1>2 DEF IInv, SameUser, Live
  <1> QED BY <1>3, <1>4, <1>5, <1>6 DEF IInv

LEMMA AutoRefreshedStep ==
  ASSUME IInv, NEW c \in Calls, AutoRefreshed(c)
  PROVE  IInv'
  <1>1. /\ Answered(c) /\ Under(c, "auto") /\ timer' = FALSE
        /\ UNCHANGED <<user, stray>>
    BY DEF AutoRefreshed
  <1>2. /\ token' \in Users \cup {None} /\ crossed' \in BOOLEAN
        /\ user # None => token' # None
        /\ ~crossed' => ~crossed /\ token' = user
    <2>1. CASE NewToken(c)
      BY <1>1, <2>1, AnswerIsOwn, WebAssumption
    <2>2. CASE UNCHANGED <<token, crossed>>
      BY <2>2 DEF IInv, TypeOK, CallsInOrder, SameUser
    <2> QED BY <2>1, <2>2 DEF AutoRefreshed
  <1>3. /\ Named(Disconnected, None)
        /\ \A w \in Sockets : Disconnected[w] # None => Disconnected[w].state = "closing"
    BY NamedNow, NothingLeft
  <1>4. /\ Named(socket, ws)'
        /\ token' # None => ws' # None /\ socket'[ws'].onclose
        /\ \A w \in Sockets : socket'[w] = Disconnected[w] \/ socket'[w].of = token'
    BY <1>2, <1>3, ConnectedOnce DEF AutoRefreshed, Named
  <1>5. TypeOK' /\ LiveIsNamed'
    BY <1>1, <1>2, <1>4, NamedThen, AnsweredCalls DEF IInv, TypeOK, Calling
  <1>6. CallsInOrder'
    BY <1>1, <1>2, AnsweredCalls DEF IInv, CallsInOrder, Under
  <1>7. FreshIsOwn'
    BY <1>1, <1>2, AnsweredCalls DEF IInv, FreshIsOwn, Under
  <1>8. NeverDeaf'
    BY <1>1, <1>2, <1>4 DEF NeverDeaf
  <1>9. SameUser'
    BY <1>1, <1>2, <1>3, <1>4 DEF SameUser, Live
  <1> QED BY <1>5, <1>6, <1>7, <1>8, <1>9 DEF IInv

\* The socket of a page with tokens is opened anew when a timer fires.
LEMMA TimerStep ==
  ASSUME IInv, Reconnect \/ StrayReconnect
  PROVE  IInv'
  <1>1. /\ WsConnect(token, socket, ws)
        /\ UNCHANGED <<token, user, call, crossed>>
        /\ timer' \in BOOLEAN /\ stray' \in BOOLEAN
    BY DEF Reconnect, StrayReconnect, IInv, TypeOK
  <1>2. token \in Users \cup {None}
    BY DEF IInv, TypeOK
  <1>3. /\ Named(socket, ws)'
        /\ token # None => ws' # None /\ socket'[ws'].onclose
        /\ \A w \in Sockets : socket'[w] = socket[w] \/ socket'[w].of = token
    BY <1>1, <1>2, NamedNow, ConnectedOnce DEF Named
  <1>4. TypeOK' /\ LiveIsNamed'
    BY <1>1, <1>3, NamedThen DEF IInv, TypeOK
  <1>5. CallsInOrder' /\ FreshIsOwn'
    BY <1>1 DEF IInv, CallsInOrder, FreshIsOwn, Under
  <1>6. NeverDeaf'
    BY <1>1, <1>3 DEF IInv, CallsInOrder, NeverDeaf
  <1>7. SameUser'
    BY <1>1, <1>3 DEF IInv, SameUser, Live
  <1> QED BY <1>4, <1>5, <1>6, <1>7 DEF IInv

LEMMA OnOpenStep ==
  ASSUME IInv, NEW w \in Sockets, OnOpen(w) \/ CloseFrame(w)
  PROVE  IInv'
  <1>1. socket[w] \in Socket /\ Live(w)
    BY DEF OnOpen, CloseFrame, Live, IInv, TypeOK
  <1>2. PICK to \in {"open", "closing"} :
          /\ socket' = [socket EXCEPT ![w] = [socket[w] EXCEPT !.state = to]]
          /\ UNCHANGED <<token, user, call, ws, stray, crossed>>
          /\ timer' \in {FALSE, timer}
    BY DEF OnOpen, CloseFrame
  <1> DEFINE r == [socket[w] EXCEPT !.state = to]
  <1>3. r \in Socket /\ r.state = to /\ r.of = socket[w].of /\ r.onclose = socket[w].onclose
    BY <1>1 DEF Socket
  <1>4. socket' = [socket EXCEPT ![w] = r]
    BY <1>2
  <1> HIDE DEF r
  <1>5. /\ socket' \in [Sockets -> Socket \cup {None}]
        /\ \A v \in Sockets : socket'[v] = IF v = w THEN r ELSE socket[v]
    BY <1>3, <1>4 DEF IInv, TypeOK
  <1>6. ws = w /\ socket[w].onclose /\ r # None
    BY <1>1, <1>3, WebAssumption DEF IInv, LiveIsNamed
  <1>7. TypeOK'
    BY <1>2, <1>5 DEF IInv, TypeOK
  <1>8. LiveIsNamed'
    BY <1>2, <1>3, <1>5, <1>6 DEF IInv, LiveIsNamed, Live
  <1>9. CallsInOrder' /\ FreshIsOwn'
    BY <1>2 DEF IInv, CallsInOrder, FreshIsOwn, Under
  <1>10. NeverDeaf'
    BY <1>2, <1>3, <1>5, <1>6, WebAssumption DEF NeverDeaf
  <1>11. SameUser'
    BY <1>1, <1>2, <1>3, <1>5 DEF IInv, SameUser, Live
  <1> QED BY <1>7, <1>8, <1>9, <1>10, <1>11 DEF IInv

LEMMA OnCloseStep ==
  ASSUME IInv, NEW w \in Sockets, OnClose(w)
  PROVE  IInv'
  <1>1. /\ socket' = [socket EXCEPT ![w] = None]
        /\ ws' = IF ws = w THEN None ELSE ws
        /\ UNCHANGED <<token, user, call, crossed>>
    BY DEF OnClose, Gone
  <1>2. /\ timer' \in BOOLEAN /\ stray' \in BOOLEAN
        /\ timer \/ stray => timer' \/ stray'
        /\ socket[w].onclose /\ token # None => timer'
    BY DEF OnClose, IInv, TypeOK
  <1>3. /\ socket' \in [Sockets -> Socket \cup {None}]
        /\ \A v \in Sockets : socket'[v] = IF v = w THEN None ELSE socket[v]
    BY <1>1 DEF IInv, TypeOK
  <1>4. TypeOK'
    BY <1>1, <1>2, <1>3 DEF IInv, TypeOK
  <1>5. LiveIsNamed'
    BY <1>1, <1>3, <1>4 DEF IInv, TypeOK, LiveIsNamed, Live
  <1>6. CallsInOrder' /\ FreshIsOwn'
    BY <1>1 DEF IInv, CallsInOrder, FreshIsOwn, Under
  <1>7. NeverDeaf'
    BY <1>1, <1>2, <1>3 DEF IInv, TypeOK, CallsInOrder, NeverDeaf
  <1>8. SameUser'
    BY <1>1, <1>3 DEF IInv, SameUser, Live
  <1> QED BY <1>4, <1>5, <1>6, <1>7, <1>8 DEF IInv

LEMMA Start == Init => IInv
  BY DEF Init, IInv, TypeOK, LiveIsNamed, Live, CallsInOrder, FreshIsOwn, Under, NeverDeaf,
         SameUser

LEMMA Step == IInv /\ [Next]_vars => IInv'
  <1> SUFFICES ASSUME IInv, [Next]_vars PROVE IInv'
    OBVIOUS
  <1>1. CASE UNCHANGED vars
    BY <1>1 DEF vars, IInv, TypeOK, LiveIsNamed, Live, CallsInOrder, FreshIsOwn, Under,
                NeverDeaf, SameUser
  <1>2. CASE Next
    BY <1>2, SendStep, FailStep, LoggedInStep, LoggedOutStep, RefreshedStep,
       AutoRefreshedStep, TimerStep, OnOpenStep, OnCloseStep DEF Next
  <1> QED BY <1>1, <1>2

LEMMA Invariance == Spec => []IInv
  BY Start, Step, PTL DEF Spec

-----------------------------------------------------------------------------
(* The theorems.                                                           *)

\* The page's variables keep their types, whoever calls back when.
THEOREM WebTypes == Spec => []TypeOK
  <1>1. IInv => TypeOK
    BY DEF IInv
  <1> QED BY <1>1, Invariance, PTL

\* A page never has two live sockets: each one that is let go of is being
\* closed, and wsConnect opens none beside a live one (html:1305, 1345).
THEOREM WebOneLiveSocket == Spec => []OneLiveSocket
  <1>1. IInv => OneLiveSocket
    BY DEF IInv, LiveIsNamed, OneLiveSocket
  <1> QED BY <1>1, Invariance, PTL

\* A page that shows a user always has a socket or a timer that will bring one
\* (html:1331, 1391).
THEOREM WebNeverDeaf == Spec => []NeverDeaf
  <1>1. IInv => NeverDeaf
    BY DEF IInv
  <1> QED BY <1>1, Invariance, PTL

\* Tokens and socket belong to the user that is shown, but for a refresh that
\* is answered after the logout (html:1040).
THEOREM WebSameUser == Spec => []SameUser
  <1>1. IInv => SameUser
    BY DEF IInv
  <1> QED BY <1>1, Invariance, PTL
=============================================================================
