------------------------------ MODULE WebClient ------------------------------
(***************************************************************************)
(* The page messenger-ui.html as far as its session and its socket go:     *)
(* login, logout, the refresh by hand and by the clock, wsConnect and      *)
(* wsDisconnect, the events of the sockets and the reconnect timer.        *)
(*                                                                         *)
(* Scripts run to completion, but a call to the gateway, the close of a    *)
(* socket and a timer end later, in any order, whatever the page has done  *)
(* since.  A token is named by the user it was issued to.  A closed socket *)
(* is none at all; so is ws when it points to one.                         *)
(***************************************************************************)
EXTENDS Naturals

CONSTANTS
  Users,    \* user ids
  Calls,    \* bounds the calls under way
  Sockets,  \* bounds the WebSocket objects that are not yet closed
  None      \* null

VARIABLES
  token,    \* state.accessToken and refreshToken
  user,     \* state.userID; when it is null the page shows the login form
  call,     \* call[c]: a call under way
  socket,   \* socket[w]: a WebSocket object
  ws,       \* the variable ws
  timer,    \* the timer wsReconnectTimer names is running
  stray,    \* some timer runs whose id has been overwritten
  crossed   \* history: a refresh sent before the last reset was answered after it

vars == <<token, user, call, socket, ws, timer, stray, crossed>>

-----------------------------------------------------------------------------
Call == [kind : {"login", "logout", "refresh", "auto"}, of : Users \cup {None}, stale : BOOLEAN]
Socket == [state : {"connecting", "open", "closing"}, of : Users, onclose : BOOLEAN]

ASSUME WebAssumption == None \notin Users \cup Sockets \cup Call \cup Socket

TypeOK ==
  /\ token \in Users \cup {None}
  /\ user \in Users \cup {None}
  /\ call \in [Calls -> Call \cup {None}]
  /\ socket \in [Sockets -> Socket \cup {None}]
  /\ ws \in Sockets \cup {None}
  /\ timer \in BOOLEAN /\ stray \in BOOLEAN /\ crossed \in BOOLEAN

Init ==
  /\ token = None /\ user = None
  /\ call = [c \in Calls |-> None]
  /\ socket = [w \in Sockets |-> None]
  /\ ws = None
  /\ timer = FALSE /\ stray = FALSE /\ crossed = FALSE

-----------------------------------------------------------------------------
Live(w) == socket[w] # None /\ socket[w].state \in {"connecting", "open"}

\* Mutant: wsDisconnect forgets the socket but does not close it.
FaultyDisconnected ==
  IF ws = None THEN socket ELSE [socket EXCEPT ![ws].onclose = FALSE]

\* The sockets after wsDisconnect.
Disconnected ==
  IF ws = None THEN socket
  ELSE [socket EXCEPT ![ws].onclose = FALSE, ![ws].state = "closing"]

\* wsDisconnect.
WsDisconnect ==
  /\ socket' = Disconnected
  /\ ws' = None
  /\ timer' = FALSE

New(u) == [state |-> "connecting", of |-> u, onclose |-> TRUE]

\* wsConnect with the token of u, when socks are the sockets and at is ws.
WsConnect(u, socks, at) ==
  IF u = None \/ (at # None /\ socks[at].state # "closing")
  THEN socket' = socks /\ ws' = at
  ELSE \E w \in Sockets :
         /\ socks[w] = None
         /\ socket' = [socks EXCEPT ![w] = New(u)]
         /\ ws' = w

-----------------------------------------------------------------------------
(* The calls.                                                              *)

Send(c, kind) ==
  /\ call[c] = None
  /\ call' = [call EXCEPT ![c] = [kind |-> kind, of |-> token, stale |-> FALSE]]
  /\ UNCHANGED <<token, user, socket, ws, timer, stray, crossed>>

Under(c, kind) == call[c] # None /\ call[c].kind = kind

\* The button of the form is disabled while a login is under way; that of
\* logout is not.
HandleLogin(c) == user = None /\ (\A d \in Calls : ~Under(d, "login")) /\ Send(c, "login")
Logout(c) == user # None /\ Send(c, "logout")
RefreshToken(c) == user # None /\ Send(c, "refresh")

\* The interval looks at the tokens, not at who is logged in.
AutoRefresh(c) == token # None /\ Send(c, "auto")

Answered(c) == call' = [call EXCEPT ![c] = None]

\* A call that fails: a toast.  (A failing logout resets all the same, and
\* after a failing refresh of the clock the socket is opened anew.)
Fail(c) ==
  /\ Under(c, "login") \/ Under(c, "refresh")
  /\ Answered(c)
  /\ UNCHANGED <<token, user, socket, ws, timer, stray, crossed>>

\* onAuthSuccess.
LoggedIn(c, u) ==
  /\ Under(c, "login")
  /\ token' = u /\ user' = u
  /\ WsConnect(u, socket, ws)
  /\ Answered(c)
  /\ UNCHANGED <<timer, stray, crossed>>

\* Mutant: the socket and the timer stay.
FaultyLoggedOut(c) ==
  /\ Under(c, "logout")
  /\ token' = None /\ user' = None
  /\ call' = [d \in Calls |-> IF d = c \/ call[d] = None THEN None
                                                        ELSE [call[d] EXCEPT !.stale = TRUE]]
  /\ crossed' = FALSE
  /\ UNCHANGED <<socket, ws, timer, stray>>

\* resetState, whatever the answer and whoever is logged in by then.
LoggedOut(c) ==
  /\ Under(c, "logout")
  /\ WsDisconnect
  /\ token' = None /\ user' = None
  /\ call' = [d \in Calls |-> IF d = c \/ call[d] = None THEN None
                                                        ELSE [call[d] EXCEPT !.stale = TRUE]]
  /\ crossed' = FALSE
  /\ UNCHANGED stray

\* The answer replaces the tokens, whatever they are by then.
NewToken(c) ==
  /\ token' = call[c].of
  /\ crossed' = (crossed \/ call[c].stale)

Refreshed(c) ==
  /\ Under(c, "refresh")
  /\ NewToken(c)
  /\ Answered(c)
  /\ UNCHANGED <<user, socket, ws, timer, stray>>

\* refreshToken never throws: the socket is opened anew in any case.
AutoRefreshed(c) ==
  /\ Under(c, "auto")
  /\ NewToken(c) \/ UNCHANGED <<token, crossed>>
  /\ WsConnect(token', Disconnected, None)
  /\ timer' = FALSE
  /\ Answered(c)
  /\ UNCHANGED <<user, stray>>

-----------------------------------------------------------------------------
(* The sockets and the timers.                                             *)

\* onopen.
OnOpen(w) ==
  /\ socket[w] # None /\ socket[w].state = "connecting"
  /\ socket' = [socket EXCEPT ![w].state = "open"]
  /\ timer' = FALSE
  /\ UNCHANGED <<token, user, call, ws, stray, crossed>>

\* The gateway's close frame comes some time before the end.
CloseFrame(w) ==
  /\ socket[w] # None /\ socket[w].state = "open"
  /\ socket' = [socket EXCEPT ![w].state = "closing"]
  /\ UNCHANGED <<token, user, call, ws, timer, stray, crossed>>

Gone(w) ==
  /\ socket' = [socket EXCEPT ![w] = None]
  /\ ws' = IF ws = w THEN None ELSE ws
  /\ UNCHANGED <<token, user, call, crossed>>

\* Mutant: a connection that was never open is not tried again.
FaultyOnClose(w) ==
  /\ socket[w] # None
  /\ IF socket[w].onclose /\ token # None /\ socket[w].state # "connecting"
     THEN timer' = TRUE /\ stray' = (stray \/ timer)
     ELSE UNCHANGED <<timer, stray>>
  /\ Gone(w)

\* The end of a socket, and onclose if it has one; a timer that is running
\* goes on without a name.
OnClose(w) ==
  /\ socket[w] # None
  /\ IF socket[w].onclose /\ token # None
     THEN timer' = TRUE /\ stray' = (stray \/ timer)
     ELSE UNCHANGED <<timer, stray>>
  /\ Gone(w)

Reconnect ==
  /\ timer /\ timer' = FALSE
  /\ WsConnect(token, socket, ws)
  /\ UNCHANGED <<token, user, call, stray, crossed>>

\* The last one of the nameless timers, or not the last one.
StrayReconnect ==
  /\ stray /\ stray' \in BOOLEAN
  /\ WsConnect(token, socket, ws)
  /\ UNCHANGED <<token, user, call, timer, crossed>>

-----------------------------------------------------------------------------
Ended(w) == socket[w] # None /\ socket[w].state = "closing" /\ OnClose(w)

Next ==
  \/ \E c \in Calls :
       \/ HandleLogin(c) \/ Logout(c) \/ RefreshToken(c) \/ AutoRefresh(c)
       \/ Fail(c) \/ LoggedOut(c) \/ Refreshed(c) \/ AutoRefreshed(c)
       \/ \E u \in Users : LoggedIn(c, u)
  \/ \E w \in Sockets : OnOpen(w) \/ CloseFrame(w) \/ OnClose(w)
  \/ Reconnect \/ StrayReconnect

Spec == Init /\ [][Next]_vars

\* Timers fire and closing sockets close; the network lets a socket open if it
\* is tried again and again.
FairSpec ==
  /\ Spec
  /\ WF_vars(Reconnect) /\ WF_vars(StrayReconnect)
  /\ \A w \in Sockets : WF_vars(Ended(w))
  /\ SF_vars(\E w \in Sockets : OnOpen(w))

-----------------------------------------------------------------------------
\* The page never has two sockets that live, through reconnects, refreshes,
\* logouts and timers nobody can clear: what is let go of is being closed, so
\* no message is shown twice (html:1310, 1341).
OneLiveSocket == \A v, w \in Sockets : Live(v) /\ Live(w) => v = w

\* Who is logged in has a socket, or one whose end will start a timer, or a
\* timer: no order of ends, refreshes and timers leaves the page deaf
\* (html:1331, 1391).
NeverDeaf ==
  user # None =>
    \/ timer \/ stray
    \/ ws # None /\ socket[ws].onclose

\* The tokens and the socket are those of the user the page shows, and a page
\* that shows the login form has none, unless a refresh that was under way
\* during the logout has been answered since (html:1040).
SameUser ==
  ~crossed => /\ token = user
              /\ \A w \in Sockets : Live(w) => socket[w].of = user

\* With a network that works again and again, who stays logged in gets a
\* socket that is open.
Reconnects == []<>(user = None \/ \E w \in Sockets : Live(w) /\ socket[w].state = "open")
=============================================================================
