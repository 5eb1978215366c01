------------------------------- MODULE Bridge -------------------------------
(***************************************************************************)
(* The way of a new message to a browser: Hub.Push in the chat service,    *)
(* the gRPC stream of a Subscribe call, the WebSocket bridge of the        *)
(* gateway (gateway/internal/handler/ws.go), the page.  With the life of   *)
(* a Subscribe call, from the upgrade through the interceptor (Access) to  *)
(* Unsubscribe, and of the chat process, which SIGTERM stops with          *)
(* GracefulStop (app/grpc/app.go).                                         *)
(*                                                                         *)
(* The hub is the set of the open streams (module Hub has its inside), and *)
(* every SendMessage handler pushes on its own: it walks the streams of a  *)
(* user one after the other.  gRPC delivers in order and blocks the sender *)
(* when the window of a stream is full, which other pushes fill as well.   *)
(* The messages sent to a stream are numbered modulo Modulus.              *)
(*                                                                         *)
(* After the upgrade the bridge reads from the stream only: the context of *)
(* a hijacked request does not end when the browser goes, so a browser     *)
(* that left is noticed when a write to it fails.                          *)
(***************************************************************************)
EXTENDS Access, FiniteSets

CONSTANTS
  Pushers,    \* the SendMessage handlers
  Window,     \* messages the flow control lets be on their way
  Modulus,    \* bounds the numbers
  NoMessage

ASSUME BridgeAssumption ==
  /\ IsFiniteSet(Callers)
  /\ Window \in Nat \ {0} /\ Modulus \in Nat \ {0, 1}
  /\ NoMessage \notin Nat

Sockets == Callers

VARIABLES
  page,     \* page[w]: the browser: "away", "open", "stalled", "left"
  bridge,   \* bridge[w]: WSHandler.Subscribe: "idle", "recv", "write", "done"
  stream,   \* stream[w]: the Subscribe call in the chat service
  pipe,     \* pipe[w]: the messages in the stream
  hand,     \* hand[w]: the message the bridge has read and not yet written
  chat,     \* the chat process: "up", "stopping", "down"
  todo,     \* todo[p]: the streams the Push of p has still to send to
  next,     \* history: next[w]: the number of the next message sent to w
  seen      \* history: seen[w]: the number of the next message to be written

bridgeVars == <<page, bridge, stream, pipe, hand, chat, todo, next, seen>>
vars == <<book, clock, verdict, token, gate, header, since,
          page, bridge, stream, pipe, hand, chat, todo, next, seen>>

-----------------------------------------------------------------------------
Number == 0..(Modulus - 1)
Succ(n) == IF n = Modulus - 1 THEN 0 ELSE n + 1

TypeOK ==
  /\ AccessTypeOK
  /\ page \in [Sockets -> {"away", "open", "stalled", "left"}]
  /\ bridge \in [Sockets -> {"idle", "recv", "write", "done"}]
  /\ stream \in [Sockets -> {"none", "sent", "gate", "open", "ended"}]
  /\ pipe \in [Sockets -> Seq(Number)] /\ \A w \in Sockets : Len(pipe[w]) <= Window
  /\ hand \in [Sockets -> Number \cup {NoMessage}]
  /\ chat \in {"up", "stopping", "down"}
  /\ todo \in [Pushers -> Seq(Sockets)]
  /\ next \in [Sockets -> Number]
  /\ seen \in [Sockets -> Number]

Init ==
  /\ AccessInit
  /\ page = [w \in Sockets |-> "away"]
  /\ bridge = [w \in Sockets |-> "idle"]
  /\ stream = [w \in Sockets |-> "none"]
  /\ pipe = [w \in Sockets |-> <<>>]
  /\ hand = [w \in Sockets |-> NoMessage]
  /\ chat = "up"
  /\ todo = [p \in Pushers |-> <<>>]
  /\ next = [w \in Sockets |-> 0]
  /\ seen = [w \in Sockets |-> 0]

-----------------------------------------------------------------------------
(* The bridge.                                                             *)

\* Upgrade, and the stub opens the stream with the token of the query, if it
\* can: NewStream, SendMsg and CloseSend do not wait for the server.
Upgrade(w) ==
  /\ bridge[w] = "idle" /\ page[w] = "away"
  /\ \/ /\ \E h \in Headers \ {0} : header' = [header EXCEPT ![w] = h]
        /\ page' = [page EXCEPT ![w] = "open"]
        /\ bridge' = [bridge EXCEPT ![w] = "recv"]
        /\ stream' = [stream EXCEPT ![w] = "sent"]
     \/ /\ chat # "up"
        /\ bridge' = [bridge EXCEPT ![w] = "done"]
        /\ UNCHANGED <<header, page, stream>>
  /\ UNCHANGED <<ledger, token, gate, since, pipe, hand, chat, todo, next, seen>>

\* stream.Recv returns a message.
Recv(w) ==
  /\ bridge[w] = "recv" /\ pipe[w] # <<>>
  /\ hand' = [hand EXCEPT ![w] = Head(pipe[w])]
  /\ pipe' = [pipe EXCEPT ![w] = Tail(pipe[w])]
  /\ bridge' = [bridge EXCEPT ![w] = "write"]
  /\ UNCHANGED <<accessVars, page, stream, chat, todo, next, seen>>

\* The bridge of w returns: the connection of the browser is closed and the
\* context of the stream ends, with what was still in it.
Returns(w) ==
  /\ bridge' = [bridge EXCEPT ![w] = "done"]
  /\ page' = [page EXCEPT ![w] = "away"]
  /\ hand' = [hand EXCEPT ![w] = NoMessage]
  /\ pipe' = [pipe EXCEPT ![w] = <<>>]
  /\ next' = [next EXCEPT ![w] = 0]
  /\ seen' = [seen EXCEPT ![w] = 0]
  /\ UNCHANGED <<accessVars, stream, chat, todo>>

\* stream.Recv returns an error, after what was in the stream.
RecvEnd(w) ==
  /\ bridge[w] = "recv" /\ pipe[w] = <<>> /\ stream[w] = "ended"
  /\ Returns(w)

\* conn.WriteJSON to a browser that reads; it has no deadline.
Write(w) ==
  /\ bridge[w] = "write" /\ page[w] = "open"
  /\ bridge' = [bridge EXCEPT ![w] = "recv"]
  /\ hand' = [hand EXCEPT ![w] = NoMessage]
  /\ seen' = [seen EXCEPT ![w] = Succ(hand[w])]
  /\ UNCHANGED <<accessVars, page, stream, pipe, chat, todo, next>>

\* To one that left: the kernel takes the bytes all the same ...
WriteLost(w) ==
  /\ bridge[w] = "write" /\ page[w] = "left"
  /\ bridge' = [bridge EXCEPT ![w] = "recv"]
  /\ hand' = [hand EXCEPT ![w] = NoMessage]
  /\ seen' = [seen EXCEPT ![w] = Succ(hand[w])]
  /\ UNCHANGED <<accessVars, page, stream, pipe, chat, todo, next>>

\* Mutant: the error of the write is only logged.
FaultyWriteFails(w) ==
  /\ bridge[w] = "write" /\ page[w] = "left"
  /\ bridge' = [bridge EXCEPT ![w] = "recv"]
  /\ hand' = [hand EXCEPT ![w] = NoMessage]
  /\ UNCHANGED <<accessVars, page, stream, pipe, chat, todo, next, seen>>

\* ... until the connection is known to be broken, and the bridge returns.
WriteFails(w) == bridge[w] = "write" /\ page[w] = "left" /\ Returns(w)

Connected == {"open", "stalled"}

SetPage(w, to) ==
  /\ page' = [page EXCEPT ![w] = to]
  /\ UNCHANGED <<accessVars, bridge, stream, pipe, hand, chat, todo, next, seen>>

\* The browser goes, with or without a close frame: nobody reads one.
Leave(w) == page[w] \in Connected /\ SetPage(w, "left")

\* A browser, or the network before it, stops taking bytes, or goes on.
Stall(w) == page[w] = "open" /\ SetPage(w, "stalled")
Resume(w) == page[w] = "stalled" /\ SetPage(w, "open")

\* The gateway has no graceful stop: every bridge is gone at once.
GatewayDies ==
  /\ "gateway" \in Faults
  /\ page' = [w \in Sockets |-> "away"]
  /\ bridge' = [w \in Sockets |-> IF bridge[w] = "idle" THEN "idle" ELSE "done"]
  /\ hand' = [w \in Sockets |-> NoMessage]
  /\ pipe' = [w \in Sockets |-> <<>>]
  /\ next' = [w \in Sockets |-> 0]
  /\ seen' = [w \in Sockets |-> 0]
  /\ UNCHANGED <<accessVars, stream, chat, todo>>

\* Both ends of the call are over, and no Push holds its stream.
Forget(w) ==
  /\ bridge[w] = "done" /\ stream[w] \in {"none", "ended"}
  /\ \A p \in Pushers : \A i \in DOMAIN todo[p] : todo[p][i] # w
  /\ Exit(w)
  /\ bridge' = [bridge EXCEPT ![w] = "idle"]
  /\ stream' = [stream EXCEPT ![w] = "none"]
  /\ UNCHANGED <<page, pipe, hand, chat, todo, next, seen>>

-----------------------------------------------------------------------------
(* The Subscribe call in the chat service.                                 *)

SetStream(w, to) ==
  /\ stream' = [stream EXCEPT ![w] = to]
  /\ UNCHANGED <<page, bridge, pipe, hand, chat, todo, next, seen>>

\* A stream that reaches a server which is stopping, or none, is refused.
Arrive(w) ==
  /\ stream[w] = "sent"
  /\ \/ chat = "up" /\ Enter(w) /\ SetStream(w, "gate")
     \/ chat # "up" /\ UNCHANGED accessVars /\ SetStream(w, "ended")

InGate(w) == stream[w] = "gate" /\ Intercept(w) /\ UNCHANGED bridgeVars

\* Mutant: a stream that is refused is not ended.
FaultyRefuse(w) ==
  /\ stream[w] = "gate" /\ gate[w] = "refused" /\ bridge[w] = "done"
  /\ UNCHANGED accessVars /\ SetStream(w, "ended")

Refuse(w) ==
  /\ stream[w] = "gate" /\ gate[w] = "refused"
  /\ UNCHANGED accessVars /\ SetStream(w, "ended")

\* serverAPI.Subscribe: hub.Subscribe, and wait for the end of the context.
Register(w) ==
  /\ stream[w] = "gate" /\ gate[w] = "passed"
  /\ UNCHANGED accessVars /\ SetStream(w, "open")

\* Mutant: the stream has a context of its own.
FaultyContextDone(w) == FALSE

\* The context of the stream ends when the bridge has returned.
ContextDone(w) == bridge[w] = "done"

Unsubscribe(w) ==
  /\ stream[w] = "open" /\ ContextDone(w)
  /\ UNCHANGED accessVars /\ SetStream(w, "ended")

-----------------------------------------------------------------------------
(* Hub.Push and the chat process.                                          *)

Registered(u) == {w \in Sockets : stream[w] = "open" /\ token[header[w]].user = u}

\* The orders in which a slice may hold the streams of S.
Orders(S) ==
  {s \in [1..Cardinality(S) -> S] : \A i, j \in DOMAIN s : i # j => s[i] # s[j]}

\* SendMessage pushes to the streams of a member, whatever other calls do.
Push(p, u) ==
  /\ chat # "down" /\ todo[p] = <<>>
  /\ Registered(u) # {}
  /\ \E s \in Orders(Registered(u)) : todo' = [todo EXCEPT ![p] = s]
  /\ UNCHANGED <<accessVars, page, bridge, stream, pipe, hand, chat, next, seen>>

Deliver(w) ==
  /\ pipe' = [pipe EXCEPT ![w] = Append(@, next[w])]
  /\ next' = [next EXCEPT ![w] = Succ(@)]

Sent(p) ==
  /\ todo' = [todo EXCEPT ![p] = Tail(@)]
  /\ UNCHANGED <<accessVars, page, bridge, stream, hand, chat, seen>>

Over(w) == stream[w] # "open" \/ ContextDone(w)

\* Mutants: a Send that does not wait for room, and one that does
\* not return when the stream is over.
FaultySendDrops(p, w) ==
  /\ \/ ~Over(w) /\ Len(pipe[w]) < Window /\ Deliver(w)
     \/ /\ ~Over(w) /\ Len(pipe[w]) >= Window
        /\ next' = [next EXCEPT ![w] = Succ(@)]
        /\ UNCHANGED pipe
     \/ Over(w) /\ UNCHANGED <<pipe, next>>
  /\ Sent(p)

FaultySendWaits(p, w) == ~Over(w) /\ Len(pipe[w]) < Window /\ Deliver(w) /\ Sent(p)

\* stream.Send: waits for room in the window, without a deadline; an error,
\* when the stream is over, is thrown away.
Send(p, w) ==
  /\ \/ ~Over(w) /\ Len(pipe[w]) < Window /\ Deliver(w)
     \/ Over(w) /\ UNCHANGED <<pipe, next>>
  /\ Sent(p)

\* The walk of a Push.
SendNext(p) == todo[p] # <<>> /\ Send(p, Head(todo[p]))

SetChat(to) ==
  /\ chat' = to
  /\ UNCHANGED <<accessVars, page, bridge, stream, pipe, hand, todo, next, seen>>

\* SIGTERM: GracefulStop takes no new calls ...
Terminate == chat = "up" /\ SetChat("stopping")

\* ... and returns when none is in progress.
Stopped ==
  /\ chat = "stopping" /\ \A p \in Pushers : todo[p] = <<>>
  /\ \A w \in Sockets : stream[w] \notin {"gate", "open"}
  /\ SetChat("down")

\* The process is killed: what had not left it is lost.
Kill ==
  /\ "crash" \in Faults /\ chat # "down"
  /\ chat' = "down"
  /\ todo' = [p \in Pushers |-> <<>>]
  /\ stream' = [w \in Sockets |-> IF stream[w] = "none" THEN "none" ELSE "ended"]
  /\ \E kept \in [Sockets -> 0..Window] :
       pipe' = [w \in Sockets |-> IF kept[w] < Len(pipe[w]) THEN SubSeq(pipe[w], 1, kept[w])
                                                           ELSE pipe[w]]
  /\ UNCHANGED <<accessVars, page, bridge, hand, next, seen>>

Restart == chat = "down" /\ SetChat("up")

-----------------------------------------------------------------------------
Serve(w) == Arrive(w) \/ InGate(w) \/ Refuse(w) \/ Register(w) \/ Unsubscribe(w)

Next ==
  \/ \E w \in Sockets :
       \/ Upgrade(w) \/ Recv(w) \/ RecvEnd(w) \/ Write(w) \/ WriteLost(w) \/ WriteFails(w)
       \/ Leave(w) \/ Stall(w) \/ Resume(w) \/ Forget(w)
       \/ Serve(w)
  \/ \E p \in Pushers : SendNext(p) \/ \E u \in Users : Push(p, u)
  \/ GatewayDies \/ Terminate \/ Stopped \/ Kill \/ Restart
  \/ Elsewhere /\ UNCHANGED bridgeVars

Spec == Init /\ [][Next]_vars

\* The goroutines run, and TCP finds out in the end that a browser is gone.
\* Nothing makes a browser that stalled read again, nor anyone send, leave or
\* stop a process, and nobody is next in line for room in a window.
FairSpec ==
  /\ Spec
  /\ \A w \in Sockets :
       /\ WF_vars(Recv(w) \/ RecvEnd(w) \/ Write(w)) /\ SF_vars(WriteFails(w))
       /\ WF_vars(Serve(w))
  /\ \A p \in Pushers : WF_vars(SendNext(p))
  /\ WF_vars(Stopped)

-----------------------------------------------------------------------------
\* What is on its way to a page, from the hand of the bridge to the end of the
\* stream.
OnItsWay(w) == (IF hand[w] = NoMessage THEN <<>> ELSE <<hand[w]>>) \o pipe[w]

\* The numbers a page is to get, as far as they are known: those on their way
\* and, while the stream is open, the next one.
Due(w) == OnItsWay(w) \o (IF stream[w] = "open" THEN <<next[w]>> ELSE <<>>)

\* A page gets the messages pushed to its stream without a gap, none twice and
\* in the order of the pushes, through the window, the stream and the bridge:
\* what it misses is the end only, when a process dies (ws.go:53-72, hub.go:54).
DeliveredInOrder ==
  \A w \in Sockets : page[w] \in Connected =>
    /\ Due(w) # <<>> => Head(Due(w)) = seen[w]
    /\ \A i \in 1..(Len(Due(w)) - 1) : Due(w)[i + 1] = Succ(Due(w)[i])

\* A Send that finds no room waits.
Waits(p) ==
  LET w == Head(todo[p])
  IN  todo[p] # <<>> /\ ~Over(w) /\ Len(pipe[w]) >= Window

\* A Push never waits for nobody: at the other end of the full window is a bridge
\* that can read from it, or one with a message for a browser that is there or
\* has only just gone; no return of a bridge, no death of a process and no other
\* Push leaves it behind a stream that nobody reads (hub.go:56 and ws.go:53-72).
PushWaitsForReader ==
  \A p \in Pushers : Waits(p) =>
    LET w == Head(todo[p])
    IN  \/ bridge[w] = "recv" /\ pipe[w] # <<>>
        \/ bridge[w] = "write" /\ hand[w] # NoMessage /\ page[w] # "away"

\* Every Push returns, provided no browser stays connected without reading and
\* the pushes come to an end: what other pushes put in the window, and browsers
\* that leave, hold it up for a while only (hub.go:54-57, where nothing else
\* bounds the wait).
PushReturns ==
  /\ <>[](\A w \in Sockets : page[w] # "stalled")
  /\ <>[][\A p \in Pushers : todo[p] = <<>> => todo'[p] = <<>>]_vars
  => <>[](\A p \in Pushers : todo[p] = <<>>)

\* A browser that left is unsubscribed, provided pushes keep coming to its stream:
\* nothing but a failing write tells the bridge (ws.go:53).
GoneIsNoticed ==
  \A w \in Sockets :
    []<>(\E p \in Pushers : todo[p] # <<>> /\ Head(todo[p]) = w)
      => (page[w] = "left" ~> stream[w] # "open")

\* Only a Subscribe stream that stays open can keep GracefulStop from returning,
\* never a push nor a call that is being refused (app.go:80).
StopWaitsForStreams ==
  <>[](chat = "stopping") => <>[](\E w \in Sockets : stream[w] = "open")
=============================================================================
