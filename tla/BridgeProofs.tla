---------------------------- MODULE BridgeProofs ----------------------------
(***************************************************************************)
(* Types, and the order of delivery, for any number of browsers, any       *)
(* window and any numbering.                                               *)
(***************************************************************************)
EXTENDS Bridge, AccessProofs, SequenceTheorems, FiniteSetTheorems

BridgeTypes ==
  /\ page \in [Callers -> {"away", "open", "stalled", "left"}]
  /\ bridge \in [Callers -> {"idle", "recv", "write", "done"}]
  /\ stream \in [Callers -> {"none", "sent", "gate", "open", "ended"}]
  /\ pipe \in [Callers -> Seq(Number)] /\ \A w \in Callers : Len(pipe[w]) <= Window
  /\ hand \in [Callers -> Number \cup {NoMessage}]
  /\ chat \in {"up", "stopping", "down"}
  /\ todo \in [Pushers -> Seq(Callers)]
  /\ next \in [Callers -> Number]
  /\ seen \in [Callers -> Number]

\* What the two ends of a call know of each other.
Phases ==
  \A w \in Callers :
    /\ bridge[w] = "idle" => stream[w] = "none" /\ gate[w] = "none"
    /\ bridge[w] \in {"recv", "write"} <=> page[w] # "away"
    /\ bridge[w] = "write" <=> hand[w] # NoMessage
    /\ bridge[w] = "done" \/ stream[w] \in {"none", "sent", "gate"} =>
         pipe[w] = <<>> /\ hand[w] = NoMessage /\ next[w] = 0 /\ seen[w] = 0

\* d begins with n and goes on without a gap.
Chain(d, n) ==
  /\ d # <<>> => Head(d) = n
  /\ \A i \in 1..(Len(d) - 1) : d[i + 1] = Succ(d[i])

InOrder == \A w \in Callers : page[w] \in Connected => Chain(Due(w), seen[w])

IInv ==
  /\ AccessInv
  /\ BridgeTypes
  /\ Phases
  /\ InOrder

-----------------------------------------------------------------------------
(* Numbers and chains.                                                     *)

LEMMA SuccType == ASSUME NEW n \in Number PROVE Succ(n) \in Number
  BY BridgeAssumption DEF Number, Succ

LEMMA NumberType == 0 \in Number /\ Number \subseteq Nat /\ NoMessage \notin Number
  BY BridgeAssumption DEF Number

LEMMA ChainTail ==
  ASSUME NEW d \in Seq(Number), NEW n, d # <<>>, Chain(d, n)
  PROVE  Chain(Tail(d), Succ(n))
  BY DEF Chain

LEMMA ChainAppend ==
  ASSUME NEW d \in Seq(Number), NEW n \in Number, NEW s, Chain(Append(d, n), s)
  PROVE  Chain(Append(Append(d, n), Succ(n)), s)
  <1> DEFINE e == Append(d, n)
             f == Append(e, Succ(n))
  <1>1. e \in Seq(Number) /\ e # <<>> /\ Len(e) \in Nat \ {0} /\ e[Len(e)] = n
    OBVIOUS
  <1>2. Chain(e, s)
    OBVIOUS
  <1> HIDE DEF e
  <1>3. /\ f \in Seq(Number) /\ Len(f) = Len(e) + 1 /\ f[Len(f)] = Succ(n)
        /\ \A i \in 1..Len(e) : f[i] = e[i]
    BY <1>1, SuccType
  <1>4. f # <<>> /\ Head(f) = f[1] /\ Head(e) = e[1]
    BY <1>1, <1>3
  <1> HIDE DEF f
  <1>5. Chain(f, s)
    BY <1>1, <1>2, <1>3, <1>4 DEF Chain
  <1> QED BY <1>5 DEF e, f

LEMMA ChainPrefix ==
  ASSUME NEW d \in Seq(Number), NEW e \in Seq(Number), NEW s, Chain(d, s),
         Len(e) <= Len(d), \A i \in 1..Len(e) : e[i] = d[i]
  PROVE  Chain(e, s)
  <1>1. CASE e = <<>>
    BY <1>1 DEF Chain
  <1>2. CASE e # <<>>
    <2>1. d # <<>> /\ Head(e) = Head(d)
      BY <1>2
    <2>2. Head(e) = s
      BY <2>1 DEF Chain
    <2>3. \A i \in 1..(Len(e) - 1) : i \in 1..(Len(d) - 1) /\ e[i + 1] = d[i + 1] /\ e[i] = d[i]
      OBVIOUS
    <2>4. \A i \in 1..(Len(e) - 1) : e[i + 1] = Succ(e[i])
      BY <2>3 DEF Chain
    <2> QED BY <2>2, <2>4 DEF Chain
  <1> QED BY <1>1, <1>2

LEMMA ChainOne == ASSUME NEW n \in Number PROVE Chain(<<n>>, n)
  BY DEF Chain

LEMMA DueType ==
  ASSUME BridgeTypes, NEW w \in Callers
  PROVE  /\ OnItsWay(w) \in Seq(Number) /\ Due(w) \in Seq(Number)
         /\ Due(w) = IF stream[w] = "open" THEN Append(OnItsWay(w), next[w]) ELSE OnItsWay(w)
  <1>1. OnItsWay(w) \in Seq(Number)
    <2>1. pipe[w] \in Seq(Number) /\ hand[w] \in Number \cup {NoMessage}
      BY DEF BridgeTypes
    <2> QED BY <2>1 DEF OnItsWay
  <1>2. next[w] \in Number
    BY DEF BridgeTypes
  <1> QED BY <1>1, <1>2 DEF Due

-----------------------------------------------------------------------------
(* The steps.  A page that keeps what is due to it keeps its order.        *)

LEMMA SameOrder ==
  ASSUME IInv, NEW w \in Callers, page'[w] \in Connected => page[w] \in Connected,
         UNCHANGED <<pipe[w], hand[w], next[w], seen[w]>>,
         page'[w] \in Connected => (stream'[w] = "open" <=> stream[w] = "open")
  PROVE  page'[w] \in Connected => Chain(Due(w), seen[w])'
  BY DEF IInv, InOrder, Due, OnItsWay, Chain

LEMMA UpgradeStep ==
  ASSUME IInv, NEW w \in Callers, Upgrade(w)
  PROVE  IInv'
  <1>1. \/ \E h \in Headers : header' = [header EXCEPT ![w] = h]
        \/ UNCHANGED header
    BY DEF Upgrade
  <1>2. /\ UNCHANGED <<book, clock, verdict, token, gate, since>>
        /\ UNCHANGED <<pipe, hand, chat, todo, next, seen>>
        /\ bridge[w] = "idle" /\ w \in Callers
        /\ gate[w] = "none" /\ stream[w] = "none"
    BY DEF Upgrade, ledger, IInv, Phases, Sockets
  <1>3. AccessInv'
    <2>1. CASE UNCHANGED header
      BY <1>2, <2>1, AccessStutter DEF IInv, accessVars
    <2>2. ASSUME NEW h \in Headers, header' = [header EXCEPT ![w] = h]
          PROVE  AccessInv'
      BY <1>2, <2>2, HeaderKeeps DEF IInv
    <2> QED BY <1>1, <2>1, <2>2
  <1>4. \/ /\ page' = [page EXCEPT ![w] = "open"]
           /\ bridge' = [bridge EXCEPT ![w] = "recv"]
           /\ stream' = [stream EXCEPT ![w] = "sent"]
        \/ bridge' = [bridge EXCEPT ![w] = "done"] /\ UNCHANGED <<page, stream>>
    BY DEF Upgrade
  <1>5. BridgeTypes'
    BY <1>2, <1>4 DEF IInv, BridgeTypes
  <1>6. Phases'
    <2> SUFFICES ASSUME NEW v \in Callers
                 PROVE  /\ bridge'[v] = "idle" => stream'[v] = "none" /\ gate'[v] = "none"
                        /\ bridge'[v] \in {"recv", "write"} <=> page'[v] # "away"
                        /\ bridge'[v] = "write" <=> hand'[v] # NoMessage
                        /\ bridge'[v] = "done" \/ stream'[v] \in {"none", "sent", "gate"} =>
                             /\ pipe'[v] = <<>> /\ hand'[v] = NoMessage
                             /\ next'[v] = 0 /\ seen'[v] = 0
      BY DEF Phases
    <2>1. CASE v # w
      BY <1>2, <1>4, <2>1 DEF IInv, BridgeTypes, Phases
    <2>2. CASE v = w
      <3>1. /\ page[w] = "away" /\ hand[w] = NoMessage /\ pipe[w] = <<>>
            /\ next[w] = 0 /\ seen[w] = 0
        BY <1>2 DEF IInv, Phases
      <3> QED BY <1>2, <1>4, <2>2, <3>1 DEF IInv, BridgeTypes
    <2> QED BY <2>1, <2>2
  <1>7. InOrder'
    <2> SUFFICES ASSUME NEW v \in Callers, page'[v] \in Connected
                 PROVE  Chain(Due(v), seen[v])'
      BY DEF InOrder
    <2>1. CASE v # w
      BY <1>2, <1>4, <2>1, SameOrder DEF IInv, BridgeTypes
    <2>2. CASE v = w
      <3>1. page[w] = "away"
        BY <1>2 DEF IInv, BridgeTypes, Phases
      <3>2. stream'[w] = "sent" /\ pipe'[w] = <<>> /\ hand'[w] = NoMessage
        BY <1>2, <1>4, <2>2, <3>1 DEF IInv, BridgeTypes, Phases, Connected
      <3>3. Due(w)' = <<>>
        BY <3>2 DEF Due, OnItsWay
      <3> QED BY <2>2, <3>3 DEF Chain
    <2> QED BY <2>1, <2>2
  <1> QED BY <1>3, <1>5, <1>6, <1>7 DEF IInv

LEMMA RecvStep ==
  ASSUME IInv, NEW w \in Callers, Recv(w)
  PROVE  IInv'
  <1>1. /\ w \in Callers /\ bridge[w] = "recv" /\ pipe[w] # <<>>
        /\ hand' = [hand EXCEPT ![w] = Head(pipe[w])]
        /\ pipe' = [pipe EXCEPT ![w] = Tail(pipe[w])]
        /\ bridge' = [bridge EXCEPT ![w] = "write"]
        /\ UNCHANGED <<page, stream, chat, todo, next, seen>>
    BY DEF Recv, Sockets
  <1>2. AccessInv'
    BY AccessStutter DEF Recv, IInv
  <1>3. /\ pipe[w] \in Seq(Number) /\ Len(pipe[w]) <= Window
        /\ Head(pipe[w]) \in Number /\ Tail(pipe[w]) \in Seq(Number)
        /\ Len(Tail(pipe[w])) <= Window
    BY <1>1, BridgeAssumption DEF IInv, BridgeTypes
  <1>4. BridgeTypes'
    BY <1>1, <1>3 DEF IInv, BridgeTypes
  <1>5. Phases'
    <2>1. /\ ~(stream[w] \in {"none", "sent", "gate"})
          /\ page[w] # "away"
      BY <1>1 DEF IInv, Phases
    <2>2. bridge'[w] = "write" /\ hand'[w] = Head(pipe[w]) /\ stream'[w] = stream[w]
      BY <1>1 DEF IInv, BridgeTypes
    <2>3. \A v \in Callers : v # w => /\ bridge'[v] = bridge[v] /\ hand'[v] = hand[v]
                                     /\ pipe'[v] = pipe[v] /\ stream'[v] = stream[v]
      BY <1>1 DEF IInv, BridgeTypes
    <2>4. hand'[w] # NoMessage
      BY <1>3, <2>2, NumberType
    <2>5. UNCHANGED gate
      BY DEF Recv, accessVars
    <2> QED BY <1>1, <2>1, <2>2, <2>3, <2>4, <2>5 DEF IInv, Phases
  <1>6. InOrder'
    <2> SUFFICES ASSUME NEW v \in Callers, page'[v] \in Connected
                 PROVE  Chain(Due(v), seen[v])'
      BY DEF InOrder
    <2>1. CASE v # w
      BY <1>1, <2>1, SameOrder DEF IInv, BridgeTypes
    <2>2. CASE v = w
      <3>1. hand[w] = NoMessage /\ hand'[w] = Head(pipe[w]) /\ pipe'[w] = Tail(pipe[w])
        BY <1>1 DEF IInv, BridgeTypes, Phases
      <3>2. hand'[w] # NoMessage
        BY <1>3, <3>1, NumberType
      <3>3. OnItsWay(w) = pipe[w] /\ OnItsWay(w)' = <<Head(pipe[w])>> \o Tail(pipe[w])
        BY <1>3, <3>1, <3>2 DEF OnItsWay
      <3>4. OnItsWay(w)' = OnItsWay(w)
        BY <1>1, <1>3, <3>3
      <3>5. Due(w)' = Due(w)
        BY <1>1, <3>4 DEF Due
      <3> QED BY <1>1, <2>2, <3>5 DEF IInv, InOrder, Chain
    <2> QED BY <2>1, <2>2
  <1> QED BY <1>2, <1>4, <1>5, <1>6 DEF IInv

LEMMA ReturnsStep ==
  ASSUME IInv, NEW w \in Callers, Returns(w), bridge[w] # "idle"
  PROVE  IInv'
  <1>1. /\ w \in Callers
        /\ bridge' = [bridge EXCEPT ![w] = "done"]
        /\ page' = [page EXCEPT ![w] = "away"]
        /\ hand' = [hand EXCEPT ![w] = NoMessage]
        /\ pipe' = [pipe EXCEPT ![w] = <<>>]
        /\ next' = [next EXCEPT ![w] = 0]
        /\ seen' = [seen EXCEPT ![w] = 0]
        /\ UNCHANGED <<gate, stream, chat, todo>>
    BY DEF Returns, Sockets, accessVars
  <1>2. AccessInv'
    BY AccessStutter DEF Returns, IInv
  <1>3. BridgeTypes'
    BY <1>1, NumberType, BridgeAssumption DEF IInv, BridgeTypes
  <1>4. Phases'
    BY <1>1 DEF IInv, BridgeTypes, Phases
  <1>5. InOrder'
    <2> SUFFICES ASSUME NEW v \in Callers, page'[v] \in Connected
                 PROVE  Chain(Due(v), seen[v])'
      BY DEF InOrder
    <2>1. v # w
      BY <1>1 DEF IInv, BridgeTypes, Connected
    <2> QED BY <1>1, <2>1, SameOrder DEF IInv, BridgeTypes
  <1> QED BY <1>2, <1>3, <1>4, <1>5 DEF IInv

LEMMA WriteStep ==
  ASSUME IInv, NEW w \in Callers, Write(w)
  PROVE  IInv'
  <1>1. /\ w \in Callers /\ bridge[w] = "write" /\ page[w] = "open"
        /\ bridge' = [bridge EXCEPT ![w] = "recv"]
        /\ hand' = [hand EXCEPT ![w] = NoMessage]
        /\ seen' = [seen EXCEPT ![w] = Succ(hand[w])]
        /\ UNCHANGED <<gate, page, stream, pipe, chat, todo, next>>
    BY DEF Write, Sockets, accessVars
  <1>2. AccessInv'
    BY AccessStutter DEF Write, IInv
  <1>3. hand[w] \in Number /\ hand[w] # NoMessage /\ Succ(hand[w]) \in Number
    BY <1>1, SuccType DEF IInv, BridgeTypes, Phases
  <1>4. BridgeTypes'
    BY <1>1, <1>3 DEF IInv, BridgeTypes
  <1>5. Phases'
    BY <1>1, <1>3 DEF IInv, BridgeTypes, Phases
  <1>6. InOrder'
    <2> SUFFICES ASSUME NEW v \in Callers, page'[v] \in Connected
                 PROVE  Chain(Due(v), seen[v])'
      BY DEF InOrder
    <2>1. CASE v # w
      BY <1>1, <2>1, SameOrder DEF IInv, BridgeTypes
    <2>2. CASE v = w
      <3> DEFINE rest == pipe[w] \o (IF stream[w] = "open" THEN <<next[w]>> ELSE <<>>)
      <3>1. pipe[w] \in Seq(Number) /\ next[w] \in Number
        BY DEF IInv, BridgeTypes
      <3>2. hand'[w] = NoMessage /\ seen'[w] = Succ(hand[w]) /\ pipe'[w] = pipe[w]
        BY <1>1 DEF IInv, BridgeTypes
      <3>3. Due(w)' = rest
        <4>1. OnItsWay(w)' = pipe[w]
          BY <3>1, <3>2 DEF OnItsWay
        <4> QED BY <1>1, <4>1 DEF Due
      <3>4. rest \in Seq(Number)
        BY <3>1
      <3>5. Due(w) = <<hand[w]>> \o rest
        <4> DEFINE first == <<hand[w]>>
                   last == IF stream[w] = "open" THEN <<next[w]>> ELSE <<>>
        <4>1. OnItsWay(w) = first \o pipe[w]
          BY <1>3 DEF OnItsWay
        <4>2. first \in Seq(Number) /\ last \in Seq(Number)
          BY <1>3, <3>1
        <4>3. Due(w) = (first \o pipe[w]) \o last
          BY <4>1 DEF Due
        <4> HIDE DEF first, last
        <4>4. Due(w) = first \o (pipe[w] \o last)
          <5>1. \A a, b, c \in Seq(Number) : (a \o b) \o c = a \o (b \o c)
            BY ConcatAssociative
          <5> QED BY <3>1, <4>2, <4>3, <5>1, Zenon
        <4> QED BY <4>4 DEF first, last
      <3>6. Due(w) \in Seq(Number) /\ Due(w) # <<>> /\ Head(Due(w)) = hand[w]
            /\ Tail(Due(w)) = rest
        <4> HIDE DEF rest
        <4> QED BY <1>3, <3>4, <3>5
      <3>7. Chain(Due(w), seen[w])
        BY <1>1 DEF IInv, InOrder, Connected
      <3>8. Chain(rest, Succ(hand[w]))
        <4> HIDE DEF rest
        <4>1. seen[w] = hand[w]
          BY <3>6, <3>7 DEF Chain
        <4> QED BY <3>6, <3>7, <4>1, ChainTail
      <3> QED BY <2>2, <3>2, <3>3, <3>8 DEF Chain
    <2> QED BY <2>1, <2>2
  <1> QED BY <1>2, <1>4, <1>5, <1>6 DEF IInv

\* A browser that stalls or goes on is owed the same.
LEMMA StallStep ==
  ASSUME IInv, NEW w \in Callers, Stall(w) \/ Resume(w)
  PROVE  IInv'
  <1>1. PICK to \in Connected : page[w] \in Connected /\ SetPage(w, to)
    BY DEF Stall, Resume, Connected
  <1>2. /\ page' = [page EXCEPT ![w] = to]
        /\ UNCHANGED <<gate, bridge, stream, pipe, hand, chat, todo, next, seen>>
    BY <1>1 DEF SetPage, accessVars
  <1>3. AccessInv'
    BY <1>1, AccessStutter DEF SetPage, IInv
  <1>4. BridgeTypes'
    BY <1>2 DEF IInv, BridgeTypes, Connected
  <1>5. \A v \in Callers :
          /\ page'[v] \in Connected <=> page[v] \in Connected
          /\ page'[v] = "away" <=> page[v] = "away"
    BY <1>1, <1>2 DEF IInv, BridgeTypes, Connected
  <1>6. Phases'
    <2> SUFFICES ASSUME NEW v \in Callers
                 PROVE  /\ bridge'[v] = "idle" => stream'[v] = "none" /\ gate'[v] = "none"
                        /\ bridge'[v] \in {"recv", "write"} <=> page'[v] # "away"
                        /\ bridge'[v] = "write" <=> hand'[v] # NoMessage
                        /\ bridge'[v] = "done" \/ stream'[v] \in {"none", "sent", "gate"} =>
                             /\ pipe'[v] = <<>> /\ hand'[v] = NoMessage
                             /\ next'[v] = 0 /\ seen'[v] = 0
      BY DEF Phases
    <2>1. page'[v] # "away" <=> page[v] # "away"
      BY <1>5
    <2> QED BY <1>2, <2>1 DEF IInv, Phases
  <1>7. InOrder'
    <2> SUFFICES ASSUME NEW v \in Callers, page'[v] \in Connected
                 PROVE  Chain(Due(v), seen[v])'
      BY DEF InOrder
    <2>1. page[v] \in Connected
      BY <1>5
    <2> QED BY <1>2, <2>1, SameOrder
  <1> QED BY <1>3, <1>4, <1>6, <1>7 DEF IInv

\* A page that left is owed nothing, though what is written to it counts.
LEMMA LeftStep ==
  ASSUME IInv, NEW w \in Callers, WriteLost(w) \/ Leave(w)
  PROVE  IInv'
  <1>1. /\ w \in Callers /\ page[w] # "away"
        /\ UNCHANGED <<gate, stream, pipe, chat, todo, next>>
        /\ page' = [page EXCEPT ![w] = "left"]
        /\ \/ bridge[w] = "write" /\ bridge' = [bridge EXCEPT ![w] = "recv"]
              /\ hand' = [hand EXCEPT ![w] = NoMessage]
              /\ seen' = [seen EXCEPT ![w] = Succ(hand[w])]
           \/ UNCHANGED <<bridge, hand, seen>>
    BY DEF WriteLost, Leave, SetPage, Connected, Sockets, accessVars, IInv, BridgeTypes
  <1>2. AccessInv'
    BY AccessStutter DEF WriteLost, Leave, SetPage, IInv
  <1>3. BridgeTypes'
    <2>1. bridge[w] = "write" => Succ(hand[w]) \in Number
      BY SuccType DEF IInv, BridgeTypes, Phases
    <2>2. CASE bridge[w] = "write" /\ seen' = [seen EXCEPT ![w] = Succ(hand[w])]
               /\ bridge' = [bridge EXCEPT ![w] = "recv"]
               /\ hand' = [hand EXCEPT ![w] = NoMessage]
      BY <1>1, <2>1, <2>2 DEF IInv, BridgeTypes
    <2>3. CASE UNCHANGED <<bridge, hand, seen>>
      BY <1>1, <2>3 DEF IInv, BridgeTypes
    <2> QED BY <1>1, <2>2, <2>3
  <1>4. Phases'
    <2>1. bridge[w] = "write" => ~(stream[w] \in {"none", "sent", "gate"})
      BY DEF IInv, Phases
    <2> QED BY <1>1, <2>1 DEF IInv, BridgeTypes, Phases
  <1>5. InOrder'
    <2> SUFFICES ASSUME NEW v \in Callers, page'[v] \in Connected
                 PROVE  Chain(Due(v), seen[v])'
      BY DEF InOrder
    <2>1. v # w
      BY <1>1 DEF IInv, BridgeTypes, Connected
    <2> QED BY <1>1, <2>1, SameOrder DEF IInv, BridgeTypes
  <1> QED BY <1>2, <1>3, <1>4, <1>5 DEF IInv

LEMMA GatewayDiesStep ==
  ASSUME IInv, GatewayDies
  PROVE  IInv'
  <1>1. /\ page' = [w \in Callers |-> "away"]
        /\ bridge' = [w \in Callers |-> IF bridge[w] = "idle" THEN "idle" ELSE "done"]
        /\ hand' = [w \in Callers |-> NoMessage]
        /\ pipe' = [w \in Callers |-> <<>>]
        /\ next' = [w \in Callers |-> 0]
        /\ seen' = [w \in Callers |-> 0]
        /\ UNCHANGED <<gate, stream, chat, todo>>
    BY DEF GatewayDies, Sockets, accessVars
  <1>2. AccessInv'
    BY AccessStutter DEF GatewayDies, IInv
  <1>3. BridgeTypes'
    BY <1>1, NumberType, BridgeAssumption DEF IInv, BridgeTypes
  <1>4. Phases' /\ InOrder'
    BY <1>1 DEF IInv, BridgeTypes, Phases, InOrder, Connected
  <1> QED BY <1>2, <1>3, <1>4 DEF IInv

LEMMA ForgetStep ==
  ASSUME IInv, NEW w \in Callers, Forget(w)
  PROVE  IInv'
  <1>1. /\ w \in Callers /\ Exit(w) /\ bridge[w] = "done"
        /\ bridge' = [bridge EXCEPT ![w] = "idle"]
        /\ stream' = [stream EXCEPT ![w] = "none"]
        /\ UNCHANGED <<page, pipe, hand, chat, todo, next, seen>>
    BY DEF Forget, Sockets
  <1>2. AccessInv' /\ gate' = [gate EXCEPT ![w] = "none"]
    BY <1>1, ExitKeeps DEF IInv, Exit
  <1>3. BridgeTypes'
    BY <1>1 DEF IInv, BridgeTypes
  <1>4. Phases'
    BY <1>1, <1>2 DEF IInv, AccessInv, AccessTypeOK, BridgeTypes, Phases
  <1>5. InOrder'
    <2> SUFFICES ASSUME NEW v \in Callers, page'[v] \in Connected
                 PROVE  Chain(Due(v), seen[v])'
      BY DEF InOrder
    <2>1. v # w
      BY <1>1 DEF IInv, Phases, Connected
    <2> QED BY <1>1, <2>1, SameOrder DEF IInv, BridgeTypes
  <1> QED BY <1>2, <1>3, <1>4, <1>5 DEF IInv

-----------------------------------------------------------------------------
(* The steps of the chat service.                                          *)

LEMMA StreamStep ==
  ASSUME IInv, AccessInv', NEW w \in Callers, NEW to \in {"gate", "open", "ended"},
         SetStream(w, to),
         \A v \in Callers : bridge[v] = "idle" => gate'[v] = "none",
         stream[w] # "none",
         to = "gate" => stream[w] = "sent",
         to = "open" => stream[w] = "gate",
         to = "ended" /\ page[w] \in Connected => stream[w] # "open"
  PROVE  IInv'
  <1>1. /\ stream' = [stream EXCEPT ![w] = to]
        /\ UNCHANGED <<page, bridge, pipe, hand, chat, todo, next, seen>>
    BY DEF SetStream
  <1>2. /\ stream'[w] = to
        /\ \A v \in Callers : v # w => stream'[v] = stream[v]
    BY <1>1 DEF IInv, BridgeTypes
  <1>3. BridgeTypes'
    BY <1>1 DEF IInv, BridgeTypes
  <1>4. Phases'
    BY <1>1, <1>2 DEF IInv, Phases
  <1>5. InOrder'
    <2> SUFFICES ASSUME NEW v \in Callers, page'[v] \in Connected
                 PROVE  Chain(Due(v), seen[v])'
      BY DEF InOrder
    <2>1. CASE v # w \/ to # "open"
      <3>1. stream'[v] = "open" <=> stream[v] = "open"
        BY <1>1, <1>2, <2>1
      <3> QED BY <1>1, <3>1, SameOrder
    <2>2. CASE v = w /\ to = "open"
      <3>1. pipe'[w] = <<>> /\ hand'[w] = NoMessage /\ next'[w] = 0 /\ seen'[w] = 0
        BY <1>1, <2>2 DEF IInv, Phases
      <3>2. OnItsWay(w)' = <<>>
        BY <3>1 DEF OnItsWay
      <3>3. Due(w)' = <<0>>
        BY <1>2, <2>2, <3>1, <3>2 DEF Due
      <3> QED BY <2>2, <3>1, <3>3, ChainOne, NumberType DEF Chain
    <2> QED BY <2>1, <2>2
  <1> QED BY <1>3, <1>4, <1>5 DEF IInv

LEMMA ServeStep ==
  ASSUME IInv, NEW w \in Callers, Serve(w)
  PROVE  IInv'
  <1>1. /\ \A v \in Callers : bridge[v] = "idle" => stream[v] = "none" /\ gate[v] = "none"
        /\ gate \in [Callers -> Gates]
    BY DEF IInv, AccessInv, AccessTypeOK, Phases
  <1>2. CASE Arrive(w)
    <2>1. CASE Enter(w) /\ SetStream(w, "gate")
      <3>1. AccessInv'
        BY <2>1, EnterKeeps DEF IInv
      <3>2. \A v \in Callers : bridge[v] = "idle" => gate'[v] = "none"
        BY <1>1, <1>2, <2>1 DEF Enter, Arrive
      <3> QED BY <1>2, <2>1, <3>1, <3>2, StreamStep DEF Arrive
    <2>2. CASE UNCHANGED accessVars /\ SetStream(w, "ended")
      <3>1. AccessInv' /\ UNCHANGED gate
        BY <2>2, AccessStutter DEF IInv, accessVars
      <3> QED BY <1>1, <1>2, <2>2, <3>1, StreamStep DEF Arrive
    <2> QED BY <1>2, <2>1, <2>2 DEF Arrive
  <1>3. CASE InGate(w)
    <2>1. Intercept(w) /\ UNCHANGED bridgeVars /\ stream[w] = "gate"
      BY <1>3 DEF InGate
    <2>2. AccessInv'
      BY <2>1, InterceptKeeps DEF IInv
    <2>3. \A v \in Callers : bridge[v] = "idle" => gate'[v] = "none"
      BY <1>1, <2>1 DEF Intercept, CheckToken, AskSession, Decide
    <2>4. BridgeTypes'
      BY <2>1 DEF bridgeVars, IInv, BridgeTypes
    <2>5. Phases'
      BY <2>1, <2>3 DEF bridgeVars, IInv, Phases
    <2>6. InOrder'
      BY <2>1 DEF bridgeVars, IInv, InOrder, Chain, Due, OnItsWay
    <2> QED BY <2>2, <2>4, <2>5, <2>6 DEF IInv
  <1>4. ASSUME UNCHANGED accessVars PROVE AccessInv' /\ UNCHANGED gate
    BY <1>4, AccessStutter DEF IInv, accessVars
  <1>5. CASE Refuse(w)
    BY <1>1, <1>4, <1>5, StreamStep DEF Refuse
  <1>6. CASE Register(w)
    BY <1>1, <1>4, <1>6, StreamStep DEF Register
  <1>7. CASE Unsubscribe(w)
    <2>1. page[w] \notin Connected
      BY <1>7 DEF Unsubscribe, ContextDone, IInv, Phases, Connected
    <2> QED BY <1>1, <1>4, <1>7, <2>1, StreamStep DEF Unsubscribe
  <1> QED BY <1>2, <1>3, <1>5, <1>6, <1>7 DEF Serve

LEMMA SendStep ==
  ASSUME IInv, NEW p \in Pushers, SendNext(p)
  PROVE  IInv'
  <1>0. PICK w \in Callers : Send(p, w)
    BY DEF SendNext, IInv, BridgeTypes
  <1>1. /\ todo' = [todo EXCEPT ![p] = Tail(todo[p])]
        /\ todo' \in [Pushers -> Seq(Callers)]
        /\ UNCHANGED <<gate, page, bridge, stream, hand, chat, seen>>
    BY <1>0 DEF SendNext, Send, Sent, accessVars, IInv, BridgeTypes
  <1>2. AccessInv'
    BY <1>0, AccessStutter DEF Send, Sent, IInv
  <1>3. CASE UNCHANGED <<pipe, next>>
    <2>1. BridgeTypes'
      BY <1>1, <1>3 DEF IInv, BridgeTypes
    <2> QED BY <1>1, <1>2, <1>3, <2>1
         DEF IInv, Phases, InOrder, Chain, Due, OnItsWay
  <1>4. CASE ~Over(w) /\ Len(pipe[w]) < Window /\ Deliver(w)
    <2>0. stream[w] = "open" /\ ~ContextDone(w)
      BY <1>4 DEF Over
    <2>1. /\ pipe' = [pipe EXCEPT ![w] = Append(pipe[w], next[w])]
          /\ next' = [next EXCEPT ![w] = Succ(next[w])]
      BY <1>4 DEF Deliver
    <2>2. pipe[w] \in Seq(Number) /\ next[w] \in Number /\ Succ(next[w]) \in Number
      BY SuccType DEF IInv, BridgeTypes
    <2>3. /\ Append(pipe[w], next[w]) \in Seq(Number)
          /\ Len(Append(pipe[w], next[w])) <= Window
      BY <1>4, <2>2, BridgeAssumption
    <2>4. BridgeTypes'
      BY <1>1, <2>1, <2>2, <2>3 DEF IInv, BridgeTypes
    <2>5. Phases'
      BY <1>1, <2>0, <2>1 DEF ContextDone, IInv, BridgeTypes, Phases
    <2>6. InOrder'
      <3> SUFFICES ASSUME NEW v \in Callers, page'[v] \in Connected
                   PROVE  Chain(Due(v), seen[v])'
        BY DEF InOrder
      <3>1. CASE v # w
        BY <1>1, <2>1, <3>1, SameOrder DEF IInv, BridgeTypes
      <3>2. CASE v = w
        <4> DEFINE d == OnItsWay(w)
        <4>1. d \in Seq(Number) /\ Due(w) = Append(d, next[w])
          BY <2>0, DueType DEF IInv
        <4>2. pipe'[w] = Append(pipe[w], next[w]) /\ next'[w] = Succ(next[w])
          BY <2>1 DEF IInv, BridgeTypes
        <4>3. OnItsWay(w)' = Append(d, next[w])
          <5>1. CASE hand[w] = NoMessage
            BY <1>1, <2>2, <4>2, <5>1 DEF OnItsWay
          <5>2. CASE hand[w] # NoMessage
            <6>1. hand[w] \in Number
              BY <5>2 DEF IInv, BridgeTypes
            <6>2. <<hand[w]>> \o Append(pipe[w], next[w]) = Append(<<hand[w]>> \o pipe[w], next[w])
              BY <2>2, <6>1
            <6> QED BY <1>1, <4>2, <5>2, <6>2 DEF OnItsWay
          <5> QED BY <5>1, <5>2
        <4>4. Due(w)' = Append(Append(d, next[w]), Succ(next[w]))
          BY <1>1, <2>0, <2>4, <4>2, <4>3, DueType DEF Due
        <4>5. Chain(Append(d, next[w]), seen[w])
          BY <1>1, <3>2, <4>1 DEF IInv, InOrder
        <4>6. Chain(Append(Append(d, next[w]), Succ(next[w])), seen[w])
          <5> HIDE DEF d
          <5> QED BY <2>2, <4>1, <4>5, ChainAppend
        <4> QED BY <1>1, <3>2, <4>4, <4>6 DEF Chain
      <3> QED BY <3>1, <3>2
    <2> QED BY <1>2, <2>4, <2>5, <2>6 DEF IInv
  <1> QED BY <1>0, <1>3, <1>4 DEF Send

LEMMA KillStep ==
  ASSUME IInv, Kill
  PROVE  IInv'
  <1>1. PICK kept \in [Callers -> 0..Window] :
          pipe' = [w \in Callers |-> IF kept[w] < Len(pipe[w]) THEN SubSeq(pipe[w], 1, kept[w])
                                                              ELSE pipe[w]]
    BY DEF Kill, Sockets
  <1>2. /\ chat' = "down" /\ todo' = [p \in Pushers |-> <<>>]
        /\ stream' = [w \in Callers |-> IF stream[w] = "none" THEN "none" ELSE "ended"]
        /\ UNCHANGED <<gate, page, bridge, hand, next, seen>>
    BY DEF Kill, Sockets, accessVars
  <1>3. AccessInv'
    BY AccessStutter DEF Kill, IInv
  <1>4. ASSUME NEW w \in Callers
        PROVE  /\ pipe'[w] \in Seq(Number) /\ Len(pipe'[w]) <= Len(pipe[w])
               /\ \A i \in 1..Len(pipe'[w]) : pipe'[w][i] = pipe[w][i]
               /\ pipe[w] \in Seq(Number) /\ Len(pipe[w]) <= Window
    <2>1. pipe[w] \in Seq(Number) /\ kept[w] \in Nat /\ Len(pipe[w]) <= Window
      BY BridgeAssumption DEF IInv, BridgeTypes
    <2>2. CASE kept[w] < Len(pipe[w])
      <3>1. pipe'[w] = SubSeq(pipe[w], 1, kept[w])
        BY <1>1, <2>2
      <3> QED BY <2>1, <2>2, <3>1
    <2>3. CASE ~(kept[w] < Len(pipe[w]))
      BY <1>1, <2>1, <2>3
    <2> QED BY <2>1, <2>2, <2>3
  <1>5. BridgeTypes'
    <2>1. pipe' \in [Callers -> Seq(Number)]
      BY <1>1, <1>4
    <2>2. \A w \in Callers : Len(pipe'[w]) <= Window
      BY <1>4, BridgeAssumption
    <2> QED BY <1>2, <2>1, <2>2 DEF IInv, BridgeTypes
  <1>6. Phases'
    <2>1. \A w \in Callers : pipe[w] = <<>> => pipe'[w] = <<>>
      BY <1>4
    <2> QED BY <1>2, <2>1 DEF IInv, BridgeTypes, Phases
  <1>7. InOrder'
    <2> SUFFICES ASSUME NEW v \in Callers, page'[v] \in Connected
                 PROVE  Chain(Due(v), seen[v])'
      BY DEF InOrder
    <2>1. Due(v)' = OnItsWay(v)' /\ OnItsWay(v)' \in Seq(Number)
      <3>1. pipe'[v] \in Seq(Number) /\ hand'[v] \in Number \cup {NoMessage}
        BY <1>4, <1>5 DEF BridgeTypes
      <3>2. OnItsWay(v)' \in Seq(Number)
        BY <3>1 DEF OnItsWay
      <3>3. stream'[v] # "open"
        BY <1>2
      <3>4. Due(v)' = OnItsWay(v)' \o <<>>
        BY <3>3 DEF Due
      <3> HIDE DEF OnItsWay, Due
      <3> QED BY <3>2, <3>4
    <2>2. Due(v) \in Seq(Number) /\ Chain(Due(v), seen[v])
      BY <1>2, DueType DEF IInv, InOrder
    <2>3. /\ Len(OnItsWay(v)') <= Len(Due(v))
          /\ \A i \in 1..Len(OnItsWay(v)') : OnItsWay(v)'[i] = Due(v)[i]
      <3>1. next[v] \in Number /\ hand[v] \in Number \cup {NoMessage} /\ hand'[v] = hand[v]
        BY <1>2 DEF IInv, BridgeTypes
      <3>2. /\ Len(OnItsWay(v)') <= Len(OnItsWay(v))
            /\ \A i \in 1..Len(OnItsWay(v)') : OnItsWay(v)'[i] = OnItsWay(v)[i]
        <4>1. CASE hand[v] = NoMessage
          BY <1>4, <3>1, <4>1 DEF OnItsWay
        <4>2. CASE hand[v] # NoMessage
          <5> DEFINE p == pipe[v]
                     q == pipe'[v]
                     h == hand[v]
          <5>1. /\ p \in Seq(Number) /\ q \in Seq(Number) /\ h \in Number
                /\ Len(q) <= Len(p) /\ \A i \in 1..Len(q) : q[i] = p[i]
            BY <1>4, <3>1, <4>2
          <5>2. OnItsWay(v) = <<h>> \o p /\ OnItsWay(v)' = <<h>> \o q
            BY <3>1, <4>2 DEF OnItsWay
          <5> HIDE DEF p, q, h
          <5>3. /\ Len(<<h>> \o q) = Len(q) + 1 /\ Len(<<h>> \o p) = Len(p) + 1
                /\ \A i \in 1..(Len(q) + 1) : (<<h>> \o q)[i] = IF i = 1 THEN h ELSE q[i - 1]
                /\ \A i \in 1..(Len(p) + 1) : (<<h>> \o p)[i] = IF i = 1 THEN h ELSE p[i - 1]
            BY <5>1
          <5>4. Len(p) \in Nat /\ Len(q) \in Nat
            BY <5>1
          <5>5. \A i \in 1..(Len(q) + 1) : (<<h>> \o q)[i] = (<<h>> \o p)[i]
            BY <5>1, <5>3, <5>4
          <5> QED BY <5>1, <5>2, <5>3, <5>4, <5>5
        <4> QED BY <4>1, <4>2
      <3>3. /\ Len(OnItsWay(v)) <= Len(Due(v))
            /\ \A i \in 1..Len(OnItsWay(v)) : OnItsWay(v)[i] = Due(v)[i]
        <4>1. /\ OnItsWay(v) \in Seq(Number)
              /\ Due(v) = OnItsWay(v) \/ Due(v) = Append(OnItsWay(v), next[v])
          BY DueType DEF IInv
        <4> HIDE DEF OnItsWay, Due
        <4> QED BY <3>1, <4>1
      <3> QED BY <2>1, <2>2, <3>2, <3>3
    <2>4. Chain(OnItsWay(v)', seen[v])
      BY <2>1, <2>2, <2>3, ChainPrefix
    <2> QED BY <1>2, <2>1, <2>4 DEF Chain
  <1> QED BY <1>3, <1>5, <1>6, <1>7 DEF IInv

LEMMA PlainStep ==
  ASSUME IInv, AccessInv', UNCHANGED gate, BridgeTypes',
         UNCHANGED <<page, bridge, stream, pipe, hand, next, seen>>
  PROVE  IInv'
  BY DEF IInv, Phases, InOrder, Chain, Due, OnItsWay

LEMMA ProcessStep ==
  ASSUME IInv, Terminate \/ Stopped \/ Restart
               \/ \E p \in Pushers, u \in Users : Push(p, u)
  PROVE  IInv'
  <1>0. ASSUME NEW p \in Pushers, NEW u \in Users, Push(p, u)
        PROVE  todo' \in [Pushers -> Seq(Callers)]
    <2>1. PICK s \in Orders(Registered(u)) : todo' = [todo EXCEPT ![p] = s]
      BY <1>0 DEF Push
    <2>2. Cardinality(Registered(u)) \in Nat
      BY FS_Subset, FS_CardinalityType, BridgeAssumption DEF Registered, Sockets
    <2>3. PICK n \in Nat : n = Cardinality(Registered(u))
      BY <2>2
    <2>4. s \in [1..n -> Registered(u)] /\ Registered(u) \subseteq Callers
      BY <2>3 DEF Orders, Registered, Sockets
    <2>5. s \in Seq(Registered(u))
      BY <2>4
    <2>6. s \in Seq(Callers)
      BY <2>4, <2>5
    <2> QED BY <2>1, <2>6 DEF IInv, BridgeTypes
  <1>1. /\ UNCHANGED accessVars
        /\ UNCHANGED <<page, bridge, stream, pipe, hand, next, seen>>
        /\ chat' \in {"up", "stopping", "down"} /\ todo' \in [Pushers -> Seq(Callers)]
    BY <1>0 DEF Terminate, Stopped, Restart, SetChat, Push, IInv, BridgeTypes
  <1>2. AccessInv' /\ UNCHANGED gate
    BY <1>1, AccessStutter DEF IInv, accessVars
  <1>3. BridgeTypes'
    BY <1>1 DEF IInv, BridgeTypes
  <1> QED BY <1>1, <1>2, <1>3, PlainStep

LEMMA Start == Init => IInv
  <1> SUFFICES ASSUME Init PROVE IInv
    OBVIOUS
  <1>1. AccessInv /\ gate = [x \in Callers |-> "none"]
    BY AccessStart DEF Init, AccessInit
  <1>2. BridgeTypes
    BY NumberType, BridgeAssumption DEF Init, BridgeTypes, Sockets
  <1>3. Phases /\ InOrder
    BY <1>1 DEF Init, Phases, InOrder, Connected, Sockets
  <1> QED BY <1>1, <1>2, <1>3 DEF IInv

LEMMA Step == IInv /\ [Next]_vars => IInv'
  <1> SUFFICES ASSUME IInv, [Next]_vars PROVE IInv'
    OBVIOUS
  <1>1. CASE UNCHANGED vars
    <2>1. AccessInv' /\ UNCHANGED gate
      BY <1>1, AccessStutter DEF vars, accessVars, IInv
    <2>2. BridgeTypes' /\ UNCHANGED <<page, bridge, stream, pipe, hand, next, seen>>
      BY <1>1 DEF vars, IInv, BridgeTypes
    <2> QED BY <2>1, <2>2, PlainStep
  <1>2. CASE Elsewhere /\ UNCHANGED bridgeVars
    <2>1. AccessInv' /\ UNCHANGED gate
      BY <1>2, ElsewhereKeeps DEF Elsewhere, IInv
    <2>2. BridgeTypes' /\ UNCHANGED <<page, bridge, stream, pipe, hand, next, seen>>
      BY <1>2 DEF bridgeVars, IInv, BridgeTypes
    <2> QED BY <2>1, <2>2, PlainStep
  <1>3. ASSUME NEW w \in Callers, RecvEnd(w) \/ WriteFails(w)
        PROVE  IInv'
    <2>1. Returns(w) /\ bridge[w] # "idle"
      BY <1>3 DEF RecvEnd, WriteFails
    <2> QED BY <2>1, ReturnsStep
  <1> QED BY <1>1, <1>2, <1>3, UpgradeStep, RecvStep, WriteStep, LeftStep, StallStep, GatewayDiesStep,
             ForgetStep, ServeStep, SendStep, KillStep, ProcessStep DEF Next, Sockets

LEMMA Invariance == Spec => []IInv
  BY Start, Step, PTL DEF Spec

-----------------------------------------------------------------------------
(* The theorems.                                                           *)

\* Every variable keeps its type, and no stream holds more than its window
\* (hub.go:54, where Send waits).
THEOREM BridgeTypesHold == Spec => []TypeOK
  <1>1. IInv => TypeOK
    BY DEF IInv, AccessInv, BridgeTypes, TypeOK, Sockets
  <1> QED BY <1>1, Invariance, PTL

\* A page gets the messages in the order of the pushes and without a gap,
\* whoever dies, leaves or reads slowly (ws.go:53-72).
THEOREM OrderHolds == Spec => []DeliveredInOrder
  <1>1. IInv => DeliveredInOrder
    BY DEF IInv, InOrder, Chain, DeliveredInOrder, Sockets
  <1> QED BY <1>1, Invariance, PTL

\* A stream that has passed the interceptor came with the token of a session,
\* while both had not run out (auth.go:74-113).
THEOREM StreamsPassedInTime == Spec => []PassedInTime
  <1>1. IInv => PassedInTime
    BY DEF IInv, AccessInv
  <1> QED BY <1>1, Invariance, PTL

\* A Push that waits in Send waits for a bridge that can read, or that has a
\* message for a browser not known to be gone (hub.go:56).
THEOREM PushesWaitForReaders == Spec => []PushWaitsForReader
  <1>1. ASSUME IInv, NEW p \in Pushers, Waits(p)
        PROVE  LET w == Head(todo[p])
               IN  \/ bridge[w] = "recv" /\ pipe[w] # <<>>
                   \/ bridge[w] = "write" /\ hand[w] # NoMessage /\ page[w] # "away"
    <2>1. PICK w \in Callers : w = Head(todo[p])
      BY <1>1 DEF Waits, IInv, BridgeTypes
    <2>2. stream[w] = "open" /\ bridge[w] # "done" /\ Len(pipe[w]) >= Window
      BY <1>1, <2>1 DEF Waits, Over, ContextDone
    <2>3. pipe[w] \in Seq(Number) /\ pipe[w] # <<>>
      BY <1>1, <2>2, BridgeAssumption DEF IInv, BridgeTypes
    <2>4. bridge[w] \in {"recv", "write"}
      BY <1>1, <2>2 DEF IInv, BridgeTypes, Phases
    <2> QED BY <1>1, <2>1, <2>3, <2>4 DEF IInv, Phases
  <1>2. IInv => PushWaitsForReader
    BY <1>1 DEF PushWaitsForReader
  <1> QED BY <1>2, Invariance, PTL
=============================================================================
