-------------------------------- MODULE Hub --------------------------------
(***************************************************************************)
(* The in-memory hub of the chat service (internal/grpc/hub/hub.go): the   *)
(* open Subscribe streams of every user, and Push, which sends a message   *)
(* to all of them.                                                         *)
(*                                                                         *)
(* h.streams[u] is a Go slice: a header (array and length) over a shared   *)
(* backing array.  append writes in place while the array has room, and    *)
(* copies to a bigger array when it has none; Unsubscribe closes the gap   *)
(* in place.  Push copies the header under the read lock and walks the     *)
(* array without any lock: a data race with those writes.  A cell is an    *)
(* interface whose type word is always the same, so a read returns the old *)
(* or the new stream, and the writes of one move may be seen in any order. *)
(*                                                                         *)
(* A stream is named once: every Subscribe call has a stream of its own.   *)
(***************************************************************************)
EXTENDS Naturals, Sequences, SequencesExt, FiniteSetsExt

CONSTANTS
  Users,
  Streams,    \* Subscribe calls
  Pushers,    \* SendMessage calls in progress
  Nobody,     \* neither a stream nor a user
  Arrays      \* backing arrays (bounds the heap)

ASSUME HubAssumption ==
  /\ Nobody \notin Streams \cup Users
  /\ 0 \notin Arrays

VARIABLES
  streams,    \* streams[u]: the header stored in the map, or NoSlice
  heap,       \* heap[a]: the cells of backing array a, as many as its capacity
  stage,      \* stage[s]: how far the Subscribe call of s has come
  user,       \* user[s]: whose stream s is
  writer,     \* the stream whose Unsubscribe holds mu.Lock, or Nobody
  readers,    \* the pushers that hold mu.RLock
  move,       \* the move of Unsubscribe: cells not yet written, and the old cells
  push        \* push[p]: the variables of Push

vars == <<streams, heap, stage, user, writer, readers, move, push>>

-----------------------------------------------------------------------------
NoSlice == [arr |-> 0, len |-> 0]
Slice == [arr : Arrays \cup {0}, len : Nat]

Stage == {"new", "open", "closing", "removing", "gone"}
Registered(u) == {s \in Streams : stage[s] \in {"open", "closing"} /\ user[s] = u}

NoMove == [todo |-> {}, old |-> <<>>]

\* pc: idle, rlock (holds RLock), loop (about to read cell i), send (in Send).
\* History: the streams of the snapshot, the streams sent to, and whether a
\* stream was removed from the array since the snapshot.
Idle == [pc |-> "idle", user |-> Nobody, arr |-> 0, len |-> 0, i |-> 1, to |-> Nobody,
         snap |-> <<>>, sent |-> <<>>, raced |-> FALSE]

TypeOK ==
  /\ streams \in [Users -> Slice]
  /\ heap \in [Arrays -> Seq(Streams \cup {Nobody})]
  /\ \A u \in Users : streams[u] # NoSlice => streams[u].len \in 1..Len(heap[streams[u].arr])
  /\ stage \in [Streams -> Stage]
  /\ user \in [Streams -> Users \cup {Nobody}]
  /\ writer \in Streams \cup {Nobody}
  /\ readers \subseteq Pushers
  /\ move \in [todo : SUBSET Nat, old : Seq(Streams)]
  /\ push \in [Pushers ->
       [pc : {"idle", "rlock", "loop", "send"}, user : Users \cup {Nobody},
        arr : Arrays \cup {0}, len : Nat, i : Nat, to : Streams \cup {Nobody},
        snap : Seq(Streams), sent : Seq(Streams), raced : BOOLEAN]]

Init ==
  /\ streams = [u \in Users |-> NoSlice]
  /\ heap = [a \in Arrays |-> <<>>]
  /\ stage = [s \in Streams |-> "new"]
  /\ user = [s \in Streams |-> Nobody]
  /\ writer = Nobody
  /\ readers = {}
  /\ move = NoMove
  /\ push = [p \in Pushers |-> Idle]

-----------------------------------------------------------------------------
Unlocked == writer = Nobody /\ readers = {}

\* The elements of a slice.
Cells(slice) == IF slice.len = 0 THEN <<>> ELSE SubSeq(heap[slice.arr], 1, slice.len)

Capacity(slice) == IF slice.len = 0 THEN 0 ELSE Len(heap[slice.arr])

\* Arrays no header refers to: the garbage collector has them.
Walking(p) == push[p].pc \in {"loop", "send"}
FreeArrays ==
  Arrays \ ({streams[u].arr : u \in Users} \cup {push[p].arr : p \in {q \in Pushers : Walking(q)}})

\* append with room left writes the cell after the last one.
AppendInPlace(u, s) ==
  LET a == streams[u].arr
      n == streams[u].len
  IN  /\ n < Capacity(streams[u])
      /\ heap' = [heap EXCEPT ![a][n + 1] = s]
      /\ streams' = [streams EXCEPT ![u].len = n + 1]

\* append to a full (or nil) slice copies to an array twice as big.
AppendByCopy(u, s) ==
  LET old == streams[u]
      n == old.len
      cap == IF n = 0 THEN 1 ELSE 2 * n
      a == CHOOSE b \in FreeArrays : TRUE
  IN  /\ n = Capacity(old)
      /\ FreeArrays # {}
      /\ heap' = [heap EXCEPT ![a] = Append(Cells(old), s) \o [k \in 1..(cap - n - 1) |-> Nobody]]
      /\ streams' = [streams EXCEPT ![u] = [arr |-> a, len |-> n + 1]]

\* Hub.Subscribe, under the lock from its first line to its last.
Subscribe(s, u) ==
  /\ stage[s] = "new"
  /\ Unlocked
  /\ AppendInPlace(u, s) \/ AppendByCopy(u, s)
  /\ stage' = [stage EXCEPT ![s] = "open"]
  /\ user' = [user EXCEPT ![s] = u]
  /\ UNCHANGED <<writer, readers, move, push>>

\* The client goes away, or the server is stopped: stream.Context() is done.
Disconnect(s) ==
  /\ stage[s] = "open"
  /\ stage' = [stage EXCEPT ![s] = "closing"]
  /\ UNCHANGED <<streams, heap, user, writer, readers, move, push>>

\* A mutant: the last stream goes and the others stay where they are.
FaultyNoMove(s) ==
  LET slice == streams[user[s]]
  IN  /\ stage[s] = "closing"
      /\ Unlocked
      /\ writer' = s
      /\ stage' = [stage EXCEPT ![s] = "removing"]
      /\ move' = [todo |-> {}, old |-> Cells(slice)]
      /\ push' = [p \in Pushers |->
                   IF Walking(p) /\ push[p].arr = slice.arr
                   THEN [push[p] EXCEPT !.raced = TRUE]
                   ELSE push[p]]
      /\ UNCHANGED <<streams, heap, user, readers>>

\* Unsubscribe takes the lock, finds the stream (it is there: HubExact) and is
\* about to move the cells
\* after it one down: append(streams[:i], streams[i+1:]...).
BeginUnsubscribe(s) ==
  LET slice == streams[user[s]]
      i == CHOOSE k \in 1..slice.len : Cells(slice)[k] = s
  IN  /\ stage[s] = "closing"
      /\ Unlocked
      /\ writer' = s
      /\ stage' = [stage EXCEPT ![s] = "removing"]
      /\ move' = [todo |-> i..(slice.len - 1), old |-> Cells(slice)]
      /\ push' = [p \in Pushers |->
                   IF Walking(p) /\ push[p].arr = slice.arr
                   THEN [push[p] EXCEPT !.raced = TRUE]
                   ELSE push[p]]
      /\ UNCHANGED <<streams, heap, user, readers>>

\* One cell of the move.
MoveCell(s) ==
  /\ stage[s] = "removing"
  /\ \E k \in move.todo :
       /\ heap' = [heap EXCEPT ![streams[user[s]].arr][k] = move.old[k + 1]]
       /\ move' = [move EXCEPT !.todo = @ \ {k}]
  /\ UNCHANGED <<streams, stage, user, writer, readers, push>>

\* A mutant: slices.Delete, which clears the cell that is no longer in use.
FaultyClearTail(s) ==
  LET u == user[s]
      n == streams[u].len
  IN  /\ stage[s] = "removing"
      /\ move.todo = {}
      /\ heap' = [heap EXCEPT ![streams[u].arr][n] = Nobody]
      /\ streams' = [streams EXCEPT ![u] = IF n = 1 THEN NoSlice ELSE [@ EXCEPT !.len = n - 1]]
      /\ stage' = [stage EXCEPT ![s] = "gone"]
      /\ writer' = Nobody
      /\ move' = NoMove
      /\ UNCHANGED <<user, readers, push>>

\* A mutant: the slice that append returns is thrown away.
FaultyKeepHeader(s) ==
  /\ stage[s] = "removing"
  /\ move.todo = {}
  /\ stage' = [stage EXCEPT ![s] = "gone"]
  /\ writer' = Nobody
  /\ move' = NoMove
  /\ UNCHANGED <<streams, heap, user, readers, push>>

\* The shorter header is stored, or the key deleted, and the lock released.
EndUnsubscribe(s) ==
  LET u == user[s]
      n == streams[u].len
  IN  /\ stage[s] = "removing"
      /\ move.todo = {}
      /\ streams' = [streams EXCEPT ![u] = IF n = 1 THEN NoSlice ELSE [@ EXCEPT !.len = n - 1]]
      /\ stage' = [stage EXCEPT ![s] = "gone"]
      /\ writer' = Nobody
      /\ move' = NoMove
      /\ UNCHANGED <<heap, user, readers, push>>

-----------------------------------------------------------------------------
\* Push: mu.RLock.
LockForPush(p, u) ==
  /\ push[p].pc = "idle"
  /\ writer = Nobody
  /\ readers' = readers \cup {p}
  /\ push' = [push EXCEPT ![p] = [Idle EXCEPT !.pc = "rlock", !.user = u]]
  /\ UNCHANGED <<streams, heap, stage, user, writer, move>>

\* A mutant: the read lock is never released.
FaultyKeepLock(p) ==
  LET slice == streams[push[p].user]
  IN  /\ push[p].pc = "rlock"
      /\ push' = [push EXCEPT ![p] =
                   [@ EXCEPT !.pc = "loop", !.arr = slice.arr, !.len = slice.len,
                             !.snap = Cells(slice)]]
      /\ UNCHANGED <<streams, heap, stage, user, writer, readers, move>>

\* streams := h.streams[userID]; mu.RUnlock.
TakeSnapshot(p) ==
  LET slice == streams[push[p].user]
  IN  /\ push[p].pc = "rlock"
      /\ readers' = readers \ {p}
      /\ push' = [push EXCEPT ![p] =
                   [@ EXCEPT !.pc = "loop", !.arr = slice.arr, !.len = slice.len,
                             !.snap = Cells(slice)]]
      /\ UNCHANGED <<streams, heap, stage, user, writer, move>>

\* One turn of the loop: the cell is read now, not when the header was copied.
ReadCell(p) ==
  /\ push[p].pc = "loop"
  /\ push[p].i <= push[p].len
  /\ push' = [push EXCEPT ![p].pc = "send", ![p].to = heap[push[p].arr][push[p].i]]
  /\ UNCHANGED <<streams, heap, stage, user, writer, readers, move>>

\* stream.Send returns: the message is in the stream's flow-control window, or
\* the stream is done and the error is thrown away.
Send(p) ==
  /\ push[p].pc = "send"
  /\ push' = [push EXCEPT ![p].pc = "loop", ![p].i = @ + 1, ![p].to = Nobody,
                          ![p].sent = Append(@, push[p].to)]
  /\ UNCHANGED <<streams, heap, stage, user, writer, readers, move>>

\* A mutant: the loop stops one stream short.
FaultyReturn(p) ==
  /\ push[p].pc = "loop"
  /\ push[p].i >= push[p].len
  /\ push' = [push EXCEPT ![p] = Idle]
  /\ UNCHANGED <<streams, heap, stage, user, writer, readers, move>>

\* The loop is over and Push returns.
Return(p) ==
  /\ push[p].pc = "loop"
  /\ push[p].i > push[p].len
  /\ push' = [push EXCEPT ![p] = Idle]
  /\ UNCHANGED <<streams, heap, stage, user, writer, readers, move>>

Unsubscribe(s) == BeginUnsubscribe(s) \/ MoveCell(s) \/ EndUnsubscribe(s)

Push(p) == TakeSnapshot(p) \/ ReadCell(p) \/ Send(p) \/ Return(p)

Next ==
  \/ \E s \in Streams, u \in Users : Subscribe(s, u)
  \/ \E s \in Streams : Disconnect(s) \/ Unsubscribe(s)
  \/ \E p \in Pushers : (\E u \in Users : LockForPush(p, u)) \/ Push(p)

Spec == Init /\ [][Next]_vars

\* The goroutines run.  A blocked Lock keeps new readers out (sync.RWMutex), so
\* Unsubscribe gets the lock although Push after Push takes the read lock: strong
\* fairness.  Nothing makes a client come, leave or read what is sent to it: Send
\* need not return while its stream is open.
FairSpec ==
  /\ Spec
  /\ \A s \in Streams : SF_vars(Unsubscribe(s))
  /\ \A p \in Pushers : WF_vars(Push(p) /\ (push[p].pc = "send" => stage[push[p].to] # "open"))

-----------------------------------------------------------------------------
\* While nobody changes it, the map lists every registered stream of every user
\* exactly once, under its user, and has no entry for a user without streams
\* (Subscribe and Unsubscribe, whatever arrays they share with running pushes).
HubExact ==
  writer = Nobody =>
    \A u \in Users :
      /\ IsInjective(Cells(streams[u]))
      /\ ToSet(Cells(streams[u])) = Registered(u)
      /\ Registered(u) = {} => streams[u] = NoSlice

\* Whatever the race does to the array a push walks, the cell it reads holds a
\* stream of the user it pushes to: never another user's, never nil, which
\* would panic (the loop of Push against append and Unsubscribe).
OwnStreamsOnly ==
  \A p \in Pushers :
    push[p].pc = "send" => /\ push[p].to # Nobody
                           /\ user[push[p].to] = push[p].user

\* A push from whose array nobody was removed while it walked has sent to the
\* streams of its snapshot, each once and in order, by the time it returns.
QuietPushComplete ==
  [][\A p \in Pushers :
       (push[p].pc = "loop" /\ push'[p].pc = "idle" /\ ~push[p].raced)
         => push[p].sent = push[p].snap]_vars

\* A client that went away is unregistered in the end, whoever is being pushed
\* to: no push keeps the lock while a slow subscriber blocks its Send.
LeaverGoes == \A s \in Streams : stage[s] = "closing" ~> stage[s] = "gone"

\* The hub as its callers see it: a push is under way from its snapshot on, a
\* stream has left once Unsubscribe holds the lock.
Board == INSTANCE Subscriptions
           WITH subscribers <- [u \in Users |-> Registered(u)],
                owner <- user,
                target <- [p \in Pushers |-> IF Walking(p) THEN push[p].user ELSE Nobody],
                plan <- [p \in Pushers |-> push[p].snap],
                sent <- [p \in Pushers |-> push[p].sent],
                disturbed <- [p \in Pushers |-> push[p].raced]

\* Through slices that share arrays, cells moved one by one and loops that run
\* without the lock, the hub is the one of Subscriptions: joining and leaving
\* take effect at once, a push visits what was registered at one instant, and
\* only a stream of the same user that leaves can make it skip or repeat one.
BoardSpec == Board!Spec

\* "Push sends the message to all streams of the user" (the comment on Push): a
\* stream that was open in the snapshot and still is has been sent to.
PushReachesAll ==
  [][\A p \in Pushers :
       (push[p].pc = "loop" /\ push'[p].pc = "idle")
         => {s \in ToSet(push[p].snap) : stage[s] = "open"} \subseteq ToSet(push[p].sent)]_vars
=============================================================================
