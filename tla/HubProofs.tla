------------------------------- MODULE HubProofs -------------------------------
(***************************************************************************)
(* The hub for any number of users, streams and pushes: what the map lists *)
(* and what a push finds in the array it walks without a lock.             *)
(***************************************************************************)
EXTENDS Hub, SequenceTheorems, TLAPS

Arr(u) == streams[u].arr
Length(u) == streams[u].len
Cell(u, k) == heap[Arr(u)][k]

\* mu: many readers or one writer, which is moving cells.
Locks ==
  /\ \A p \in Pushers : p \in readers <=> push[p].pc = "rlock"
  /\ writer # Nobody => readers = {}
  /\ \A s \in Streams : stage[s] = "removing" <=> writer = s

Named == \A s \in Streams : IF stage[s] = "new" THEN user[s] = Nobody ELSE user[s] \in Users

\* Every header has an array of its own.
Headers ==
  /\ \A u \in Users :
       \/ streams[u] = NoSlice
       \/ Arr(u) \in Arrays /\ Length(u) \in 1..Len(heap[Arr(u)])
  /\ \A u, v \in Users : u # v /\ Arr(u) \in Arrays => Arr(u) # Arr(v)

\* The cells of u are its registered streams, each once.
Listed(u) ==
  /\ \A k \in 1..Length(u) : Cell(u, k) \in Registered(u)
  /\ \A x \in Registered(u) : \E k \in 1..Length(u) : Cell(u, k) = x
  /\ \A j, k \in 1..Length(u) : Cell(u, j) = Cell(u, k) => j = k

\* The cells of u while stream s, once the i-th of them, is being removed.
MovingAt(u, s, i) ==
  LET old == move.old
      n == Length(u)
  IN  /\ Len(old) = n /\ n >= 1
      /\ \A j, k \in 1..n : old[j] = old[k] => j = k
      /\ old[i] = s /\ move.todo \subseteq i..(n - 1)
      /\ \A k \in 1..n : k # i => old[k] \in Registered(u)
      /\ \A x \in Registered(u) : \E k \in 1..n : old[k] = x
      /\ \A k \in 1..n : Cell(u, k) = IF k < i \/ k = n \/ k \in move.todo THEN old[k] ELSE old[k + 1]

Removing(u) == writer # Nobody /\ user[writer] = u

Book ==
  \A u \in Users : IF Removing(u) THEN \E i \in 1..Length(u) : MovingAt(u, writer, i) ELSE Listed(u)

\* What push p may rely on while it walks.
Walk(p) ==
  LET q == push[p]
  IN  /\ q.i \in Nat \ {0} /\ q.len \in Nat
      /\ q.len > 0 => /\ q.arr \in Arrays /\ q.len <= Len(heap[q.arr])
                      /\ \A k \in 1..q.len : /\ heap[q.arr][k] \in Streams
                                             /\ user[heap[q.arr][k]] = q.user
                      /\ \A v \in Users : Arr(v) = q.arr => v = q.user
      /\ q.pc = "send" => q.i <= q.len /\ q.to \in Streams /\ user[q.to] = q.user

\* What it may rely on as long as nobody was removed from its array.
Quiet(p) ==
  LET q == push[p]
  IN  /\ Len(q.snap) = q.len
      /\ q.i <= q.len + 1 /\ q.sent = SubSeq(q.snap, 1, q.i - 1)
      /\ \A k \in 1..q.len : heap[q.arr][k] = q.snap[k]
      /\ q.pc = "send" => q.to = q.snap[q.i]
      /\ \A v \in Users : q.len > 0 /\ Arr(v) = q.arr => q.len <= Length(v) /\ ~Removing(v)

\* What a push knows before, and while, it walks.
Going(p) ==
  /\ push[p].pc # "idle" => push[p].user \in Users
  /\ push[p].pc = "rlock" => push[p].i = 1 /\ push[p].sent = <<>>
  /\ Walking(p) => Walk(p) /\ (~push[p].raced => Quiet(p))

Walks == \A p \in Pushers : Going(p)

IInv ==
  /\ TypeOK
  /\ Locks
  /\ Named
  /\ Headers
  /\ Book
  /\ Walks

-----------------------------------------------------------------------------
(* The cells of a slice.                                                   *)

LEMMA CellsAre ==
  ASSUME TypeOK, Headers, NEW u \in Users
  PROVE  /\ Length(u) \in Nat
         /\ Cells(streams[u]) \in Seq(Streams \cup {Nobody})
         /\ Len(Cells(streams[u])) = Length(u)
         /\ \A k \in 1..Length(u) : Cells(streams[u])[k] = Cell(u, k)
  <1>1. Length(u) \in Nat
    BY DEF TypeOK, Slice, Length
  <1>2. CASE Length(u) = 0
    BY <1>2 DEF Cells, Length
  <1>3. CASE Length(u) # 0
    <2>1. Arr(u) \in Arrays /\ Length(u) \in 1..Len(heap[Arr(u)])
      BY <1>3 DEF Headers, NoSlice, Length
    <2>2. heap[Arr(u)] \in Seq(Streams \cup {Nobody})
      BY <2>1 DEF TypeOK
    <2>3. Cells(streams[u]) = SubSeq(heap[Arr(u)], 1, Length(u))
      BY <1>3 DEF Cells, Arr, Length
    <2> QED BY <1>1, <2>1, <2>2, <2>3 DEF Cell
  <1> QED BY <1>1, <1>2, <1>3

LEMMA LengthIsZero ==
  ASSUME Headers, NEW u \in Users
  PROVE  /\ Length(u) = 0 <=> streams[u] = NoSlice
         /\ Arr(u) \in Arrays <=> streams[u] # NoSlice
         /\ Length(u) # 0 => Arr(u) \in Arrays /\ Length(u) \in 1..Len(heap[Arr(u)])
  BY HubAssumption DEF Headers, NoSlice, Length, Arr

\* Every cell of u holds a stream of u, even while one is being removed.
LEMMA OwnCells ==
  ASSUME IInv, NEW u \in Users, NEW k \in 1..Length(u)
  PROVE  Cell(u, k) \in Streams /\ user[Cell(u, k)] = u /\ stage[Cell(u, k)] # "new"
  <1>1. CASE ~Removing(u)
    BY <1>1 DEF IInv, Book, Listed, Registered
  <1>2. CASE Removing(u)
    <2>1. PICK i \in 1..Length(u) : MovingAt(u, writer, i)
      BY <1>2 DEF IInv, Book
    <2>2. writer \in Streams /\ user[writer] = u /\ stage[writer] = "removing"
      BY <1>2 DEF Removing, IInv, TypeOK, Locks
    <2>3. \A j \in 1..Length(u) : /\ move.old[j] \in Streams /\ user[move.old[j]] = u
                                  /\ stage[move.old[j]] # "new"
      BY <2>1, <2>2 DEF MovingAt, Registered
    <2>4. Length(u) \in Nat
      BY CellsAre DEF IInv
    <2>5. k # Length(u) => k + 1 \in 1..Length(u)
      BY <2>4
    <2> QED BY <2>1, <2>3, <2>5 DEF MovingAt
  <1> QED BY <1>1, <1>2

LEMMA IInvExact == ASSUME IInv PROVE HubExact
  <1> SUFFICES ASSUME writer = Nobody, NEW u \in Users
               PROVE  /\ IsInjective(Cells(streams[u]))
                      /\ ToSet(Cells(streams[u])) = Registered(u)
                      /\ Registered(u) = {} => streams[u] = NoSlice
    BY DEF HubExact
  <1>1. Listed(u)
    BY DEF IInv, Book, Removing
  <1>2. PICK c \in Seq(Streams \cup {Nobody}) :
          /\ c = Cells(streams[u]) /\ Len(c) = Length(u) /\ DOMAIN c = 1..Length(u)
          /\ \A k \in 1..Length(u) : c[k] = Cell(u, k)
    BY CellsAre DEF IInv
  <1>3. IsInjective(c) /\ ToSet(c) = Registered(u)
    BY <1>1, <1>2 DEF IsInjective, ToSet, Listed
  <1>4. Registered(u) = {} => Length(u) = 0
    <2>1. Length(u) \in Nat
      BY CellsAre DEF IInv
    <2> QED BY <1>1, <2>1 DEF Listed
  <1> QED BY <1>2, <1>3, <1>4, LengthIsZero DEF IInv

-----------------------------------------------------------------------------
(* The steps of a push.                                                    *)

LEMMA PushOnly ==
  ASSUME IInv, NEW p \in Pushers, \A q \in Pushers \ {p} : push'[q] = push[q],
         UNCHANGED <<streams, heap, stage, user, writer, move>>,
         TypeOK', Locks',
         Going(p)'
  PROVE  IInv'
  <1>1. Named' /\ Headers'
    BY DEF IInv, Named, Headers, Arr, Length
  <1>2. Book'
    <2>1. \A u \in Users : Listed(u)' = Listed(u)
      BY DEF Listed, Registered, Cell, Arr, Length
    <2>2. \A u \in Users : \A i : MovingAt(u, writer, i)' = MovingAt(u, writer, i)
      BY DEF MovingAt, Registered, Cell, Arr, Length
    <2>3. \A u \in Users : Removing(u)' = Removing(u) /\ Length(u)' = Length(u)
      BY DEF Removing, Length
    <2>4. ASSUME NEW u \in Users
          PROVE  (IF Removing(u) THEN \E i \in 1..Length(u) : MovingAt(u, writer, i) ELSE Listed(u))'
      <3>1. CASE Removing(u)
        <4>1. PICK i \in 1..Length(u) : MovingAt(u, writer, i)
          BY <3>1 DEF IInv, Book
        <4> QED BY <2>2, <2>3, <3>1, <4>1
      <3>2. CASE ~Removing(u)
        BY <2>1, <2>3, <3>2 DEF IInv, Book
      <3> QED BY <3>1, <3>2
    <2> QED BY <2>4 DEF Book
  <1>3. Walks'
    <2> SUFFICES ASSUME NEW q \in Pushers, q # p
                 PROVE  Going(q)'
      BY DEF Walks
    <2>1. push'[q] = push[q]
      OBVIOUS
    <2>2. Walk(q)' = Walk(q) /\ Walking(q)' = Walking(q)
      BY <2>1 DEF Walk, Walking, Arr
    <2>3. Quiet(q)' = Quiet(q)
      BY <2>1 DEF Quiet, Arr, Length, Removing
    <2> QED BY <2>1, <2>2, <2>3 DEF IInv, Walks, Going
  <1> QED BY <1>1, <1>2, <1>3 DEF IInv

Pushing ==
  [pc : {"idle", "rlock", "loop", "send"}, user : Users \cup {Nobody},
   arr : Arrays \cup {0}, len : Nat, i : Nat, to : Streams \cup {Nobody},
   snap : Seq(Streams), sent : Seq(Streams), raced : BOOLEAN]

LEMMA PushTyped ==
  ASSUME TypeOK, NEW p \in Pushers, NEW r \in Pushing, push' = [push EXCEPT ![p] = r],
         readers' \subseteq Pushers,
         UNCHANGED <<streams, heap, stage, user, writer, move>>
  PROVE  TypeOK' /\ push'[p] = r /\ \A q \in Pushers \ {p} : push'[q] = push[q]
  <1>1. push' \in [Pushers -> Pushing]
    BY DEF TypeOK, Pushing
  <1> QED BY <1>1 DEF TypeOK, Pushing

LEMMA IdleTyped == Idle \in Pushing /\ Idle.pc = "idle" /\ Idle.i = 1 /\ Idle.sent = <<>>
  <1>1. <<>> \in Seq(Streams)
    OBVIOUS
  <1> QED BY <1>1 DEF Idle, Pushing

LEMMA LockForPushStep ==
  ASSUME IInv, NEW p \in Pushers, NEW u \in Users, LockForPush(p, u)
  PROVE  IInv'
  <1> DEFINE r == [Idle EXCEPT !.pc = "rlock", !.user = u]
  <1>1. r \in Pushing /\ r.pc = "rlock" /\ r.user = u /\ r.i = 1 /\ r.sent = <<>>
    BY IdleTyped DEF Pushing
  <1> HIDE DEF r
  <1>2. push' = [push EXCEPT ![p] = r] /\ readers' = readers \cup {p}
    BY DEF LockForPush, r
  <1>3. TypeOK' /\ push'[p] = r /\ \A q \in Pushers \ {p} : push'[q] = push[q]
    <2>1. readers' \subseteq Pushers
      BY <1>2 DEF IInv, TypeOK
    <2> QED BY <1>1, <1>2, <2>1, PushTyped DEF LockForPush, IInv
  <1>4. Locks'
    BY <1>1, <1>2, <1>3 DEF LockForPush, IInv, Locks
  <1>5. Going(p)'
    BY <1>1, <1>3 DEF Going, Walking
  <1> QED BY <1>3, <1>4, <1>5, PushOnly DEF LockForPush

LEMMA TakeSnapshotStep ==
  ASSUME IInv, NEW p \in Pushers, TakeSnapshot(p)
  PROVE  IInv'
  <1>1. PICK u \in Users, slice \in Slice : u = push[p].user /\ slice = streams[u]
    <2>1. push[p].user \in Users
      BY DEF TakeSnapshot, IInv, Walks, Going
    <2>2. streams[push[p].user] \in Slice
      BY <2>1 DEF IInv, TypeOK
    <2> QED BY <2>1, <2>2
  <1>2. push[p] \in Pushing /\ push[p].pc = "rlock" /\ p \in readers /\ writer = Nobody
    BY DEF TakeSnapshot, IInv, TypeOK, Pushing, Locks
  <1>3. slice = [arr |-> Arr(u), len |-> Length(u)] /\ Length(u) \in Nat /\ Arr(u) \in Arrays \cup {0}
    BY <1>1 DEF IInv, TypeOK, Slice, Arr, Length
  <1>4. PICK c \in Seq(Streams) :
          /\ c = Cells(slice) /\ Len(c) = Length(u)
          /\ \A k \in 1..Length(u) : c[k] = Cell(u, k)
    <2>1. \A k \in 1..Length(u) : Cell(u, k) \in Streams
      BY OwnCells
    <2>2. PICK c \in Seq(Streams \cup {Nobody}) :
            /\ c = Cells(slice) /\ Len(c) = Length(u)
            /\ \A k \in 1..Length(u) : c[k] = Cell(u, k)
      BY <1>1, CellsAre DEF IInv
    <2>3. c \in Seq(Streams)
      BY <2>1, <2>2
    <2> QED BY <2>2, <2>3
  <1> DEFINE r == [push[p] EXCEPT !.pc = "loop", !.arr = Arr(u), !.len = Length(u), !.snap = c]
  <1>5. /\ r \in Pushing /\ r.pc = "loop" /\ r.user = u /\ r.arr = Arr(u) /\ r.len = Length(u)
        /\ r.snap = c /\ r.i = push[p].i /\ r.sent = push[p].sent /\ r.to = push[p].to
    BY <1>1, <1>2, <1>3, <1>4 DEF Pushing
  <1>6. push' = [push EXCEPT ![p] = r] /\ readers' = readers \ {p}
    BY <1>1, <1>3, <1>4 DEF TakeSnapshot
  <1> HIDE DEF r
  <1>7. TypeOK' /\ push'[p] = r /\ \A q \in Pushers \ {p} : push'[q] = push[q]
    <2>1. readers' \subseteq Pushers
      BY <1>6 DEF IInv, TypeOK
    <2> QED BY <1>5, <1>6, <2>1, PushTyped DEF TakeSnapshot, IInv
  <1>8. Locks'
    BY <1>5, <1>6, <1>7 DEF TakeSnapshot, IInv, Locks
  <1>9. r.i = 1 /\ r.sent = <<>>
    BY <1>2, <1>5 DEF IInv, Walks, Going
  <1>10. Walk(p)'
    <2>1. \A k \in 1..Length(u) : Cell(u, k) \in Streams /\ user[Cell(u, k)] = u
      BY OwnCells
    <2>2. Length(u) > 0 => /\ Arr(u) \in Arrays /\ Length(u) <= Len(heap[Arr(u)])
                           /\ \A v \in Users : Arr(v) = Arr(u) => v = u
      BY <1>3, LengthIsZero DEF IInv, Headers
    <2>3. /\ push'[p] = r /\ heap' = heap /\ user' = user
          /\ \A v \in Users : Arr(v)' = Arr(v)
      BY <1>7 DEF TakeSnapshot, Arr
    <2> QED BY <1>3, <1>5, <1>9, <2>1, <2>2, <2>3 DEF Walk, Cell
  <1>11. Quiet(p)'
    <2>1. \A k \in 1..Length(u) : heap[Arr(u)][k] = c[k]
      BY <1>4 DEF Cell
    <2>2. \A v \in Users : Length(u) > 0 /\ Arr(v) = Arr(u) => v = u /\ ~Removing(v)
      BY <1>2, <1>3, LengthIsZero DEF IInv, Headers, Removing
    <2>3. /\ push'[p] = r /\ heap' = heap
          /\ \A v \in Users : Arr(v)' = Arr(v) /\ Length(v)' = Length(v) /\ Removing(v)' = Removing(v)
      BY <1>7 DEF TakeSnapshot, Arr, Length, Removing
    <2>4. SubSeq(c, 1, 0) = <<>> /\ r.i - 1 = 0 /\ r.i <= r.len + 1
      BY <1>3, <1>4, <1>5, <1>9
    <2>5. Len(r.snap) = r.len /\ r.sent = SubSeq(r.snap, 1, r.i - 1)
      BY <1>4, <1>5, <1>9, <2>4
    <2>6. \A v \in Users : r.len > 0 /\ Arr(v) = r.arr => r.len <= Length(v) /\ ~Removing(v)
      BY <1>3, <1>5, <2>2
    <2>7. \A k \in 1..r.len : heap[r.arr][k] = r.snap[k]
      BY <1>5, <2>1
    <2> QED BY <1>5, <2>3, <2>4, <2>5, <2>6, <2>7 DEF Quiet
  <1>12. Going(p)'
    BY <1>5, <1>7, <1>10, <1>11 DEF Going, Walking
  <1> QED BY <1>5, <1>7, <1>8, <1>12, PushOnly DEF TakeSnapshot

\* Between the snapshot and the end of the loop.
LEMMA LoopStep ==
  ASSUME IInv, NEW p \in Pushers, Walking(p), NEW r \in Pushing,
         push' = [push EXCEPT ![p] = r], r.pc \in {"loop", "send"},
         \A f \in {"user", "arr", "len", "snap", "raced"} : r[f] = push[p][f],
         UNCHANGED <<streams, heap, stage, user, writer, readers, move>>,
         /\ r.i \in Nat \ {0}
         /\ r.pc = "send" => r.i <= r.len /\ r.to \in Streams /\ user[r.to] = r.user,
         ~r.raced => /\ r.i <= r.len + 1 /\ r.sent = SubSeq(r.snap, 1, r.i - 1)
                     /\ r.pc = "send" => r.to = r.snap[r.i]
  PROVE  IInv'
  <1>1. TypeOK' /\ push'[p] = r /\ \A q \in Pushers \ {p} : push'[q] = push[q]
    <2>1. readers' \subseteq Pushers
      BY DEF IInv, TypeOK
    <2> QED BY <2>1, PushTyped DEF IInv
  <1>2. Locks'
    BY <1>1 DEF IInv, Locks, Walking
  <1>3. r.user = push[p].user /\ r.arr = push[p].arr /\ r.len = push[p].len
        /\ r.snap = push[p].snap /\ r.raced = push[p].raced
    OBVIOUS
  <1>4. Walk(p) /\ (~push[p].raced => Quiet(p)) /\ push[p].user \in Users
    BY DEF IInv, Walks, Going, Walking
  <1>5. \A v \in Users : Arr(v)' = Arr(v) /\ Length(v)' = Length(v) /\ Removing(v)' = Removing(v)
    BY DEF Arr, Length, Removing
  <1>6. Walk(p)'
    BY <1>1, <1>3, <1>4, <1>5 DEF Walk
  <1>7. ~r.raced => Quiet(p)'
    BY <1>1, <1>3, <1>4, <1>5 DEF Quiet
  <1>8. Going(p)'
    BY <1>1, <1>3, <1>4, <1>6, <1>7 DEF Going
  <1> QED BY <1>1, <1>2, <1>8, PushOnly

LEMMA ReadCellStep ==
  ASSUME IInv, NEW p \in Pushers, ReadCell(p)
  PROVE  IInv'
  <1>1. /\ Walking(p) /\ push[p] \in Pushing /\ push[p].pc = "loop" /\ push[p].i <= push[p].len
        /\ Walk(p) /\ (~push[p].raced => Quiet(p))
    BY DEF ReadCell, Walking, IInv, TypeOK, Pushing, Walks, Going
  <1>2. PICK x : x = heap[push[p].arr][push[p].i]
    OBVIOUS
  <1>3. x \in Streams /\ user[x] = push[p].user /\ (~push[p].raced => x = push[p].snap[push[p].i])
    <2>1. push[p].i \in 1..push[p].len /\ push[p].len > 0
      BY <1>1 DEF Walk
    <2> QED BY <1>1, <1>2, <2>1 DEF Walk, Quiet
  <1> DEFINE r == [push[p] EXCEPT !.pc = "send", !.to = x]
  <1>4. /\ r \in Pushing /\ r.pc = "send" /\ r.to = x /\ r.i = push[p].i /\ r.sent = push[p].sent
        /\ r.len = push[p].len /\ r.user = push[p].user /\ r.snap = push[p].snap /\ r.raced = push[p].raced
        /\ \A f \in {"user", "arr", "len", "snap", "raced"} : r[f] = push[p][f]
    BY <1>1, <1>3 DEF Pushing
  <1>5. push' = [push EXCEPT ![p] = r]
    BY <1>2 DEF ReadCell, IInv, TypeOK
  <1> HIDE DEF r
  <1>6. r.i \in Nat \ {0} /\ r.i <= r.len
        /\ (~r.raced => r.i <= r.len + 1 /\ r.sent = SubSeq(r.snap, 1, r.i - 1))
    BY <1>1, <1>4 DEF Walk, Quiet
  <1> QED BY <1>1, <1>3, <1>4, <1>5, <1>6, LoopStep DEF ReadCell

LEMMA SendStep ==
  ASSUME IInv, NEW p \in Pushers, Send(p)
  PROVE  IInv'
  <1>1. /\ Walking(p) /\ push[p] \in Pushing /\ push[p].pc = "send"
        /\ Walk(p) /\ (~push[p].raced => Quiet(p))
    BY DEF Send, Walking, IInv, TypeOK, Pushing, Walks, Going
  <1>2. PICK i \in Nat, sent \in Seq(Streams), x \in Streams, snap \in Seq(Streams) :
          /\ i = push[p].i /\ sent = push[p].sent /\ x = push[p].to /\ snap = push[p].snap
          /\ i >= 1 /\ i <= push[p].len /\ push[p].len \in Nat
    BY <1>1 DEF Walk, Pushing
  <1> DEFINE r == [push[p] EXCEPT !.pc = "loop", !.i = i + 1, !.to = Nobody, !.sent = Append(sent, x)]
  <1>3. /\ r \in Pushing /\ r.pc = "loop" /\ r.i = i + 1 /\ r.sent = Append(sent, x)
        /\ r.len = push[p].len /\ r.snap = snap /\ r.raced = push[p].raced
        /\ \A f \in {"user", "arr", "len", "snap", "raced"} : r[f] = push[p][f]
    <2>1. Append(sent, x) \in Seq(Streams) /\ i + 1 \in Nat
      OBVIOUS
    <2> QED BY <1>1, <1>2, <2>1 DEF Pushing
  <1>4. push' = [push EXCEPT ![p] = r]
    <2>1. push' = [push EXCEPT ![p].pc = "loop", ![p].i = i + 1, ![p].to = Nobody,
                               ![p].sent = Append(sent, x)]
      BY <1>2 DEF Send
    <2>2. push \in [Pushers -> Pushing]
      BY DEF IInv, TypeOK, Pushing
    <2> QED BY <2>1, <2>2
  <1> HIDE DEF r
  <1>5. ~push[p].raced => Append(sent, x) = SubSeq(snap, 1, i)
    <2>1. SUFFICES ASSUME ~push[p].raced PROVE Append(sent, x) = SubSeq(snap, 1, i)
      OBVIOUS
    <2>2. Len(snap) = push[p].len /\ sent = SubSeq(snap, 1, i - 1) /\ x = snap[i]
      BY <1>1, <1>2, <2>1 DEF Quiet
    <2>3. i \in 1..Len(snap)
      BY <1>2, <2>2
    <2>4. /\ Append(SubSeq(snap, 1, i - 1), snap[i]) \in Seq(Streams)
          /\ Len(Append(SubSeq(snap, 1, i - 1), snap[i])) = i
          /\ \A k \in 1..i : Append(SubSeq(snap, 1, i - 1), snap[i])[k] = snap[k]
      BY <1>2, <2>3
    <2>5. /\ SubSeq(snap, 1, i) \in Seq(Streams) /\ Len(SubSeq(snap, 1, i)) = i
          /\ \A k \in 1..i : SubSeq(snap, 1, i)[k] = snap[k]
      BY <1>2, <2>3
    <2>6. Append(SubSeq(snap, 1, i - 1), snap[i]) = SubSeq(snap, 1, i)
      BY <2>4, <2>5, SeqEqual
    <2> QED BY <2>2, <2>6
  <1>6. /\ r.i \in Nat \ {0}
        /\ ~r.raced => r.i <= r.len + 1 /\ r.sent = SubSeq(r.snap, 1, r.i - 1)
    <2>1. (i + 1) - 1 = i /\ i + 1 <= push[p].len + 1 /\ i + 1 \in Nat \ {0}
      BY <1>2
    <2> QED BY <1>3, <1>5, <2>1
  <1> QED BY <1>1, <1>3, <1>4, <1>6, LoopStep DEF Send

LEMMA ReturnStep ==
  ASSUME IInv, NEW p \in Pushers, Return(p)
  PROVE  IInv'
  <1>1. Idle \in Pushing /\ Idle.pc = "idle"
    BY IdleTyped
  <1>2. TypeOK' /\ push'[p] = Idle /\ \A q \in Pushers \ {p} : push'[q] = push[q]
    <2>1. readers' \subseteq Pushers
      BY DEF Return, IInv, TypeOK
    <2> QED BY <1>1, <2>1, PushTyped DEF Return, IInv
  <1>3. Locks'
    BY <1>1, <1>2 DEF Return, IInv, Locks
  <1>4. Going(p)'
    BY <1>1, <1>2 DEF Going, Walking
  <1> QED BY <1>2, <1>3, <1>4, PushOnly DEF Return

-----------------------------------------------------------------------------
(* Subscribe: the stream s of user u is appended, in array b.              *)

Appended(u, s, b) ==
  LET n == Length(u)
  IN  /\ b \in Arrays /\ (b = Arr(u) \/ b \in FreeArrays)
      /\ streams' = [streams EXCEPT ![u] = [arr |-> b, len |-> n + 1]]
      /\ \A a \in Arrays \ {b} : heap'[a] = heap[a]
      /\ n + 1 \in 1..Len(heap'[b])
      /\ \A k \in 1..n : heap'[b][k] = Cell(u, k)
      /\ heap'[b][n + 1] = s
      /\ b = Arr(u) => /\ Len(heap'[b]) = Len(heap[b])
                       /\ \A k \in 1..Len(heap[b]) : k # n + 1 => heap'[b][k] = heap[b][k]

LEMMA AppendInPlaceGives ==
  ASSUME IInv, NEW u \in Users, NEW s \in Streams, AppendInPlace(u, s)
  PROVE  /\ \E b \in Arrays : Appended(u, s, b)
         /\ heap' \in [Arrays -> Seq(Streams \cup {Nobody})]
  <1>1. PICK b, n : b = Arr(u) /\ n = Length(u)
    OBVIOUS
  <1>2. /\ n \in Nat /\ n < Capacity(streams[u])
        /\ heap' = [heap EXCEPT ![b][n + 1] = s]
        /\ streams' = [streams EXCEPT ![u].len = n + 1]
    BY <1>1, CellsAre DEF AppendInPlace, Arr, Length, IInv
  <1>3. n # 0 /\ b \in Arrays /\ n \in 1..Len(heap[b]) /\ n < Len(heap[b])
    BY <1>1, <1>2, LengthIsZero DEF Capacity, Arr, Length, IInv
  <1>4. heap[b] \in Seq(Streams \cup {Nobody}) /\ heap \in [Arrays -> Seq(Streams \cup {Nobody})]
    BY <1>3 DEF IInv, TypeOK
  <1>5. n + 1 \in 1..Len(heap[b])
    BY <1>2, <1>3, <1>4
  <1>6. PICK cells \in Seq(Streams \cup {Nobody}) :
          /\ cells = [heap[b] EXCEPT ![n + 1] = s] /\ Len(cells) = Len(heap[b]) /\ cells[n + 1] = s
          /\ \A k \in 1..Len(heap[b]) : k # n + 1 => cells[k] = heap[b][k]
    <2>1. PICK seq \in Seq(Streams \cup {Nobody}) : seq = heap[b] /\ n + 1 \in 1..Len(seq)
      BY <1>4, <1>5
    <2> DEFINE e == [seq EXCEPT ![n + 1] = s]
    <2>2. /\ e \in Seq(Streams \cup {Nobody}) /\ Len(e) = Len(seq)
          /\ \A j \in 1..Len(seq) : e[j] = IF j = n + 1 THEN s ELSE seq[j]
      BY <2>1, ExceptSeq
    <2> HIDE DEF e
    <2>3. e = [heap[b] EXCEPT ![n + 1] = s]
      BY <2>1 DEF e
    <2> QED BY <2>1, <2>2, <2>3
  <1>7. heap' = [heap EXCEPT ![b] = cells]
    BY <1>2, <1>6
  <1>8. /\ heap' \in [Arrays -> Seq(Streams \cup {Nobody})] /\ heap'[b] = cells
        /\ \A a \in Arrays \ {b} : heap'[a] = heap[a]
    BY <1>3, <1>4, <1>7
  <1>9. streams' = [streams EXCEPT ![u] = [arr |-> b, len |-> n + 1]]
    <2>1. streams[u] = [arr |-> b, len |-> n]
      BY <1>1 DEF IInv, TypeOK, Slice, Arr, Length
    <2>2. [streams[u] EXCEPT !.len = n + 1] = [arr |-> b, len |-> n + 1]
      BY <2>1
    <2>3. streams' = [streams EXCEPT ![u] = [streams[u] EXCEPT !.len = n + 1]]
      BY <1>2
    <2> QED BY <2>2, <2>3
  <1>10. \A k \in 1..n : heap'[b][k] = Cell(u, k)
    BY <1>1, <1>2, <1>3, <1>4, <1>6, <1>8 DEF Cell
  <1>11. Appended(u, s, b)
    BY <1>1, <1>3, <1>5, <1>6, <1>8, <1>9, <1>10 DEF Appended
  <1> QED BY <1>3, <1>8, <1>11

LEMMA AppendByCopyGives ==
  ASSUME IInv, NEW u \in Users, NEW s \in Streams, AppendByCopy(u, s)
  PROVE  /\ \E b \in Arrays : Appended(u, s, b)
         /\ heap' \in [Arrays -> Seq(Streams \cup {Nobody})]
  <1>1. PICK b, n, cap : /\ n = Length(u) /\ b = CHOOSE a \in FreeArrays : TRUE
                         /\ cap = IF n = 0 THEN 1 ELSE 2 * n
    OBVIOUS
  <1>2. n \in Nat /\ cap - n - 1 \in Nat
    BY <1>1, CellsAre DEF IInv
  <1>3. b \in FreeArrays /\ b \in Arrays /\ b # Arr(u)
    <2>1. FreeArrays # {}
      BY DEF AppendByCopy
    <2> QED BY <1>1, <2>1 DEF FreeArrays, Arr
  <1>4. PICK c \in Seq(Streams \cup {Nobody}) :
          c = Cells(streams[u]) /\ Len(c) = n /\ \A k \in 1..n : c[k] = Cell(u, k)
    BY <1>1, CellsAre DEF IInv
  <1> DEFINE rest == [k \in 1..(cap - n - 1) |-> Nobody]
  <1>5. /\ heap' = [heap EXCEPT ![b] = Append(c, s) \o rest]
        /\ streams' = [streams EXCEPT ![u] = [arr |-> b, len |-> n + 1]]
    BY <1>1, <1>4 DEF AppendByCopy, Length
  <1>6. rest \in Seq(Streams \cup {Nobody})
    BY <1>2
  <1> HIDE DEF rest
  <1>7. PICK cells \in Seq(Streams \cup {Nobody}) :
          /\ cells = Append(c, s) \o rest
          /\ n + 1 \in 1..Len(cells) /\ cells[n + 1] = s
          /\ \A k \in 1..n : cells[k] = c[k]
    <2>1. PICK d \in Seq(Streams \cup {Nobody}) :
            d = Append(c, s) /\ Len(d) = n + 1 /\ d[n + 1] = s /\ \A k \in 1..n : d[k] = c[k]
      <3> DEFINE e == Append(c, s)
      <3>1. e \in Seq(Streams \cup {Nobody}) /\ Len(e) = n + 1 /\ e[n + 1] = s /\ \A k \in 1..n : e[k] = c[k]
        BY <1>2, <1>4
      <3> HIDE DEF e
      <3> QED BY <3>1 DEF e
    <2>2. /\ d \o rest \in Seq(Streams \cup {Nobody}) /\ Len(d \o rest) = Len(d) + Len(rest)
          /\ \A k \in 1..(Len(d) + Len(rest)) : k <= Len(d) => (d \o rest)[k] = d[k]
      BY <1>6, ConcatProperties
    <2>3. Len(rest) \in Nat
      BY <1>6
    <2>4. PICK e \in Seq(Streams \cup {Nobody}) : e = d \o rest
      BY <2>2
    <2>5. n + 1 \in 1..Len(e) /\ \A k \in 1..(n + 1) : e[k] = d[k]
      <3>1. Len(e) = (n + 1) + Len(rest)
        BY <2>1, <2>2, <2>4
      <3>2. n + 1 \in 1..Len(e) /\ \A k \in 1..(n + 1) : k \in 1..Len(e) /\ k <= n + 1
        BY <1>2, <2>3, <3>1
      <3> QED BY <2>1, <2>2, <2>4, <3>2
    <2>6. n + 1 \in 1..(n + 1) /\ 1..n \subseteq 1..(n + 1)
      BY <1>2
    <2> QED BY <2>1, <2>4, <2>5, <2>6
  <1>8. /\ heap' \in [Arrays -> Seq(Streams \cup {Nobody})] /\ heap'[b] = cells
        /\ \A a \in Arrays \ {b} : heap'[a] = heap[a]
    BY <1>3, <1>5, <1>7 DEF IInv, TypeOK
  <1>9. Appended(u, s, b)
    BY <1>1, <1>3, <1>4, <1>5, <1>7, <1>8 DEF Appended
  <1> QED BY <1>3, <1>8, <1>9

LEMMA SubscribeStep ==
  ASSUME IInv, NEW s \in Streams, NEW u \in Users, Subscribe(s, u)
  PROVE  IInv'
  <1>1. /\ stage[s] = "new" /\ writer = Nobody /\ readers = {}
        /\ stage' = [stage EXCEPT ![s] = "open"] /\ user' = [user EXCEPT ![s] = u]
        /\ UNCHANGED <<writer, readers, move, push>>
    BY DEF Subscribe, Unlocked
  <1>2. /\ \E b \in Arrays : Appended(u, s, b)
        /\ heap' \in [Arrays -> Seq(Streams \cup {Nobody})]
    BY AppendInPlaceGives, AppendByCopyGives DEF Subscribe
  <1>3. PICK b \in Arrays, n \in Nat : Appended(u, s, b) /\ n = Length(u)
    BY <1>2, CellsAre DEF IInv
  <1>4. /\ b = Arr(u) \/ b \in FreeArrays
        /\ streams' = [streams EXCEPT ![u] = [arr |-> b, len |-> n + 1]]
        /\ \A a \in Arrays \ {b} : heap'[a] = heap[a]
        /\ n + 1 \in 1..Len(heap'[b])
        /\ \A k \in 1..n : heap'[b][k] = Cell(u, k)
        /\ heap'[b][n + 1] = s
        /\ b = Arr(u) => /\ Len(heap'[b]) = Len(heap[b])
                         /\ \A k \in 1..Len(heap[b]) : k # n + 1 => heap'[b][k] = heap[b][k]
    BY <1>3 DEF Appended
  <1>5. /\ Arr(u)' = b /\ Length(u)' = n + 1
        /\ \A v \in Users : v # u => Arr(v)' = Arr(v) /\ Length(v)' = Length(v) /\ streams'[v] = streams[v]
    BY <1>4 DEF Arr, Length, IInv, TypeOK
  <1>6. \A v \in Users : v # u => Arr(v) # b
    <2>1. \A v \in Users : b \in FreeArrays => Arr(v) # b
      BY DEF FreeArrays, Arr
    <2>2. \A v \in Users : v # u /\ b = Arr(u) => Arr(v) # b
      BY DEF IInv, Headers
    <2> QED BY <1>4, <2>1, <2>2
  <1>7. /\ \A x \in Streams : x # s => stage'[x] = stage[x] /\ user'[x] = user[x]
        /\ stage'[s] = "open" /\ user'[s] = u
    BY <1>1 DEF IInv, TypeOK
  <1>8. TypeOK'
    <2>1. streams' \in [Users -> Slice]
      BY <1>3, <1>4 DEF IInv, TypeOK, Slice
    <2>2. stage' \in [Streams -> Stage] /\ user' \in [Streams -> Users \cup {Nobody}]
      BY <1>1 DEF IInv, TypeOK, Stage
    <2>3. \A v \in Users : streams'[v] # NoSlice => streams'[v].len \in 1..Len(heap'[streams'[v].arr])
      <3>1. ASSUME NEW v \in Users, streams'[v] # NoSlice PROVE Length(v)' \in 1..Len(heap'[streams'[v].arr])
        <4>1. CASE v = u
          BY <1>4, <1>5, <4>1 DEF Arr
        <4>2. CASE v # u
          <5>1. streams[v] # NoSlice /\ Arr(v) \in Arrays
            BY <1>5, <3>1, <4>2, LengthIsZero DEF IInv
          <5>2. heap'[Arr(v)] = heap[Arr(v)]
            BY <1>4, <1>6, <4>2, <5>1
          <5> QED BY <1>5, <4>2, <5>1, <5>2 DEF IInv, TypeOK, Arr, Length
        <4> QED BY <4>1, <4>2
      <3> QED BY <3>1 DEF Length
    <2> QED BY <1>1, <1>2, <2>1, <2>2, <2>3 DEF IInv, TypeOK
  <1>9. Locks'
    BY <1>1, <1>7, HubAssumption DEF IInv, Locks
  <1>10. Named'
    BY <1>7 DEF IInv, Named
  <1>11. Headers'
    <2>1. ASSUME NEW v \in Users
          PROVE  streams'[v] = NoSlice \/ (Arr(v)' \in Arrays /\ Length(v)' \in 1..Len(heap'[streams'[v].arr]))
      <3>1. CASE v = u
        BY <1>4, <1>5, <3>1 DEF Arr
      <3>2. CASE v # u /\ streams[v] # NoSlice
        <4>1. Arr(v) \in Arrays /\ heap'[Arr(v)] = heap[Arr(v)]
          BY <1>4, <1>6, <3>2, LengthIsZero DEF IInv
        <4> QED BY <1>5, <3>2, <4>1 DEF IInv, Headers, Arr
      <3>3. CASE v # u /\ streams[v] = NoSlice
        BY <1>5, <3>3
      <3> QED BY <3>1, <3>2, <3>3
    <2>2. \A v, w \in Users : v # w /\ Arr(v)' \in Arrays => Arr(v)' # Arr(w)'
      BY <1>5, <1>6 DEF IInv, Headers
    <2> QED BY <2>1, <2>2 DEF Headers, Arr
  <1>12. Book'
    <2> SUFFICES ASSUME NEW v \in Users PROVE Listed(v)'
      BY <1>1 DEF Book, Removing
    <2>1. Listed(v) /\ Listed(u)
      BY <1>1 DEF IInv, Book, Removing
    <2>2. CASE v = u
      <3>1. Registered(u)' = Registered(u) \cup {s} /\ s \notin Registered(u)
        BY <1>1, <1>7 DEF Registered
      <3>2. \A k \in 1..n : Cell(u, k)' = Cell(u, k)
        BY <1>4, <1>5 DEF Cell, Arr
      <3>3. Cell(u, n + 1)' = s
        BY <1>4, <1>5 DEF Cell, Arr
      <3>4. \A k \in 1..(n + 1) : k \in 1..n \/ k = n + 1
        BY <1>3
      <3>5. \A k \in 1..(n + 1) : Cell(u, k)' \in Registered(u)'
        BY <1>3, <2>1, <3>1, <3>2, <3>3, <3>4 DEF Listed
      <3>6. \A x \in Registered(u)' : \E k \in 1..(n + 1) : Cell(u, k)' = x
        <4>1. 1..n \subseteq 1..(n + 1) /\ n + 1 \in 1..(n + 1)
          BY <1>3
        <4> QED BY <1>3, <2>1, <3>1, <3>2, <3>3, <4>1 DEF Listed
      <3>7. \A j, k \in 1..(n + 1) : Cell(u, j)' = Cell(u, k)' => j = k
        <4>1. \A k \in 1..n : Cell(u, k) # s
          BY <1>3, <2>1, <3>1 DEF Listed
        <4> QED BY <1>3, <2>1, <3>2, <3>3, <3>4, <4>1 DEF Listed
      <3> QED BY <1>5, <2>2, <3>5, <3>6, <3>7 DEF Listed
    <2>3. CASE v # u
      <3>1. Registered(v)' = Registered(v)
        BY <1>1, <1>7, <2>3 DEF Registered
      <3>2. \A k \in 1..Length(v) : Cell(v, k)' = Cell(v, k)
        <4>1. ASSUME NEW k \in 1..Length(v) PROVE Cell(v, k)' = Cell(v, k)
          <5>1. Arr(v) \in Arrays
            BY LengthIsZero, CellsAre DEF IInv
          <5>2. heap'[Arr(v)] = heap[Arr(v)]
            BY <1>4, <1>6, <2>3, <5>1
          <5> QED BY <1>5, <2>3, <5>2 DEF Cell
        <4> QED BY <4>1
      <3> QED BY <1>5, <2>1, <2>3, <3>1, <3>2 DEF Listed
    <2> QED BY <2>2, <2>3
  <1>13. Walks'
    <2> SUFFICES ASSUME NEW p \in Pushers PROVE Going(p)'
      BY DEF Walks
    <2>1. PICK q : q = push[p] /\ push'[p] = q
      BY <1>1
    <2>2. Going(p)
      BY DEF IInv, Walks
    <2>3. ASSUME Walking(p), q.len > 0
          PROVE  /\ Len(heap'[q.arr]) = Len(heap[q.arr])
                 /\ \A k \in 1..q.len : \/ heap'[q.arr][k] = heap[q.arr][k]
                                        \/ q.arr = Arr(u) /\ k = n + 1 /\ heap'[q.arr][k] = s
                 /\ b = q.arr => q.arr = Arr(u)
      <3>1. q.arr \in Arrays /\ q.len <= Len(heap[q.arr]) /\ q.len \in Nat
        BY <2>1, <2>2, <2>3 DEF Going, Walk
      <3>2. q.arr \notin FreeArrays
        BY <2>1, <2>3 DEF FreeArrays
      <3>3. CASE q.arr # b
        BY <1>4, <3>1, <3>3
      <3>4. CASE q.arr = b
        <4>1. b = Arr(u)
          BY <1>4, <3>2, <3>4
        <4>2. Len(heap[b]) \in Nat
          BY <1>3 DEF IInv, TypeOK
        <4> QED BY <1>4, <3>1, <3>4, <4>1, <4>2
      <3> QED BY <3>3, <3>4
    <2>4. Walking(p)' = Walking(p)
      BY <2>1 DEF Walking
    <2>7. Walking(p) => \A x \in Streams : user[x] = q.user => x # s
      BY <1>1, <2>1, <2>2, HubAssumption DEF IInv, Named, Going, Walking
    <2>5. ASSUME Walking(p) PROVE Walk(p)'
      <3>1. Walk(p)
        BY <2>2, <2>5 DEF Going
      <3>2. ASSUME q.len > 0
            PROVE  /\ q.arr \in Arrays /\ q.len <= Len(heap'[q.arr])
                   /\ \A k \in 1..q.len : heap'[q.arr][k] \in Streams /\ user'[heap'[q.arr][k]] = q.user
                   /\ \A v \in Users : Arr(v)' = q.arr => v = q.user
        <4>1. q.arr \in Arrays /\ q.len <= Len(heap[q.arr]) /\ \A v \in Users : Arr(v) = q.arr => v = q.user
          BY <2>1, <3>1, <3>2 DEF Walk
        <4>2. \A k \in 1..q.len : /\ heap[q.arr][k] \in Streams /\ user[heap[q.arr][k]] = q.user
                                  /\ heap[q.arr][k] # s
          BY <2>1, <2>5, <2>7, <3>1, <3>2 DEF Walk
        <4>3. \A k \in 1..q.len : heap'[q.arr][k] \in Streams /\ user'[heap'[q.arr][k]] = q.user
          BY <1>7, <2>3, <2>5, <3>2, <4>1, <4>2
        <4>4. \A v \in Users : Arr(v)' = q.arr => v = q.user
          BY <1>5, <2>3, <2>5, <3>2, <4>1
        <4> QED BY <2>3, <2>5, <3>2, <4>1, <4>3, <4>4
      <3>3. q.pc = "send" => q.i <= q.len /\ q.to \in Streams /\ user'[q.to] = q.user
        BY <1>7, <2>1, <2>5, <2>7, <3>1 DEF Walk
      <3> QED BY <2>1, <3>1, <3>2, <3>3 DEF Walk
    <2>6. ASSUME Walking(p), ~q.raced PROVE Quiet(p)'
      <3>1. Walk(p) /\ Quiet(p)
        BY <2>1, <2>2, <2>6 DEF Going
      <3>2. \A k \in 1..q.len : heap'[q.arr][k] = heap[q.arr][k]
        <4>1. ASSUME NEW k \in 1..q.len PROVE heap'[q.arr][k] = heap[q.arr][k]
          <5>1. q.len \in Nat /\ q.len > 0
            BY <2>1, <3>1 DEF Walk
          <5>2. q.arr = Arr(u) => q.len <= n
            BY <1>3, <2>1, <3>1, <5>1 DEF Quiet
          <5>3. q.arr = Arr(u) => k # n + 1
            BY <1>3, <5>1, <5>2
          <5> QED BY <2>3, <2>6, <5>1, <5>3
        <4> QED BY <4>1
      <3>3. \A v \in Users : q.len > 0 /\ Arr(v)' = q.arr => q.len <= Length(v)' /\ ~Removing(v)'
        <4>1. ASSUME NEW v \in Users, q.len > 0, Arr(v)' = q.arr PROVE q.len <= Length(v)' /\ ~Removing(v)'
          <5>1. Arr(v) = q.arr
            BY <1>5, <2>3, <2>6, <4>1
          <5>2. q.len <= Length(v) /\ Length(v) \in Nat /\ q.len \in Nat
            BY <2>1, <3>1, <4>1, <5>1, CellsAre DEF Quiet, Walk, IInv
          <5>3. q.len <= Length(v)'
            BY <1>3, <1>5, <5>2
          <5> QED BY <1>1, <5>3 DEF Removing
        <4> QED BY <4>1
      <3> QED BY <2>1, <3>1, <3>2, <3>3 DEF Quiet
    <2> QED BY <2>1, <2>2, <2>4, <2>5, <2>6 DEF Going
  <1> QED BY <1>8, <1>9, <1>10, <1>11, <1>12, <1>13 DEF IInv

-----------------------------------------------------------------------------
(* A client goes: Disconnect, and the three parts of Unsubscribe.          *)

LEMMA DisconnectStep ==
  ASSUME IInv, NEW s \in Streams, Disconnect(s)
  PROVE  IInv'
  <1>1. /\ stage[s] = "open" /\ stage' = [stage EXCEPT ![s] = "closing"]
        /\ UNCHANGED <<streams, heap, user, writer, readers, move, push>>
    BY DEF Disconnect
  <1>2. /\ \A x \in Streams : x # s => stage'[x] = stage[x]
        /\ stage'[s] = "closing"
    BY <1>1 DEF IInv, TypeOK
  <1>3. TypeOK' /\ Locks' /\ Named' /\ Headers'
    BY <1>1, <1>2 DEF IInv, TypeOK, Stage, Locks, Named, Headers, Arr, Length
  <1>4. \A v \in Users : Registered(v)' = Registered(v)
    BY <1>1, <1>2 DEF Registered
  <1>5. /\ \A v \in Users : Listed(v) => Listed(v)'
        /\ \A v \in Users : \A i : MovingAt(v, writer, i) => MovingAt(v, writer, i)'
        /\ \A v \in Users : Removing(v)' = Removing(v) /\ Length(v)' = Length(v)
    BY <1>1, <1>4 DEF Listed, MovingAt, Cell, Arr, Length, Removing
  <1>6. Book'
    <2> SUFFICES ASSUME NEW u \in Users
                 PROVE  (IF Removing(u) THEN \E i \in 1..Length(u) : MovingAt(u, writer, i) ELSE Listed(u))'
      BY DEF Book
    <2>1. CASE Removing(u)
      <3>1. PICK i \in 1..Length(u) : MovingAt(u, writer, i)
        BY <2>1 DEF IInv, Book
      <3> QED BY <1>5, <2>1, <3>1
    <2>2. CASE ~Removing(u)
      BY <1>5, <2>2 DEF IInv, Book
    <2> QED BY <2>1, <2>2
  <1>7. Walks'
    BY <1>1, <1>5 DEF IInv, Walks, Going, Walking, Walk, Quiet, Arr
  <1> QED BY <1>3, <1>6, <1>7 DEF IInv

LEMMA BeginUnsubscribeStep ==
  ASSUME IInv, NEW s \in Streams, BeginUnsubscribe(s)
  PROVE  IInv'
  <1>1. PICK u \in Users, n \in Nat, a \in Arrays \cup {0} :
          u = user[s] /\ n = Length(u) /\ a = Arr(u) /\ s \in Registered(u)
    <2>1. stage[s] = "closing" /\ user[s] \in Users
      BY DEF BeginUnsubscribe, IInv, Named
    <2> QED BY <2>1, CellsAre DEF IInv, TypeOK, Slice, Arr, Registered
  <1>2. writer = Nobody /\ readers = {} /\ \A v \in Users : Listed(v)
    BY DEF BeginUnsubscribe, Unlocked, IInv, Book, Removing
  <1>3. PICK c \in Seq(Streams \cup {Nobody}) :
          /\ c = Cells(streams[u]) /\ Len(c) = n /\ \A k \in 1..n : c[k] = Cell(u, k)
    BY <1>1, CellsAre DEF IInv
  <1>4. PICK i \in 1..n : c[i] = s /\ i = CHOOSE k \in 1..n : c[k] = s
    <2>1. \E k \in 1..n : c[k] = s
      BY <1>1, <1>2, <1>3 DEF Listed
    <2> QED BY <2>1
  <1>5. /\ writer' = s /\ stage' = [stage EXCEPT ![s] = "removing"]
        /\ move' = [todo |-> i..(n - 1), old |-> c]
        /\ push' = [p \in Pushers |-> IF Walking(p) /\ push[p].arr = a
                                      THEN [push[p] EXCEPT !.raced = TRUE] ELSE push[p]]
        /\ UNCHANGED <<streams, heap, user, readers>>
    BY <1>1, <1>3, <1>4 DEF BeginUnsubscribe, Arr, Length
  <1>6. /\ \A x \in Streams : x # s => stage'[x] = stage[x]
        /\ stage[s] = "closing" /\ stage'[s] = "removing"
    BY <1>5 DEF IInv, TypeOK, BeginUnsubscribe
  <1>7. c \in Seq(Streams)
    <2>1. \A k \in 1..n : c[k] \in Streams
      BY <1>1, <1>2, <1>3 DEF Listed, Registered
    <2> QED BY <1>3, <2>1
  <1>8. \A p \in Pushers :
          /\ push[p] \in Pushing /\ push'[p] \in Pushing
          /\ \A f \in {"pc", "user", "arr", "len", "i", "to", "snap", "sent"} : push'[p][f] = push[p][f]
          /\ ~push'[p].raced => ~push[p].raced /\ ~(Walking(p) /\ push[p].arr = a)
    <2> SUFFICES ASSUME NEW p \in Pushers
                 PROVE  /\ push[p] \in Pushing /\ push'[p] \in Pushing
                        /\ \A f \in {"pc", "user", "arr", "len", "i", "to", "snap", "sent"} : push'[p][f] = push[p][f]
                        /\ ~push'[p].raced => ~push[p].raced /\ ~(Walking(p) /\ push[p].arr = a)
      OBVIOUS
    <2>1. push[p] \in Pushing
      BY DEF IInv, TypeOK, Pushing
    <2>2. push'[p] = IF Walking(p) /\ push[p].arr = a THEN [push[p] EXCEPT !.raced = TRUE] ELSE push[p]
      BY <1>5
    <2>3. CASE Walking(p) /\ push[p].arr = a
      <3>1. PICK q \in Pushing : q = push[p]
        BY <2>1
      <3> DEFINE r == [q EXCEPT !.raced = TRUE]
      <3>2. /\ r \in Pushing /\ r.raced = TRUE
            /\ r.pc = q.pc /\ r.user = q.user /\ r.arr = q.arr /\ r.len = q.len
            /\ r.i = q.i /\ r.to = q.to /\ r.snap = q.snap /\ r.sent = q.sent
        BY DEF Pushing
      <3>3. push'[p] = r
        BY <2>2, <2>3, <3>1
      <3> HIDE DEF r
      <3> QED BY <2>1, <3>1, <3>2, <3>3
    <2>4. CASE ~(Walking(p) /\ push[p].arr = a)
      BY <2>1, <2>2, <2>4
    <2> QED BY <2>3, <2>4
  <1>9. TypeOK'
    <2>1. push' \in [Pushers -> Pushing]
      BY <1>5, <1>8
    <2>2. i..(n - 1) \in SUBSET Nat
      BY <1>4
    <2>3. move' \in [todo : SUBSET Nat, old : Seq(Streams)]
      BY <1>5, <1>7, <2>2
    <2> QED BY <1>5, <2>1, <2>3 DEF IInv, TypeOK, Stage, Pushing
  <1>10. Locks'
    <2>1. \A p \in Pushers : push'[p].pc = push[p].pc
      BY <1>8
    <2>2. \A x \in Streams : stage[x] # "removing"
      BY <1>2, HubAssumption DEF IInv, Locks
    <2> QED BY <1>2, <1>5, <1>6, <2>1, <2>2 DEF IInv, Locks
  <1>11. Named' /\ Headers'
    BY <1>5, <1>6 DEF IInv, Named, Headers, Arr, Length
  <1>12. /\ \A v \in Users : Removing(v)' <=> v = u
         /\ \A v \in Users : Length(v)' = Length(v) /\ Arr(v)' = Arr(v)
         /\ \A v \in Users : \A k : Cell(v, k)' = Cell(v, k)
    BY <1>1, <1>5, HubAssumption DEF Removing, Length, Arr, Cell
  <1>13. /\ Registered(u)' = Registered(u) \ {s}
         /\ \A v \in Users : v # u => Registered(v)' = Registered(v)
    BY <1>1, <1>5, <1>6 DEF Registered
  <1>14. MovingAt(u, s, i)'
    <2>1. \A j, k \in 1..n : c[j] = c[k] => j = k
      <3>1. \A j, k \in 1..n : Cell(u, j) = Cell(u, k) => j = k
        BY <1>1, <1>2 DEF Listed
      <3>2. ASSUME NEW j \in 1..n, NEW k \in 1..n, c[j] = c[k] PROVE j = k
        <4>1. c[j] = Cell(u, j) /\ c[k] = Cell(u, k)
          BY <1>3
        <4> QED BY <3>1, <3>2, <4>1
      <3> QED BY <3>2
    <2>2. \A k \in 1..n : k # i => c[k] \in Registered(u)'
      BY <1>1, <1>2, <1>3, <1>4, <1>13, <2>1 DEF Listed
    <2>3. \A x \in Registered(u)' : \E k \in 1..n : c[k] = x
      BY <1>1, <1>2, <1>3, <1>13 DEF Listed
    <2>4. \A k \in 1..n : k < i \/ k = n \/ k \in i..(n - 1)
      BY <1>4
    <2>5. move'.old = c /\ move'.todo = i..(n - 1) /\ n >= 1
      BY <1>4, <1>5
    <2> QED BY <1>1, <1>3, <1>4, <1>12, <2>1, <2>2, <2>3, <2>4, <2>5 DEF MovingAt
  <1>15. Book'
    <2>1. \A v \in Users : v # u => Listed(v)'
      BY <1>2, <1>12, <1>13 DEF Listed
    <2>2. (\E j \in 1..Length(u) : MovingAt(u, writer, j))'
      BY <1>1, <1>4, <1>5, <1>12, <1>14 DEF MovingAt
    <2> QED BY <1>12, <2>1, <2>2 DEF Book
  <1>16. Walks'
    <2> SUFFICES ASSUME NEW p \in Pushers PROVE Going(p)'
      BY DEF Walks
    <2>1. Going(p)
      BY DEF IInv, Walks
    <2>2. /\ push'[p].pc = push[p].pc /\ push'[p].user = push[p].user /\ push'[p].arr = push[p].arr
          /\ push'[p].len = push[p].len /\ push'[p].i = push[p].i /\ push'[p].to = push[p].to
          /\ push'[p].snap = push[p].snap /\ push'[p].sent = push[p].sent
      BY <1>8
    <2>3. Walking(p)' = Walking(p)
      BY <2>2 DEF Walking
    <2>4. Walking(p) => Walk(p)'
      BY <1>5, <1>12, <2>1, <2>2 DEF Going, Walk
    <2>5. Walking(p) /\ ~push'[p].raced => Quiet(p)'
      <3>1. Walking(p) /\ ~push'[p].raced => Quiet(p) /\ push[p].arr # Arr(u)
        BY <1>1, <1>8, <2>1 DEF Going
      <3> QED BY <1>5, <1>12, <2>2, <3>1 DEF Quiet
    <2> QED BY <2>1, <2>2, <2>3, <2>4, <2>5 DEF Going
  <1> QED BY <1>9, <1>10, <1>11, <1>15, <1>16 DEF IInv

\* Who holds the lock, and what it has moved.
LEMMA RemovingGives ==
  ASSUME IInv, NEW s \in Streams, stage[s] = "removing"
  PROVE  /\ writer = s /\ user[s] \in Users /\ Removing(user[s])
         /\ \A v \in Users : Removing(v) <=> v = user[s]
         /\ Arr(user[s]) \in Arrays /\ Length(user[s]) \in 1..Len(heap[Arr(user[s])])
         /\ \E i \in 1..Length(user[s]) : MovingAt(user[s], s, i)
  <1>1. writer = s /\ user[s] \in Users
    BY DEF IInv, Locks, Named
  <1>2. \A v \in Users : Removing(v) <=> v = user[s]
    BY <1>1, HubAssumption DEF Removing
  <1>3. PICK u \in Users : u = user[s]
    BY <1>1
  <1>4. \E i \in 1..Length(u) : MovingAt(u, s, i)
    BY <1>1, <1>2, <1>3 DEF IInv, Book
  <1>5. Length(u) # 0
    BY <1>4
  <1>6. Arr(u) \in Arrays /\ Length(u) \in 1..Len(heap[Arr(u)])
    BY <1>5, LengthIsZero DEF IInv
  <1> QED BY <1>1, <1>2, <1>3, <1>4, <1>6

LEMMA MoveCellStep ==
  ASSUME IInv, NEW s \in Streams, MoveCell(s)
  PROVE  IInv'
  <1>1. stage[s] = "removing" /\ UNCHANGED <<streams, stage, user, writer, readers, push>>
    BY DEF MoveCell
  <1>2. PICK u \in Users, n \in Nat, a \in Arrays, i \in Nat :
          /\ i \in 1..n /\ u = user[s] /\ n = Length(u) /\ a = Arr(u) /\ writer = s
          /\ n \in 1..Len(heap[a]) /\ MovingAt(u, s, i)
          /\ \A v \in Users : Removing(v) <=> v = u
    <2>1. user[s] \in Users
      BY <1>1, RemovingGives
    <2>2. Length(user[s]) \in Nat
      BY <2>1, CellsAre DEF IInv
    <2> QED BY <1>1, <2>1, <2>2, RemovingGives
  <1>3. PICK k \in move.todo : /\ heap' = [heap EXCEPT ![a][k] = move.old[k + 1]]
                               /\ move' = [move EXCEPT !.todo = @ \ {k}]
    BY <1>2 DEF MoveCell, Arr
  <1>4. /\ k \in Nat /\ k >= i /\ k < n /\ k \in 1..Len(heap[a]) /\ k + 1 \in 1..n
    BY <1>2, <1>3 DEF MovingAt
  <1>5. PICK x \in Streams : x = move.old[k + 1] /\ user[x] = u
    <2>1. \A j \in 1..n : move.old[j] \in Streams /\ user[move.old[j]] = u
      BY <1>2 DEF MovingAt, Registered
    <2> QED BY <1>4, <2>1
  <1>6. /\ heap' \in [Arrays -> Seq(Streams \cup {Nobody})]
        /\ \A b \in Arrays : Len(heap'[b]) = Len(heap[b])
        /\ heap'[a][k] = x
        /\ \A b \in Arrays \ {a} : heap'[b] = heap[b]
        /\ \A j \in 1..Len(heap[a]) : j # k => heap'[a][j] = heap[a][j]
    <2>1. PICK seq \in Seq(Streams \cup {Nobody}) : seq = heap[a] /\ k \in 1..Len(seq)
      BY <1>4 DEF IInv, TypeOK
    <2> DEFINE e == [seq EXCEPT ![k] = x]
    <2>2. /\ e \in Seq(Streams \cup {Nobody}) /\ Len(e) = Len(seq)
          /\ \A j \in 1..Len(seq) : e[j] = IF j = k THEN x ELSE seq[j]
      BY <2>1, ExceptSeq
    <2> HIDE DEF e
    <2>3. heap' = [heap EXCEPT ![a] = e]
      BY <1>3, <1>5, <2>1 DEF e
    <2>4. heap \in [Arrays -> Seq(Streams \cup {Nobody})]
      BY DEF IInv, TypeOK
    <2> QED BY <2>1, <2>2, <2>3, <2>4
  <1>7. move' = [todo |-> move.todo \ {k}, old |-> move.old] /\ move'.old = move.old
        /\ move'.todo = move.todo \ {k}
    BY <1>3 DEF IInv, TypeOK
  <1>8. /\ \A v \in Users : Length(v)' = Length(v) /\ Arr(v)' = Arr(v) /\ Removing(v)' = Removing(v)
        /\ \A v \in Users : Registered(v)' = Registered(v)
    BY <1>1 DEF Length, Arr, Removing, Registered
  <1>9. TypeOK'
    <2>1. move' \in [todo : SUBSET Nat, old : Seq(Streams)]
      BY <1>7 DEF IInv, TypeOK
    <2>2. \A v \in Users : streams'[v] # NoSlice => streams'[v].len \in 1..Len(heap'[streams'[v].arr])
      <3>1. \A v \in Users : streams[v] # NoSlice => Arr(v) \in Arrays
        BY LengthIsZero DEF IInv
      <3> QED BY <1>1, <1>6, <3>1 DEF IInv, TypeOK, Arr
    <2> QED BY <1>1, <1>6, <2>1, <2>2 DEF IInv, TypeOK
  <1>10. Locks' /\ Named'
    BY <1>1 DEF IInv, Locks, Named
  <1>11. Headers'
    BY <1>1, <1>6, <1>8 DEF IInv, Headers, Arr
  <1>12. MovingAt(u, s, i)'
    <2>1. \A j \in 1..n : Cell(u, j)' = IF j = k THEN x ELSE Cell(u, j)
      <3>1. \A j \in 1..n : j \in 1..Len(heap[a])
        BY <1>2
      <3> QED BY <1>2, <1>6, <1>8, <3>1 DEF Cell
    <2>2. \A j \in 1..n : Cell(u, j)' = IF j < i \/ j = n \/ j \in move'.todo THEN move.old[j] ELSE move.old[j + 1]
      <3>1. \A j \in 1..n : Cell(u, j) = IF j < i \/ j = n \/ j \in move.todo THEN move.old[j] ELSE move.old[j + 1]
        BY <1>2 DEF MovingAt
      <3>2. ~(k < i) /\ k # n /\ k \notin move'.todo
        BY <1>2, <1>4, <1>7
      <3>3. \A j \in 1..n : j # k => (j \in move'.todo <=> j \in move.todo)
        BY <1>7
      <3> QED BY <1>5, <2>1, <3>1, <3>2, <3>3
    <2>3. move'.todo \subseteq i..(n - 1)
      BY <1>2, <1>7 DEF MovingAt
    <2> QED BY <1>2, <1>7, <1>8, <2>2, <2>3 DEF MovingAt
  <1>13. Book'
    <2>1. ASSUME NEW v \in Users, v # u PROVE Listed(v)'
      <3>1. Listed(v)
        BY <1>2, <2>1 DEF IInv, Book
      <3>2. \A j \in 1..Length(v) : Cell(v, j)' = Cell(v, j)
        <4>1. ASSUME NEW j \in 1..Length(v) PROVE Cell(v, j)' = Cell(v, j)
          <5>1. Arr(v) \in Arrays
            BY LengthIsZero, CellsAre DEF IInv
          <5>2. Arr(v) # a
            BY <1>2, <2>1 DEF IInv, Headers
          <5> QED BY <1>6, <1>8, <5>1, <5>2 DEF Cell
        <4> QED BY <4>1
      <3> QED BY <1>8, <3>1, <3>2 DEF Listed
    <2>2. (\E j \in 1..Length(u) : MovingAt(u, writer, j))'
      BY <1>1, <1>2, <1>8, <1>12 DEF MovingAt
    <2> QED BY <1>2, <1>8, <2>1, <2>2 DEF Book
  <1>14. Walks'
    <2> SUFFICES ASSUME NEW p \in Pushers PROVE Going(p)'
      BY DEF Walks
    <2>1. Going(p) /\ push'[p] = push[p] /\ Walking(p)' = Walking(p)
      BY <1>1 DEF IInv, Walks, Walking
    <2>2. ASSUME Walking(p) PROVE Walk(p)'
      <3>1. Walk(p)
        BY <2>1, <2>2 DEF Going
      <3>2. ASSUME push[p].len > 0
            PROVE  /\ push[p].len <= Len(heap'[push[p].arr])
                   /\ \A j \in 1..push[p].len : /\ heap'[push[p].arr][j] \in Streams
                                                /\ user[heap'[push[p].arr][j]] = push[p].user
        <4>1. push[p].arr \in Arrays /\ push[p].len \in Nat /\ push[p].len <= Len(heap[push[p].arr])
          BY <3>1, <3>2 DEF Walk
        <4>2. push[p].arr = a => push[p].user = u
          BY <1>2, <3>1, <3>2 DEF Walk
        <4>3. Len(heap[push[p].arr]) \in Nat
          BY <4>1 DEF IInv, TypeOK
        <4>4. \A j \in 1..push[p].len : \/ heap'[push[p].arr][j] = heap[push[p].arr][j]
                                        \/ push[p].arr = a /\ heap'[push[p].arr][j] = x
          BY <1>6, <4>1, <4>3
        <4> QED BY <1>5, <1>6, <3>1, <3>2, <4>1, <4>2, <4>4 DEF Walk
      <3> QED BY <1>1, <1>8, <2>1, <3>1, <3>2 DEF Walk
    <2>3. ASSUME Walking(p), ~push[p].raced PROVE Quiet(p)'
      <3>1. Walk(p) /\ Quiet(p)
        BY <2>1, <2>3 DEF Going
      <3>2. \A j \in 1..push[p].len : heap'[push[p].arr][j] = heap[push[p].arr][j]
        <4>1. ASSUME NEW j \in 1..push[p].len PROVE heap'[push[p].arr][j] = heap[push[p].arr][j]
          <5>1. push[p].len > 0 /\ push[p].arr \in Arrays
            BY <3>1 DEF Walk
          <5>2. push[p].arr # a
            BY <1>2, <3>1, <5>1 DEF Quiet
          <5> QED BY <1>6, <5>1, <5>2
        <4> QED BY <4>1
      <3> QED BY <1>8, <2>1, <3>1, <3>2 DEF Quiet
    <2> QED BY <2>1, <2>2, <2>3 DEF Going
  <1> QED BY <1>9, <1>10, <1>11, <1>13, <1>14 DEF IInv

LEMMA EndUnsubscribeStep ==
  ASSUME IInv, NEW s \in Streams, EndUnsubscribe(s)
  PROVE  IInv'
  <1>1. /\ stage[s] = "removing" /\ move.todo = {} /\ writer' = Nobody /\ move' = NoMove
        /\ stage' = [stage EXCEPT ![s] = "gone"]
        /\ UNCHANGED <<heap, user, readers, push>>
    BY DEF EndUnsubscribe
  <1>2. PICK u \in Users, n \in Nat, a \in Arrays, i \in Nat :
          /\ i \in 1..n /\ u = user[s] /\ n = Length(u) /\ a = Arr(u) /\ writer = s
          /\ n \in 1..Len(heap[a]) /\ MovingAt(u, s, i)
          /\ \A v \in Users : Removing(v) <=> v = u
    <2>1. user[s] \in Users
      BY <1>1, RemovingGives
    <2>2. Length(user[s]) \in Nat
      BY <2>1, CellsAre DEF IInv
    <2> QED BY <1>1, <2>1, <2>2, RemovingGives
  <1>3. streams[u] = [arr |-> a, len |-> n]
    BY <1>2 DEF IInv, TypeOK, Slice, Arr, Length
  <1>4. PICK t \in Slice :
          /\ streams' = [streams EXCEPT ![u] = t] /\ t.len = n - 1
          /\ t = NoSlice \/ (t.arr = a /\ t.len \in 1..Len(heap[a]))
    <2>1. streams' = [streams EXCEPT ![u] = IF n = 1 THEN NoSlice ELSE [streams[u] EXCEPT !.len = n - 1]]
      BY <1>2 DEF EndUnsubscribe, Length
    <2>2. Len(heap[a]) \in Nat
      BY <1>2 DEF IInv, TypeOK
    <2>3. CASE n = 1
      <3>1. NoSlice \in Slice /\ NoSlice.len = n - 1
        BY <2>3 DEF NoSlice, Slice
      <3>2. streams' = [streams EXCEPT ![u] = NoSlice]
        BY <2>1, <2>3
      <3> QED BY <3>1, <3>2
    <2>4. CASE n # 1
      <3>1. [streams[u] EXCEPT !.len = n - 1] = [arr |-> a, len |-> n - 1]
        BY <1>3
      <3>2. n - 1 \in 1..Len(heap[a]) /\ n - 1 \in Nat
        BY <1>2, <2>2, <2>4
      <3> QED BY <2>1, <2>4, <3>1, <3>2 DEF Slice
    <2> QED BY <2>3, <2>4
  <1>5. /\ streams' \in [Users -> Slice] /\ streams'[u] = t
        /\ \A v \in Users : v # u => streams'[v] = streams[v]
    BY <1>4 DEF IInv, TypeOK
  <1>6. /\ Length(u)' = n - 1 /\ (n > 1 => Arr(u)' = a) /\ Arr(u)' \in {a, 0}
        /\ \A v \in Users : v # u => Arr(v)' = Arr(v) /\ Length(v)' = Length(v)
    BY <1>2, <1>4, <1>5 DEF Arr, Length, NoSlice
  <1>7. \A v \in Users : Arr(v)' \in Arrays => Arr(v)' = Arr(v)
    BY <1>2, <1>6, HubAssumption
  <1>8. /\ \A x \in Streams : x # s => stage'[x] = stage[x]
        /\ stage'[s] = "gone"
    BY <1>1 DEF IInv, TypeOK
  <1>9. /\ \A v \in Users : Registered(v)' = Registered(v)
        /\ s \notin Registered(u)
        /\ \A v \in Users : ~Removing(v)'
    BY <1>1, <1>8 DEF Registered, Removing
  <1>10. TypeOK'
    <2>1. move' \in [todo : SUBSET Nat, old : Seq(Streams)]
      BY <1>1 DEF NoMove
    <2>2. \A v \in Users : streams'[v] # NoSlice => streams'[v].len \in 1..Len(heap'[streams'[v].arr])
      BY <1>1, <1>4, <1>5 DEF IInv, TypeOK
    <2> QED BY <1>1, <1>5, <2>1, <2>2 DEF IInv, TypeOK, Stage
  <1>11. Locks'
    BY <1>1, <1>2, <1>8, HubAssumption DEF IInv, Locks
  <1>12. Named'
    BY <1>1, <1>8 DEF IInv, Named
  <1>13. Headers'
    <2>1. \A v \in Users : \/ streams'[v] = NoSlice
                           \/ Arr(v)' \in Arrays /\ Length(v)' \in 1..Len(heap'[Arr(v)'])
      BY <1>1, <1>2, <1>4, <1>5, <1>6 DEF IInv, Headers
    <2>2. \A v, w \in Users : v # w /\ Arr(v)' \in Arrays => Arr(v)' # Arr(w)'
      BY <1>7 DEF IInv, Headers
    <2> QED BY <2>1, <2>2 DEF Headers, Arr
  <1>14. Listed(u)'
    <2>1. PICK old \in Seq(Streams) :
            /\ old = move.old /\ Len(old) = n /\ old[i] = s
            /\ \A j, k \in 1..n : old[j] = old[k] => j = k
            /\ \A k \in 1..n : k # i => old[k] \in Registered(u)
            /\ \A x \in Registered(u) : \E k \in 1..n : old[k] = x
            /\ \A k \in 1..n : Cell(u, k) = IF k < i \/ k = n THEN old[k] ELSE old[k + 1]
      BY <1>1, <1>2 DEF MovingAt, IInv, TypeOK
    <2> DEFINE sh(k) == IF k < i THEN k ELSE k + 1
    <2>2. \A k \in 1..(n - 1) : sh(k) \in 1..n /\ sh(k) # i /\ k \in 1..n /\ k # n
      BY <1>2
    <2>3. \A k \in 1..(n - 1) : Cell(u, k)' = old[sh(k)]
      <3>1. ASSUME NEW k \in 1..(n - 1) PROVE Cell(u, k)' = old[sh(k)]
        <4>1. n > 1 /\ k \in 1..n /\ k # n
          BY <1>2
        <4>2. Cell(u, k)' = Cell(u, k)
          BY <1>1, <1>2, <1>6, <4>1 DEF Cell
        <4> QED BY <2>1, <4>1, <4>2
      <3> QED BY <3>1
    <2>4. \A j, k \in 1..(n - 1) : sh(j) = sh(k) => j = k
      BY <1>2
    <2>5. \A j \in 1..n : j # i => \E k \in 1..(n - 1) : sh(k) = j
      <3>1. ASSUME NEW j \in 1..n, j # i PROVE \E k \in 1..(n - 1) : sh(k) = j
        <4>1. CASE j < i
          <5>1. j \in 1..(n - 1) /\ sh(j) = j
            BY <1>2, <4>1
          <5> QED BY <5>1
        <4>2. CASE j > i
          <5>1. j - 1 \in 1..(n - 1) /\ sh(j - 1) = j
            BY <1>2, <4>2
          <5> QED BY <5>1
        <4> QED BY <1>2, <3>1, <4>1, <4>2
      <3> QED BY <3>1
    <2> HIDE DEF sh
    <2>6. \A k \in 1..(n - 1) : Cell(u, k)' \in Registered(u)
      BY <2>1, <2>2, <2>3
    <2>7. \A x \in Registered(u) : \E k \in 1..(n - 1) : Cell(u, k)' = x
      <3>1. ASSUME NEW x \in Registered(u) PROVE \E k \in 1..(n - 1) : Cell(u, k)' = x
        <4>1. PICK j \in 1..n : old[j] = x
          BY <2>1
        <4>2. j # i
          BY <1>9, <2>1, <4>1
        <4>3. PICK k \in 1..(n - 1) : sh(k) = j
          BY <2>5, <4>2
        <4> QED BY <2>3, <4>1, <4>3
      <3> QED BY <3>1
    <2>8. \A j, k \in 1..(n - 1) : Cell(u, j)' = Cell(u, k)' => j = k
      <3>1. ASSUME NEW j \in 1..(n - 1), NEW k \in 1..(n - 1), Cell(u, j)' = Cell(u, k)' PROVE j = k
        <4>1. old[sh(j)] = old[sh(k)]
          BY <2>3, <3>1
        <4>2. sh(j) \in 1..n /\ sh(k) \in 1..n
          BY <2>2
        <4>3. sh(j) = sh(k)
          BY <2>1, <4>1, <4>2
        <4> QED BY <2>4, <4>3
      <3> QED BY <3>1
    <2> QED BY <1>6, <1>9, <2>6, <2>7, <2>8 DEF Listed
  <1>15. Book'
    <2>1. ASSUME NEW v \in Users, v # u PROVE Listed(v)'
      <3>1. Listed(v)
        BY <1>2, <2>1 DEF IInv, Book
      <3>2. \A k : Cell(v, k)' = Cell(v, k)
        BY <1>1, <1>6, <2>1 DEF Cell
      <3> QED BY <1>6, <1>9, <2>1, <3>1, <3>2 DEF Listed
    <2> QED BY <1>9, <1>14, <2>1 DEF Book
  <1>16. Walks'
    <2> SUFFICES ASSUME NEW p \in Pushers PROVE Going(p)'
      BY DEF Walks
    <2>1. Going(p) /\ push'[p] = push[p] /\ Walking(p)' = Walking(p)
      BY <1>1 DEF IInv, Walks, Walking
    <2>2. ASSUME Walking(p) PROVE Walk(p)'
      <3>1. Walk(p)
        BY <2>1, <2>2 DEF Going
      <3>2. \A v \in Users : push[p].len > 0 /\ Arr(v)' = push[p].arr => v = push[p].user
        BY <1>7, <3>1 DEF Walk
      <3> QED BY <1>1, <2>1, <3>1, <3>2 DEF Walk
    <2>3. ASSUME Walking(p), ~push[p].raced PROVE Quiet(p)'
      <3>1. Walk(p) /\ Quiet(p)
        BY <2>1, <2>3 DEF Going
      <3>2. ASSUME NEW v \in Users, push[p].len > 0, Arr(v)' = push[p].arr
            PROVE  push[p].len <= Length(v)' /\ ~Removing(v)'
        <4>1. Arr(v) = push[p].arr
          BY <1>7, <3>1, <3>2 DEF Walk
        <4>2. v # u /\ push[p].len <= Length(v)
          BY <1>2, <3>1, <3>2, <4>1 DEF Quiet
        <4> QED BY <1>6, <1>9, <4>2
      <3> QED BY <1>1, <2>1, <3>1, <3>2 DEF Quiet
    <2> QED BY <2>1, <2>2, <2>3 DEF Going
  <1> QED BY <1>10, <1>11, <1>12, <1>13, <1>15, <1>16 DEF IInv

-----------------------------------------------------------------------------
LEMMA InitHolds == Init => IInv
  <1> SUFFICES ASSUME Init PROVE IInv
    OBVIOUS
  <1>1. /\ streams = [u \in Users |-> NoSlice] /\ heap = [a \in Arrays |-> <<>>]
        /\ stage = [s \in Streams |-> "new"] /\ user = [s \in Streams |-> Nobody]
        /\ writer = Nobody /\ readers = {} /\ move = NoMove /\ push = [p \in Pushers |-> Idle]
    BY DEF Init
  <1>2. /\ \A u \in Users : streams[u] = NoSlice /\ Length(u) = 0 /\ Arr(u) = 0
        /\ \A s \in Streams : stage[s] = "new" /\ user[s] = Nobody
        /\ \A p \in Pushers : push[p] = Idle
    BY <1>1 DEF NoSlice, Length, Arr
  <1>3. NoSlice \in Slice /\ NoMove \in [todo : SUBSET Nat, old : Seq(Streams)]
    BY DEF NoSlice, Slice, NoMove
  <1>4. push \in [Pushers -> Pushing] /\ \A p \in Pushers : push[p].pc = "idle"
    BY <1>1, IdleTyped
  <1>5. TypeOK
    <2>1. <<>> \in Seq(Streams \cup {Nobody})
      OBVIOUS
    <2> QED BY <1>1, <1>2, <1>3, <1>4, <2>1 DEF TypeOK, Stage, Pushing
  <1>6. Locks /\ Named /\ Headers
    BY <1>1, <1>2, <1>4, HubAssumption DEF Locks, Named, Headers
  <1>7. Book
    BY <1>1, <1>2 DEF Book, Removing, Listed, Registered
  <1>8. Walks
    BY <1>4 DEF Walks, Going, Walking
  <1> QED BY <1>5, <1>6, <1>7, <1>8 DEF IInv

LEMMA StepHolds == IInv /\ [Next]_vars => IInv'
  <1> SUFFICES ASSUME IInv, [Next]_vars PROVE IInv'
    OBVIOUS
  <1>1. ASSUME NEW s \in Streams, NEW u \in Users, Subscribe(s, u) PROVE IInv'
    BY <1>1, SubscribeStep
  <1>2. ASSUME NEW s \in Streams, Disconnect(s) PROVE IInv'
    BY <1>2, DisconnectStep
  <1>3. ASSUME NEW s \in Streams, Unsubscribe(s) PROVE IInv'
    BY <1>3, BeginUnsubscribeStep, MoveCellStep, EndUnsubscribeStep DEF Unsubscribe
  <1>4. ASSUME NEW p \in Pushers, NEW u \in Users, LockForPush(p, u) PROVE IInv'
    BY <1>4, LockForPushStep
  <1>5. ASSUME NEW p \in Pushers, Push(p) PROVE IInv'
    BY <1>5, TakeSnapshotStep, ReadCellStep, SendStep, ReturnStep DEF Push
  <1>6. CASE UNCHANGED vars
    <2>1. UNCHANGED <<streams, heap, stage, user, writer, readers, move, push>>
      BY <1>6 DEF vars
    <2>2. TypeOK' /\ Locks' /\ Named' /\ Headers'
      BY <2>1 DEF IInv, TypeOK, Locks, Named, Headers, Arr, Length
    <2>3. \A v \in Users : /\ Removing(v)' = Removing(v) /\ Length(v)' = Length(v)
                          /\ Arr(v)' = Arr(v) /\ Registered(v)' = Registered(v)
      BY <2>1 DEF Removing, Length, Arr, Registered
    <2>4. ASSUME NEW v \in Users
          PROVE  (IF Removing(v) THEN \E i \in 1..Length(v) : MovingAt(v, writer, i) ELSE Listed(v))'
      <3>1. CASE Removing(v)
        <4>1. PICK i \in 1..Length(v) : MovingAt(v, writer, i)
          BY <3>1 DEF IInv, Book
        <4>2. MovingAt(v, writer, i)'
          BY <2>1, <2>3, <4>1 DEF MovingAt, Cell
        <4> QED BY <2>3, <3>1, <4>2
      <3>2. CASE ~Removing(v)
        BY <2>1, <2>3, <3>2 DEF IInv, Book, Listed, Cell
      <3> QED BY <3>1, <3>2
    <2>5. Walks'
      BY <2>1, <2>3 DEF IInv, Walks, Going, Walking, Walk, Quiet
    <2> QED BY <2>2, <2>4, <2>5 DEF IInv, Book
  <1> QED BY <1>1, <1>2, <1>3, <1>4, <1>5, <1>6 DEF Next

\* The state of the hub at every moment: its locks, the arrays of its headers,
\* what they list while a stream is being taken out, and what running pushes
\* may rely on (hub.go, all of it).
THEOREM HubInvariance == Spec => []IInv
  BY InitHolds, StepHolds, PTL DEF Spec

\* Every variable of the hub keeps its type, and every header fits its array.
THEOREM HubTypes == Spec => []TypeOK
  <1>1. IInv => TypeOK
    BY DEF IInv
  <1> QED BY <1>1, HubInvariance, PTL

\* While the lock is free the map lists every registered stream exactly once
\* under its user, and no user without streams (Subscribe, Unsubscribe).
THEOREM HubExactHolds == Spec => []HubExact
  BY IInvExact, HubInvariance, PTL

\* A push that walks an array while others change it only ever finds streams
\* of its own user (the unlocked loop of Push).
THEOREM OwnStreamsHold == Spec => []OwnStreamsOnly
  <1>1. IInv => OwnStreamsOnly
    <2>1. \A p \in Pushers : IInv /\ push[p].pc = "send" => push[p].to \in Streams /\ user[push[p].to] = push[p].user
      BY DEF IInv, Walks, Going, Walking, Walk
    <2> QED BY <2>1, HubAssumption DEF OwnStreamsOnly
  <1> QED BY <1>1, HubInvariance, PTL

\* A push from whose array nobody was removed has sent to its whole snapshot,
\* in order, when it returns (Push, without an Unsubscribe of the same user).
THEOREM QuietPushHolds == Spec => QuietPushComplete
  <1>1. ASSUME IInv, [Next]_vars, NEW p \in Pushers, push[p].pc = "loop", push'[p].pc = "idle", ~push[p].raced
        PROVE  push[p].sent = push[p].snap
    <2>1. push[p].i > push[p].len
      <3>1. push'[p] # push[p]
        BY <1>1
      <3>2. ASSUME NEW s \in Streams, Unsubscribe(s) PROVE push'[p].pc = push[p].pc
        <4>1. CASE BeginUnsubscribe(s)
          <5>1. PICK q \in Pushing : q = push[p]
            BY <1>1 DEF IInv, TypeOK, Pushing
          <5>2. push'[p] = q \/ push'[p] = [q EXCEPT !.raced = TRUE]
            BY <4>1, <5>1 DEF BeginUnsubscribe
          <5>3. [q EXCEPT !.raced = TRUE].pc = q.pc
            BY DEF Pushing
          <5> QED BY <5>1, <5>2, <5>3
        <4> QED BY <3>2, <4>1 DEF Unsubscribe, MoveCell, EndUnsubscribe
      <3>3. ASSUME NEW q \in Pushers, NEW u \in Users, LockForPush(q, u) PROVE FALSE
        BY <1>1, <3>3, IdleTyped DEF LockForPush, IInv, TypeOK, Pushing
      <3>4. ASSUME NEW q \in Pushers, TakeSnapshot(q) PROVE FALSE
        BY <1>1, <3>4 DEF TakeSnapshot, IInv, TypeOK
      <3>5. ASSUME NEW q \in Pushers, ReadCell(q) PROVE FALSE
        BY <1>1, <3>5 DEF ReadCell, IInv, TypeOK
      <3>6. ASSUME NEW q \in Pushers, Send(q) PROVE FALSE
        BY <1>1, <3>6 DEF Send, IInv, TypeOK
      <3>7. ASSUME NEW q \in Pushers, Return(q) PROVE push[p].i > push[p].len
        BY <1>1, <3>7 DEF Return, IInv, TypeOK
      <3> QED BY <1>1, <3>1, <3>2, <3>3, <3>4, <3>5, <3>6, <3>7
              DEF Next, vars, Push, Subscribe, Disconnect
    <2>2. Walk(p) /\ Quiet(p) /\ push[p].snap \in Seq(Streams)
      BY <1>1 DEF IInv, TypeOK, Walks, Going, Walking
    <2>3. push[p].i - 1 = Len(push[p].snap) /\ push[p].sent = SubSeq(push[p].snap, 1, push[p].i - 1)
      BY <2>1, <2>2 DEF Walk, Quiet
    <2> QED BY <2>2, <2>3, SubSeqFull
  <1>2. IInv /\ [Next]_vars
          => [\A p \in Pushers :
                (push[p].pc = "loop" /\ push'[p].pc = "idle" /\ ~push[p].raced)
                  => push[p].sent = push[p].snap]_vars
    BY <1>1
  <1> QED BY <1>2, HubInvariance, PTL DEF Spec, QuietPushComplete

-----------------------------------------------------------------------------
(* The hub implements Subscriptions.                                       *)

\* How far a push has come: as many visits as turns of the loop, and nothing
\* but defaults before the snapshot and after the end.
Turn(r) ==
  IF r.pc \in {"loop", "send"}
  THEN /\ Len(r.snap) = r.len /\ r.i <= r.len + 1 /\ Len(r.sent) = r.i - 1
       /\ r.len = 0 => r.arr \notin Arrays
  ELSE r.snap = <<>> /\ r.sent = <<>> /\ r.raced = FALSE

Turns == \A p \in Pushers : Turn(push[p])

\* What the board sees of a push.
Target(r) == IF r.pc \in {"loop", "send"} THEN r.user ELSE Nobody

LEMMA IdleSeen ==
  /\ Idle \in Pushing /\ Turn(Idle) /\ Target(Idle) = Nobody
  /\ Idle.snap = <<>> /\ Idle.sent = <<>> /\ Idle.raced = FALSE
  BY IdleTyped DEF Idle, Turn, Target

\* One push moves from a to r.
Moves(p, a, r) ==
  /\ a \in Pushing /\ r \in Pushing
  /\ push[p] = a /\ push' = [push EXCEPT ![p] = r]

LEMMA LockForPushMoves ==
  ASSUME IInv, NEW p \in Pushers, NEW u \in Users, LockForPush(p, u)
  PROVE  /\ Moves(p, push[p], [Idle EXCEPT !.pc = "rlock", !.user = u])
         /\ push[p].pc = "idle"
  BY IdleTyped DEF LockForPush, Moves, IInv, TypeOK, Pushing

LEMMA TakeSnapshotMoves ==
  ASSUME IInv, NEW p \in Pushers, TakeSnapshot(p)
  PROVE  \E a \in Pushing, c \in Seq(Streams), u \in Users :
           /\ Moves(p, a, [a EXCEPT !.pc = "loop", !.arr = Arr(u), !.len = Length(u), !.snap = c])
           /\ a.pc = "rlock" /\ a.user = u /\ a.i = 1 /\ a.sent = <<>>
           /\ Len(c) = Length(u)
           /\ {c[k] : k \in DOMAIN c} = Registered(u)
           /\ \A j, k \in DOMAIN c : c[j] = c[k] => j = k
  <1>1. PICK a \in Pushing, u \in Users : a = push[p] /\ a.pc = "rlock" /\ a.user = u
                                          /\ a.i = 1 /\ a.sent = <<>>
    BY DEF TakeSnapshot, IInv, TypeOK, Pushing, Walks, Going
  <1>2. Listed(u)
    BY <1>1 DEF IInv, Locks, Book, Removing
  <1>3. PICK c \in Seq(Streams \cup {Nobody}) :
          /\ c = Cells(streams[u]) /\ Len(c) = Length(u)
          /\ \A k \in 1..Length(u) : c[k] = Cell(u, k)
    BY CellsAre DEF IInv
  <1>4. DOMAIN c = 1..Length(u)
    BY <1>3
  <1>5. /\ {c[k] : k \in DOMAIN c} = Registered(u)
        /\ \A j, k \in DOMAIN c : c[j] = c[k] => j = k
    BY <1>2, <1>3, <1>4 DEF Listed
  <1>6. c \in Seq(Streams)
    <2>1. \A k \in 1..Len(c) : c[k] \in Streams
      BY <1>3, <1>4, <1>5 DEF Registered
    <2> QED BY <1>3, <2>1
  <1>7. Length(u) \in Nat /\ Arr(u) \in Arrays \cup {0}
    BY DEF IInv, TypeOK, Slice, Arr, Length
  <1>8. push' = [push EXCEPT ![p] = [a EXCEPT !.pc = "loop", !.arr = Arr(u), !.len = Length(u), !.snap = c]]
    BY <1>1, <1>3 DEF TakeSnapshot, Arr, Length
  <1>9. [a EXCEPT !.pc = "loop", !.arr = Arr(u), !.len = Length(u), !.snap = c] \in Pushing
    BY <1>1, <1>6, <1>7 DEF Pushing
  <1>10. Moves(p, a, [a EXCEPT !.pc = "loop", !.arr = Arr(u), !.len = Length(u), !.snap = c])
    BY <1>1, <1>8, <1>9 DEF Moves
  <1> QED BY <1>1, <1>3, <1>5, <1>6, <1>10

LEMMA ReadCellMoves ==
  ASSUME IInv, NEW p \in Pushers, ReadCell(p)
  PROVE  \E a \in Pushing, x \in Streams :
           /\ Moves(p, a, [a EXCEPT !.pc = "send", !.to = x])
           /\ a.pc = "loop" /\ a.i <= a.len
  <1>1. PICK a \in Pushing : a = push[p] /\ a.pc = "loop" /\ a.i <= a.len /\ Walk(p)
    BY DEF ReadCell, IInv, TypeOK, Pushing, Walks, Going, Walking
  <1>2. PICK x \in Streams : x = heap[a.arr][a.i]
    <2>1. a.i \in 1..a.len /\ a.len > 0
      BY <1>1 DEF Walk
    <2> QED BY <1>1, <2>1 DEF Walk
  <1>3. push' = [push EXCEPT ![p] = [a EXCEPT !.pc = "send", !.to = x]]
    BY <1>1, <1>2 DEF ReadCell, IInv, TypeOK
  <1>4. [a EXCEPT !.pc = "send", !.to = x] \in Pushing
    BY <1>1, <1>2 DEF Pushing
  <1> QED BY <1>1, <1>2, <1>3, <1>4 DEF Moves

LEMMA SendMoves ==
  ASSUME IInv, NEW p \in Pushers, Send(p)
  PROVE  \E a \in Pushing, x \in Streams, i \in Nat, sent \in Seq(Streams) :
           /\ Moves(p, a, [a EXCEPT !.pc = "loop", !.i = i + 1, !.to = Nobody, !.sent = Append(sent, x)])
           /\ a.pc = "send" /\ a.to = x /\ a.i = i /\ a.sent = sent
           /\ i \in 1..a.len /\ a.len \in Nat /\ user[x] = a.user /\ a.user \in Users
           /\ ~a.raced => x = a.snap[i]
  <1>1. PICK a \in Pushing : /\ a = push[p] /\ a.pc = "send" /\ a.user \in Users
                             /\ Walk(p) /\ (~a.raced => Quiet(p))
    BY DEF Send, IInv, TypeOK, Pushing, Walks, Going, Walking
  <1>2. PICK x \in Streams, i \in Nat, sent \in Seq(Streams) :
          /\ a.to = x /\ a.i = i /\ a.sent = sent
          /\ i \in 1..a.len /\ a.len \in Nat /\ user[x] = a.user
          /\ ~a.raced => x = a.snap[i]
    BY <1>1 DEF Walk, Quiet, Pushing
  <1> DEFINE r == [a EXCEPT !.pc = "loop", !.i = i + 1, !.to = Nobody, !.sent = Append(sent, x)]
  <1>3. push' = [push EXCEPT ![p] = r]
    <2>1. push' = [push EXCEPT ![p].pc = "loop", ![p].i = i + 1, ![p].to = Nobody,
                               ![p].sent = Append(sent, x)]
      BY <1>1, <1>2 DEF Send
    <2>2. push \in [Pushers -> Pushing]
      BY DEF IInv, TypeOK, Pushing
    <2> QED BY <1>1, <2>1, <2>2
  <1>4. r \in Pushing
    <2>1. Append(sent, x) \in Seq(Streams) /\ i + 1 \in Nat
      OBVIOUS
    <2> QED BY <1>1, <1>2, <2>1 DEF Pushing
  <1> QED BY <1>1, <1>2, <1>3, <1>4 DEF Moves

LEMMA ReturnMoves ==
  ASSUME IInv, NEW p \in Pushers, Return(p)
  PROVE  \E a \in Pushing : Moves(p, a, Idle) /\ a.pc = "loop" /\ a.i > a.len
  BY IdleTyped DEF Return, Moves, IInv, TypeOK, Pushing

\* What other pushes see of such a move.
LEMMA OthersStand ==
  ASSUME IInv, NEW p \in Pushers, NEW a, NEW r, Moves(p, a, r)
  PROVE  /\ push'[p] = r /\ \A q \in Pushers \ {p} : push'[q] = push[q]
         /\ push' \in [Pushers -> Pushing]
  BY DEF Moves, IInv, TypeOK, Pushing

LEMMA UnsubscribeKeeps ==
  ASSUME IInv, NEW s \in Streams, BeginUnsubscribe(s), NEW p \in Pushers
  PROVE  \E a \in Pushing :
           /\ push[p] = a
           /\ \/ push'[p] = a
              \/ /\ push'[p] = [a EXCEPT !.raced = TRUE]
                 /\ a.pc \in {"loop", "send"}
                 /\ a.arr = Arr(user[s])
  BY DEF BeginUnsubscribe, Walking, IInv, TypeOK, Pushing, Arr

LEMMA TurnsInit == Init => Turns
  BY IdleSeen DEF Init, Turns

LEMMA TurnsStep ==
  ASSUME IInv, Turns, [Next]_vars
  PROVE  Turns'
  <1> SUFFICES ASSUME NEW q \in Pushers PROVE Turn(push'[q])
    BY DEF Turns
  <1>1. Turn(push[q]) /\ push[q] \in Pushing
    BY DEF Turns, IInv, TypeOK, Pushing
  <1>2. ASSUME NEW p \in Pushers, NEW a, NEW r, Moves(p, a, r), p = q => Turn(r)
        PROVE  Turn(push'[q])
    BY <1>1, <1>2, OthersStand
  <1>3. ASSUME UNCHANGED push PROVE Turn(push'[q])
    BY <1>1, <1>3
  <1>4. ASSUME NEW p \in Pushers, NEW u \in Users, LockForPush(p, u) PROVE Turn(push'[q])
    <2>1. Turn([Idle EXCEPT !.pc = "rlock", !.user = u])
      BY IdleSeen DEF Turn, Pushing
    <2> QED BY <1>2, <1>4, <2>1, LockForPushMoves
  <1>5. ASSUME NEW p \in Pushers, TakeSnapshot(p) PROVE Turn(push'[q])
    <2>1. PICK a \in Pushing, c \in Seq(Streams), u \in Users :
            /\ Moves(p, a, [a EXCEPT !.pc = "loop", !.arr = Arr(u), !.len = Length(u), !.snap = c])
            /\ a.pc = "rlock" /\ a.i = 1 /\ a.sent = <<>> /\ Len(c) = Length(u)
      BY <1>5, TakeSnapshotMoves
    <2>2. Length(u) \in Nat /\ (Length(u) = 0 => Arr(u) \notin Arrays)
      BY CellsAre, LengthIsZero DEF IInv
    <2>3. Turn([a EXCEPT !.pc = "loop", !.arr = Arr(u), !.len = Length(u), !.snap = c])
      BY <2>1, <2>2 DEF Turn, Pushing
    <2> QED BY <1>2, <2>1, <2>3
  <1>6. ASSUME NEW p \in Pushers, ReadCell(p) PROVE Turn(push'[q])
    <2>1. PICK a \in Pushing, x \in Streams :
            /\ Moves(p, a, [a EXCEPT !.pc = "send", !.to = x]) /\ a.pc = "loop"
      BY <1>6, ReadCellMoves
    <2>2. p = q => Turn([a EXCEPT !.pc = "send", !.to = x])
      BY <1>1, <2>1 DEF Turn, Pushing, Moves
    <2> QED BY <1>2, <2>1, <2>2
  <1>7. ASSUME NEW p \in Pushers, Send(p) PROVE Turn(push'[q])
    <2>1. PICK a \in Pushing, x \in Streams, i \in Nat, sent \in Seq(Streams) :
            /\ Moves(p, a, [a EXCEPT !.pc = "loop", !.i = i + 1, !.to = Nobody, !.sent = Append(sent, x)])
            /\ a.pc = "send" /\ a.i = i /\ a.sent = sent /\ i \in 1..a.len /\ a.len \in Nat
      BY <1>7, SendMoves
    <2>2. Len(Append(sent, x)) = Len(sent) + 1
      OBVIOUS
    <2>3. p = q => Len(a.snap) = a.len /\ Len(sent) = i - 1
      BY <1>1, <2>1 DEF Turn, Moves
    <2>4. p = q => Turn([a EXCEPT !.pc = "loop", !.i = i + 1, !.to = Nobody, !.sent = Append(sent, x)])
      BY <2>1, <2>2, <2>3 DEF Turn, Pushing
    <2> QED BY <1>2, <2>1, <2>4
  <1>8. ASSUME NEW p \in Pushers, Return(p) PROVE Turn(push'[q])
    BY <1>2, <1>8, IdleSeen, ReturnMoves
  <1>9. ASSUME NEW s \in Streams, Unsubscribe(s) PROVE Turn(push'[q])
    <2>1. CASE BeginUnsubscribe(s)
      <3>1. PICK a \in Pushing : push[q] = a /\ (\/ push'[q] = a
                                                 \/ /\ push'[q] = [a EXCEPT !.raced = TRUE]
                                                    /\ a.pc \in {"loop", "send"})
        BY <1>9, <2>1, UnsubscribeKeeps
      <3> QED BY <1>1, <3>1 DEF Turn, Pushing
    <2> QED BY <1>3, <1>9, <2>1 DEF Unsubscribe, MoveCell, EndUnsubscribe
  <1> QED BY <1>3, <1>4, <1>5, <1>6, <1>7, <1>8, <1>9 DEF Next, vars, Push, Subscribe, Disconnect

\* A push makes a turn for every stream of its snapshot, raced or not.
LEMMA TurnsHold == Spec => []Turns
  <1>1. IInv /\ Turns /\ [Next]_vars => Turns'
    BY TurnsStep
  <1> QED BY <1>1, TurnsInit, HubInvariance, PTL DEF Spec

\* What the board sees.
Subscribers == [u \in Users |-> Registered(u)]
Targets == [p \in Pushers |-> IF Walking(p) THEN push[p].user ELSE Nobody]
Plans == [p \in Pushers |-> push[p].snap]
Visits == [p \in Pushers |-> push[p].sent]
Disturbed == [p \in Pushers |-> push[p].raced]

\* How the board sees the move of one push.
LEMMA BoardSees ==
  ASSUME IInv, NEW p \in Pushers, NEW a, NEW r, Moves(p, a, r),
         UNCHANGED <<stage, user>>
  PROVE  /\ Subscribers' = Subscribers
         /\ Plans' = [Plans EXCEPT ![p] = r.snap]
         /\ Visits' = [Visits EXCEPT ![p] = r.sent]
         /\ Disturbed' = [Disturbed EXCEPT ![p] = r.raced]
         /\ Targets' = [Targets EXCEPT ![p] = Target(r)]
         /\ r.snap = a.snap => Plans' = Plans
         /\ r.sent = a.sent => Visits' = Visits
         /\ r.raced = a.raced => Disturbed' = Disturbed
         /\ Target(r) = Target(a) => Targets' = Targets
         /\ Targets[p] = Target(a) /\ Plans[p] = a.snap /\ Visits[p] = a.sent /\ Disturbed[p] = a.raced
  <1>1. push'[p] = r /\ push[p] = a /\ \A q \in Pushers \ {p} : push'[q] = push[q]
    BY OthersStand DEF Moves
  <1>2. Subscribers' = Subscribers
    BY DEF Registered, Subscribers
  <1>3. \A q \in Pushers : (IF Walking(q) THEN push[q].user ELSE Nobody)' = Target(push'[q])
                           /\ (IF Walking(q) THEN push[q].user ELSE Nobody) = Target(push[q])
    BY DEF Walking, Target
  <1>4. /\ Plans' = [Plans EXCEPT ![p] = r.snap] /\ Plans[p] = a.snap
        /\ r.snap = a.snap => Plans' = Plans
    BY <1>1 DEF Plans
  <1>5. /\ Visits' = [Visits EXCEPT ![p] = r.sent] /\ Visits[p] = a.sent
        /\ r.sent = a.sent => Visits' = Visits
    BY <1>1 DEF Visits
  <1>6. /\ Disturbed' = [Disturbed EXCEPT ![p] = r.raced] /\ Disturbed[p] = a.raced
        /\ r.raced = a.raced => Disturbed' = Disturbed
    BY <1>1 DEF Disturbed
  <1>7. /\ Targets' = [Targets EXCEPT ![p] = Target(r)] /\ Targets[p] = Target(a)
        /\ Target(r) = Target(a) => Targets' = Targets
    BY <1>1, <1>3 DEF Targets
  <1> QED BY <1>2, <1>4, <1>5, <1>6, <1>7

LEMMA SubscribeJoins ==
  ASSUME IInv, NEW s \in Streams, NEW u \in Users, Subscribe(s, u)
  PROVE  Board!Join(s, u)
  <1>1. /\ stage[s] = "new" /\ user[s] = Nobody
        /\ stage' = [stage EXCEPT ![s] = "open"] /\ user' = [user EXCEPT ![s] = u]
        /\ push' = push
    BY DEF Subscribe, IInv, Named
  <1>2. ASSUME NEW v \in Users
        PROVE  Registered(v)' = IF v = u THEN Registered(v) \cup {s} ELSE Registered(v)
    <2>1. s \notin Registered(v)
      BY <1>1 DEF Registered
    <2>2. \A x \in Streams : x # s => stage'[x] = stage[x] /\ user'[x] = user[x]
      BY <1>1 DEF IInv, TypeOK
    <2>3. stage'[s] = "open" /\ user'[s] = u
      BY <1>1 DEF IInv, TypeOK
    <2> QED BY <2>1, <2>2, <2>3 DEF Registered
  <1>3. [v \in Users |-> Registered(v)]'
          = [[v \in Users |-> Registered(v)] EXCEPT ![u] = @ \cup {s}]
    BY <1>2
  <1>4. \A p \in Pushers : Walking(p)' = Walking(p)
    BY <1>1 DEF Walking
  <1> QED BY <1>1, <1>3, <1>4 DEF Board!Join

LEMMA BeginUnsubscribeLeaves ==
  ASSUME IInv, Turns, NEW s \in Streams, BeginUnsubscribe(s)
  PROVE  \E u \in Users : Board!Leave(s, u)
  <1>1. PICK u \in Users : u = user[s]
    BY DEF BeginUnsubscribe, IInv, Named
  <1>2. /\ stage[s] = "closing" /\ stage' = [stage EXCEPT ![s] = "removing"] /\ user' = user
    BY DEF BeginUnsubscribe
  <1>3. s \in Registered(u)
    BY <1>1, <1>2 DEF Registered
  <1>4. [v \in Users |-> Registered(v)]'
          = [[v \in Users |-> Registered(v)] EXCEPT ![u] = @ \ {s}]
    <2>1. ASSUME NEW v \in Users
          PROVE  Registered(v)' = IF v = u THEN Registered(v) \ {s} ELSE Registered(v)
      <3>1. \A x \in Streams : x # s => stage'[x] = stage[x]
        BY <1>2 DEF IInv, TypeOK
      <3>2. stage'[s] = "removing"
        BY <1>2 DEF IInv, TypeOK
      <3> QED BY <1>1, <1>2, <3>1, <3>2 DEF Registered
    <2> QED BY <2>1
  <1> DEFINE D == {p \in Pushers : push'[p].raced /\ ~push[p].raced}
  <1>5. ASSUME NEW p \in Pushers
        PROVE  /\ push'[p].snap = push[p].snap /\ push'[p].sent = push[p].sent
               /\ (IF Walking(p) THEN push[p].user ELSE Nobody)' = (IF Walking(p) THEN push[p].user ELSE Nobody)
               /\ push[p].raced => push'[p].raced
               /\ push[p].raced \in BOOLEAN /\ push'[p].raced \in BOOLEAN
               /\ p \in D => (IF Walking(p) THEN push[p].user ELSE Nobody) = u
    <2>1. PICK a \in Pushing : /\ push[p] = a
                               /\ \/ push'[p] = a
                                  \/ /\ push'[p] = [a EXCEPT !.raced = TRUE]
                                     /\ a.pc \in {"loop", "send"} /\ a.arr = Arr(u)
      BY <1>1, UnsubscribeKeeps
    <2>2. CASE push'[p] = a
      BY <2>1, <2>2 DEF Walking, Pushing
    <2>3. CASE /\ push'[p] = [a EXCEPT !.raced = TRUE]
               /\ a.pc \in {"loop", "send"} /\ a.arr = Arr(u)
      <3>1. Walking(p) /\ Walk(p)
        BY <2>1, <2>3 DEF Walking, IInv, Walks, Going
      <3>2. Arr(u) \in Arrays
        <4>1. Length(u) # 0
          BY <1>3, CellsAre DEF IInv, Book, BeginUnsubscribe, Unlocked, Removing, Listed
        <4> QED BY <4>1, LengthIsZero DEF IInv
      <3>3. a.len > 0 => a.user = u
        BY <2>1, <2>3, <3>1 DEF Walk
      <3>4. a.len > 0
        BY <2>1, <2>3, <3>2 DEF Turns, Turn, Pushing
      <3> QED BY <2>1, <2>3, <3>1, <3>3, <3>4 DEF Walking, Pushing
    <2> QED BY <2>1, <2>2, <2>3
  <1>6. D \in SUBSET {p \in Pushers : [q \in Pushers |-> IF Walking(q) THEN push[q].user ELSE Nobody][p] = u}
    BY <1>5
  <1>7. \A p \in Pushers : push'[p].raced = ([q \in Pushers |-> push[q].raced][p] \/ p \in D)
    BY <1>5
  <1>8. [p \in Pushers |-> push[p].raced]'
          = [p \in Pushers |-> [q \in Pushers |-> push[q].raced][p] \/ p \in D]
    BY <1>7
  <1>9. /\ [p \in Pushers |-> push[p].snap]' = [p \in Pushers |-> push[p].snap]
        /\ [p \in Pushers |-> push[p].sent]' = [p \in Pushers |-> push[p].sent]
        /\ [p \in Pushers |-> IF Walking(p) THEN push[p].user ELSE Nobody]'
             = [p \in Pushers |-> IF Walking(p) THEN push[p].user ELSE Nobody]
    BY <1>5
  <1>10. s \in [v \in Users |-> Registered(v)][u]
    BY <1>3
  <1> HIDE DEF D
  <1>11. Board!Leave(s, u)
    BY <1>2, <1>4, <1>6, <1>8, <1>9, <1>10 DEF Board!Leave
  <1> QED BY <1>11

LEMMA TakeSnapshotBegins ==
  ASSUME IInv, Turns, NEW p \in Pushers, TakeSnapshot(p)
  PROVE  \E u \in Users : Board!Begin(p, u)
  <1>1. PICK a \in Pushing, c \in Seq(Streams), u \in Users :
          /\ Moves(p, a, [a EXCEPT !.pc = "loop", !.arr = Arr(u), !.len = Length(u), !.snap = c])
          /\ a.pc = "rlock" /\ a.user = u /\ a.i = 1 /\ a.sent = <<>>
          /\ Len(c) = Length(u)
          /\ {c[k] : k \in DOMAIN c} = Registered(u)
          /\ \A j, k \in DOMAIN c : c[j] = c[k] => j = k
    BY TakeSnapshotMoves, Zenon
  <1> DEFINE r == [a EXCEPT !.pc = "loop", !.arr = Arr(u), !.len = Length(u), !.snap = c]
  <1>2. r.snap = c /\ r.sent = a.sent /\ r.raced = a.raced /\ Target(r) = u /\ Target(a) = Nobody
    BY <1>1 DEF Target, Pushing
  <1>3. Moves(p, a, r)
    BY <1>1
  <1> HIDE DEF r
  <1>4. UNCHANGED <<stage, user>>
    BY DEF TakeSnapshot
  <1>5. /\ Subscribers' = Subscribers
        /\ Plans' = [Plans EXCEPT ![p] = c]
        /\ Visits' = Visits
        /\ Disturbed' = Disturbed
        /\ Targets' = [Targets EXCEPT ![p] = u]
        /\ Targets[p] = Nobody
    BY <1>2, <1>3, <1>4, BoardSees
  <1>6. Plans'[p] = c
    BY <1>5 DEF Plans
  <1>7. Board!Lists(c, Registered(u))
    BY <1>1 DEF Board!Lists
  <1>8. Subscribers[u] = Registered(u)
    BY DEF Subscribers
  <1>9. Board!Begin(p, u)
    BY <1>4, <1>5, <1>6, <1>7, <1>8 DEF Board!Begin, Subscribers, Targets, Plans, Visits, Disturbed
  <1> QED BY <1>9

LEMMA SendVisits ==
  ASSUME IInv, Turns, NEW p \in Pushers, Send(p)
  PROVE  \E s \in Streams : Board!Visit(p, s)
  <1>1. PICK a \in Pushing, x \in Streams, i \in Nat, sent \in Seq(Streams) :
          /\ Moves(p, a, [a EXCEPT !.pc = "loop", !.i = i + 1, !.to = Nobody, !.sent = Append(sent, x)])
          /\ a.pc = "send" /\ a.i = i /\ a.sent = sent
          /\ i \in 1..a.len /\ a.len \in Nat /\ user[x] = a.user /\ a.user \in Users
          /\ ~a.raced => x = a.snap[i]
    BY SendMoves
  <1> DEFINE r == [a EXCEPT !.pc = "loop", !.i = i + 1, !.to = Nobody, !.sent = Append(sent, x)]
  <1>2. /\ r.snap = a.snap /\ r.sent = Append(sent, x) /\ r.raced = a.raced
        /\ Target(r) = Target(a) /\ Target(a) = a.user /\ a.user # Nobody
    BY <1>1, HubAssumption DEF Target, Pushing
  <1>3. Moves(p, a, r)
    BY <1>1
  <1> HIDE DEF r
  <1>4. UNCHANGED <<stage, user>>
    BY DEF Send
  <1>5. /\ Subscribers' = Subscribers
        /\ Plans' = Plans
        /\ Visits' = [Visits EXCEPT ![p] = Append(sent, x)]
        /\ Disturbed' = Disturbed
        /\ Targets' = Targets
        /\ Targets[p] = a.user
    BY <1>2, <1>3, <1>4, BoardSees
  <1>6. push[p] = a
    BY <1>1 DEF Moves
  <1>7. Len(a.snap) = a.len /\ Len(sent) = i - 1
    BY <1>1, <1>6 DEF Turns, Turn
  <1>8. Len(sent) < Len(a.snap) /\ (a.raced \/ x = a.snap[Len(sent) + 1])
    BY <1>1, <1>7
  <1>9. Board!Visit(p, x)
    BY <1>1, <1>2, <1>4, <1>5, <1>6, <1>8 DEF Board!Visit, Subscribers, Targets, Plans, Visits, Disturbed
  <1> QED BY <1>9

LEMMA ReturnEnds ==
  ASSUME IInv, Turns, NEW p \in Pushers, Return(p)
  PROVE  Board!End(p)
  <1>1. PICK a \in Pushing : Moves(p, a, Idle) /\ a.pc = "loop" /\ a.i > a.len
    BY ReturnMoves
  <1>2. UNCHANGED <<stage, user>>
    BY DEF Return
  <1>3. push[p] = a /\ a.user # Nobody /\ Target(a) = a.user
    <2>1. push[p] = a
      BY <1>1 DEF Moves
    <2>2. a.user \in Users
      BY <1>1, <2>1 DEF IInv, Walks, Going
    <2> QED BY <1>1, <2>1, <2>2, HubAssumption DEF Target
  <1>4. Len(a.sent) = Len(a.snap)
    BY <1>1, <1>3 DEF Turns, Turn, Pushing
  <1>5. /\ Subscribers' = Subscribers
        /\ Plans' = [Plans EXCEPT ![p] = <<>>]
        /\ Visits' = [Visits EXCEPT ![p] = <<>>]
        /\ Disturbed' = [Disturbed EXCEPT ![p] = FALSE]
        /\ Targets' = [Targets EXCEPT ![p] = Nobody]
        /\ Targets[p] = a.user
    BY <1>1, <1>2, <1>3, BoardSees, IdleSeen
  <1> QED BY <1>2, <1>3, <1>4, <1>5 DEF Board!End, Subscribers, Targets, Plans, Visits, Disturbed

\* The steps of a push the callers of the hub do not see.
LEMMA LockForPushHidden ==
  ASSUME IInv, Turns, NEW p \in Pushers, NEW u \in Users, LockForPush(p, u)
  PROVE  UNCHANGED Board!boardVars
  <1> DEFINE r == [Idle EXCEPT !.pc = "rlock", !.user = u]
  <1>1. PICK a \in Pushing : Moves(p, a, r) /\ push[p] = a /\ a.pc = "idle"
    BY LockForPushMoves DEF Moves
  <1>2. r.snap = <<>> /\ r.sent = <<>> /\ r.raced = FALSE /\ Target(r) = Nobody
    BY IdleSeen DEF Target, Pushing
  <1>3. a.snap = <<>> /\ a.sent = <<>> /\ a.raced = FALSE /\ Target(a) = Nobody
    BY <1>1 DEF Turns, Turn, Target
  <1> HIDE DEF r
  <1>4. /\ Subscribers' = Subscribers
        /\ Plans' = Plans
        /\ Visits' = Visits
        /\ Disturbed' = Disturbed
        /\ Targets' = Targets
    <2>1. UNCHANGED <<stage, user>>
      BY DEF LockForPush
    <2>2. r.snap = a.snap /\ r.sent = a.sent /\ r.raced = a.raced /\ Target(r) = Target(a)
      BY <1>2, <1>3
    <2> QED BY <1>1, <2>1, <2>2, BoardSees
  <1> QED BY <1>4 DEF LockForPush, Board!boardVars, Subscribers, Targets, Plans, Visits, Disturbed

LEMMA ReadCellHidden ==
  ASSUME IInv, NEW p \in Pushers, ReadCell(p)
  PROVE  UNCHANGED Board!boardVars
  <1>1. PICK a \in Pushing, x \in Streams :
          Moves(p, a, [a EXCEPT !.pc = "send", !.to = x]) /\ a.pc = "loop"
    BY ReadCellMoves
  <1> DEFINE r == [a EXCEPT !.pc = "send", !.to = x]
  <1>2. r.snap = a.snap /\ r.sent = a.sent /\ r.raced = a.raced /\ Target(r) = Target(a)
    BY <1>1 DEF Target, Pushing
  <1>3. Moves(p, a, r) /\ UNCHANGED <<stage, user>>
    BY <1>1 DEF ReadCell
  <1> HIDE DEF r
  <1>4. /\ Subscribers' = Subscribers
        /\ Plans' = Plans
        /\ Visits' = Visits
        /\ Disturbed' = Disturbed
        /\ Targets' = Targets
    BY <1>2, <1>3, BoardSees
  <1> QED BY <1>3, <1>4 DEF Board!boardVars, Subscribers, Targets, Plans, Visits, Disturbed

LEMMA BoardInit == Init => Board!Init
  <1> SUFFICES ASSUME Init PROVE Board!Init
    OBVIOUS
  <1>1. \A u \in Users : Registered(u) = {}
    BY DEF Init, Registered
  <1>2. \A p \in Pushers : push[p] = Idle /\ ~Walking(p)
    BY IdleTyped DEF Init, Walking
  <1> QED BY <1>1, <1>2, IdleSeen DEF Board!Init, Init

LEMMA BoardStep ==
  ASSUME IInv, Turns, [Next]_vars
  PROVE  [Board!Next]_(Board!boardVars)
  <1>1. ASSUME NEW s \in Streams, NEW u \in Users, Subscribe(s, u) PROVE Board!Next
    BY <1>1, SubscribeJoins DEF Board!Next
  <1>2. ASSUME NEW s \in Streams, BeginUnsubscribe(s) PROVE Board!Next
    BY <1>2, BeginUnsubscribeLeaves DEF Board!Next
  <1>3. ASSUME NEW p \in Pushers, TakeSnapshot(p) PROVE Board!Next
    BY <1>3, TakeSnapshotBegins DEF Board!Next
  <1>4. ASSUME NEW p \in Pushers, Send(p) PROVE Board!Next
    BY <1>4, SendVisits DEF Board!Next
  <1>5. ASSUME NEW p \in Pushers, Return(p) PROVE Board!Next
    BY <1>5, ReturnEnds DEF Board!Next
  <1>6. ASSUME NEW s \in Streams, Disconnect(s) \/ MoveCell(s) \/ EndUnsubscribe(s)
        PROVE  UNCHANGED Board!boardVars
    <2>1. UNCHANGED <<user, push>>
      BY <1>6 DEF Disconnect, MoveCell, EndUnsubscribe
    <2>2. \A v \in Users : Registered(v)' = Registered(v)
      BY <1>6 DEF Disconnect, MoveCell, EndUnsubscribe, Registered, IInv, TypeOK
    <2> QED BY <2>1, <2>2 DEF Board!boardVars, Walking
  <1>7. ASSUME NEW p \in Pushers, NEW u \in Users, LockForPush(p, u)
        PROVE  UNCHANGED Board!boardVars
    BY <1>7, LockForPushHidden
  <1>8. ASSUME NEW p \in Pushers, ReadCell(p) PROVE UNCHANGED Board!boardVars
    BY <1>8, ReadCellHidden
  <1>9. CASE UNCHANGED vars
    BY <1>9 DEF vars, Board!boardVars, Walking, Registered
  <1> QED BY <1>1, <1>2, <1>3, <1>4, <1>5, <1>6, <1>7, <1>8, <1>9 DEF Next, Push, Unsubscribe

\* The hub implements Subscriptions: subscribing and leaving are one step each,
\* a push plans for the streams registered at its snapshot, makes exactly as
\* many visits, all to streams of its user, and departs from the plan only if a
\* stream leaves its array meanwhile (hub.go, all of it).
THEOREM HubImplements == Spec => BoardSpec
  <1>1. IInv /\ Turns /\ [Next]_vars => [Board!Next]_(Board!boardVars)
    BY BoardStep
  <1> QED BY <1>1, BoardInit, HubInvariance, TurnsHold, PTL DEF Spec, BoardSpec, Board!Spec
=============================================================================
