---------------------------- MODULE Pagination ----------------------------
(***************************************************************************)
(* The history of a chat, read page by page: Service.GetMessages           *)
(* (internal/service/service.go) over MessageRepository.GetMessages        *)
(* (internal/repository/messagerepository.go), called by a client that     *)
(* scrolls back with the cursor it was given, while messages are stored.   *)
(*                                                                         *)
(* created_at is the time the INSERT began, so two messages may have the   *)
(* same one and a message may appear after a younger one.  The rows with   *)
(* one created_at come in any order: the query sorts by nothing else.      *)
(***************************************************************************)
EXTENDS Naturals, Sequences, SequencesExt, FiniteSetsExt

CONSTANTS
  Messages,       \* ids of messages
  Limits,         \* the limits a request may ask for
  MaxLimit,       \* 100
  DefaultLimit,   \* 50
  MaxTime,        \* bound on the clock
  Delay,          \* bound on how long an INSERT takes
  Newest          \* the empty cursor

ASSUME PaginationAssumption ==
  /\ IsFiniteSet(Messages)
  /\ Limits \subseteq Nat /\ MaxTime \in Nat /\ Delay \in Nat
  /\ MaxLimit \in Nat /\ DefaultLimit \in 1..MaxLimit
  /\ Newest \notin Nat

VARIABLES
  table,      \* table[m]: created_at of a stored message
  now,
  cursor,     \* next_cursor of the last answer
  got,        \* history: the rows received, page after page
  cursors,    \* history: the cursors received
  before,     \* history: the messages stored when the first page was read
  stage       \* of the client: "new", "scrolling", "end" (no next_cursor)

vars == <<table, now, cursor, got, cursors, before, stage>>

-----------------------------------------------------------------------------
Stored == DOMAIN table
Row(m) == [id |-> m, at |-> table[m]]
Rows == {Row(m) : m \in Stored}

TypeOK ==
  /\ Stored \subseteq Messages /\ \A m \in Stored : table[m] \in 0..MaxTime
  /\ now \in 0..MaxTime
  /\ cursor \in {table[m] : m \in Stored} \cup {Newest}
  /\ \A k \in DOMAIN got : got[k] \in Rows
  /\ cursors \subseteq 0..MaxTime
  /\ before \subseteq Stored
  /\ stage \in {"new", "scrolling", "end"}

Init ==
  /\ table = <<>>
  /\ now = 0
  /\ cursor = Newest
  /\ got = <<>>
  /\ cursors = {}
  /\ before = {}
  /\ stage = "new"

-----------------------------------------------------------------------------
\* A message is stored by an INSERT that began at most Delay ago.
Store ==
  /\ \E m \in Messages \ Stored, d \in 0..Delay :
       /\ d <= now
       /\ table' = [k \in Stored \cup {m} |-> IF k = m THEN now - d ELSE table[k]]
  /\ UNCHANGED <<now, cursor, got, cursors, before, stage>>

Tick ==
  /\ now < MaxTime
  /\ now' = now + 1
  /\ UNCHANGED <<table, cursor, got, cursors, before, stage>>

\* if limit <= 0 || limit > 100 { limit = 50 }
Limit(asked) == IF asked \in 1..MaxLimit THEN asked ELSE DefaultLimit

\* WHERE created_at < cursor, and a mutant with <=.
FaultyUpTo(c) == {r \in Rows : c = Newest \/ r.at <= c}

Older(c) == {r \in Rows : c = Newest \/ r.at < c}

\* ORDER BY created_at DESC LIMIT n: any such list of the rows.
Lists(rows, n) ==
  {list \in UNION {SetToSeqs(S) : S \in kSubset(n, rows)} :
     /\ \A i, j \in DOMAIN list : i < j => list[i].at >= list[j].at
     /\ \A r \in rows \ ToSet(list) : \A i \in DOMAIN list : list[i].at >= r.at}

Query(c, n) == Lists(Older(c), Min({n, Cardinality(Older(c))}))

\* The page and the cursor of a list of up to limit + 1 rows.  The cursor is the
\* created_at of the extra row, to the nanosecond.  The mutant formats the zero
\* time when there is no extra row.
Page(list, limit) == IF Len(list) > limit THEN SubSeq(list, 1, limit) ELSE list

FaultyCursor(list, limit) == IF Len(list) > limit THEN list[limit + 1].at ELSE 0

NextCursor(list, limit) == IF Len(list) > limit THEN list[limit + 1].at ELSE Newest

\* GetMessages, and the client appends the page and keeps the cursor.
GetMessages ==
  /\ stage # "end"
  /\ \E asked \in Limits :
       LET limit == Limit(asked) IN
       \E list \in Query(cursor, limit + 1) :
         /\ got' = got \o Page(list, limit)
         /\ cursor' = NextCursor(list, limit)
         /\ cursors' = cursors \cup ({NextCursor(list, limit)} \ {Newest})
         /\ stage' = IF NextCursor(list, limit) = Newest THEN "end" ELSE "scrolling"
  /\ before' = IF stage = "new" THEN Stored ELSE before
  /\ UNCHANGED <<table, now>>

Next == Store \/ Tick \/ GetMessages

Spec == Init /\ [][Next]_vars

\* The client goes on scrolling.
FairSpec == Spec /\ WF_vars(GetMessages)

-----------------------------------------------------------------------------
\* The pages, one after the other, are the history backwards: never a message
\* twice, never an older one before a younger one, whatever is stored meanwhile.
HistoryBackwards ==
  /\ \A i, j \in DOMAIN got : i < j => got[i].id # got[j].id /\ got[i].at >= got[j].at

\* What is lost, exactly: at the end of the scroll the client lacks no message
\* that was stored when it began but those created at the very time of a cursor.
OnlyCursorRowsMissing ==
  stage = "end" => \A m \in before : Row(m) \in ToSet(got) \/ table[m] \in cursors

\* What makes it end: an answer takes nothing back, brings only messages older
\* than the cursor it was asked with, and, unless it is the last, at least one
\* of them and a cursor older still, beyond which nothing was received.
ScrollsBack ==
  [][<<got, cursor, stage>>' # <<got, cursor, stage>> =>
       LET new == DOMAIN got' \ DOMAIN got IN
       /\ \A k \in DOMAIN got : k \in DOMAIN got' /\ got'[k] = got[k]
       /\ stage = "scrolling" => \A k \in new : got'[k].at < cursor
       /\ stage' = "scrolling" =>
            /\ new # {}
            /\ stage = "scrolling" => cursor' < cursor
            /\ \A k \in DOMAIN got' : cursor' <= got'[k].at]_vars

\* The scroll ends, whatever limits the client asks for and although messages
\* keep coming: every cursor is older than the one before.
ScrollEnds == <>(stage = "end")

-----------------------------------------------------------------------------
(* What the interface says and the code does not keep                      *)

\* chat.proto:43: the cursor is the created_at of the last received message, and
\* a page holds what is older than the cursor.  So a message that shares its time
\* with no other, stored when the scroll began, is received by its end.
DistinctReceived ==
  stage = "end" =>
    \A m \in before :
      (\A k \in Stored \ {m} : table[k] # table[m]) => Row(m) \in ToSet(got)
=============================================================================
