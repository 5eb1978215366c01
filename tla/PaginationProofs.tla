--------------------------- MODULE PaginationProofs ---------------------------
(***************************************************************************)
(* The pages of a history, for any limits, any number of messages and any  *)
(* order of rows with the same created_at.                                 *)
(***************************************************************************)
EXTENDS Pagination, FiniteSetTheorems, SequenceTheorems, TLAPS

AnyRow == [id : Messages, at : 0..MaxTime]

\* What the client holds reaches back to its cursor: nothing is older, and what
\* is not older and yet missing was created at the time of a cursor.
Reached ==
  /\ got \in Seq(AnyRow)
  /\ stage = "new" => got = <<>> /\ cursor = Newest
  /\ stage = "scrolling" =>
       /\ cursor \in 0..MaxTime
       /\ \A k \in DOMAIN got : got[k].at >= cursor
  /\ stage # "new" =>
       \A m \in before : stage = "end" \/ table[m] >= cursor
         => Row(m) \in ToSet(got) \/ table[m] \in cursors

IInv == TypeOK /\ Reached /\ HistoryBackwards

-----------------------------------------------------------------------------
(* The query.                                                              *)

LEMMA LowerOf ==
  ASSUME NEW a \in Nat, NEW b \in Nat
  PROVE  Min({a, b}) = IF a <= b THEN a ELSE b
  BY DEF Min

LEMMA LimitType == ASSUME NEW asked PROVE Limit(asked) \in 1..MaxLimit
  BY PaginationAssumption DEF Limit

LEMMA RowsFinite == ASSUME TypeOK PROVE IsFiniteSet(Rows) /\ Rows \subseteq AnyRow
  <1>1. IsFiniteSet(Stored)
    BY PaginationAssumption, FS_Subset DEF TypeOK
  <1> DEFINE f == [m \in Stored |-> Row(m)]
  <1>2. f \in Surjection(Stored, Rows)
    BY DEF Surjection, Rows
  <1>3. IsFiniteSet(Rows)
    BY <1>1, <1>2, FS_Surjection
  <1> QED BY <1>3 DEF Rows, Row, AnyRow, TypeOK

\* A list the query returns: distinct rows older than the cursor, the younger
\* ones first, and no fewer than asked for unless there are no more.
LEMMA QueryGives ==
  ASSUME TypeOK, NEW c, NEW n \in Nat, NEW list \in Query(c, n)
  PROVE  /\ list \in Seq(Older(c)) /\ Len(list) <= n
         /\ \A i, j \in 1..Len(list) : i < j => list[i] # list[j] /\ list[i].at >= list[j].at
         /\ Len(list) < n => ToSet(list) = Older(c)
         /\ \A r \in Older(c) \ ToSet(list) : \A i \in 1..Len(list) : list[i].at >= r.at
  <1>1. IsFiniteSet(Older(c)) /\ Cardinality(Older(c)) \in Nat
    <2>1. Older(c) \subseteq Rows
      BY DEF Older
    <2> QED BY <2>1, RowsFinite, FS_Subset, FS_CardinalityType
  <1>2. PICK k \in Nat : /\ k = Min({n, Cardinality(Older(c))})
                         /\ k <= n /\ k <= Cardinality(Older(c))
                         /\ k < n => k = Cardinality(Older(c))
    <2>1. PICK b \in Nat : b = Cardinality(Older(c))
      BY <1>1
    <2> QED BY <2>1, LowerOf
  <1>3. list \in Lists(Older(c), k)
    BY <1>2 DEF Query
  <1>4. PICK S \in kSubset(k, Older(c)) : list \in SetToSeqs(S)
    BY <1>3 DEF Lists
  <1>5. S \subseteq Older(c) /\ Cardinality(S) = k /\ IsFiniteSet(S)
    BY <1>1, <1>4, FS_Subset DEF kSubset
  <1>6. list \in [1..k -> S] /\ \A i, j \in 1..k : i # j => list[i] # list[j]
    BY <1>4, <1>5 DEF SetToSeqs
  <1>7. list \in Seq(Older(c)) /\ Len(list) = k /\ DOMAIN list = 1..k
    <2>1. list \in [1..k -> Older(c)]
      BY <1>5, <1>6
    <2> QED BY <2>1
  <1>8. /\ \A i, j \in 1..k : i < j => list[i].at >= list[j].at
        /\ \A r \in Older(c) \ ToSet(list) : \A i \in 1..k : list[i].at >= r.at
    BY <1>3, <1>7 DEF Lists
  <1>9. ASSUME k < n PROVE ToSet(list) = Older(c)
    <2>1. S = Older(c)
      BY <1>1, <1>2, <1>5, <1>9, FS_Subset
    <2>2. list \in Injection(1..k, S)
      BY <1>6 DEF Injection, IsInjective
    <2>3. Cardinality(1..k) = Cardinality(S)
      BY <1>5, FS_Interval
    <2>4. list \in Surjection(1..k, S)
      BY <1>5, <2>2, <2>3, FS_Injection
    <2> QED BY <1>7, <2>1, <2>4, <1>6 DEF Surjection, ToSet
  <1>10. \A i, j \in 1..k : i < j => list[i] # list[j]
    BY <1>6
  <1> QED BY <1>2, <1>7, <1>8, <1>9, <1>10

\* The page and the cursor cut from such a list.
LEMMA PageOf ==
  ASSUME TypeOK, NEW c, NEW limit \in 1..MaxLimit, NEW list \in Query(c, limit + 1),
         NEW page, page = Page(list, limit), NEW next, next = NextCursor(list, limit)
  PROVE  /\ page \in Seq(Older(c))
         /\ \A i, j \in 1..Len(page) : i < j => page[i] # page[j] /\ page[i].at >= page[j].at
         /\ next # Newest => /\ next \in {table[m] : m \in Stored}
                             /\ c \in Nat => next < c
                             /\ \A i \in 1..Len(page) : page[i].at >= next
         /\ next \in {table[m] : m \in Stored} \cup {Newest}
         /\ \A r \in Older(c) : next = Newest \/ r.at >= next => r \in ToSet(page) \/ r.at = next
  <1>1. limit \in Nat /\ limit + 1 \in Nat /\ Older(c) \subseteq Rows
    BY PaginationAssumption DEF Older
  <1>2. /\ list \in Seq(Older(c)) /\ Len(list) <= limit + 1 /\ Len(list) \in Nat
        /\ \A i, j \in 1..Len(list) : i < j => list[i] # list[j] /\ list[i].at >= list[j].at
        /\ Len(list) < limit + 1 => ToSet(list) = Older(c)
        /\ \A r \in Older(c) \ ToSet(list) : \A i \in 1..Len(list) : list[i].at >= r.at
    BY <1>1, QueryGives
  <1>3. \A r \in Rows : r.at \in {table[m] : m \in Stored} /\ r.at \in Nat /\ r.at # Newest
    BY PaginationAssumption DEF Rows, Row, TypeOK
  <1>4. CASE Len(list) > limit
    <2>1. /\ page = SubSeq(list, 1, limit) /\ next = list[limit + 1].at
          /\ Len(list) = limit + 1
      BY <1>1, <1>2, <1>4 DEF Page, NextCursor
    <2>2. /\ page \in Seq(Older(c)) /\ Len(page) = limit
          /\ \A i \in 1..limit : page[i] = list[i]
      BY <1>1, <1>2, <2>1
    <2>3. list[limit + 1] \in Older(c) /\ \A i \in 1..limit : list[i] \in Older(c)
      BY <1>1, <1>2, <2>1
    <2>4. /\ next \in {table[m] : m \in Stored} /\ next \in Nat
          /\ \A i \in 1..limit : list[i].at >= next
          /\ c \in Nat => next < c
      BY <1>1, <1>2, <1>3, <2>1, <2>3, PaginationAssumption DEF Older
    <2>5. ASSUME NEW r \in Older(c), next = Newest \/ r.at >= next
          PROVE  r \in ToSet(page) \/ r.at = next
      <3>1. r.at >= next /\ r.at \in Nat
        BY <1>1, <1>3, <2>1, <2>3, <2>5
      <3>2. CASE r \in ToSet(list)
        <4>1. PICK i \in 1..(limit + 1) : r = list[i]
          BY <1>2, <2>1, <3>2 DEF ToSet
        <4>2. i \in 1..limit => r = page[i] /\ i \in DOMAIN page
          BY <2>2, <4>1
        <4>3. i \notin 1..limit => r.at = next
          BY <1>1, <2>1, <4>1
        <4> QED BY <4>2, <4>3 DEF ToSet
      <3>3. CASE r \notin ToSet(list)
        <4>1. next >= r.at
          BY <1>1, <1>2, <2>1, <3>3
        <4> QED BY <2>4, <3>1, <4>1
      <3> QED BY <3>2, <3>3
    <2>6. \A i, j \in 1..Len(page) : i < j => page[i] # page[j] /\ page[i].at >= page[j].at
      BY <1>1, <1>2, <2>1, <2>2
    <2>7. \A i \in 1..Len(page) : page[i].at >= next
      BY <2>2, <2>4
    <2> QED BY <2>2, <2>4, <2>5, <2>6, <2>7
  <1>5. CASE ~(Len(list) > limit)
    <2>1. page = list /\ next = Newest /\ Len(list) < limit + 1
      BY <1>1, <1>2, <1>5 DEF Page, NextCursor
    <2> QED BY <1>2, <2>1
  <1> QED BY <1>4, <1>5

\* A page that is not the last is full.
LEMMA PageFull ==
  ASSUME TypeOK, NEW c, NEW limit \in 1..MaxLimit, NEW list \in Query(c, limit + 1),
         NextCursor(list, limit) # Newest
  PROVE  Len(Page(list, limit)) = limit
  <1>1. limit \in Nat /\ limit + 1 \in Nat
    BY PaginationAssumption
  <1>2. list \in Seq(Older(c))
    BY <1>1, QueryGives
  <1>3. Len(list) > limit
    BY DEF NextCursor
  <1> QED BY <1>1, <1>2, <1>3 DEF Page

-----------------------------------------------------------------------------
(* The steps.                                                              *)

LEMMA TableStep ==
  ASSUME IInv, TypeOK', Stored \subseteq Stored', \A m \in Stored : table'[m] = table[m],
         UNCHANGED <<cursor, got, cursors, before, stage>>
  PROVE  IInv'
  <1>1. Reached'
    <2>1. before \subseteq Stored
      BY DEF IInv, TypeOK
    <2>2. \A m \in before : table'[m] = table[m] /\ Row(m)' = Row(m)
      BY <2>1 DEF Row
    <2> QED BY <2>2 DEF IInv, Reached
  <1>2. HistoryBackwards'
    BY DEF IInv, HistoryBackwards
  <1> QED BY <1>1, <1>2 DEF IInv

LEMMA StoreStep ==
  ASSUME IInv, Store
  PROVE  IInv'
  <1>1. PICK m \in Messages \ Stored, d \in 0..Delay :
          d <= now /\ table' = [k \in Stored \cup {m} |-> IF k = m THEN now - d ELSE table[k]]
    BY DEF Store
  <1>2. UNCHANGED <<now, cursor, got, cursors, before, stage>>
    BY DEF Store
  <1>3. Stored' = Stored \cup {m} /\ \A k \in Stored : table'[k] = table[k] /\ k # m
    BY <1>1 DEF Stored
  <1>4. now - d \in 0..MaxTime /\ table'[m] = now - d
    BY <1>1, PaginationAssumption DEF IInv, TypeOK
  <1>5. TypeOK'
    <2>1. Stored' \subseteq Messages /\ \A k \in Stored' : table'[k] \in 0..MaxTime
      BY <1>1, <1>3, <1>4 DEF IInv, TypeOK
    <2>2. \A k \in Stored : Row(k)' = Row(k)
      BY <1>3 DEF Row
    <2>3. Rows \subseteq Rows'
      BY <1>3, <2>2 DEF Rows
    <2>4. {table[k] : k \in Stored} \subseteq {table'[k] : k \in Stored'}
      BY <1>3
    <2> QED BY <1>2, <1>3, <2>1, <2>3, <2>4 DEF IInv, TypeOK
  <1> QED BY <1>2, <1>3, <1>5, TableStep

LEMMA TickStep ==
  ASSUME IInv, Tick
  PROVE  IInv'
  <1>1. UNCHANGED <<table, cursor, got, cursors, before, stage>> /\ now' \in 0..MaxTime
    BY PaginationAssumption DEF Tick, IInv, TypeOK
  <1>2. Stored' = Stored /\ Rows' = Rows
    BY <1>1 DEF Stored, Rows, Row
  <1>3. TypeOK'
    BY <1>1, <1>2 DEF IInv, TypeOK
  <1> QED BY <1>1, <1>2, <1>3, TableStep

\* What an answer brings: a page of older rows and a cursor that is older still.
LEMMA AnswerGives ==
  ASSUME IInv, GetMessages
  PROVE  \E page :
           /\ stage # "end" /\ table' = table /\ now' = now
           /\ before' = IF stage = "new" THEN Stored ELSE before
           /\ got' = got \o page
           /\ cursors' = cursors \cup ({cursor'} \ {Newest})
           /\ stage' = IF cursor' = Newest THEN "end" ELSE "scrolling"
           /\ page \in Seq(Older(cursor))
           /\ \A i, j \in 1..Len(page) : i < j => page[i] # page[j] /\ page[i].at >= page[j].at
           /\ cursor' # Newest => /\ cursor' \in {table[m] : m \in Stored}
                                  /\ cursor \in Nat => cursor' < cursor
                                  /\ \A i \in 1..Len(page) : page[i].at >= cursor'
                                  /\ Len(page) >= 1
           /\ cursor' \in {table[m] : m \in Stored} \cup {Newest}
           /\ \A r \in Older(cursor) :
                cursor' = Newest \/ r.at >= cursor' => r \in ToSet(page) \/ r.at = cursor'
  <1>1. PICK asked \in Limits : \E list \in Query(cursor, Limit(asked) + 1) :
          /\ got' = got \o Page(list, Limit(asked))
          /\ cursor' = NextCursor(list, Limit(asked))
          /\ cursors' = cursors \cup ({NextCursor(list, Limit(asked))} \ {Newest})
          /\ stage' = IF NextCursor(list, Limit(asked)) = Newest THEN "end" ELSE "scrolling"
    BY DEF GetMessages
  <1>2. PICK limit \in 1..MaxLimit : limit = Limit(asked)
    BY LimitType
  <1>3. PICK list \in Query(cursor, limit + 1) :
          /\ got' = got \o Page(list, limit)
          /\ cursor' = NextCursor(list, limit)
          /\ cursors' = cursors \cup ({NextCursor(list, limit)} \ {Newest})
          /\ stage' = IF NextCursor(list, limit) = Newest THEN "end" ELSE "scrolling"
    BY <1>1, <1>2
  <1>4. PICK page, c : page = Page(list, limit) /\ c = cursor
    OBVIOUS
  <1>5. /\ stage # "end" /\ table' = table /\ now' = now
        /\ before' = IF stage = "new" THEN Stored ELSE before
        /\ got' = got \o page
        /\ cursors' = cursors \cup ({cursor'} \ {Newest})
        /\ stage' = IF cursor' = Newest THEN "end" ELSE "scrolling"
    BY <1>3, <1>4 DEF GetMessages
  <1>6. /\ page \in Seq(Older(c))
        /\ \A i, j \in 1..Len(page) : i < j => page[i] # page[j] /\ page[i].at >= page[j].at
        /\ cursor' # Newest => /\ cursor' \in {table[m] : m \in Stored}
                               /\ c \in Nat => cursor' < c
                               /\ \A i \in 1..Len(page) : page[i].at >= cursor'
                               /\ Len(page) = limit
        /\ cursor' \in {table[m] : m \in Stored} \cup {Newest}
        /\ \A r \in Older(c) : cursor' = Newest \/ r.at >= cursor' => r \in ToSet(page) \/ r.at = cursor'
    <2>0. list \in Query(c, limit + 1) /\ TypeOK
      BY <1>4 DEF IInv
    <2>1. PICK next : next = NextCursor(list, limit)
      OBVIOUS
    <2>3. /\ next # Newest => /\ next \in {table[m] : m \in Stored}
                              /\ c \in Nat => next < c
                              /\ \A i \in 1..Len(page) : page[i].at >= next
          /\ next \in {table[m] : m \in Stored} \cup {Newest}
          /\ \A r \in Older(c) : next = Newest \/ r.at >= next => r \in ToSet(page) \/ r.at = next
      BY <1>4, <2>0, <2>1, PageOf
    <2>2. /\ page \in Seq(Older(c))
          /\ \A i, j \in 1..Len(page) : i < j => page[i] # page[j] /\ page[i].at >= page[j].at
      BY <1>4, <2>0, PageOf
    <2>4. next = cursor'
      BY <1>3, <2>1
    <2>5. next # Newest => Len(page) = limit
      BY <1>4, <2>0, <2>1, PageFull
    <2> QED BY <2>2, <2>3, <2>4, <2>5
  <1>7. limit >= 1
    BY PaginationAssumption
  <1> QED BY <1>4, <1>5, <1>6, <1>7

LEMMA GetMessagesStep ==
  ASSUME IInv, GetMessages
  PROVE  IInv'
  <1>4. PICK c : c = cursor
    OBVIOUS
  <1>1. PICK page :
          /\ stage # "end" /\ table' = table /\ now' = now
          /\ before' = IF stage = "new" THEN Stored ELSE before
          /\ got' = got \o page
          /\ cursors' = cursors \cup ({cursor'} \ {Newest})
          /\ stage' = IF cursor' = Newest THEN "end" ELSE "scrolling"
          /\ page \in Seq(Older(c))
          /\ \A i, j \in 1..Len(page) : i < j => page[i] # page[j] /\ page[i].at >= page[j].at
          /\ cursor' # Newest => /\ cursor' \in {table[m] : m \in Stored}
                                 /\ c \in Nat => cursor' < c
                                 /\ \A i \in 1..Len(page) : page[i].at >= cursor'
          /\ cursor' \in {table[m] : m \in Stored} \cup {Newest}
          /\ \A r \in Older(c) : cursor' = Newest \/ r.at >= cursor' => r \in ToSet(page) \/ r.at = cursor'
    BY <1>4, AnswerGives
  <1>7. /\ Older(c) \subseteq Rows /\ Rows \subseteq AnyRow /\ page \in Seq(AnyRow) /\ got \in Seq(AnyRow)
        /\ \A r \in AnyRow : r.at \in Nat /\ r.at # Newest
        /\ \A q, r \in Rows : q.id = r.id => q = r
    <2>1. Older(c) \subseteq Rows /\ Rows \subseteq AnyRow
      BY RowsFinite DEF Older, IInv
    <2>2. \A r \in AnyRow : r.at \in Nat /\ r.at # Newest
      BY PaginationAssumption DEF AnyRow
    <2>3. \A q, r \in Rows : q.id = r.id => q = r
      BY DEF Rows, Row
    <2> QED BY <1>1, <2>1, <2>2, <2>3 DEF IInv, Reached
  <1>8. /\ got' \in Seq(AnyRow) /\ DOMAIN got' = 1..(Len(got) + Len(page)) /\ DOMAIN got = 1..Len(got)
        /\ \A i \in 1..Len(got) : got'[i] = got[i]
        /\ \A i \in 1..Len(page) : got'[Len(got) + i] = page[i]
        /\ Len(got) \in Nat /\ Len(page) \in Nat
    BY <1>1, <1>7
  <1>9. Stored' = Stored /\ Rows' = Rows /\ \A m : Row(m)' = Row(m)
    BY <1>1 DEF Stored, Rows, Row
  <1>10. \A i \in 1..Len(got) : /\ got[i] \in Rows /\ stage = "scrolling"
                                /\ cursor \in 0..MaxTime /\ got[i].at >= cursor
    BY <1>1, <1>8 DEF IInv, Reached, TypeOK
  <1>11. \A i \in 1..Len(page) : page[i] \in Rows /\ (cursor \in Nat => page[i].at < cursor)
    BY <1>4, <1>1, <1>7, PaginationAssumption DEF Older
  <1>12. ASSUME NEW k \in DOMAIN got', k \notin 1..Len(got)
         PROVE  \E j \in 1..Len(page) : k = Len(got) + j /\ got'[k] = page[j]
    <2>1. k - Len(got) \in 1..Len(page) /\ k = Len(got) + (k - Len(got))
      BY <1>8, <1>12
    <2> QED BY <1>8, <2>1
  <1>13. TypeOK'
    <2>1. \A k \in DOMAIN got' : got'[k] \in Rows
      BY <1>8, <1>10, <1>11, <1>12
    <2>2. cursors' \subseteq 0..MaxTime
      <3>1. cursor' # Newest => cursor' \in 0..MaxTime
        BY <1>1 DEF IInv, TypeOK
      <3> QED BY <1>1, <3>1 DEF IInv, TypeOK
    <2>3. before' \subseteq Stored
      BY <1>1 DEF IInv, TypeOK
    <2>4. cursor' \in {table'[m] : m \in Stored'} \cup {Newest}
      BY <1>1, <1>9
    <2> QED BY <1>1, <1>9, <2>1, <2>2, <2>3, <2>4 DEF IInv, TypeOK
  <1>14. HistoryBackwards'
    <2> SUFFICES ASSUME NEW i \in DOMAIN got', NEW j \in DOMAIN got', i < j
                 PROVE  got'[i].id # got'[j].id /\ got'[i].at >= got'[j].at
      BY DEF HistoryBackwards
    <2>1. CASE j \in 1..Len(got)
      <3>1. i \in 1..Len(got)
        BY <1>8, <2>1
      <3> QED BY <1>8, <2>1, <3>1 DEF IInv, HistoryBackwards
    <2>2. CASE j \notin 1..Len(got) /\ i \in 1..Len(got)
      <3>1. PICK q \in 1..Len(page) : got'[j] = page[q]
        BY <1>12, <2>2
      <3>2. got[i].at > page[q].at
        <4>1. got[i].at \in Nat /\ page[q].at \in Nat /\ cursor \in Nat
          BY <1>7, <1>10, <1>11, <2>2
        <4> QED BY <1>10, <1>11, <2>2, <4>1
      <3>3. got[i].id # page[q].id
        <4>1. got[i] # page[q]
          BY <1>7, <1>10, <1>11, <2>2, <3>2
        <4> QED BY <1>7, <1>10, <1>11, <2>2, <4>1
      <3> QED
        <4>1. got[i].at \in Nat /\ page[q].at \in Nat
          BY <1>7, <1>10, <1>11, <2>2
        <4> QED BY <1>8, <2>2, <3>1, <3>2, <3>3, <4>1
    <2>3. CASE j \notin 1..Len(got) /\ i \notin 1..Len(got)
      <3>1. PICK p \in 1..Len(page) : i = Len(got) + p /\ got'[i] = page[p]
        BY <1>12, <2>3
      <3>2. PICK q \in 1..Len(page) : j = Len(got) + q /\ got'[j] = page[q]
        BY <1>12, <2>3
      <3>3. p < q
        BY <1>8, <3>1, <3>2
      <3> QED BY <1>1, <1>7, <1>11, <3>1, <3>2, <3>3
    <2> QED BY <2>1, <2>2, <2>3
  <1>15. Reached'
    <2>1. cursor' # Newest =>
            /\ cursor' \in 0..MaxTime
            /\ \A k \in DOMAIN got' : got'[k].at >= cursor'
      <3> SUFFICES ASSUME cursor' # Newest
                   PROVE  cursor' \in 0..MaxTime /\ \A k \in DOMAIN got' : got'[k].at >= cursor'
        OBVIOUS
      <3>1. cursor' \in 0..MaxTime
        BY <1>1 DEF IInv, TypeOK
      <3>2. ASSUME NEW k \in 1..Len(got) PROVE got[k].at >= cursor'
        <4>1. cursor \in Nat /\ got[k].at >= cursor /\ got[k].at \in Nat
          BY <1>7, <1>10, PaginationAssumption
        <4> QED BY <1>4, <1>1, <3>1, <4>1, PaginationAssumption
      <3>3. \A k \in DOMAIN got' : got'[k].at >= cursor'
        BY <1>1, <1>8, <1>12, <3>2
      <3> QED BY <3>1, <3>3
    <2>2. ASSUME NEW m \in before', stage' = "end" \/ table'[m] >= cursor'
          PROVE  Row(m)' \in ToSet(got') \/ table'[m] \in cursors'
      <3>1. m \in Stored /\ table'[m] = table[m] /\ Row(m)' = Row(m) /\ Row(m) \in Rows
        BY <1>1, <1>9 DEF IInv, TypeOK, Rows
      <3>2. ToSet(got) \subseteq ToSet(got') /\ ToSet(page) \subseteq ToSet(got')
        <4>1. ToSet(got) \subseteq ToSet(got')
          BY <1>8 DEF ToSet
        <4>2. DOMAIN page = 1..Len(page)
          BY <1>7
        <4>3. \A i \in 1..Len(page) : Len(got) + i \in DOMAIN got' /\ page[i] = got'[Len(got) + i]
          BY <1>8
        <4> QED BY <4>1, <4>2, <4>3 DEF ToSet
      <3>3. CASE stage = "scrolling" /\ table[m] >= cursor
        <4>1. m \in before
          BY <1>1, <2>2, <3>3
        <4> QED BY <1>1, <3>1, <3>2, <3>3, <4>1 DEF IInv, Reached
      <3>4. CASE ~(stage = "scrolling" /\ table[m] >= cursor)
        <4>1. Row(m) \in Older(c) /\ Row(m).at = table[m]
          <5>1. Row(m).at = table[m] /\ table[m] \in Nat
            BY <3>1, PaginationAssumption DEF Row, IInv, TypeOK
          <5>2. cursor = Newest \/ (stage = "scrolling" /\ cursor \in Nat)
            BY <1>1, PaginationAssumption DEF IInv, Reached, TypeOK
          <5> QED BY <1>4, <3>1, <3>4, <5>1, <5>2 DEF Older
        <4>2. cursor' = Newest \/ table[m] >= cursor'
          BY <1>1, <2>2, <3>1
        <4>3. Row(m) \in ToSet(page) \/ table[m] = cursor'
          BY <1>1, <4>1, <4>2
        <4>4. table[m] # Newest
          BY <3>1, PaginationAssumption DEF IInv, TypeOK
        <4> QED BY <1>1, <3>1, <3>2, <4>3, <4>4
      <3> QED BY <3>3, <3>4
    <2>3. stage' # "new" /\ (stage' = "scrolling" => cursor' # Newest)
      BY <1>1
    <2> QED BY <1>8, <2>1, <2>2, <2>3 DEF Reached
  <1> QED BY <1>13, <1>14, <1>15 DEF IInv

-----------------------------------------------------------------------------
LEMMA InitHolds == Init => IInv
  <1> SUFFICES ASSUME Init PROVE IInv
    OBVIOUS
  <1>1. table = <<>> /\ DOMAIN table = {} /\ got = <<>> /\ DOMAIN got = {} /\ got \in Seq(AnyRow)
    BY DEF Init
  <1>2. TypeOK
    BY <1>1, PaginationAssumption DEF Init, TypeOK, Stored
  <1>3. Reached /\ HistoryBackwards
    BY <1>1 DEF Init, Reached, HistoryBackwards
  <1> QED BY <1>2, <1>3 DEF IInv

\* What a scroll has read is kept in order and complete down to its cursor,
\* whatever is stored meanwhile (service.go:64, messagerepository.go).
THEOREM ScrollInvariance == Spec => []IInv
  <1>1. ASSUME IInv, [Next]_vars PROVE IInv'
    <2>1. CASE UNCHANGED vars
      <3>1. Stored' = Stored /\ Rows' = Rows
        BY <2>1 DEF vars, Stored, Rows, Row
      <3>2. TypeOK'
        BY <1>1, <2>1, <3>1 DEF vars, IInv, TypeOK
      <3> QED BY <1>1, <2>1, <3>1, <3>2, TableStep DEF vars
    <2> QED BY <1>1, <2>1, StoreStep, TickStep, GetMessagesStep DEF Next
  <1> QED BY InitHolds, <1>1, PTL DEF Spec

\* The table, the cursors and the pages keep their types.
THEOREM PageTypes == Spec => []TypeOK
  <1>1. IInv => TypeOK
    BY DEF IInv
  <1> QED BY <1>1, ScrollInvariance, PTL

\* The pages are the history backwards (messagerepository.go: ORDER BY created_at DESC).
THEOREM OrderOfHistory == Spec => []HistoryBackwards
  <1>1. IInv => HistoryBackwards
    BY DEF IInv
  <1> QED BY <1>1, ScrollInvariance, PTL

\* Only messages created at the time of a cursor are missed (service.go:90).
THEOREM OnlyCursorRows == Spec => []OnlyCursorRowsMissing
  <1>1. IInv => OnlyCursorRowsMissing
    BY DEF IInv, Reached, OnlyCursorRowsMissing
  <1> QED BY <1>1, ScrollInvariance, PTL
\* Every answer but the last brings older messages and an older cursor
\* (service.go:64-95), so that a scroll never goes round in circles.
THEOREM ScrollGoesBack == Spec => ScrollsBack
  <1> DEFINE Answered == <<got, cursor, stage>>' # <<got, cursor, stage>>
             new == DOMAIN got' \ DOMAIN got
             Back == /\ \A k \in DOMAIN got : k \in DOMAIN got' /\ got'[k] = got[k]
                     /\ stage = "scrolling" => \A k \in new : got'[k].at < cursor
                     /\ stage' = "scrolling" =>
                          /\ new # {}
                          /\ stage = "scrolling" => cursor' < cursor
                          /\ \A k \in DOMAIN got' : cursor' <= got'[k].at
  <1>1. ASSUME IInv, IInv', Next, Answered
        PROVE  Back
    <2>1. GetMessages
      BY <1>1 DEF Next, Store, Tick
    <2>2. PICK page :
            /\ got' = got \o page
            /\ stage' = IF cursor' = Newest THEN "end" ELSE "scrolling"
            /\ page \in Seq(Older(cursor))
            /\ cursor' # Newest => /\ cursor \in Nat => cursor' < cursor
                                   /\ Len(page) >= 1
      BY <1>1, <2>1, AnswerGives
    <2>3. /\ DOMAIN got = 1..Len(got) /\ Len(got) \in Nat /\ Len(page) \in Nat
          /\ DOMAIN got' = 1..(Len(got) + Len(page))
          /\ \A k \in 1..Len(got) : got'[k] = got[k]
          /\ \A i \in 1..Len(page) : got'[Len(got) + i] = page[i] /\ page[i] \in Older(cursor)
      <3>1. got \in Seq(AnyRow)
        BY <1>1 DEF IInv, Reached
      <3> QED BY <2>2, <3>1
    <2>4. stage = "scrolling" => cursor \in Nat /\ cursor # Newest
      BY <1>1, PaginationAssumption DEF IInv, Reached
    <2>5. ASSUME stage = "scrolling", NEW k \in new
          PROVE  got'[k].at < cursor
      <3>1. k - Len(got) \in 1..Len(page) /\ k = Len(got) + (k - Len(got))
        BY <2>3
      <3> QED BY <2>3, <2>4, <2>5, <3>1 DEF Older
    <2>6. ASSUME stage' = "scrolling"
          PROVE  /\ new # {}
                 /\ stage = "scrolling" => cursor' < cursor
                 /\ \A k \in DOMAIN got' : cursor' <= got'[k].at
      <3>1. cursor' # Newest /\ Len(page) >= 1
        BY <2>2, <2>6
      <3>2. Len(got) + 1 \in new
        BY <2>3, <3>1
      <3>3. ASSUME NEW k \in DOMAIN got'
            PROVE  cursor' <= got'[k].at
        <4>1. got'[k].at >= cursor' /\ cursor' \in Nat
          BY <1>1, <2>6, <3>3 DEF IInv, Reached
        <4>2. got'[k] \in AnyRow /\ got'[k].at \in Nat
          <5>1. got' \in Seq(AnyRow)
            BY <1>1 DEF IInv, Reached
          <5>2. got'[k] \in AnyRow
            BY <3>3, <5>1
          <5> QED BY <5>2 DEF AnyRow
        <4> QED BY <4>1, <4>2
      <3> QED BY <2>2, <2>4, <3>1, <3>2, <3>3
    <2>7. \A k \in DOMAIN got : k \in DOMAIN got' /\ got'[k] = got[k]
      BY <2>3
    <2> QED BY <2>5, <2>6, <2>7
  <1>2. IInv /\ IInv' /\ [Next]_vars => [Answered => Back]_vars
    BY <1>1
  <1> QED BY <1>2, ScrollInvariance, PTL DEF ScrollsBack, Spec
=============================================================================
