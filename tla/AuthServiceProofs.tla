------------------------- MODULE AuthServiceProofs -------------------------
EXTENDS AuthServiceInv, TLAPS

-----------------------------------------------------------------------------
(* Types                                                                   *)

LocalTypes == [row : MaybeRow, exp : Nat, new : AnyId]

ControlTypes ==
  /\ call \in [Handlers -> Call \cup {NoCall}]
  /\ pc \in [Handlers -> Labels]
  /\ loc \in [Handlers -> LocalTypes]
  /\ reply \in [Handlers -> Replies]

DataTypes ==
  /\ accounts \in [Users -> Passwords \cup {NoPass}]
  /\ db \in [SessionIds -> MaybeRow]
  /\ cache \in [SessionIds -> Entry]
  /\ now \in Nat
  /\ issued \subseteq Pair
  /\ loggedOut \subseteq SessionIds

LEMMA TypeSplit ==
  /\ TypeOK <=> DataTypes /\ ControlTypes
  /\ TypeOK' <=> DataTypes' /\ ControlTypes'
  BY DEF TypeOK, DataTypes, ControlTypes, LocalTypes

LEMMA CallTypes ==
  ASSUME NEW c \in Call \cup {NoCall}
  PROVE  /\ c.op = "register" => c.user \in Users /\ c.pw \in Passwords
         /\ c.op = "login" => c.owner \in Owners /\ c.pw \in Passwords
         /\ c.op \in {"logout", "refresh", "validate"} =>
              c.sid \in AnyId /\ c.before \in Standing
  BY DEF Call, NoCall

LEMMA RowTypes ==
  ASSUME NEW r \in MaybeRow
  PROVE  /\ r # NoRow => r \in Row /\ r.owner \in Owners /\ r.expiry \in Nat
         /\ r.status \in {"absent", "active", "revoked"}
         /\ r.status = "absent" <=> r = NoRow
  BY DEF MaybeRow, Row, NoRow

LEMMA BlankTypes == Blank \in LocalTypes
  BY DEF Blank, LocalTypes, MaybeRow, AnyId

LEMMA GotoTypes ==
  ASSUME ControlTypes, NEW h \in Handlers, NEW l \in Labels, Goto(h, l)
  PROVE  ControlTypes'
  BY DEF ControlTypes, Goto

LEMMA KeepTypes ==
  ASSUME ControlTypes, NEW h \in Handlers, NEW row \in MaybeRow, NEW l \in Labels,
         Keep(h, row, l)
  PROVE  ControlTypes'
  BY DEF ControlTypes, Keep, LocalTypes

LEMMA AnswerTypes ==
  ASSUME ControlTypes, NEW h \in Handlers, NEW r \in Replies, Answer(h, r)
  PROVE  ControlTypes'
  BY BlankTypes DEF ControlTypes, Answer, Labels

LEMMA RevokeTypes ==
  ASSUME db \in [SessionIds -> MaybeRow], NEW s, RevokeByRefreshToken(s)
  PROVE  db' \in [SessionIds -> MaybeRow]
  <1>1. CASE s \in SessionIds /\ db[s].status = "active"
    <2>1. db[s] \in Row
      BY <1>1, RowTypes DEF NoRow
    <2>2. [db[s] EXCEPT !.status = "revoked"] \in MaybeRow
      BY <2>1 DEF MaybeRow, Row
    <2> QED BY <1>1, <2>2 DEF RevokeByRefreshToken, RowOf
  <1>2. CASE ~(s \in SessionIds /\ db[s].status = "active")
    BY <1>2 DEF RevokeByRefreshToken, RowOf, NoRow
  <1> QED BY <1>1, <1>2

LEMMA TypeInit == Init => TypeOK
  <1> SUFFICES ASSUME Init PROVE TypeOK
    OBVIOUS
  <1>1. DataTypes
    BY DEF Init, DataTypes, MaybeRow, Entry, NoEntry
  <1>2. ControlTypes
    BY BlankTypes DEF Init, ControlTypes, Labels, Replies
  <1> QED BY <1>1, <1>2, TypeSplit

\* The owner of the session a login or a refresh creates.
LEMMA OwnerTypes ==
  ASSUME TypeOK, LocalsSet, NEW h \in Handlers, Mints(h),
         pc[h] \in {"save_session", "sign"}
  PROVE  OwnerOf(h) \in Owners
  <1>1. CASE call[h].op = "login"
    BY <1>1, CallTypes DEF OwnerOf, TypeOK
  <1>2. CASE call[h].op = "refresh"
    BY <1>2, RowTypes DEF OwnerOf, TypeOK, LocalsSet, Refreshing
  <1> QED BY <1>1, <1>2 DEF Mints

LEMMA InsertTypes ==
  ASSUME TypeOK, LocalsSet, NEW h \in Handlers, Mints(h), pc[h] = "save_session",
         NEW s \in FreeIds, InsertSession(h, s)
  PROVE  db' \in [SessionIds -> MaybeRow]
  <1> DEFINE row == [status |-> "active", owner |-> OwnerOf(h), expiry |-> loc[h].exp]
  <1>1. row \in MaybeRow
    BY OwnerTypes DEF TypeOK, MaybeRow, Row
  <1>2. db' = [db EXCEPT ![s] = row] /\ s \in SessionIds
    BY DEF InsertSession, FreeIds
  <1> QED BY <1>1, <1>2 DEF TypeOK

LEMMA RowOfTypes == TypeOK => \A s : RowOf(s) \in MaybeRow
  BY DEF TypeOK, RowOf, MaybeRow

\* The lifetime SetSession computes is a day at most.
LEMMA EntryTTLBounds ==
  ASSUME NEW row \in Row, now \in Nat
  PROVE  EntryTTL(row) \in Nat /\ EntryTTL(row) <= CacheTTL
  <1>1. row.expiry \in Nat
    BY DEF Row
  <1> QED BY <1>1, ConstantsAssumption DEF EntryTTL

LEMMA ArriveTypes ==
  ASSUME TypeOK, NEW h \in Handlers, Arrive(h)
  PROVE  TypeOK'
  <1>1. ASSUME NEW c \in Call, NEW l \in Labels, Start(h, c, l)
        PROVE  TypeOK'
    BY <1>1 DEF Start, TypeOK, Replies, tables, history
  <1>2. \A s : StandingOf(s) \in Standing
    BY DEF StandingOf, Standing
  <1>3. ASSUME NEW u \in Users, NEW p \in Passwords, StartRegister(h, u, p)
        PROVE  TypeOK'
    BY <1>1, <1>3 DEF StartRegister, Call, Labels
  <1>4. ASSUME NEW o \in Owners, NEW p \in Passwords, StartLogin(h, o, p)
        PROVE  TypeOK'
    BY <1>1, <1>4 DEF StartLogin, Call, Labels
  <1>5. HeldTokens \subseteq AnyId /\ HeldAccess \subseteq AnyId
    BY DEF TypeOK, HeldTokens, HeldAccess, Pair, AnyId
  <1>6. ASSUME NEW s \in HeldTokens, NEW op \in {"logout", "refresh"},
               StartWithToken(h, op, s)
        PROVE  TypeOK'
    BY <1>1, <1>2, <1>5, <1>6 DEF StartWithToken, Call, Labels
  <1>7. ASSUME NEW s \in HeldAccess, StartValidate(h, s)
        PROVE  TypeOK'
    BY <1>1, <1>2, <1>5, <1>7 DEF StartValidate, Call, Labels
  <1> QED BY <1>3, <1>4, <1>6, <1>7 DEF Arrive

LEMMA StepTypes ==
  ASSUME TypeOK, LocalsSet, NEW h \in Handlers, Step(h)
  PROVE  TypeOK'
  <1> USE DEF tables, history
  <1>c. ControlTypes /\ DataTypes
    BY TypeSplit
  <1>g. \A l \in Labels : Goto(h, l) => ControlTypes'
    BY <1>c, GotoTypes
  <1>k. \A row \in MaybeRow, l \in Labels : Keep(h, row, l) => ControlTypes'
    BY <1>c, KeepTypes
  <1>r. \A r \in Replies : Answer(h, r) => ControlTypes'
    BY <1>c, AnswerTypes
  <1>l. {"read_user", "mint", "drop", "revoke", "revoke_old", "save_session", "sign",
         "find_id", "fill", "judge"} \subseteq Labels
    BY DEF Labels
  <1>p. {"ok", "true", "false", "unauthenticated", "already_exists", "internal"}
          \subseteq Replies
    BY DEF Replies
  <1>o. \A s : RowOf(s) \in MaybeRow
    BY RowOfTypes
  <1>1. CASE SaveUser(h)
    <2>1. ControlTypes'
      BY <1>1, <1>g, <1>r, <1>l, <1>p DEF SaveUser
    <2>2. call[h].pw \in Passwords
      BY <1>1, <1>c, CallTypes DEF SaveUser, At, ControlTypes
    <2>3. DataTypes'
      BY <1>1, <1>c, <2>2 DEF SaveUser, DataTypes
    <2> QED BY <2>1, <2>3, TypeSplit
  <1>2. CASE ReadUser(h)
    BY <1>2, <1>c, <1>r, <1>p, TypeSplit DEF ReadUser, DataTypes
  <1>3. CASE CheckPassword(h)
    BY <1>3, <1>c, <1>g, <1>r, <1>l, <1>p, TypeSplit DEF CheckPassword, DataTypes
  <1>4. CASE FindForLogout(h)
    BY <1>4, <1>c, <1>g, <1>r, <1>l, <1>p, TypeSplit DEF FindForLogout, DataTypes
  <1>5. ASSUME NEW op, NEW l \in {"revoke", "mint"}, DropCached(h, op, l)
        PROVE  TypeOK'
    <2>1. DataTypes'
      BY <1>5, <1>c DEF DropCached, DataTypes, Entry, NoEntry, MaybeRow
    <2>2. ControlTypes'
      BY <1>5, <1>c, <1>g, <1>l DEF DropCached, control, ControlTypes
    <2> QED BY <2>1, <2>2, TypeSplit
  <1>6. CASE RevokeForLogout(h)
    <2>1. ControlTypes'
      BY <1>6, <1>r, <1>p DEF RevokeForLogout
    <2>2. db' \in [SessionIds -> MaybeRow]
      BY <1>6, <1>c, RevokeTypes DEF RevokeForLogout, DataTypes
    <2>3. loggedOut' \subseteq SessionIds
      BY <1>6, <1>c DEF RevokeForLogout, DataTypes, RowOf, NoRow
    <2>4. DataTypes'
      BY <1>6, <1>c, <2>2, <2>3 DEF RevokeForLogout, DataTypes
    <2> QED BY <2>1, <2>4, TypeSplit
  <1>7. CASE FindForRefresh(h)
    BY <1>7, <1>c, <1>k, <1>r, <1>l, <1>p, <1>o, TypeSplit DEF FindForRefresh, DataTypes
  <1>8. CASE RevokeOld(h)
    BY <1>8, <1>c, <1>g, <1>l, RevokeTypes, TypeSplit DEF RevokeOld, DataTypes
  <1>9. CASE Mint(h)
    <2>1. now + RefreshTTL \in Nat
      BY <1>c, ConstantsAssumption DEF DataTypes
    <2>2. ControlTypes'
      BY <1>9, <1>c, <2>1, <1>r, <1>l, <1>p DEF Mint, ControlTypes, LocalTypes
    <2> QED BY <1>9, <1>c, <2>2, TypeSplit DEF Mint, DataTypes
  <1>10. CASE SaveSession(h)
    <2>1. \A s \in FreeIds : InsertSession(h, s) => db' \in [SessionIds -> MaybeRow]
      BY <1>10, InsertTypes DEF SaveSession
    <2>2. DataTypes'
      BY <1>10, <1>c, <2>1 DEF SaveSession, DataTypes
    <2>3. ControlTypes'
      BY <1>10, <1>c, <1>r, <1>l, <1>p
         DEF SaveSession, ControlTypes, LocalTypes, FreeIds, AnyId
    <2> QED BY <2>2, <2>3, TypeSplit
  <1>11. CASE Sign(h)
    <2>1. OwnerOf(h) \in Owners /\ loc[h].new \in SessionIds
      BY <1>11, OwnerTypes DEF Sign, LocalsSet
    <2> QED
      BY <1>11, <1>c, <1>r, <1>p, <2>1, TypeSplit DEF Sign, DataTypes, Pair
  <1>12. CASE GetCached(h)
    BY <1>12, <1>c, <1>g, <1>k, <1>l, TypeSplit DEF GetCached, DataTypes, Entry
  <1>13. CASE FindById(h)
    <2>1. \A row : row \in MaybeRow /\ row # NoRow => EntryTTL(row) \in Nat
      BY <1>c, RowTypes, EntryTTLBounds DEF DataTypes
    <2>2. ASSUME NEW row \in MaybeRow, row # NoRow, CarryToFill(h, row)
          PROVE  ControlTypes'
      <3>1. loc' = [loc EXCEPT ![h].row = row, ![h].exp = EntryTTL(row)]
        BY <2>2 DEF CarryToFill
      <3>2. loc' \in [Handlers -> LocalTypes]
        BY <2>1, <2>2, <3>1, <1>c DEF ControlTypes, LocalTypes
      <3> QED BY <2>2, <3>2, <1>c, <1>l DEF CarryToFill, ControlTypes
    <2>3. ControlTypes'
      BY <1>13, <1>o, <1>r, <1>p, <2>2 DEF FindById
    <2> QED BY <1>13, <1>c, <2>3, TypeSplit DEF FindById, DataTypes
  <1>14. CASE FillCache(h)
    <2>1. loc[h].row \in Row
      BY <1>14, <1>c, RowTypes DEF FillCache, At, LocalsSet, ControlTypes, LocalTypes
    <2>2. [row |-> loc[h].row, until |-> now + loc[h].exp] \in Entry
      BY <2>1, <1>c DEF Entry, MaybeRow, ControlTypes, LocalTypes, DataTypes
    <2>3. DataTypes'
      BY <1>14, <1>c, <2>2 DEF FillCache, DataTypes
    <2>4. ControlTypes'
      BY <1>14, <1>c, <1>g, <1>l DEF FillCache, control, ControlTypes
    <2> QED BY <2>3, <2>4, TypeSplit
  <1>15. CASE Judge(h)
    BY <1>15, <1>c, <1>r, <1>p, TypeSplit DEF Judge, DataTypes
  <1> QED
    BY <1>1, <1>2, <1>3, <1>4, <1>5, <1>6, <1>7, <1>8, <1>9, <1>10, <1>11, <1>12,
       <1>13, <1>14, <1>15 DEF Step

LEMMA EnvironmentTypes ==
  ASSUME TypeOK, Tick \/ (\E s \in SessionIds : CacheLoss(s)) \/ Crash
  PROVE  TypeOK'
  <1>1. NoEntry \in Entry
    BY DEF NoEntry, Entry, MaybeRow
  <1>2. CASE Tick
    BY <1>1, <1>2 DEF Tick, TypeOK, tables, control, history
  <1>3. ASSUME NEW s \in SessionIds, CacheLoss(s)
        PROVE  TypeOK'
    BY <1>1, <1>3 DEF CacheLoss, TypeOK, tables, control, history
  <1>4. CASE Crash
    <2>1. ControlTypes'
      BY <1>4, BlankTypes, TypeSplit DEF Crash, ControlTypes, Labels, Replies
    <2> QED BY <1>4, <2>1, TypeSplit DEF Crash, DataTypes, tables, history
  <1> QED BY <1>2, <1>3, <1>4

LEMMA TypeNext ==
  ASSUME TypeOK, LocalsSet, [Next]_vars
  PROVE  TypeOK'
  <1>1. CASE UNCHANGED vars
    BY <1>1 DEF vars, TypeOK
  <1> QED BY <1>1, ArriveTypes, StepTypes, EnvironmentTypes DEF Next

-----------------------------------------------------------------------------
(* What a step leaves alone                                                *)

\* A goroutine's own control state after a step, spelled out.
LEMMA Effects ==
  ASSUME TypeOK, NEW h \in Handlers
  PROVE  /\ \A l : Goto(h, l) =>
              call' = call /\ pc'[h] = l /\ loc' = loc /\ reply' = reply
         /\ \A row, l : Keep(h, row, l) =>
              call' = call /\ pc'[h] = l /\ loc'[h].row = row /\ reply' = reply
         /\ \A r : Answer(h, r) =>
              call' = call /\ pc'[h] = "idle" /\ loc'[h] = Blank /\ reply'[h] = r
         /\ \A row : CarryToFill(h, row) =>
              /\ call' = call /\ pc'[h] = "fill" /\ reply' = reply
              /\ loc'[h].row = row /\ loc'[h].exp = EntryTTL(row)
  BY DEF TypeOK, Goto, Keep, Answer, CarryToFill

\* Goroutines share nothing but the stores.
LEMMA OthersStay ==
  ASSUME TypeOK, NEW h \in Handlers, NEW g \in Handlers, g # h, Arrive(h) \/ Step(h)
  PROVE  call'[g] = call[g] /\ pc'[g] = pc[g] /\ loc'[g] = loc[g] /\ reply'[g] = reply[g]
  <1> DEFINE Same == /\ call'[g] = call[g] /\ pc'[g] = pc[g]
                     /\ loc'[g] = loc[g] /\ reply'[g] = reply[g]
  <1>1. \A c, l : Start(h, c, l) => Same
    BY DEF Start, TypeOK
  <1>2. \A l, row : Goto(h, l) \/ Keep(h, row, l) \/ Answer(h, l) \/ CarryToFill(h, row)
          => Same
    BY DEF Goto, Keep, Answer, CarryToFill, TypeOK
  <1>3. Mint(h) => Same
    BY <1>2 DEF Mint, TypeOK
  <1>4. SaveSession(h) => Same
    BY <1>2 DEF SaveSession, TypeOK
  <1>s. UNCHANGED control => Same
    BY DEF control
  <1>5. Arrive(h) => Same
    BY <1>1 DEF Arrive, StartRegister, StartLogin, StartWithToken, StartValidate
  <1> HIDE DEF Same
  <1>6. Step(h) => Same
    BY <1>2, <1>3, <1>4, <1>s DEF Step, SaveUser, ReadUser, CheckPassword, FindForLogout,
       DropCached, RevokeForLogout, FindForRefresh, RevokeOld, Sign, GetCached,
       FindById, FillCache, Judge
  <1>7. Same
    BY <1>5, <1>6
  <1> QED BY <1>7 DEF Same

\* The table only grows, and an active row may become revoked.
RowsKept ==
  \A s \in SessionIds : db[s] # NoRow =>
    /\ db'[s] # NoRow
    /\ db'[s].owner = db[s].owner
    /\ db'[s].expiry = db[s].expiry
    /\ db[s].status = "revoked" => db'[s].status = "revoked"

LEMMA RevokeKeeps ==
  ASSUME TypeOK, NEW s, RevokeByRefreshToken(s)
  PROVE  /\ RowsKept
         /\ s \in SessionIds /\ db[s] # NoRow => db'[s].status = "revoked"
  <1>1. CASE s \in SessionIds /\ db[s].status = "active"
    <2>1. db[s] \in Row
      BY <1>1, RowTypes DEF NoRow, TypeOK
    <2>2. /\ db'[s].owner = db[s].owner /\ db'[s].expiry = db[s].expiry
          /\ db'[s].status = "revoked"
      BY <1>1, <2>1 DEF RevokeByRefreshToken, RowOf, TypeOK, Row
    <2>3. \A r \in SessionIds \ {s} : db'[r] = db[r]
      BY <1>1 DEF RevokeByRefreshToken, RowOf, TypeOK
    <2>4. db'[s] # NoRow
      BY <2>2 DEF NoRow
    <2> QED BY <2>2, <2>3, <2>4 DEF RowsKept
  <1>2. CASE ~(s \in SessionIds /\ db[s].status = "active")
    <2>1. db' = db
      BY <1>2 DEF RevokeByRefreshToken, RowOf, NoRow
    <2>2. s \in SessionIds /\ db[s] # NoRow => db[s].status = "revoked"
      BY <1>2, RowTypes DEF TypeOK
    <2> QED BY <2>1, <2>2 DEF RowsKept
  <1> QED BY <1>1, <1>2

LEMMA InsertKeeps ==
  ASSUME TypeOK, NEW h, NEW s \in FreeIds, InsertSession(h, s)
  PROVE  /\ RowsKept
         /\ db'[s] = [status |-> "active", owner |-> OwnerOf(h), expiry |-> loc[h].exp]
         /\ db'[s] # NoRow /\ db'[s].owner = OwnerOf(h)
         /\ \A r \in SessionIds : r # s => db'[r] = db[r]
  BY DEF InsertSession, FreeIds, RowsKept, TypeOK, NoRow

LEMMA NextKeepsRows ==
  ASSUME TypeOK, [Next]_vars
  PROVE  RowsKept
  <1>1. UNCHANGED db => RowsKept
    BY DEF RowsKept
  <1>2. \A h \in Handlers : Arrive(h) => UNCHANGED db
    BY DEF Arrive, StartRegister, StartLogin, StartWithToken, StartValidate, Start, tables
  <1>3. ASSUME NEW h \in Handlers, Step(h)
        PROVE  RowsKept
    <2>1. RevokeForLogout(h) \/ RevokeOld(h) => RowsKept
      BY <1>1, RevokeKeeps DEF RevokeForLogout, RevokeOld
    <2>2. SaveSession(h) => RowsKept
      BY <1>1, InsertKeeps DEF SaveSession
    <2> HIDE DEF RowsKept
    <2> QED
      BY <1>1, <1>3, <2>1, <2>2 DEF Step, SaveUser, ReadUser, CheckPassword,
         FindForLogout, DropCached, FindForRefresh, Mint, Sign, GetCached, FindById,
         FillCache, Judge, tables
  <1>4. Tick \/ (\E s \in SessionIds : CacheLoss(s)) \/ Crash \/ UNCHANGED vars
          => UNCHANGED db
    BY DEF Tick, CacheLoss, Crash, vars, tables
  <1> QED BY <1>1, <1>2, <1>3, <1>4 DEF Next

-----------------------------------------------------------------------------
(* The inductive invariant, part by part                                   *)

\* A new call starts with blank locals and no answer, changing nothing else.
LEMMA ArriveEffect ==
  ASSUME TypeOK, LocalsSet, NEW h \in Handlers, Arrive(h)
  PROVE  /\ pc[h] = "idle" /\ loc' = loc /\ loc[h] = Blank
         /\ reply'[h] = "none"
         /\ pc'[h] \in {"save_user", "check_password", "find_token", "get_cached"}
         /\ pc'[h] \in {"save_user", "check_password"} =>
              call'[h].op \in {"register", "login"}
         /\ pc'[h] = "find_token" =>
              \E s \in HeldTokens, op \in {"logout", "refresh"} :
                call'[h] = [op |-> op, sid |-> s, before |-> StandingOf(s)]
         /\ pc'[h] = "get_cached" => call'[h].op = "validate"
         /\ UNCHANGED <<accounts, db, cache, now, issued, loggedOut>>
  <1>1. \A c, l : Start(h, c, l) =>
          /\ pc[h] = "idle" /\ loc' = loc /\ loc[h] = Blank
          /\ reply'[h] = "none" /\ pc'[h] = l /\ call'[h] = c
          /\ UNCHANGED <<accounts, db, cache, now, issued, loggedOut>>
    BY DEF Start, TypeOK, LocalsSet, tables, history
  <1>2. CASE \E u \in Users, p \in Passwords : StartRegister(h, u, p)
    BY <1>1, <1>2 DEF StartRegister
  <1>3. CASE \E o \in Owners, p \in Passwords : StartLogin(h, o, p)
    BY <1>1, <1>3 DEF StartLogin
  <1>4. CASE \E s \in HeldTokens, op \in {"logout", "refresh"} : StartWithToken(h, op, s)
    BY <1>1, <1>4 DEF StartWithToken
  <1>5. CASE \E s \in HeldAccess : StartValidate(h, s)
    BY <1>1, <1>5 DEF StartValidate
  <1> QED BY <1>2, <1>3, <1>4, <1>5 DEF Arrive

\* Time and faults move no goroutine, except that a crash idles them all.
LEMMA EnvironmentEffect ==
  ASSUME TypeOK, Tick \/ (\E s \in SessionIds : CacheLoss(s)) \/ Crash \/ UNCHANGED vars
  PROVE  /\ UNCHANGED <<accounts, db, call, issued, loggedOut>>
         /\ \/ UNCHANGED <<pc, loc, reply>>
            \/ \A h \in Handlers : /\ pc'[h] = "idle" /\ loc'[h] = Blank
                                   /\ reply'[h] \in {"lost", reply[h]}
  BY DEF Tick, CacheLoss, Crash, vars, tables, control, history

LEMMA LocalsStep ==
  ASSUME TypeOK, LocalsSet, [Next]_vars
  PROVE  LocalsSet'
  <1> DEFINE Set(g) ==
        /\ pc[g] = "idle" => loc[g] = Blank
        /\ Refreshing(g) => loc[g].row # NoRow
        /\ call[g].op = "validate" /\ pc[g] \in {"fill", "judge"} => loc[g].row # NoRow
        /\ call[g].op = "validate" /\ pc[g] = "fill" => loc[g].exp <= CacheTTL
        /\ Mints(g) /\ pc[g] = "sign" => loc[g].new \in SessionIds
  <1>1. ASSUME NEW g \in Handlers, UNCHANGED <<call[g], pc[g], loc[g]>>
        PROVE  Set(g)'
    BY <1>1 DEF LocalsSet, Refreshing, Mints
  <1>2. ASSUME NEW g \in Handlers, pc'[g] = "idle", loc'[g] = Blank
        PROVE  Set(g)'
    BY <1>2 DEF Refreshing, Mints
  <1>3. ASSUME NEW h \in Handlers, Arrive(h)
        PROVE  Set(h)'
    BY <1>3, ArriveEffect DEF Refreshing, Mints
  <1>4. ASSUME NEW h \in Handlers, Step(h)
        PROVE  Set(h)'
    <2>e. /\ \A l : Goto(h, l) =>
               call' = call /\ pc'[h] = l /\ loc' = loc
          /\ \A row, l : Keep(h, row, l) =>
               call' = call /\ pc'[h] = l /\ loc'[h].row = row
          /\ \A r : Answer(h, r) => pc'[h] = "idle" /\ loc'[h] = Blank
      BY Effects
    <2> USE <2>e DEF LocalsSet, Refreshing, Mints, At
    <2>1. CASE SaveUser(h) \/ ReadUser(h) \/ CheckPassword(h) \/ FindForLogout(h)
      BY <2>1 DEF SaveUser, ReadUser, CheckPassword, FindForLogout
    <2>2. CASE DropCached(h, "logout", "revoke") \/ DropCached(h, "refresh", "mint")
      BY <2>2 DEF DropCached, control
    <2>3. CASE RevokeForLogout(h) \/ FindForRefresh(h) \/ RevokeOld(h)
      BY <2>3 DEF RevokeForLogout, FindForRefresh, RevokeOld
    <2>4. CASE Mint(h)
      BY <2>4 DEF Mint, TypeOK
    <2>5. CASE SaveSession(h)
      BY <2>5 DEF SaveSession, TypeOK, FreeIds
    <2>6. CASE Sign(h) \/ Judge(h)
      BY <2>6 DEF Sign, Judge
    <2>7. CASE GetCached(h) \/ FillCache(h)
      BY <2>7 DEF GetCached, FillCache, control
    <2>8. CASE FindById(h)
      <3>1. \A row : row \in MaybeRow /\ row # NoRow => EntryTTL(row) <= CacheTTL
        BY RowTypes, EntryTTLBounds DEF TypeOK
      <3>2. \A row : CarryToFill(h, row) =>
              call' = call /\ pc'[h] = "fill" /\ loc'[h].row = row
                /\ loc'[h].exp = EntryTTL(row)
        BY Effects
      <3> QED BY <2>8, <3>1, <3>2, RowOfTypes DEF FindById
    <2> QED BY <1>4, <2>1, <2>2, <2>3, <2>4, <2>5, <2>6, <2>7, <2>8 DEF Step
  <1> HIDE DEF Set
  <1>5. ASSUME NEW g \in Handlers
        PROVE  Set(g)'
    <2>1. ASSUME NEW h \in Handlers, Arrive(h) \/ Step(h)
          PROVE  Set(g)'
      BY <2>1, <1>1, <1>3, <1>4, OthersStay
    <2>2. Tick \/ (\E s \in SessionIds : CacheLoss(s)) \/ Crash \/ UNCHANGED vars
            => Set(g)'
      BY <1>1, <1>2, EnvironmentEffect
    <2> QED BY <2>1, <2>2 DEF Next
  <1> QED BY <1>5 DEF Set, LocalsSet

\* Every copy a step makes was past, or just read, before the step.
LEMMA CopiesMove ==
  ASSUME TypeOK, LocalsSet, CopiesArePast, [Next]_vars
  PROVE  /\ \A s \in SessionIds : cache'[s].row # NoRow => PastOf(cache'[s].row, s)
         /\ \A g \in Handlers : loc'[g].row # NoRow =>
              call'[g].sid \in SessionIds /\ PastOf(loc'[g].row, call'[g].sid)
  <1> DEFINE CacheGood ==
               \A s \in SessionIds : cache'[s].row # NoRow => PastOf(cache'[s].row, s)
             LocGood(g) == loc'[g].row # NoRow =>
               call'[g].sid \in SessionIds /\ PastOf(loc'[g].row, call'[g].sid)
  <1>c. cache' = cache => CacheGood
    BY DEF CopiesArePast
  <1>g. \A g \in Handlers : call'[g] = call[g] /\ loc'[g].row = loc[g].row => LocGood(g)
    BY DEF CopiesArePast
  <1>b. \A g \in Handlers : loc'[g] = Blank => LocGood(g)
    BY DEF Blank
  <1>f. \A s \in SessionIds : db[s] # NoRow => PastOf(db[s], s)
    BY DEF PastOf
  <1>1. ASSUME NEW h \in Handlers, Arrive(h)
        PROVE  CacheGood /\ LocGood(h)
    BY <1>1, <1>c, <1>b, ArriveEffect
  <1>2. ASSUME NEW h \in Handlers, Step(h)
        PROVE  CacheGood /\ LocGood(h)
    <2>e. /\ \A l : Goto(h, l) => call' = call /\ loc' = loc
          /\ \A row, l : Keep(h, row, l) => call' = call /\ loc'[h].row = row
          /\ \A r : Answer(h, r) => loc'[h] = Blank
      BY Effects
    <2>l. /\ \A l : Goto(h, l) => LocGood(h)
          /\ \A r : Answer(h, r) => LocGood(h)
      BY <2>e, <1>g, <1>b
    <2>1. CASE SaveUser(h) \/ ReadUser(h) \/ CheckPassword(h) \/ FindForLogout(h)
                 \/ RevokeForLogout(h) \/ RevokeOld(h) \/ Sign(h) \/ Judge(h)
      <3> HIDE DEF LocGood, CacheGood
      <3> QED
        BY <2>1, <2>l, <1>c DEF SaveUser, ReadUser, CheckPassword, FindForLogout,
           RevokeForLogout, RevokeOld, Sign, Judge
    <2>2. ASSUME NEW op, NEW l, DropCached(h, op, l)
          PROVE  CacheGood /\ LocGood(h)
      <3>1. LocGood(h)
        BY <2>2, <2>l, <1>g DEF DropCached, control
      <3>2. \A s \in SessionIds : cache'[s] \in {cache[s], NoEntry}
        BY <2>2 DEF DropCached, TypeOK
      <3> QED BY <3>1, <3>2 DEF CopiesArePast, NoEntry
    <2>3. CASE FindForRefresh(h) \/ FindById(h)
      <3>1. CacheGood
        BY <2>3, <1>c DEF FindForRefresh, FindById
      <3>2. \A l : Keep(h, RowOf(call[h].sid), l) => LocGood(h)
        BY <2>e, <1>f DEF RowOf
      <3>3. CarryToFill(h, RowOf(call[h].sid)) => LocGood(h)
        BY <1>f DEF CarryToFill, RowOf, TypeOK
      <3> QED
        BY <2>3, <2>l, <3>1, <3>2, <3>3 DEF FindForRefresh, FindById
    <2>4. CASE Mint(h)
      <3>1. CacheGood
        BY <2>4, <1>c DEF Mint
      <3>2. LocGood(h) \/ (call' = call /\ loc'[h].row = loc[h].row)
        BY <2>4, <2>l DEF Mint, TypeOK
      <3> QED BY <3>1, <3>2, <1>g
    <2>5. CASE SaveSession(h)
      <3>1. CacheGood
        BY <2>5, <1>c DEF SaveSession
      <3>2. LocGood(h) \/ (call' = call /\ loc'[h].row = loc[h].row)
        BY <2>5, <2>l DEF SaveSession, TypeOK
      <3> QED BY <3>1, <3>2, <1>g
    <2>6. CASE GetCached(h)
      <3>1. CacheGood
        BY <2>6, <1>c DEF GetCached
      <3>2. call[h].sid \in SessionIds => \A l : Keep(h, cache[call[h].sid].row, l) => LocGood(h)
        BY <2>e DEF CopiesArePast
      <3> QED BY <2>6, <2>l, <3>1, <3>2 DEF GetCached
    <2>7. CASE FillCache(h)
      <3>1. call[h].sid \in SessionIds /\ PastOf(loc[h].row, call[h].sid)
        BY <2>7 DEF FillCache, At, LocalsSet, CopiesArePast
      <3>2. cache' # cache =>
              /\ cache'[call[h].sid].row = loc[h].row
              /\ \A s \in SessionIds : s # call[h].sid => cache'[s] = cache[s]
        BY <2>7, <3>1 DEF FillCache, TypeOK
      <3>3. CacheGood
        BY <3>1, <3>2, <1>c DEF CopiesArePast
      <3> QED BY <2>7, <2>l, <3>3, <1>g DEF FillCache, control
    <2> HIDE DEF LocGood, CacheGood
    <2> QED
      BY <1>2, <2>1, <2>2, <2>3, <2>4, <2>5, <2>6, <2>7 DEF Step
  <1>3. ASSUME Tick \/ (\E s \in SessionIds : CacheLoss(s)) \/ Crash \/ UNCHANGED vars
        PROVE  CacheGood /\ \A g \in Handlers : LocGood(g)
    <2>1. \A s \in SessionIds : cache'[s] \in {cache[s], NoEntry}
      BY <1>3 DEF Tick, CacheLoss, Crash, vars, TypeOK
    <2>2. CacheGood
      BY <2>1 DEF CopiesArePast, NoEntry
    <2>3. \A g \in Handlers : LocGood(g)
      BY <1>3, <1>g, <1>b, EnvironmentEffect
    <2> QED BY <2>2, <2>3
  <1>4. \A h, g \in Handlers : (Arrive(h) \/ Step(h)) /\ g # h => LocGood(g)
    BY <1>g, OthersStay
  <1> HIDE DEF LocGood, CacheGood
  <1>5. CacheGood /\ \A g \in Handlers : LocGood(g)
    BY <1>1, <1>2, <1>3, <1>4 DEF Next
  <1> QED BY <1>5 DEF LocGood, CacheGood

LEMMA CopiesStep ==
  ASSUME TypeOK, LocalsSet, CopiesArePast, [Next]_vars
  PROVE  CopiesArePast'
  <1> DEFINE PastNow(row, s) ==
        /\ db'[s] # NoRow
        /\ row.owner = db'[s].owner
        /\ row.expiry = db'[s].expiry
        /\ row.status = "revoked" => db'[s].status = "revoked"
  <1>1. \A row : \A s \in SessionIds : PastOf(row, s) => PastNow(row, s)
    BY NextKeepsRows DEF RowsKept, PastOf
  <1>2. /\ \A s \in SessionIds : cache'[s].row # NoRow => PastNow(cache'[s].row, s)
        /\ \A g \in Handlers : loc'[g].row # NoRow =>
             call'[g].sid \in SessionIds /\ PastNow(loc'[g].row, call'[g].sid)
    BY <1>1, CopiesMove
  <1> QED BY <1>2 DEF CopiesArePast, PastOf

\* Which statement leads where.
LEMMA StepLeads ==
  ASSUME TypeOK, AnswerWhenIdle, NEW h \in Handlers, Step(h)
  PROVE  /\ call' = call
         /\ pc[h] # "idle" /\ reply[h] = "none"
         /\ pc'[h] # "idle" => reply'[h] = "none"
         /\ pc'[h] # "find_token"
         /\ pc'[h] = "read_user" => SaveUser(h) /\ Goto(h, "read_user")
         /\ pc'[h] = "revoke_old" => FindForRefresh(h) /\ Refreshable(RowOf(call[h].sid))
         /\ call[h].op = "refresh" /\ pc'[h] = "drop" => RevokeOld(h) \/ pc[h] = "drop"
         /\ pc'[h] = "mint" =>
              \/ At(h, "login", "check_password")
                   /\ accounts[call[h].owner.user] = call[h].pw /\ UNCHANGED accounts
              \/ At(h, "refresh", "drop")
         /\ pc'[h] = "save_session" => Mint(h)
         /\ pc'[h] = "sign" => SaveSession(h)
         /\ reply'[h] = "ok" => ReadUser(h) \/ Sign(h)
  <1>e. /\ \A l : Goto(h, l) => call' = call /\ pc'[h] = l /\ reply' = reply
        /\ \A row, l : Keep(h, row, l) => call' = call /\ pc'[h] = l /\ reply' = reply
        /\ \A r : Answer(h, r) => call' = call /\ pc'[h] = "idle" /\ reply'[h] = r
        /\ \A row : CarryToFill(h, row) => call' = call /\ pc'[h] = "fill" /\ reply' = reply
    BY Effects
  <1>n. pc[h] # "idle" => reply[h] = "none"
    BY DEF AnswerWhenIdle
  <1> USE <1>e, <1>n DEF At
  <1>1. CASE SaveUser(h) \/ ReadUser(h)
    BY <1>1 DEF SaveUser, ReadUser
  <1>2. CASE CheckPassword(h)
    BY <1>2 DEF CheckPassword, tables
  <1>3. CASE FindForLogout(h) \/ RevokeForLogout(h)
    BY <1>3 DEF FindForLogout, RevokeForLogout
  <1>4. CASE DropCached(h, "logout", "revoke") \/ DropCached(h, "refresh", "mint")
    BY <1>4 DEF DropCached, control
  <1>5. CASE FindForRefresh(h)
    BY <1>5 DEF FindForRefresh
  <1>6. CASE RevokeOld(h)
    BY <1>6 DEF RevokeOld
  <1>7. CASE Mint(h)
    BY <1>7 DEF Mint, Mints, TypeOK
  <1>8. CASE SaveSession(h)
    <2>1. /\ call' = call
          /\ \/ pc'[h] = "sign" /\ reply' = reply
             \/ pc'[h] = "idle" /\ reply'[h] = "internal"
      BY <1>8 DEF SaveSession, TypeOK
    <2> QED BY <1>8, <2>1 DEF SaveSession
  <1>9. CASE Sign(h)
    BY <1>9 DEF Sign, Mints
  <1>10. CASE GetCached(h) \/ FindById(h) \/ FillCache(h) \/ Judge(h)
    BY <1>10 DEF GetCached, FindById, FillCache, Judge, control
  <1> QED
    BY <1>1, <1>2, <1>3, <1>4, <1>5, <1>6, <1>7, <1>8, <1>9, <1>10 DEF Step

LEMMA AnswerStep ==
  ASSUME TypeOK, LocalsSet, AnswerWhenIdle, [Next]_vars
  PROVE  AnswerWhenIdle'
  <1> SUFFICES ASSUME NEW g \in Handlers
               PROVE  (pc[g] # "idle" => reply[g] = "none")'
    BY DEF AnswerWhenIdle
  <1>1. ASSUME NEW h \in Handlers, Arrive(h) \/ Step(h)
        PROVE  (pc[g] # "idle" => reply[g] = "none")'
    BY <1>1, OthersStay, ArriveEffect, StepLeads DEF AnswerWhenIdle
  <1>2. Tick \/ (\E s \in SessionIds : CacheLoss(s)) \/ Crash \/ UNCHANGED vars
          => (pc[g] # "idle" => reply[g] = "none")'
    BY EnvironmentEffect DEF AnswerWhenIdle
  <1> QED BY <1>1, <1>2 DEF Next

LEMMA SignStep ==
  ASSUME TypeOK, LocalsSet, CopiesArePast, AboutToSign, AnswerWhenIdle, [Next]_vars
  PROVE  AboutToSign'
  <1> DEFINE Ready(g) ==
        Mints(g) /\ pc[g] = "sign" =>
          /\ db[loc[g].new] # NoRow
          /\ db[loc[g].new].owner = OwnerOf(g)
          /\ call[g].op = "refresh" => loc[g].new # call[g].sid
  <1>1. ASSUME NEW g \in Handlers, UNCHANGED <<call[g], pc[g], loc[g]>>
        PROVE  Ready(g)'
    <2>1. Mints(g) /\ pc[g] = "sign" => loc[g].new \in SessionIds
      BY DEF LocalsSet
    <2>2. Ready(g)
      BY DEF AboutToSign
    <2>3. \A s \in SessionIds : db[s] # NoRow =>
            db'[s] # NoRow /\ db'[s].owner = db[s].owner
      BY NextKeepsRows DEF RowsKept
    <2>4. /\ Mints(g)' <=> Mints(g)
          /\ OwnerOf(g)' = OwnerOf(g)
          /\ pc'[g] = pc[g] /\ loc'[g] = loc[g] /\ call'[g] = call[g]
      BY <1>1 DEF Mints, OwnerOf
    <2> QED
      BY <2>1, <2>2, <2>3, <2>4
  <1>2. \A g \in Handlers : pc'[g] # "sign" => Ready(g)'
    OBVIOUS
  <1>3. ASSUME NEW h \in Handlers, SaveSession(h), pc'[h] = "sign"
        PROVE  Ready(h)'
    <2>1. PICK s \in FreeIds :
            /\ InsertSession(h, s)
            /\ loc' = [loc EXCEPT ![h].new = s]
            /\ UNCHANGED call
      BY <1>3, Effects DEF SaveSession
    <2>2. /\ loc'[h].new = s /\ loc'[h].row = loc[h].row
          /\ db'[s] # NoRow /\ db'[s].owner = OwnerOf(h)
      <3>1. loc'[h].new = s /\ loc'[h].row = loc[h].row
        BY <2>1 DEF TypeOK
      <3>2. InsertSession(h, s)
        BY <2>1
      <3>3. db'[s] # NoRow /\ db'[s].owner = OwnerOf(h)
        BY <3>2, InsertKeeps
      <3> QED BY <3>1, <3>3
    <2>3. call[h].op = "refresh" => s # call[h].sid
      <3>1. call[h].op = "refresh" => db[call[h].sid] # NoRow
        BY <1>3 DEF SaveSession, LocalsSet, Refreshing, CopiesArePast, PastOf
      <3> QED BY <2>1, <3>1 DEF FreeIds
    <2> QED BY <2>1, <2>2, <2>3 DEF OwnerOf
  <1> HIDE DEF Ready
  <1>4. ASSUME NEW g \in Handlers
        PROVE  Ready(g)'
    <2>1. ASSUME NEW h \in Handlers, Arrive(h) \/ Step(h)
          PROVE  Ready(g)'
      BY <2>1, <1>1, <1>2, <1>3, OthersStay, ArriveEffect, StepLeads
    <2>2. Tick \/ (\E s \in SessionIds : CacheLoss(s)) \/ Crash \/ UNCHANGED vars
            => Ready(g)'
      BY <1>1, <1>2, EnvironmentEffect
    <2> QED BY <2>1, <2>2 DEF Next
  <1> QED BY <1>4 DEF Ready, AboutToSign

\* Only the UPDATE of Logout adds to loggedOut, only the signing to issued.
LEMMA HistoryMoves ==
  ASSUME TypeOK, LocalsSet, [Next]_vars
  PROVE  /\ \/ UNCHANGED loggedOut
            \/ \E h \in Handlers : RevokeForLogout(h)
         /\ \/ UNCHANGED issued
            \/ \E h \in Handlers : Sign(h)
  <1>1. \A h \in Handlers : Arrive(h) => UNCHANGED <<issued, loggedOut>>
    BY ArriveEffect
  <1>2. \A h \in Handlers : Step(h) =>
          /\ RevokeForLogout(h) \/ UNCHANGED loggedOut
          /\ Sign(h) \/ UNCHANGED issued
    BY DEF Step, SaveUser, ReadUser, CheckPassword, FindForLogout, DropCached,
       RevokeForLogout, FindForRefresh, RevokeOld, Mint, SaveSession, Sign, GetCached,
       FindById, FillCache, Judge, history
  <1>3. Tick \/ (\E s \in SessionIds : CacheLoss(s)) \/ Crash \/ UNCHANGED vars
          => UNCHANGED <<issued, loggedOut>>
    BY EnvironmentEffect
  <1> QED BY <1>1, <1>2, <1>3 DEF Next

LEMMA LoggedOutStep ==
  ASSUME TypeOK, LocalsSet, LoggedOutIsRevoked, [Next]_vars
  PROVE  LoggedOutIsRevoked'
  <1>1. \A s \in loggedOut : db'[s].status = "revoked"
    <2>1. \A s \in loggedOut : s \in SessionIds /\ db[s] # NoRow
      BY DEF LoggedOutIsRevoked, TypeOK, NoRow
    <2> QED BY <2>1, NextKeepsRows DEF RowsKept, LoggedOutIsRevoked
  <1>2. ASSUME NEW h \in Handlers, RevokeForLogout(h), ~UNCHANGED loggedOut
        PROVE  LoggedOutIsRevoked'
    <2>1. /\ RevokeByRefreshToken(call[h].sid)
          /\ loggedOut' = loggedOut \cup {call[h].sid}
          /\ RowOf(call[h].sid).status = "active"
      BY <1>2 DEF RevokeForLogout
    <2>2. call[h].sid \in SessionIds /\ db[call[h].sid] # NoRow
      BY <2>1 DEF RowOf, NoRow
    <2>3. db'[call[h].sid].status = "revoked"
      BY <2>1, <2>2, RevokeKeeps
    <2> QED BY <1>1, <2>1, <2>3 DEF LoggedOutIsRevoked
  <1> QED BY <1>1, <1>2, HistoryMoves DEF LoggedOutIsRevoked

LEMMA IssuedStep ==
  ASSUME TypeOK, LocalsSet, AboutToSign, IssuedBacked, [Next]_vars
  PROVE  IssuedBacked'
  <1>1. \A s \in SessionIds : db[s] # NoRow => db'[s] # NoRow /\ db'[s].owner = db[s].owner
    BY NextKeepsRows DEF RowsKept
  <1>2. \A p \in issued : p.refresh \in SessionIds
    BY DEF TypeOK, Pair
  <1>3. \A p \in issued : db'[p.refresh] # NoRow /\ db'[p.refresh].owner = p.owner
                          /\ p.access = p.refresh
    BY <1>1, <1>2 DEF IssuedBacked
  <1>4. ASSUME NEW h \in Handlers, Sign(h)
        PROVE  IssuedBacked'
    <2> DEFINE new == [access |-> loc[h].new, refresh |-> loc[h].new, owner |-> OwnerOf(h)]
    <2>1. /\ loc[h].new \in SessionIds /\ db[loc[h].new] # NoRow
          /\ db[loc[h].new].owner = OwnerOf(h)
      BY <1>4 DEF Sign, AboutToSign, LocalsSet
    <2>2. issued' \subseteq issued \cup {new}
      BY <1>4 DEF Sign
    <2>3. /\ db'[new.refresh] # NoRow /\ db'[new.refresh].owner = new.owner
          /\ new.access = new.refresh
      BY <2>1, <1>1
    <2> QED BY <2>2, <2>3, <1>3 DEF IssuedBacked
  <1> QED BY <1>3, <1>4, HistoryMoves DEF IssuedBacked

\* A token that is in no row was never revoked.
LEMMA LateArrival ==
  ASSUME TypeOK, LoggedOutIsRevoked, NEW s \in AnyId, StandingOf(s) # "live"
  PROVE  s \in SessionIds /\ db[s].status = "revoked"
  BY DEF StandingOf, RowOf, NoRow, LoggedOutIsRevoked, TypeOK

LEMMA LateStep ==
  ASSUME TypeOK, LocalsSet, AnswerWhenIdle, LoggedOutIsRevoked, LateRefreshStops,
         [Next]_vars
  PROVE  LateRefreshStops'
  <1> DEFINE Late(g) ==
        call[g].op = "refresh" /\ call[g].before # "live" =>
          /\ call[g].sid \in SessionIds
          /\ db[call[g].sid].status = "revoked"
          /\ pc[g] \in {"idle", "find_token"}
          /\ reply[g] # "ok"
  <1>1. ASSUME NEW g \in Handlers, call'[g] = call[g],
               pc'[g] \in {pc[g], "idle"}, reply'[g] \in {reply[g], "lost"}
        PROVE  Late(g)'
    <2>1. \A s \in SessionIds : db[s].status = "revoked" => db'[s].status = "revoked"
      BY NextKeepsRows DEF RowsKept, NoRow
    <2>2. Late(g)
      BY DEF LateRefreshStops
    <2> QED BY <1>1, <2>1, <2>2
  <1>2. ASSUME NEW h \in Handlers, Arrive(h)
        PROVE  Late(h)'
    <2>1. HeldTokens \subseteq AnyId
      BY DEF TypeOK, HeldTokens, Pair, AnyId
    <2>2. UNCHANGED db /\ reply'[h] = "none"
      BY <1>2, ArriveEffect
    <2>3. CASE pc'[h] = "find_token"
      <3>1. PICK s \in HeldTokens, op \in {"logout", "refresh"} :
              call'[h] = [op |-> op, sid |-> s, before |-> StandingOf(s)]
        BY <1>2, <2>3, ArriveEffect
      <3> QED BY <2>1, <2>2, <2>3, <3>1, LateArrival
    <2>4. CASE pc'[h] # "find_token"
      <3>1. call'[h].op # "refresh"
        BY <1>2, <2>4, ArriveEffect
      <3> QED BY <3>1
    <2> QED BY <2>3, <2>4
  <1>3. ASSUME NEW h \in Handlers, Step(h)
        PROVE  Late(h)'
    <2>1. call'[h] = call[h] /\ pc[h] # "idle"
      BY <1>3, StepLeads
    <2>2. CASE call[h].op = "refresh" /\ call[h].before # "live"
      <3>0. pc[h] = "find_token" /\ call[h].op = "refresh"
        BY <2>1, <2>2 DEF LateRefreshStops
      <3>1. FindForRefresh(h)
        BY <1>3, <3>0 DEF Step, SaveUser, ReadUser, CheckPassword,
           FindForLogout, DropCached, RevokeForLogout, RevokeOld, Mint, SaveSession, Sign,
           GetCached, FindById, FillCache, Judge, At
      <3>2. ~Refreshable(RowOf(call[h].sid))
        BY <2>2 DEF LateRefreshStops, RowOf, Refreshable
      <3>3. pc'[h] = "idle" /\ reply'[h] # "ok" /\ UNCHANGED db
        BY <3>1, <3>2, Effects DEF FindForRefresh, tables
      <3> QED BY <2>1, <2>2, <3>3 DEF LateRefreshStops
    <2>3. CASE ~(call[h].op = "refresh" /\ call[h].before # "live")
      BY <2>1, <2>3
    <2> QED BY <2>2, <2>3
  <1> HIDE DEF Late
  <1>4. ASSUME NEW g \in Handlers
        PROVE  Late(g)'
    <2>1. ASSUME NEW h \in Handlers, Arrive(h) \/ Step(h)
          PROVE  Late(g)'
      BY <2>1, <1>1, <1>2, <1>3, OthersStay
    <2>2. Tick \/ (\E s \in SessionIds : CacheLoss(s)) \/ Crash \/ UNCHANGED vars
            => Late(g)'
      BY <1>1, EnvironmentEffect
    <2> QED BY <2>1, <2>2 DEF Next
  <1> QED BY <1>4 DEF Late, LateRefreshStops

\* A stored password is never replaced: SaveUser fills empty places only.
LEMMA PasswordsKept ==
  ASSUME TypeOK, LocalsSet, [Next]_vars
  PROVE  \A u \in Users : accounts[u] # NoPass => accounts'[u] = accounts[u]
  <1>1. ASSUME NEW h \in Handlers, SaveUser(h)
        PROVE  \A u \in Users : accounts[u] # NoPass => accounts'[u] = accounts[u]
    BY <1>1 DEF SaveUser, TypeOK
  <1>2. \A h \in Handlers : Step(h) => SaveUser(h) \/ UNCHANGED accounts
    BY DEF Step, ReadUser, CheckPassword, FindForLogout, DropCached,
       RevokeForLogout, FindForRefresh, RevokeOld, Mint, SaveSession, Sign, GetCached,
       FindById, FillCache, Judge, tables
  <1>3. \A h \in Handlers : Arrive(h) => UNCHANGED accounts
    BY ArriveEffect
  <1>4. Tick \/ (\E s \in SessionIds : CacheLoss(s)) \/ Crash \/ UNCHANGED vars
          => UNCHANGED accounts
    BY EnvironmentEffect
  <1> QED BY <1>1, <1>2, <1>3, <1>4 DEF Next

LEMMA PasswordStep ==
  ASSUME TypeOK, LocalsSet, AnswerWhenIdle, PasswordChecked, [Next]_vars
  PROVE  PasswordChecked'
  <1> DEFINE Checked(g) ==
        /\ call[g].op = "register" /\ (pc[g] = "read_user" \/ reply[g] = "ok")
             => accounts[call[g].user] = call[g].pw
        /\ call[g].op = "login"
             /\ (pc[g] \in {"mint", "save_session", "sign"} \/ reply[g] = "ok")
             => accounts[call[g].owner.user] = call[g].pw
  <1>k. ASSUME NEW g \in Handlers
        PROVE  /\ call[g].op = "register" /\ accounts[call[g].user] = call[g].pw
                    => accounts'[call[g].user] = call[g].pw
               /\ call[g].op = "login" /\ accounts[call[g].owner.user] = call[g].pw
                    => accounts'[call[g].owner.user] = call[g].pw
    <2>1. /\ call[g].op = "register" => call[g].user \in Users /\ call[g].pw # NoPass
          /\ call[g].op = "login" => call[g].owner.user \in Users /\ call[g].pw # NoPass
      BY CallTypes, ConstantsAssumption DEF TypeOK, Owners
    <2> QED BY <2>1, PasswordsKept
  <1>1. ASSUME NEW g \in Handlers, call'[g] = call[g],
               pc'[g] \in {pc[g], "idle"}, reply'[g] \in {reply[g], "lost"}
        PROVE  Checked(g)'
    BY <1>1, <1>k DEF PasswordChecked
  <1>2. ASSUME NEW h \in Handlers, Arrive(h)
        PROVE  Checked(h)'
    BY <1>2, ArriveEffect
  <1>3. ASSUME NEW h \in Handlers, Step(h)
        PROVE  Checked(h)'
    <2>1. call'[h] = call[h] /\ (pc'[h] # "idle" => reply'[h] = "none")
      BY <1>3, StepLeads
    <2>2. CASE call[h].op = "register"
      <3>1. CASE pc'[h] = "read_user"
        <4>1. SaveUser(h) /\ Goto(h, "read_user")
          BY <1>3, <3>1, StepLeads
        <4>2. pc'[h] # "idle"
          BY <3>1
        <4>3. accounts' = [accounts EXCEPT ![call[h].user] = call[h].pw]
          BY <4>1, <4>2 DEF SaveUser, Answer, TypeOK
        <4>4. call[h].user \in Users
          BY <2>2, CallTypes DEF TypeOK
        <4> QED BY <2>1, <2>2, <4>3, <4>4 DEF TypeOK
      <3>2. CASE reply'[h] = "ok"
        <4>1. pc[h] = "read_user"
          BY <1>3, <2>2, <3>2, StepLeads DEF ReadUser, Sign, Mints, At
        <4> QED BY <2>1, <2>2, <4>1, <1>k DEF PasswordChecked
      <3> QED BY <2>1, <2>2, <3>1, <3>2
    <2>3. CASE call[h].op = "login"
      <3>1. CASE pc'[h] = "mint"
        <4>1. accounts[call[h].owner.user] = call[h].pw
          BY <1>3, <2>3, <3>1, StepLeads DEF At
        <4> QED BY <2>1, <2>3, <4>1, <1>k
      <3>2. CASE pc'[h] \in {"save_session", "sign"} \/ reply'[h] = "ok"
        <4>1. pc[h] \in {"mint", "save_session", "sign"}
          BY <1>3, <2>3, <3>2, StepLeads DEF Mint, SaveSession, Sign, ReadUser, At
        <4> QED BY <2>1, <2>3, <4>1, <1>k DEF PasswordChecked
      <3> QED BY <2>1, <2>3, <3>1, <3>2
    <2> QED BY <2>1, <2>2, <2>3
  <1> HIDE DEF Checked
  <1>4. ASSUME NEW g \in Handlers
        PROVE  Checked(g)'
    <2>1. ASSUME NEW h \in Handlers, Arrive(h) \/ Step(h)
          PROVE  Checked(g)'
      BY <2>1, <1>1, <1>2, <1>3, OthersStay
    <2>2. Tick \/ (\E s \in SessionIds : CacheLoss(s)) \/ Crash \/ UNCHANGED vars
            => Checked(g)'
      BY <1>1, EnvironmentEffect
    <2> QED BY <2>1, <2>2 DEF Next
  <1> QED BY <1>4 DEF Checked, PasswordChecked

LEMMA RotationStep ==
  ASSUME TypeOK, LocalsSet, CopiesArePast, AnswerWhenIdle, RotationRetires, [Next]_vars
  PROVE  RotationRetires'
  <1> SUFFICES ASSUME "sessions" \notin Faults
               PROVE  RotationRetires'
    BY DEF RotationRetires
  <1> DEFINE Retired(g) ==
        call[g].op = "refresh"
          /\ (pc[g] \in {"drop", "mint", "save_session", "sign"} \/ reply[g] = "ok")
        => call[g].sid \in SessionIds /\ db[call[g].sid].status = "revoked"
  <1>k. \A s \in SessionIds : db[s].status = "revoked" => db'[s].status = "revoked"
    BY NextKeepsRows DEF RowsKept, NoRow
  <1>1. ASSUME NEW g \in Handlers, call'[g] = call[g],
               pc'[g] \in {pc[g], "idle"}, reply'[g] \in {reply[g], "lost"}
        PROVE  Retired(g)'
    BY <1>1, <1>k DEF RotationRetires
  <1>2. ASSUME NEW h \in Handlers, Arrive(h)
        PROVE  Retired(h)'
    BY <1>2, ArriveEffect
  <1>3. ASSUME NEW h \in Handlers, Step(h)
        PROVE  Retired(h)'
    <2>1. call'[h] = call[h] /\ (pc'[h] # "idle" => reply'[h] = "none")
      BY <1>3, StepLeads
    <2>2. CASE call[h].op = "refresh"
      <3>1. CASE pc'[h] = "drop" /\ pc[h] # "drop"
        <4>1. RevokeOld(h)
          BY <1>3, <2>2, <3>1, StepLeads
        <4>2. RevokeByRefreshToken(call[h].sid)
          BY <4>1 DEF RevokeOld
        <4>3. call[h].sid \in SessionIds /\ db[call[h].sid] # NoRow
          BY <4>1 DEF RevokeOld, At, LocalsSet, Refreshing, CopiesArePast, PastOf
        <4> QED BY <2>1, <4>2, <4>3, RevokeKeeps
      <3>2. CASE pc'[h] \in {"mint", "save_session", "sign"} \/ reply'[h] = "ok"
        <4>1. pc[h] \in {"drop", "mint", "save_session", "sign"}
          BY <1>3, <2>2, <3>2, StepLeads DEF Mint, SaveSession, Sign, ReadUser, At
        <4> QED BY <2>1, <2>2, <4>1, <1>k DEF RotationRetires
      <3>3. CASE pc'[h] = "drop" /\ pc[h] = "drop"
        BY <2>1, <2>2, <3>3, <1>k DEF RotationRetires
      <3> QED BY <2>1, <2>2, <3>1, <3>2, <3>3
    <2> QED BY <2>1, <2>2
  <1> HIDE DEF Retired
  <1>4. ASSUME NEW g \in Handlers
        PROVE  Retired(g)'
    <2>1. ASSUME NEW h \in Handlers, Arrive(h) \/ Step(h)
          PROVE  Retired(g)'
      BY <2>1, <1>1, <1>2, <1>3, OthersStay
    <2>2. Tick \/ (\E s \in SessionIds : CacheLoss(s)) \/ Crash \/ UNCHANGED vars
            => Retired(g)'
      BY <1>1, EnvironmentEffect
    <2> QED BY <2>1, <2>2 DEF Next
  <1> QED BY <1>4 DEF Retired, RotationRetires

-----------------------------------------------------------------------------
(* Theorems                                                                *)

LEMMA InvInit == Init => IInv
  <1> SUFFICES ASSUME Init
               PROVE  IInv
    OBVIOUS
  <1>1. TypeOK
    BY TypeInit
  <1>2. LocalsSet /\ AboutToSign /\ AnswerWhenIdle
    BY DEF Init, LocalsSet, Refreshing, Mints, AboutToSign, AnswerWhenIdle
  <1>3. CopiesArePast
    BY DEF Init, CopiesArePast, NoEntry, Blank
  <1>4. LoggedOutIsRevoked /\ IssuedBacked
    BY DEF Init, LoggedOutIsRevoked, IssuedBacked
  <1>5. LateRefreshStops /\ PasswordChecked /\ RotationRetires
    BY DEF Init, LateRefreshStops, PasswordChecked, RotationRetires, NoCall
  <1> QED BY <1>1, <1>2, <1>3, <1>4, <1>5 DEF IInv

LEMMA InvNext ==
  ASSUME IInv, [Next]_vars
  PROVE  IInv'
  <1> USE DEF IInv
  <1>1. TypeOK' /\ LocalsSet' /\ CopiesArePast' /\ AnswerWhenIdle'
    BY TypeNext, LocalsStep, CopiesStep, AnswerStep
  <1>2. AboutToSign' /\ LoggedOutIsRevoked' /\ IssuedBacked'
    BY SignStep, LoggedOutStep, IssuedStep
  <1>3. LateRefreshStops' /\ PasswordChecked' /\ RotationRetires'
    BY LateStep, PasswordStep, RotationStep
  <1> QED BY <1>1, <1>2, <1>3

\* For any number of handlers, users and sessions, any lifetimes and any
\* faults, what a goroutine relies on between two statements holds (auth.go).
THEOREM Invariance == Spec => []IInv
  <1>1. Init => IInv
    BY InvInit
  <1>2. IInv /\ [Next]_vars => IInv'
    BY InvNext
  <1> QED BY <1>1, <1>2, PTL DEF Spec

\* The tables, Redis and every goroutine's variables keep their types.
THEOREM TypeCorrect == Spec => []TypeOK
  <1>1. IInv => TypeOK
    BY DEF IInv
  <1> QED BY <1>1, Invariance, PTL

\* What Redis and the goroutines hold of a session is a past state of its row.
THEOREM CopiesCorrect == Spec => []CopiesArePast
  <1>1. IInv => CopiesArePast
    BY DEF IInv
  <1> QED BY <1>1, Invariance, PTL

\* A refresh that begins after the revocation of its session yields nothing.
THEOREM LateRefreshFails == Spec => []NoRefreshAfterRevoke
  <1>1. IInv => NoRefreshAfterRevoke
    BY DEF IInv, LateRefreshStops, NoRefreshAfterRevoke
  <1> QED BY <1>1, Invariance, PTL

\* Tokens in the hands of clients always have their session in the table.
THEOREM TokensBacked == Spec => []IssuedBacked
  <1>1. IInv => IssuedBacked
    BY DEF IInv
  <1> QED BY <1>1, Invariance, PTL

\* Nobody is let in with a password that is not the stored one.
THEOREM PasswordsHold == Spec => []CredentialsHold
  <1>1. IInv => CredentialsHold
    BY DEF IInv, PasswordChecked, CredentialsHold
  <1> QED BY <1>1, Invariance, PTL

\* Without database failures a refresh retires the old token first.
THEOREM RotationHolds == Spec => []RotationRetires
  <1>1. IInv => RotationRetires
    BY DEF IInv
  <1> QED BY <1>1, Invariance, PTL

\* A refresh never moves a session to another user or app.
THEOREM OwnerKept == Spec => []RefreshKeepsOwner
  <1>1. IInv => RefreshKeepsOwner
    <2> SUFFICES ASSUME IInv, NEW h \in Handlers, call[h].op = "refresh", pc[h] = "sign"
                 PROVE  /\ db[loc[h].new].owner = db[call[h].sid].owner
                        /\ loc[h].new # call[h].sid
      BY DEF RefreshKeepsOwner
    <2>1. loc[h].row # NoRow
      BY DEF IInv, LocalsSet, Refreshing
    <2>2. loc[h].row.owner = db[call[h].sid].owner
      BY <2>1 DEF IInv, CopiesArePast, PastOf
    <2>3. db[loc[h].new].owner = loc[h].row.owner /\ loc[h].new # call[h].sid
      BY DEF IInv, AboutToSign, Mints, OwnerOf
    <2> QED BY <2>2, <2>3
  <1> QED BY <1>1, Invariance, PTL

\* One logout at most is told that it ended the session.
THEOREM OneLogoutWins == Spec => LogoutWinsOnce
  <1>1. ASSUME IInv, [Next]_vars
        PROVE  [\A h \in Handlers : At(h, "logout", "revoke") /\ reply'[h] = "true"
                   => call[h].sid \notin loggedOut]_vars
    <2> SUFFICES ASSUME NEW h \in Handlers, At(h, "logout", "revoke"), reply'[h] = "true",
                        call[h].sid \in loggedOut, Next
                 PROVE  FALSE
      BY <1>1
    <2>1. /\ call[h].op = "logout" /\ pc[h] = "revoke" /\ reply[h] = "none"
          /\ RowOf(call[h].sid).status = "revoked"
      BY <1>1 DEF At, IInv, AnswerWhenIdle, LoggedOutIsRevoked, RowOf, TypeOK
    <2>2. ~Arrive(h) /\ \A g \in Handlers : g # h => ~Arrive(g) /\ ~Step(g)
      BY <1>1, <2>1, ArriveEffect, OthersStay DEF IInv
    <2>3. ~(Tick \/ (\E s \in SessionIds : CacheLoss(s)) \/ Crash)
      BY <1>1, <2>1, EnvironmentEffect DEF IInv
    <2>4. Step(h)
      BY <2>2, <2>3 DEF Next
    <2>5. RevokeForLogout(h)
      BY <2>1, <2>4 DEF Step, SaveUser, ReadUser, CheckPassword, FindForLogout, DropCached,
         FindForRefresh, RevokeOld, Mint, SaveSession, Sign, GetCached, FindById, FillCache,
         Judge, At, Mints
    <2>6. reply'[h] \in {"false", "internal"}
      BY <1>1, <2>1, <2>5, Effects DEF RevokeForLogout, IInv
    <2> QED BY <2>6
  <1> QED BY <1>1, Invariance, PTL DEF LogoutWinsOnce, Spec

-----------------------------------------------------------------------------
(* A stale copy of a revoked session dies out                              *)

FillsWith(g, s) ==
  /\ call[g].op = "validate" /\ call[g].sid = s
  /\ pc[g] = "fill" /\ loc[g].row.status = "active"

\* A validation takes a copy from the table or from Redis, and Redis takes one
\* from a validation that had read it.
LEMMA CopiesComeFrom ==
  ASSUME TypeOK, LocalsSet, NEW h \in Handlers, Step(h)
  PROVE  /\ call' = call /\ UNCHANGED now
         /\ pc'[h] = "fill" =>
              \/ loc'[h].row = RowOf(call[h].sid)
              \/ pc[h] = "fill" /\ loc' = loc
         /\ pc'[h] = "judge" =>
              \/ /\ call[h].sid \in SessionIds /\ cache[call[h].sid].row # NoRow
                 /\ loc'[h].row = cache[call[h].sid].row
              \/ call[h].op = "validate" /\ pc[h] = "fill" /\ loc' = loc
         /\ \A s \in SessionIds :
              \/ cache'[s] \in {cache[s], NoEntry}
              \/ /\ At(h, "validate", "fill") /\ call[h].sid = s
                 /\ cache'[s] = [row |-> loc[h].row, until |-> now + loc[h].exp]
  <1>e. /\ \A l : Goto(h, l) => call' = call /\ pc'[h] = l /\ loc' = loc
        /\ \A row, l : Keep(h, row, l) => call' = call /\ pc'[h] = l /\ loc'[h].row = row
        /\ \A r : Answer(h, r) => call' = call /\ pc'[h] = "idle" /\ loc'[h] = Blank
    BY Effects
  <1> USE <1>e DEF At
  <1>1. CASE SaveUser(h) \/ ReadUser(h) \/ CheckPassword(h) \/ FindForLogout(h)
    BY <1>1 DEF SaveUser, ReadUser, CheckPassword, FindForLogout
  <1>2. CASE RevokeForLogout(h) \/ FindForRefresh(h) \/ RevokeOld(h) \/ Sign(h) \/ Judge(h)
    BY <1>2 DEF RevokeForLogout, FindForRefresh, RevokeOld, Sign, Judge
  <1>3. CASE DropCached(h, "logout", "revoke") \/ DropCached(h, "refresh", "mint")
    <2>1. \A s \in SessionIds : cache'[s] \in {cache[s], NoEntry}
      BY <1>3 DEF DropCached, TypeOK
    <2>2. call' = call /\ UNCHANGED now /\ pc'[h] \in {"drop", "revoke", "mint"}
      BY <1>3 DEF DropCached, control
    <2> QED BY <2>1, <2>2
  <1>4. CASE Mint(h)
    BY <1>4 DEF Mint, TypeOK
  <1>5. CASE SaveSession(h)
    <2>1. call' = call /\ pc'[h] \in {"sign", "idle"}
      BY <1>5 DEF SaveSession, TypeOK
    <2> QED BY <1>5, <2>1 DEF SaveSession
  <1>6. CASE GetCached(h)
    BY <1>6 DEF GetCached
  <1>7. CASE FindById(h)
    <2>1. \A row : CarryToFill(h, row) =>
            call' = call /\ pc'[h] = "fill" /\ loc'[h].row = row
      BY Effects
    <2> QED BY <1>7, <2>1 DEF FindById
  <1>8. CASE FillCache(h)
    <2>1. call' = call /\ loc' = loc /\ pc'[h] \in {"fill", "judge"} /\ UNCHANGED now
      BY <1>8 DEF FillCache, control
    <2>2. \A s \in SessionIds :
            \/ cache'[s] = cache[s]
            \/ /\ call[h].sid = s
               /\ cache'[s] = [row |-> loc[h].row, until |-> now + loc[h].exp]
      BY <1>8 DEF FillCache, TypeOK
    <2> QED BY <1>8, <2>1, <2>2 DEF FillCache
  <1> QED
    BY <1>1, <1>2, <1>3, <1>4, <1>5, <1>6, <1>7, <1>8 DEF Step

LEMMA FillsOnlyLeave ==
  ASSUME TypeOK, LocalsSet, [Next]_vars, NEW s \in SessionIds, db[s].status = "revoked",
         NEW g \in Handlers, FillsWith(g, s)'
  PROVE  FillsWith(g, s)
  <1>1. ASSUME NEW h \in Handlers, Arrive(h) \/ Step(h)
        PROVE  FillsWith(g, s)
    <2>1. CASE g # h
      BY <1>1, <2>1, OthersStay DEF FillsWith
    <2>2. CASE g = h
      BY <1>1, <2>2, ArriveEffect, CopiesComeFrom DEF FillsWith, RowOf
    <2> QED BY <2>1, <2>2
  <1>2. Tick \/ (\E r \in SessionIds : CacheLoss(r)) \/ Crash \/ UNCHANGED vars
          => FillsWith(g, s)
    BY EnvironmentEffect DEF FillsWith
  <1> QED BY <1>1, <1>2 DEF Next

LEMMA EnvironmentDrops ==
  ASSUME TypeOK, Tick \/ (\E r \in SessionIds : CacheLoss(r)) \/ Crash \/ UNCHANGED vars
  PROVE  /\ \A s \in SessionIds : cache'[s] \in {cache[s], NoEntry}
         /\ now' \in {now, now + 1}
  BY DEF Tick, CacheLoss, Crash, vars, TypeOK

\* Who caches an active copy of a revoked session had read it before, and gives
\* it a day at most.
LEMMA FillSpends ==
  ASSUME TypeOK, LocalsSet, [Next]_vars, NEW s \in SessionIds, db[s].status = "revoked",
         cache'[s].row.status = "active", cache'[s] # cache[s]
  PROVE  /\ \E h \in Handlers : FillsWith(h, s)
         /\ cache'[s].until <= now + CacheTTL
  <1>1. cache'[s] # NoEntry
    BY DEF NoEntry, NoRow
  <1>2. ~(Tick \/ (\E r \in SessionIds : CacheLoss(r)) \/ Crash \/ UNCHANGED vars)
    BY <1>1, EnvironmentDrops
  <1>3. PICK h \in Handlers : Arrive(h) \/ Step(h)
    BY <1>2 DEF Next
  <1>4. Step(h)
    BY <1>3, ArriveEffect
  <1>5. /\ At(h, "validate", "fill") /\ call[h].sid = s
        /\ cache'[s] = [row |-> loc[h].row, until |-> now + loc[h].exp]
    BY <1>1, <1>4, CopiesComeFrom
  <1>6. FillsWith(h, s)
    BY <1>5 DEF FillsWith, At
  <1>7. loc[h].exp \in Nat /\ loc[h].exp <= CacheTTL /\ now \in Nat
    BY <1>5 DEF At, LocalsSet, TypeOK
  <1>8. cache'[s].until <= now + CacheTTL
    BY <1>5, <1>7, ConstantsAssumption
  <1> QED BY <1>6, <1>8

LiveAt(row, t) == row.status = "active" /\ t < row.expiry

LEMMA BeliefEnds ==
  ASSUME TypeOK, LocalsSet, [Next]_vars, NEW s \in SessionIds, db[s].status = "revoked",
         ~BelievedActive(s)
  PROVE  ~BelievedActive(s)'
  <1> DEFINE Holds(g) == /\ call[g].op = "validate" /\ call[g].sid = s
                         /\ pc[g] \in {"fill", "judge"}
                         /\ LiveAt(loc[g].row, now)
  <1>b. /\ BelievedActive(s) <=> \/ cache[s].row # NoRow /\ LiveAt(cache[s].row, now)
                                 \/ \E g \in Handlers : Holds(g)
        /\ BelievedActive(s)' <=> \/ cache'[s].row # NoRow /\ LiveAt(cache'[s].row, now')
                                  \/ \E g \in Handlers : Holds(g)'
    BY DEF BelievedActive, IsSessionActive, LiveAt
  <1>n. \A t : ~LiveAt(NoRow, t)
    BY DEF LiveAt, NoRow
  <1>r. now' \in {now, now + 1} =>
          \A row \in MaybeRow : ~LiveAt(row, now) => ~LiveAt(row, now')
    <2> SUFFICES ASSUME now' \in {now, now + 1}, NEW row \in MaybeRow,
                        LiveAt(row, now')
                 PROVE  LiveAt(row, now)
      OBVIOUS
    <2>1. row.expiry \in Nat /\ now \in Nat
      BY <1>n, RowTypes DEF TypeOK
    <2> QED BY <2>1 DEF LiveAt
  <1>t. cache[s].row \in MaybeRow /\ \A g \in Handlers : loc[g].row \in MaybeRow
    BY DEF TypeOK, Entry
  <1>c. ~LiveAt(cache[s].row, now) /\ \A g \in Handlers : ~Holds(g)
    BY <1>b, <1>n
  <1>d. ~LiveAt(db[s], now)
    BY DEF LiveAt
  <1>1. ASSUME cache'[s] \in {cache[s], NoEntry}, now' \in {now, now + 1}
        PROVE  ~LiveAt(cache'[s].row, now')
    BY <1>1, <1>n, <1>r, <1>t, <1>c DEF NoEntry
  <1>2. ASSUME NEW g \in Handlers, UNCHANGED <<call[g], pc[g], loc[g]>>,
               now' \in {now, now + 1}
        PROVE  ~Holds(g)'
    BY <1>2, <1>r, <1>t, <1>c
  <1>3. ASSUME NEW h \in Handlers, Arrive(h)
        PROVE  ~LiveAt(cache'[s].row, now') /\ ~Holds(h)'
    BY <1>3, <1>1, ArriveEffect
  <1>4. ASSUME NEW h \in Handlers, Step(h)
        PROVE  ~LiveAt(cache'[s].row, now') /\ ~Holds(h)'
    <2>1. /\ call' = call /\ now' = now
          /\ pc'[h] = "fill" =>
               \/ loc'[h].row = RowOf(call[h].sid)
               \/ pc[h] = "fill" /\ loc' = loc
          /\ pc'[h] = "judge" =>
               \/ /\ call[h].sid \in SessionIds /\ cache[call[h].sid].row # NoRow
                  /\ loc'[h].row = cache[call[h].sid].row
               \/ call[h].op = "validate" /\ pc[h] = "fill" /\ loc' = loc
          /\ \/ cache'[s] \in {cache[s], NoEntry}
             \/ /\ At(h, "validate", "fill") /\ call[h].sid = s
                /\ cache'[s].row = loc[h].row
      <3>1. \/ cache'[s] \in {cache[s], NoEntry}
            \/ /\ At(h, "validate", "fill") /\ call[h].sid = s
               /\ cache'[s] = [row |-> loc[h].row, until |-> now + loc[h].exp]
        BY <1>4, CopiesComeFrom
      <3> QED BY <1>4, <3>1, CopiesComeFrom
    <2>2. ~LiveAt(cache'[s].row, now')
      BY <2>1, <1>1, <1>c DEF At
    <2>3. ~Holds(h)'
      BY <2>1, <1>c, <1>d DEF RowOf
    <2> QED BY <2>2, <2>3
  <1> HIDE DEF Holds
  <1>5. ASSUME NEW h \in Handlers, Arrive(h) \/ Step(h)
        PROVE  ~LiveAt(cache'[s].row, now') /\ \A g \in Handlers : ~Holds(g)'
    <2>1. now' = now
      BY <1>5, ArriveEffect, CopiesComeFrom
    <2>2. \A g \in Handlers : g # h => ~Holds(g)'
      BY <1>5, <2>1, <1>2, OthersStay
    <2> QED BY <1>3, <1>4, <1>5, <2>2
  <1>6. ASSUME Tick \/ (\E r \in SessionIds : CacheLoss(r)) \/ Crash \/ UNCHANGED vars
        PROVE  ~LiveAt(cache'[s].row, now') /\ \A g \in Handlers : ~Holds(g)'
    <2>1. cache'[s] \in {cache[s], NoEntry} /\ now' \in {now, now + 1}
      BY <1>6, EnvironmentDrops
    <2>2. ASSUME NEW g \in Handlers, pc'[g] = "idle"
          PROVE  ~Holds(g)'
      BY <2>2 DEF Holds
    <2> QED BY <1>6, <2>1, <2>2, <1>1, <1>2, EnvironmentEffect
  <1> QED BY <1>b, <1>5, <1>6 DEF Next

\* No stale copy of a revoked session lasts: only reads made before the revocation
\* are cached late, for a day at most, and once no copy is active none will be.
THEOREM StaleEnds == Spec => StaleDiesOut
  <1> DEFINE Ends ==
        \A s \in SessionIds : db[s].status = "revoked" =>
          /\ OldFills(s)' \subseteq OldFills(s)
          /\ cache'[s].row.status = "active" /\ cache'[s] # cache[s]
               => OldFills(s) # {} /\ cache'[s].until <= now + CacheTTL
          /\ ~BelievedActive(s) => ~BelievedActive(s)'
  <1>1. ASSUME IInv, [Next]_vars
        PROVE  Ends
    <2> SUFFICES ASSUME NEW s \in SessionIds, db[s].status = "revoked"
                 PROVE  /\ OldFills(s)' \subseteq OldFills(s)
                        /\ cache'[s].row.status = "active" /\ cache'[s] # cache[s]
                             => OldFills(s) # {} /\ cache'[s].until <= now + CacheTTL
                        /\ ~BelievedActive(s) => ~BelievedActive(s)'
      OBVIOUS
    <2>1. /\ \A g : g \in OldFills(s) <=> g \in Handlers /\ FillsWith(g, s)
          /\ \A g : g \in OldFills(s)' <=> g \in Handlers /\ FillsWith(g, s)'
      BY DEF OldFills, FillsWith
    <2>2. OldFills(s)' \subseteq OldFills(s)
      BY <1>1, <2>1, FillsOnlyLeave DEF IInv
    <2>3. cache'[s].row.status = "active" /\ cache'[s] # cache[s]
            => OldFills(s) # {} /\ cache'[s].until <= now + CacheTTL
      BY <1>1, <2>1, FillSpends DEF IInv
    <2>4. ~BelievedActive(s) => ~BelievedActive(s)'
      BY <1>1, BeliefEnds DEF IInv
    <2> QED BY <2>2, <2>3, <2>4
  <1>2. IInv /\ [Next]_vars => [Ends]_vars
    BY <1>1
  <1> QED BY <1>2, Invariance, PTL DEF StaleDiesOut, Spec

-----------------------------------------------------------------------------
(* AuthService implements SessionLedger                                    *)

LEMMA LedgerInit == Init => Ledger!Init
  BY DEF Init, Ledger!Init, NoRow, Ledger!NoRow, Verdicts, Ledger!NoVerdict, NoCall

\* A revocation is a Close, or nothing.
LEMMA RevokeCloses ==
  ASSUME TypeOK, NEW s, RevokeByRefreshToken(s), UNCHANGED <<now, Verdicts>>
  PROVE  Ledger!Next \/ UNCHANGED <<db, now, Verdicts>>
  <1>1. CASE s \in SessionIds /\ db[s].status = "active"
    BY <1>1 DEF RevokeByRefreshToken, RowOf, Ledger!Next, Ledger!Close
  <1>2. CASE ~(s \in SessionIds /\ db[s].status = "active")
    BY <1>2 DEF RevokeByRefreshToken, RowOf, NoRow
  <1> QED BY <1>1, <1>2

\* An INSERT is an Open.
LEMMA InsertOpens ==
  ASSUME TypeOK, LocalsSet, NEW h \in Handlers, Mints(h), pc[h] = "save_session",
         NEW s \in FreeIds, InsertSession(h, s), UNCHANGED <<now, Verdicts>>
  PROVE  Ledger!Next
  <1> DEFINE row == [status |-> "active", owner |-> OwnerOf(h), expiry |-> loc[h].exp]
  <1>1. row \in Ledger!Row
    BY OwnerTypes DEF TypeOK, Ledger!Row
  <1>2. db' = [db EXCEPT ![s] = row] /\ s \in SessionIds /\ db[s] = NoRow
    BY DEF InsertSession, FreeIds
  <1>3. db'[s] = row
    BY <1>2 DEF TypeOK
  <1>4. Ledger!Open(s)
    <2>1. row.status = "active"
      OBVIOUS
    <2>2. db[s] = Ledger!NoRow
      BY <1>2 DEF NoRow, Ledger!NoRow
    <2> HIDE DEF row
    <2>3. db' = [db EXCEPT ![s] = db'[s]]
      BY <1>2, <1>3
    <2> QED BY <1>1, <1>3, <2>1, <2>2, <2>3 DEF Ledger!Open
  <1>5. \E r \in SessionIds : Ledger!Open(r)
    BY <1>2, <1>4
  <1> QED BY <1>5 DEF Ledger!Next

VerdictOf(g) ==
  IF call[g].op = "validate" /\ reply[g] \in {"true", "false"}
  THEN [sid |-> call[g].sid, active |-> reply[g] = "true"]
  ELSE Ledger!NoVerdict

LEMMA VerdictsEach ==
  /\ Verdicts = [g \in Handlers |-> VerdictOf(g)]
  /\ Verdicts' = [g \in Handlers |-> VerdictOf(g)']
  BY DEF Verdicts, VerdictOf, Ledger!NoVerdict

\* Only an arrival and the last statement of a validation change a verdict.
LEMMA VerdictsStay ==
  ASSUME IInv, NEW h \in Handlers, Step(h), ~Judge(h)
  PROVE  UNCHANGED Verdicts
  <1>1. ASSUME NEW g \in Handlers, g # h
        PROVE  VerdictOf(g)' = VerdictOf(g)
    <2>1. call'[g] = call[g] /\ reply'[g] = reply[g]
      BY <1>1, OthersStay DEF IInv
    <2> QED BY <2>1 DEF VerdictOf
  <1>2. call'[h] = call[h] /\ reply[h] = "none"
    BY StepLeads DEF IInv
  <1>3. ASSUME call[h].op # "validate"
        PROVE  VerdictOf(h)' = VerdictOf(h)
    BY <1>2, <1>3 DEF VerdictOf
  <1>4. ASSUME call[h].op = "validate"
        PROVE  VerdictOf(h)' = VerdictOf(h)
    <2>1. GetCached(h) \/ FindById(h) \/ FillCache(h)
      BY <1>4 DEF Step, SaveUser, ReadUser, CheckPassword, FindForLogout, DropCached,
         RevokeForLogout, FindForRefresh, RevokeOld, Mint, SaveSession, Sign, At, Mints
    <2>2. reply'[h] \in {"none", "internal"}
      BY <1>2, <2>1, Effects DEF GetCached, FindById, FillCache, control, IInv
    <2> QED BY <1>2, <2>2 DEF VerdictOf
  <1>5. \A g \in Handlers : VerdictOf(g)' = VerdictOf(g)
    BY <1>1, <1>3, <1>4
  <1> QED BY <1>5, VerdictsEach

LEMMA ArriveAsks ==
  ASSUME IInv, NEW h \in Handlers, Arrive(h)
  PROVE  Ledger!Ask(h)
  <1>1. /\ UNCHANGED <<db, now>> /\ reply'[h] = "none"
    BY ArriveEffect DEF IInv
  <1>2. VerdictOf(h)' = Ledger!NoVerdict
    BY <1>1 DEF VerdictOf
  <1>3. \A g \in Handlers : g # h => VerdictOf(g)' = VerdictOf(g)
    BY OthersStay DEF IInv, VerdictOf
  <1>4. Verdicts' = [Verdicts EXCEPT ![h] = Ledger!NoVerdict]
    BY <1>2, <1>3, VerdictsEach
  <1> QED BY <1>1, <1>4 DEF Ledger!Ask

\* The answer of a validation is one the ledger may give: its copy is past.
LEMMA JudgeTells ==
  ASSUME IInv, NEW h \in Handlers, Judge(h)
  PROVE  \E s \in SessionIds : Ledger!TellActive(h, s) \/ Ledger!TellInactive(h, s)
  <1> DEFINE s == call[h].sid
             row == loc[h].row
             active == IsSessionActive(row)
  <1>1. row # NoRow
    BY DEF IInv, LocalsSet, Judge, At
  <1>2. s \in SessionIds /\ PastOf(row, s)
    BY <1>1 DEF IInv, CopiesArePast
  <1>3. row.status \in {"active", "revoked"} /\ row.expiry \in Nat /\ now \in Nat
    BY <1>1, RowTypes DEF IInv, TypeOK, LocalTypes
  <1>4. /\ call' = call /\ UNCHANGED <<db, now>>
        /\ reply'[h] = IF active THEN "true" ELSE "false"
    BY Effects DEF Judge, IInv, tables
  <1>5. VerdictOf(h)' = [sid |-> s, active |-> active]
    <2>1. call[h].op = "validate"
      BY DEF Judge, At
    <2>2. active \in BOOLEAN
      BY DEF IsSessionActive
    <2>3. (reply'[h] = "true") = active /\ reply'[h] \in {"true", "false"}
      BY <1>4, <2>2
    <2> QED BY <1>4, <2>1, <2>3 DEF VerdictOf
  <1>6. \A g \in Handlers : g # h => VerdictOf(g)' = VerdictOf(g)
    <2>1. Step(h)
      BY DEF Step
    <2> QED BY <2>1, OthersStay DEF IInv, VerdictOf
  <1>7. Verdicts' = [Verdicts EXCEPT ![h] = [sid |-> s, active |-> active]]
    BY <1>5, <1>6, VerdictsEach
  <1>8. CASE active
    <2>1. now < db[s].expiry /\ db[s] # Ledger!NoRow
      BY <1>2, <1>8 DEF PastOf, IsSessionActive, NoRow, Ledger!NoRow
    <2>2. active = TRUE
      BY <1>8 DEF IsSessionActive
    <2>3. Ledger!TellActive(h, s)
      BY <1>4, <1>7, <2>1, <2>2 DEF Ledger!TellActive
    <2> QED BY <1>2, <2>3
  <1>9. CASE ~active
    <2>1. db[s] # Ledger!NoRow /\ Ledger!Dead(s)
      BY <1>2, <1>3, <1>9 DEF PastOf, IsSessionActive, Ledger!Dead, NoRow, Ledger!NoRow
    <2>2. active = FALSE
      BY <1>9 DEF IsSessionActive
    <2>3. Ledger!TellInactive(h, s)
      BY <1>4, <1>7, <2>1, <2>2 DEF Ledger!TellInactive
    <2> QED BY <1>2, <2>3
  <1> QED BY <1>8, <1>9

LEMMA LedgerStep ==
  ASSUME IInv, [Next]_vars
  PROVE  [Ledger!Next]_<<db, now, Verdicts>>
  <1> DEFINE Done == Ledger!Next \/ UNCHANGED <<db, now, Verdicts>>
  <1>1. ASSUME NEW h \in Handlers, Arrive(h)
        PROVE  Done
    <2>1. Ledger!Ask(h)
      BY <1>1, ArriveAsks
    <2> QED BY <2>1 DEF Ledger!Next, Ledger!Tell, Ledger!Ask
  <1>2. ASSUME NEW h \in Handlers, Step(h)
        PROVE  Done
    <2>1. CASE Judge(h)
      <3>1. PICK s \in SessionIds : Ledger!TellActive(h, s) \/ Ledger!TellInactive(h, s)
        BY <2>1, JudgeTells
      <3>2. UNCHANGED <<db, now>>
        BY <3>1 DEF Ledger!TellActive, Ledger!TellInactive
      <3>3. Verdicts' # Verdicts => Ledger!Tell
        BY <3>1 DEF Ledger!Tell
      <3> QED BY <3>2, <3>3 DEF Ledger!Next
    <2>2. CASE ~Judge(h)
      <3>1. UNCHANGED Verdicts
        BY <1>2, <2>2, VerdictsStay
      <3>2. UNCHANGED now
        BY <1>2 DEF Step, SaveUser, ReadUser, CheckPassword, FindForLogout, DropCached,
           RevokeForLogout, FindForRefresh, RevokeOld, Mint, SaveSession, Sign, GetCached,
           FindById, FillCache, Judge
      <3>3. CASE RevokeForLogout(h) \/ RevokeOld(h)
        BY <3>1, <3>2, <3>3, RevokeCloses DEF RevokeForLogout, RevokeOld, IInv
      <3>4. CASE SaveSession(h)
        <4>1. UNCHANGED db \/ \E s \in FreeIds : InsertSession(h, s)
          BY <3>4 DEF SaveSession
        <4> QED BY <3>1, <3>2, <3>4, <4>1, InsertOpens DEF SaveSession, IInv
      <3>5. CASE ~(RevokeForLogout(h) \/ RevokeOld(h) \/ SaveSession(h))
        <4>1. UNCHANGED db
          BY <1>2, <3>5 DEF Step, SaveUser, ReadUser, CheckPassword, FindForLogout,
             DropCached, FindForRefresh, Mint, Sign, GetCached, FindById, FillCache,
             Judge, tables
        <4> QED BY <3>1, <3>2, <4>1
      <3> QED BY <3>3, <3>4, <3>5
    <2> QED BY <2>1, <2>2
  <1>3. ASSUME Tick \/ (\E s \in SessionIds : CacheLoss(s)) \/ Crash \/ UNCHANGED vars
        PROVE  Done
    <2>1. \A g \in Handlers : VerdictOf(g)' = VerdictOf(g)
      <3>1. CASE Crash
        BY <3>1 DEF Crash, Running, VerdictOf, IInv, AnswerWhenIdle, TypeOK
      <3>2. CASE ~Crash
        BY <1>3, <3>2 DEF Tick, CacheLoss, vars, control, VerdictOf
      <3> QED BY <3>1, <3>2
    <2>2. UNCHANGED Verdicts
      BY <2>1, VerdictsEach
    <2>3. UNCHANGED db /\ (now' = now + 1 \/ now' = now)
      BY <1>3 DEF Tick, CacheLoss, Crash, vars, tables
    <2> QED BY <2>2, <2>3 DEF Ledger!Next, Ledger!Pass
  <1> QED BY <1>1, <1>2, <1>3 DEF Next

\* The auth service, whatever interleaves and fails, is a session ledger.
THEOREM Implements == Spec => LedgerSpec
  <1>1. Init => Ledger!Init
    BY LedgerInit
  <1>2. IInv /\ [Next]_vars => [Ledger!Next]_<<db, now, Verdicts>>
    BY LedgerStep
  <1> QED
    BY <1>1, <1>2, Invariance, PTL DEF Spec, LedgerSpec, Ledger!Spec, Ledger!ledgerVars
=============================================================================
