---------------------------- MODULE AuthService ----------------------------
(***************************************************************************)
(* The auth service: AuthUseCase (internal/usecase/auth.go) over the       *)
(* PostgreSQL tables users and sessions and the Redis cache of sessions.   *)
(*                                                                         *)
(* Every gRPC call runs in a goroutine of its own.  A handler h is such a  *)
(* goroutine: call[h] is the request, pc[h] the statement it is about to   *)
(* execute, loc[h] its local variables and reply[h] the answer it gave.    *)
(* One action is one round trip to PostgreSQL or to Redis, or one use of   *)
(* the token provider, with the local code up to the next one.  Handlers   *)
(* interleave freely: nothing in the code serialises them.                 *)
(*                                                                         *)
(* A refresh token is 32 random bytes stored in one row of sessions; it is *)
(* named here by the id of that row.  A JWT is the session id it carries.  *)
(***************************************************************************)
EXTENDS Naturals

CONSTANTS
  Handlers,     \* concurrent calls
  Users,        \* e-mail addresses
  Passwords,
  Apps,         \* app ids
  SessionIds,   \* ids the BIGSERIAL of sessions can give (bounds the model)
  NoSession,    \* a token or an id that is in no row
  NoPass,       \* accounts[u] of an address that is in no row
  Ops,          \* the calls the clients make (bounds the workload)
  Faults,       \* what may fail: statements on "users", on "sessions", calls of
                \* Redis ("cache"), the "token" provider, the process ("crash")
  RefreshTTL,   \* refreshTokenTTL
  CacheTTL,     \* Store.ttl, a day
  GraceTTL,     \* the minute an expired session is cached for
  MaxTime       \* bounds the clock

ASSUME ConstantsAssumption ==
  /\ RefreshTTL \in Nat \ {0}
  /\ CacheTTL \in Nat \ {0}
  /\ GraceTTL \in Nat \ {0}
  /\ MaxTime \in Nat
  /\ NoSession \notin SessionIds
  /\ NoPass \notin Passwords

VARIABLES
  accounts,     \* table users: accounts[u] is the password whose hash is stored
  db,           \* table sessions
  cache,        \* Redis: cache[s] is the value of session:<s>
  now,          \* time.Now
  call, pc, loc, reply,
  issued,       \* history: the token pairs handed to clients
  loggedOut     \* history: the sessions whose Logout answered true

tables == <<accounts, db>>
control == <<call, pc, loc, reply>>
history == <<issued, loggedOut>>
vars == <<accounts, db, cache, now, call, pc, loc, reply, issued, loggedOut>>

-----------------------------------------------------------------------------
Owners == [user : Users, app : Apps]
Row == [status : {"active", "revoked"}, owner : Owners, expiry : Nat]
NoRow == [status |-> "absent"]
MaybeRow == Row \cup {NoRow}
Entry == [row : MaybeRow, until : Nat]
NoEntry == [row |-> NoRow, until |-> 0]

AnyId == SessionIds \cup {NoSession}
Standing == {"live", "revoked", "loggedOut"}
Call ==
  [op : {"register"}, user : Users, pw : Passwords]
    \cup [op : {"login"}, owner : Owners, pw : Passwords]
    \cup [op : {"logout", "refresh", "validate"}, sid : AnyId, before : Standing]
NoCall == [op |-> "none"]

Labels == {"idle", "save_user", "read_user", "check_password", "find_token",
           "revoke_old", "drop", "revoke", "mint", "save_session", "sign",
           "get_cached", "find_id", "fill", "judge"}
Replies == {"none", "ok", "true", "false", "unauthenticated",
            "already_exists", "internal", "lost"}
Pair == [access : SessionIds, refresh : SessionIds, owner : Owners]
Blank == [row |-> NoRow, exp |-> 0, new |-> NoSession]

TypeOK ==
  /\ accounts \in [Users -> Passwords \cup {NoPass}]
  /\ db \in [SessionIds -> MaybeRow]
  /\ cache \in [SessionIds -> Entry]
  /\ now \in Nat
  /\ call \in [Handlers -> Call \cup {NoCall}]
  /\ pc \in [Handlers -> Labels]
  /\ loc \in [Handlers -> [row : MaybeRow, exp : Nat, new : AnyId]]
  /\ reply \in [Handlers -> Replies]
  /\ issued \subseteq Pair
  /\ loggedOut \subseteq SessionIds

Init ==
  /\ accounts \in [Users -> Passwords \cup {NoPass}]
  /\ db = [s \in SessionIds |-> NoRow]
  /\ cache = [s \in SessionIds |-> NoEntry]
  /\ now = 0
  /\ call = [h \in Handlers |-> NoCall]
  /\ pc = [h \in Handlers |-> "idle"]
  /\ loc = [h \in Handlers |-> Blank]
  /\ reply = [h \in Handlers |-> "none"]
  /\ issued = {}
  /\ loggedOut = {}

-----------------------------------------------------------------------------
\* The row a SELECT on a token or an id sees.
RowOf(s) == IF s \in SessionIds THEN db[s] ELSE NoRow

(* Definitions named Faulty... are variants with a plausible mistake; no    *)
(* definition uses them.  A run with the variant in place of the original   *)
(* must fail, which shows that the property would notice.                   *)
FaultyActiveAtExpiry(row) == row.status = "active" /\ now <= row.expiry

\* isSessionActive
IsSessionActive(row) == row.status = "active" /\ now < row.expiry

\* SetSession's TTL: never longer than the refresh lifetime that is left nor
\* than a day, a minute if nothing is left.
EntryTTL(row) ==
  LET left == IF row.expiry <= now THEN GraceTTL ELSE row.expiry - now
  IN  IF left > CacheTTL THEN CacheTTL ELSE left

FaultyRevokeCutsExpiry(s) ==
  db' = IF RowOf(s).status = "active"
        THEN [db EXCEPT ![s].status = "revoked", ![s].expiry = now]
        ELSE db

\* UPDATE sessions SET status = 'revoked' WHERE refresh_token = $1 AND
\* status = 'active', one statement.
RevokeByRefreshToken(s) ==
  db' = IF RowOf(s).status = "active"
        THEN [db EXCEPT ![s].status = "revoked"]
        ELSE db

At(h, op, l) == call[h].op = op /\ pc[h] = l

\* The handler goes on at l.
Goto(h, l) == pc' = [pc EXCEPT ![h] = l] /\ UNCHANGED <<call, loc, reply>>

\* The handler goes on at l with the row it read.
Keep(h, row, l) ==
  /\ pc' = [pc EXCEPT ![h] = l]
  /\ loc' = [loc EXCEPT ![h].row = row]
  /\ UNCHANGED <<call, reply>>

\* The handler returns r.
Answer(h, r) ==
  /\ pc' = [pc EXCEPT ![h] = "idle"]
  /\ loc' = [loc EXCEPT ![h] = Blank]
  /\ reply' = [reply EXCEPT ![h] = r]
  /\ UNCHANGED call

\* A goroutine picks up request c.
Start(h, c, l) ==
  /\ pc[h] = "idle"
  /\ c.op \in Ops
  /\ call' = [call EXCEPT ![h] = c]
  /\ pc' = [pc EXCEPT ![h] = l]
  /\ reply' = [reply EXCEPT ![h] = "none"]
  /\ UNCHANGED <<tables, cache, now, loc, history>>

\* History: what had happened to session s when a call about it began.
StandingOf(s) ==
  CASE s \in loggedOut -> "loggedOut"
    [] s \notin loggedOut /\ RowOf(s).status = "revoked" -> "revoked"
    [] OTHER -> "live"

\* A client presents a refresh token it was given, or one nobody was given;
\* ValidateSession is asked about the session of an access token likewise.
StartRegister(h, u, p) ==
  Start(h, [op |-> "register", user |-> u, pw |-> p], "save_user")

StartLogin(h, o, p) ==
  Start(h, [op |-> "login", owner |-> o, pw |-> p], "check_password")

StartWithToken(h, op, s) ==
  Start(h, [op |-> op, sid |-> s, before |-> StandingOf(s)], "find_token")

StartValidate(h, s) ==
  Start(h, [op |-> "validate", sid |-> s, before |-> StandingOf(s)], "get_cached")

HeldTokens == {p.refresh : p \in issued} \cup {NoSession}
HeldAccess == {p.access : p \in issued} \cup {NoSession}

Arrive(h) ==
  \/ \E u \in Users, p \in Passwords : StartRegister(h, u, p)
  \/ \E o \in Owners, p \in Passwords : StartLogin(h, o, p)
  \/ \E s \in HeldTokens, op \in {"logout", "refresh"} : StartWithToken(h, op, s)
  \/ \E s \in HeldAccess : StartValidate(h, s)

-----------------------------------------------------------------------------
(* A fault is an error of the driver: a lost connection, or the caller's   *)
(* context cancelled half-way.  A statement that failed may have taken     *)
(* effect all the same.  The Redis client sends a command again when its   *)
(* answer is lost, so a command may take effect more than once.            *)

FaultyUpsert(h) ==
  /\ At(h, "register", "save_user")
  /\ accounts' = [accounts EXCEPT ![call[h].user] = call[h].pw]
  /\ Goto(h, "read_user")
  /\ UNCHANGED <<db, cache, now, history>>

\* Register
SaveUser(h) ==
  LET stored == [accounts EXCEPT ![call[h].user] = call[h].pw]
      free == accounts[call[h].user] = NoPass
  IN  /\ At(h, "register", "save_user")
      /\ \/ free /\ accounts' = stored /\ Goto(h, "read_user")
         \/ ~free /\ UNCHANGED accounts /\ Answer(h, "already_exists")
         \/ /\ "users" \in Faults
            /\ UNCHANGED accounts \/ (free /\ accounts' = stored)
            /\ Answer(h, "internal")
      /\ UNCHANGED <<db, cache, now, history>>

ReadUser(h) ==
  /\ At(h, "register", "read_user")
  /\ \/ accounts[call[h].user] # NoPass /\ Answer(h, "ok")
     \/ "users" \in Faults /\ Answer(h, "internal")
  /\ UNCHANGED <<tables, cache, now, history>>

\* Login: UserByEmail and the bcrypt comparison.
CheckPassword(h) ==
  LET matches == accounts[call[h].owner.user] = call[h].pw
  IN  /\ At(h, "login", "check_password")
      /\ \/ matches /\ Goto(h, "mint")
         \/ ~matches /\ Answer(h, "unauthenticated")
         \/ "users" \in Faults /\ Answer(h, "internal")
      /\ UNCHANGED <<tables, cache, now, history>>

\* Logout: a session that is not found is an error, and every other error
\* of the lookup is the answer "false".
FindForLogout(h) ==
  LET row == RowOf(call[h].sid)
  IN  /\ At(h, "logout", "find_token")
      /\ \/ row # NoRow /\ Goto(h, "drop")
         \/ row = NoRow /\ Answer(h, "internal")
         \/ "sessions" \in Faults /\ Answer(h, "false")
      /\ UNCHANGED <<tables, cache, now, history>>

\* cache.DelSession, whose error is only logged.
DropCached(h, op, next) ==
  LET dropped == cache' = [cache EXCEPT ![call[h].sid] = NoEntry]
  IN  /\ At(h, op, "drop")
      /\ \/ dropped /\ Goto(h, next)
         \/ /\ "cache" \in Faults
            /\ \/ UNCHANGED cache /\ Goto(h, next)
               \/ dropped /\ UNCHANGED control
      /\ UNCHANGED <<tables, now, history>>

FaultyLogoutAlwaysTrue(h) ==
  LET s == call[h].sid
  IN  /\ At(h, "logout", "revoke")
      /\ RevokeByRefreshToken(s)
      /\ loggedOut' = loggedOut \cup {s}
      /\ Answer(h, "true")
      /\ UNCHANGED <<accounts, cache, now, issued>>

\* Logout answers whether this very statement revoked the session.
RevokeForLogout(h) ==
  LET s == call[h].sid
      active == RowOf(s).status = "active"
  IN  /\ At(h, "logout", "revoke")
      /\ \/ /\ RevokeByRefreshToken(s)
            /\ loggedOut' = IF active THEN loggedOut \cup {s} ELSE loggedOut
            /\ Answer(h, IF active THEN "true" ELSE "false")
         \/ /\ "sessions" \in Faults
            /\ RevokeByRefreshToken(s) \/ UNCHANGED db
            /\ Answer(h, "internal")
            /\ UNCHANGED loggedOut
      /\ UNCHANGED <<accounts, cache, now, issued>>

FaultyIgnoresStatus(row) == now <= row.expiry

\* RefreshToken: an instant equal to the expiry still refreshes (After).
Refreshable(row) == row.status = "active" /\ now <= row.expiry

FindForRefresh(h) ==
  LET row == RowOf(call[h].sid)
  IN  /\ At(h, "refresh", "find_token")
      /\ \/ row # NoRow /\ Refreshable(row) /\ Keep(h, row, "revoke_old")
         \/ row # NoRow /\ ~Refreshable(row) /\ Answer(h, "unauthenticated")
         \/ /\ row = NoRow \/ "sessions" \in Faults
            /\ Answer(h, "internal")
      /\ UNCHANGED <<tables, cache, now, history>>

FaultyNoRevoke(h) ==
  /\ At(h, "refresh", "revoke_old")
  /\ Goto(h, "drop")
  /\ UNCHANGED <<tables, cache, now, history>>

\* Both results of RevokeByRefreshToken are thrown away.
RevokeOld(h) ==
  /\ At(h, "refresh", "revoke_old")
  /\ RevokeByRefreshToken(call[h].sid) \/ ("sessions" \in Faults /\ UNCHANGED db)
  /\ Goto(h, "drop")
  /\ UNCHANGED <<accounts, cache, now, history>>

-----------------------------------------------------------------------------
\* Login and RefreshToken end alike: CreateRefreshToken and the expiry,
\* CreateSession, CreateAccessToken.
Mints(h) == call[h].op \in {"login", "refresh"}

FaultyDefaultApp(h) ==
  IF call[h].op = "login" THEN call[h].owner
  ELSE [loc[h].row.owner EXCEPT !.app = CHOOSE a \in Apps : TRUE]

OwnerOf(h) == IF call[h].op = "login" THEN call[h].owner ELSE loc[h].row.owner

Mint(h) ==
  /\ Mints(h) /\ pc[h] = "mint"
  /\ \/ /\ pc' = [pc EXCEPT ![h] = "save_session"]
        /\ loc' = [loc EXCEPT ![h].exp = now + RefreshTTL]
        /\ UNCHANGED <<call, reply>>
     \/ "token" \in Faults /\ Answer(h, "internal")
  /\ UNCHANGED <<tables, cache, now, history>>

FreeIds == {s \in SessionIds : db[s] = NoRow}

InsertSession(h, s) ==
  db' = [db EXCEPT ![s] =
          [status |-> "active", owner |-> OwnerOf(h), expiry |-> loc[h].exp]]

FaultyIgnoresInsertError(h) ==
  /\ Mints(h) /\ pc[h] = "save_session"
  /\ \E s \in FreeIds :
       /\ InsertSession(h, s) \/ UNCHANGED db
       /\ pc' = [pc EXCEPT ![h] = "sign"]
       /\ loc' = [loc EXCEPT ![h].new = s]
  /\ UNCHANGED <<accounts, cache, now, call, reply, history>>

\* The INSERT fails when the model is out of ids.
SaveSession(h) ==
  /\ Mints(h) /\ pc[h] = "save_session"
  /\ \/ \E s \in FreeIds :
          /\ InsertSession(h, s)
          /\ pc' = [pc EXCEPT ![h] = "sign"]
          /\ loc' = [loc EXCEPT ![h].new = s]
          /\ UNCHANGED <<call, reply>>
     \/ /\ FreeIds = {} \/ "sessions" \in Faults
        /\ UNCHANGED db \/ \E s \in FreeIds : InsertSession(h, s)
        /\ Answer(h, "internal")
  /\ UNCHANGED <<accounts, cache, now, history>>

Sign(h) ==
  /\ Mints(h) /\ pc[h] = "sign"
  /\ \/ /\ issued' = issued \cup {[access |-> loc[h].new, refresh |-> loc[h].new,
                                   owner |-> OwnerOf(h)]}
        /\ Answer(h, "ok")
     \/ "token" \in Faults /\ UNCHANGED issued /\ Answer(h, "internal")
  /\ UNCHANGED <<tables, cache, now, loggedOut>>

-----------------------------------------------------------------------------
\* SetSession fixes the TTL by its own clock before the SET is sent, so the
\* entry starts to live later than its TTL was computed.
CarryToFill(h, row) ==
  /\ pc' = [pc EXCEPT ![h] = "fill"]
  /\ loc' = [loc EXCEPT ![h].row = row, ![h].exp = EntryTTL(row)]
  /\ UNCHANGED <<call, reply>>

FaultySlidingTTL(h) ==
  LET s == call[h].sid
      hit == s \in SessionIds /\ cache[s].row # NoRow
  IN  /\ At(h, "validate", "get_cached")
      /\ \/ hit /\ CarryToFill(h, cache[s].row)
         \/ /\ ~hit \/ "cache" \in Faults
            /\ Goto(h, "find_id")
      /\ UNCHANGED <<tables, cache, now, history>>

\* ValidateSession: a Redis error counts as a miss.
GetCached(h) ==
  LET s == call[h].sid
      hit == s \in SessionIds /\ cache[s].row # NoRow
  IN  /\ At(h, "validate", "get_cached")
      /\ \/ hit /\ Keep(h, cache[s].row, "judge")
         \/ /\ ~hit \/ "cache" \in Faults
            /\ Goto(h, "find_id")
      /\ UNCHANGED <<tables, cache, now, history>>

FindById(h) ==
  LET row == RowOf(call[h].sid)
  IN  /\ At(h, "validate", "find_id")
      /\ \/ row # NoRow /\ CarryToFill(h, row)
         \/ /\ row = NoRow \/ "sessions" \in Faults
            /\ Answer(h, "internal")
      /\ UNCHANGED <<tables, cache, now, history>>

\* The SET of cache.SetSession, with the row and the TTL of the step before.
\* Its error is only logged.
FillCache(h) ==
  LET stored == cache' = [cache EXCEPT ![call[h].sid] =
                            [row |-> loc[h].row, until |-> now + loc[h].exp]]
  IN  /\ At(h, "validate", "fill")
      /\ \/ stored /\ Goto(h, "judge")
         \/ /\ "cache" \in Faults
            /\ \/ UNCHANGED cache /\ Goto(h, "judge")
               \/ stored /\ UNCHANGED control
      /\ UNCHANGED <<tables, now, history>>

Judge(h) ==
  /\ At(h, "validate", "judge")
  /\ Answer(h, IF IsSessionActive(loc[h].row) THEN "true" ELSE "false")
  /\ UNCHANGED <<tables, cache, now, history>>

-----------------------------------------------------------------------------
\* Redis drops an entry whose TTL is over.
Tick ==
  /\ now < MaxTime
  /\ now' = now + 1
  /\ cache' = [s \in SessionIds |->
                IF cache[s].until <= now + 1 THEN NoEntry ELSE cache[s]]
  /\ UNCHANGED <<tables, control, history>>

\* Redis restarts empty, or evicts.
CacheLoss(s) ==
  /\ "cache" \in Faults
  /\ cache[s] # NoEntry
  /\ cache' = [cache EXCEPT ![s] = NoEntry]
  /\ UNCHANGED <<tables, now, control, history>>

\* The process stops and is started again: the goroutines are gone, the
\* tables and Redis are not.
Running == {h \in Handlers : pc[h] # "idle"}

Crash ==
  /\ "crash" \in Faults
  /\ Running # {}
  /\ pc' = [h \in Handlers |-> "idle"]
  /\ loc' = [h \in Handlers |-> Blank]
  /\ reply' = [h \in Handlers |-> IF h \in Running THEN "lost" ELSE reply[h]]
  /\ UNCHANGED <<tables, cache, now, call, history>>

Step(h) ==
  \/ SaveUser(h) \/ ReadUser(h)
  \/ CheckPassword(h)
  \/ FindForLogout(h) \/ DropCached(h, "logout", "revoke") \/ RevokeForLogout(h)
  \/ FindForRefresh(h) \/ RevokeOld(h) \/ DropCached(h, "refresh", "mint")
  \/ Mint(h) \/ SaveSession(h) \/ Sign(h)
  \/ GetCached(h) \/ FindById(h) \/ FillCache(h) \/ Judge(h)

Next ==
  \/ \E h \in Handlers : Arrive(h) \/ Step(h)
  \/ Tick
  \/ \E s \in SessionIds : CacheLoss(s)
  \/ Crash

Spec == Init /\ [][Next]_vars

-----------------------------------------------------------------------------
(* Properties                                                              *)

\* A copy of a session made by an earlier read differs from the table in at
\* most one way: the table may have been told of a revocation since.
PastOf(row, s) ==
  /\ db[s] # NoRow
  /\ row.owner = db[s].owner
  /\ row.expiry = db[s].expiry
  /\ row.status = "revoked" => db[s].status = "revoked"

\* What Redis holds for a session, and what a validating or refreshing
\* goroutine carries in its local variable from the read to the use, is a
\* past state of that session's own row and of no other, however calls,
\* faults and restarts interleave (auth.go:250-275, 201-221).
CopiesArePast ==
  /\ \A s \in SessionIds : cache[s].row # NoRow => PastOf(cache[s].row, s)
  /\ \A h \in Handlers :
       loc[h].row # NoRow => call[h].sid \in SessionIds /\ PastOf(loc[h].row, call[h].sid)

\* A refresh that began when the session was already revoked, by a logout or
\* by the rotation of an earlier refresh, gives out no tokens; only calls
\* that overlap can spend a refresh token twice (auth.go:206-221).
NoRefreshAfterRevoke ==
  \A h \in Handlers :
    call[h].op = "refresh" /\ call[h].before # "live" => reply[h] # "ok"

\* Every pair of tokens a client holds is backed by a session of the table
\* that belongs to the user and the app the pair was given to, whatever
\* failed around the INSERT and the signing (auth.go:120-137, 221-237).
IssuedBacked ==
  \A p \in issued : db[p.refresh] # NoRow /\ db[p.refresh].owner = p.owner
                     /\ p.access = p.refresh

\* Register and Login answer ok only if the password given is the stored
\* one, also when two registrations of an address race (auth.go:71-82).
CredentialsHold ==
  \A h \in Handlers : reply[h] = "ok" =>
    /\ call[h].op = "register" => accounts[call[h].user] = call[h].pw
    /\ call[h].op = "login" => accounts[call[h].owner.user] = call[h].pw

\* While no statement fails, a refresh creates the new session only after
\* the old one is out of use (auth.go:210 before 221).
RotationRetires ==
  "sessions" \notin Faults =>
    \A h \in Handlers :
      call[h].op = "refresh"
        /\ (pc[h] \in {"drop", "mint", "save_session", "sign"} \/ reply[h] = "ok")
      => call[h].sid \in SessionIds /\ db[call[h].sid].status = "revoked"

\* The tokens a refresh is about to sign are for the user and the app of the
\* session it was asked with, even if that session is revoked meanwhile.
RefreshKeepsOwner ==
  \A h \in Handlers :
    call[h].op = "refresh" /\ pc[h] = "sign" =>
      db[loc[h].new].owner = db[call[h].sid].owner /\ loc[h].new # call[h].sid

\* Of all the logouts with one refresh token at most one is told "true":
\* the revocation is decided by one UPDATE (sessionrepository.go:86-100).
LogoutWinsOnce ==
  [][\A h \in Handlers :
      At(h, "logout", "revoke") /\ reply'[h] = "true"
        => call[h].sid \notin loggedOut]_vars

\* Some copy of s outside the table, in Redis or in a goroutine that is
\* about to use it, still shows s as active.
BelievedActive(s) ==
  \/ cache[s].row # NoRow /\ IsSessionActive(cache[s].row)
  \/ \E h \in Handlers :
       /\ call[h].op = "validate" /\ call[h].sid = s
       /\ pc[h] \in {"fill", "judge"}
       /\ IsSessionActive(loc[h].row)

\* Those about to cache s as they read it when it was active.
OldFills(s) ==
  {h \in Handlers : /\ call[h].op = "validate" /\ call[h].sid = s
                    /\ pc[h] = "fill" /\ loc[h].row.status = "active"}

\* Once a session is revoked, only validations that had read its row before
\* can still cache it as active, and what they cache is gone a day later; and
\* when no copy counts as active any more, none ever will (auth.go:250-275).
StaleDiesOut ==
  [][\A s \in SessionIds : db[s].status = "revoked" =>
       /\ OldFills(s)' \subseteq OldFills(s)
       /\ cache'[s].row.status = "active" /\ cache'[s] # cache[s] =>
            OldFills(s) # {} /\ cache'[s].until <= now + CacheTTL
       /\ ~BelievedActive(s) => ~BelievedActive(s)']_vars

\* The last answer of a validation, as the asking service sees it.
Verdicts ==
  [h \in Handlers |->
    IF call[h].op = "validate" /\ reply[h] \in {"true", "false"}
    THEN [sid |-> call[h].sid, active |-> reply[h] = "true"]
    ELSE [sid |-> "none"]]

Ledger == INSTANCE SessionLedger
            WITH book <- db, clock <- now, verdict <- Verdicts

\* Through every interleaving and fault the table and the answers of
\* ValidateSession are those of SessionLedger: a session never comes back
\* once revoked, "false" is said of dead sessions only and "true" only of
\* sessions that exist and have not run out.
LedgerSpec == Ledger!Spec

-----------------------------------------------------------------------------
(* What the tests say and the code does not keep                           *)

\* redis_integration_test.go:103: after a logout the session is inactive.
ValidateAfterLogout ==
  \A h \in Handlers :
    call[h].op = "validate" /\ call[h].before = "loggedOut" => reply[h] # "true"
=============================================================================
