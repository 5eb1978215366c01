# A TLA+ verification of the messenger

The repository is a messenger of three Go services: `auth-service` (accounts,
JWT and refresh tokens, sessions), `chat-service` (chats, messages, pushes to
connected clients) and `gateway` (REST and WebSocket in front of both), with a
web client, `messenger-ui.html`.  This directory holds TLA+ models of the parts
that carry the logic, the TLC runs that check them on small instances, and
proofs, checked by TLAPS, of what holds for instances of every size.

## Inventory

| component | state it keeps | operations | what makes it correct |
|---|---|---|---|
| auth use case (`usecase/auth.go`) | none of its own | Register, Login, Logout, RefreshToken, ValidateSession, IsAdmin | tokens only for the right password; a spent refresh token stays spent; a logged-out session stops being valid |
| auth SQL store (`infrastructure/sqlstore`) | tables `users`, `sessions` | single statements | rows are created once, revoked once, never change owner |
| session cache (`redis-cache`) | Redis keys `session:<id>` with a TTL | SetSession, GetSession, DelSession | an entry is a past state of its row; one that outlives its session is judged by the expiry stored in it |
| auth gRPC server | none | maps requests and errors | see the use case |
| hub (`grpc/hub/hub.go`) | map from user to a slice of open streams | Subscribe, Unsubscribe, Push | exact book-keeping; every connected stream gets the message |
| chat service and repositories | tables `chats`, `chat_members`, `messages` | GetOrCreateChat, SendMessage, GetMessages, GetUserChats | both users are members; counters match messages; pages are complete |
| interceptor (`interceptor/auth.go`) | none | checks token and session of each call | no call passes late, as somebody else, or without a verdict |
| chat process (`app/grpc/app.go`) | the server and its open calls | start, GracefulStop, kill | a stop ends unless a client keeps its stream |
| gateway HTTP handlers | none | input, one gRPC call, the status of the answer | a status says what has happened |
| gateway WebSocket bridge (`handler/ws.go`) | a WebSocket and a stream for each browser | Upgrade, Recv, WriteMessage | messages arrive in order; a vanished browser frees its stream |
| gRPC stubs and messages (`proto/`) | none | the messages, the two ends of a call | nothing is lost or added on the way |
| web client (`messenger-ui.html`) | tokens, WebSocket, timers; chats and messages shown | asynchronous handlers | one live socket, that of the user shown |

The services share nothing but calls: the web client calls the gateway, the
gateway calls auth and chat, the interceptor of chat calls ValidateSession of
auth.  Inside a service the goroutines of concurrent calls share the database,
Redis and the hub.

What is hard: no operation opens a transaction, so calls interleave between any
two statements; the cache is filled with a row read earlier; `Push` walks a
slice after releasing the lock; statements and processes fail half-way, with or
without effect; pages are read while messages arrive; a token and a session run
out between two checks; the gateway gives up while the service goes on; a slow
or vanished browser holds up the one who sends to it; the callbacks of the page
come in any order.  `PROJECT.json` lists each of these hazards at its line.

## Modules

| module | models |
|---|---|
| `SessionLedger` | abstract specification: what the auth service promises about sessions |
| `AuthService` | the five operations of the auth service, statement by statement, with both tables, Redis and time |
| `AuthServiceInv` | its inductive invariant |
| `Subscriptions` | abstract specification: what the hub promises about streams and pushes |
| `Hub` | the hub, down to the backing arrays of its slices |
| `Conversations` | abstract specification: what the chat service promises about chats, badges and announcements |
| `ChatService` | creating a chat, sending and reading, statement by statement |
| `Pagination` | the pages of GetMessages and a client that scrolls through them |
| `Wire` | the messages of both services and the translation of gRPC codes to HTTP statuses |
| `Access` | the interceptors of the chat service, over `SessionLedger`; `EXTENDS Wire` |
| `RestCalls` | a REST call from the browser through gateway, interceptor and service and back; `EXTENDS Access` |
| `Bridge` | a WebSocket from the upgrade to the hub and back, and the life of the chat process; `EXTENDS Access` |
| `WebClient` | session, socket and timers of the page |
| `...Proofs` | the theorems about the module of that name |
| `MC...` | instances for TLC |

In every module a definition carries the name of the function or the step it
models; `PROJECT.json` maps it to the lines.  Definitions called `Faulty...`
are variants with a plausible mistake.  Nothing uses them: put in place of the
original, one at a time, they make the property they are listed with fail,
which shows that the property would notice.

### AuthService

A process is the goroutine of a gRPC call: `call` is the request, `pc` the next
statement, `loc` the local variables, `reply` the answer.  `db` is the table
`sessions`, `accounts` the table `users`, `cache` Redis.  Refresh tokens are
unique and random, so a token is named by its session; `NoSession` is a token
nobody was given.  Each SQL statement or Redis command is one step: `SaveUser`,
`ReadUser`; `CheckPassword`, `Mint`, `SaveSession`, `Sign`; `FindForLogout`,
`DropCached`, `RevokeForLogout`; `FindForRefresh`, `RevokeOld`, `DropCached`,
and the steps of Login again; `GetCached`, `FindById`, `FillCache`, `Judge`.
`Faults` says what may go wrong: statements on `users` or `sessions` (without
effect, or with effect and a lost answer), Redis commands (and loss of entries),
the token provider, and a crash of the process.  `Tick` lets time pass and keys
expire.  `SetSession` computes the TTL before it sends the SET, so `CarryToFill`
does so in the step of the read and `FillCache` stores the entry at any later
time: an entry may outlive its session.  The Redis client sends a command again
when its answer is lost, so a command may be executed several times; one that it
has given up is assumed not to be executed later.  The checks that reject a malformed request come before anything else
happens and are in `RestCalls`; `IsAdmin`, which only reads, and the content of
a JWT beyond the session and its owner are left out here.

### Hub

`streams[u]` is a slice header, `heap[a]` a backing array.  `append` writes in
place while the array has room and copies to one twice as big when it has none.
`Unsubscribe` takes the lock, moves the cells behind the stream down one by one
(`MoveCell`), stores the shorter header and unlocks.  `Push` copies the header
under the read lock and then, without it, reads one cell after the other
(`ReadCell`) and sends (`Send`).  The unlocked reads are a data race with the
writes; the model lets a read see each cell before or after its write, in any
order of the writes, which covers what the compilers and processors of the
supported platforms do with an array of interfaces of one dynamic type.

`BoardSpec` says that this implements `Subscriptions`, where a stream joins and
leaves in one instant and a push plans its visits in one: a stream is a
subscriber from `Subscribe` until its `Unsubscribe` has the lock, the plan is
the snapshot under the read lock, and a push is disturbed once a stream is
removed from the array it walks.

### ChatService

A chat is the pair of its users (the unique constraint and `user1_id <
user2_id`), a message its place in the table.  `unread[c][u]` is the row of
`chat_members`, or `NoRow`.  The steps are the statements: `UpsertChat`,
`InsertMembers`; `CheckMember`, `StoreMessage` (message and counters in one
statement), `GetParticipants`, `PushFirst`, `PushSecond`; `CheckMember`,
`ReadPage`, `ResetUnread`.  A push is one step here, `Hub` has its inside.
What a page holds is in `Pagination`; here `ReadPage` only goes on to the reset,
which is of the whole count, whatever the page held.  Rejected text
(empty, too long) is a statement that fails without effect.  `GetUserChats`
only reads.

`TalkSpec` says that this implements `Conversations`, where a chat gets both its
users at once and a badge counts what waits: a chat exists there when its rows of
`chat_members` do (`InsertMembers`, whoever wins the upsert), `log` is the table
of messages, and message m waits for the member whose last `ResetUnread` came
before it.  Failed statements and crashes are stutters there: nothing is ever
half told.

### Pagination

`table` maps message ids to `created_at`, which is the start of the INSERT: two
messages may share it (`Tick` need not come between them) and a message may
appear up to `Delay` after its time.  `Limit`, `Older`, `Lists`, `Page` and
`NextCursor` are the rules of the service and the query; a query with ties
returns any order of the tied rows.  The client asks for the next page, with
any limit, until `next_cursor` is empty.

### Wire and Access

`Wire` holds the records of the `.proto` files, with ids and texts from small
sets (0 and "" are fields left out), and `GrpcStatusToHTTP`.  `Access` is one
call `x` on its way through the interceptor: `gate[x]` tells how far it has
come, `header[x]` what it presents.  Only signed tokens parse, so `token[s]`
holds the claims of the token of session `s` and `Junk` stands for everything
else.  `CheckToken` compares with the clock, `AskSession` asks the auth service.
That service is not modelled again: its part is what `SessionLedger` allows,
a verdict that may miss a revocation but not an expiry, and `AuthService` is
proved to implement that.  `Elsewhere` is what happens meanwhile: others open
and close sessions, time passes.

### RestCalls

For each caller the goroutine of the gateway (`gw`), that of the service (`srv`)
and the request and answer between them.  `Asked` is what a browser can make the
gateway send: the functions named after the handlers turn a decoded body or a
query into a request or into 400.  `Invoke`, `Arrive` and `Return` are the
stubs; the `Serve...` actions are the handlers of the two servers, each in one
step that leaves in `did` what it wrote (`AuthService` and `ChatService` have
the statements), and two for RefreshToken, which may fail in between.  `GiveUp`
is a browser that leaves or a connection that breaks while the service goes on,
`Cut` a service that dies, `RefuseLong` a body of more than the 4 MB a gRPC
server takes, which the gateway passes on, and `GatewayDies` the `log.Fatal` of
`decodeJSON` when a body cannot be closed: every caller is left without an
answer while the services go on.

### Bridge

For each WebSocket the browser (`page`), the goroutine of the gateway
(`bridge`), the Subscribe call (`stream`), what the flow control of gRPC holds
between them (`pipe`, at most `Window`) and the message read and not yet written
(`hand`).  The hub is the set of open streams.  Several SendMessage handlers push
at the same time (`Pushers`): `Push` takes the streams of a user in some order,
`SendNext` walks them, `Send` waits for room in the window of each, which other
pushes fill as well.  The bridge reads (`Recv`), writes to a browser that reads
(`Write`), writes to one that is gone without noticing (`WriteLost`) or fails
(`WriteFails`), which ends the call.  A browser may stop taking bytes (`Stall`)
and may go on (`Resume`): neither `WriteJSON` nor `Send` has a deadline, so until
then the bridge and whoever pushes to it wait.  `Terminate`, `Stopped`, `Kill` and
`Restart` are the chat process, `GatewayDies` the other.  Messages are numbered
per stream, modulo `Modulus`.

### WebClient

The scripts of the page run to completion, so an action is a handler: a click
(`HandleLogin`, `Logout`, `RefreshToken`), the timer of the refresh, the answer
to each of them, the events of a socket, a reconnect timer.  `ws` is the
variable of that name, `socket` the WebSocket objects not yet closed, whose
handlers still run after `ws` has been given another value.  `timer` is the
reconnect timer whose id the page knows, `stray` one whose id was overwritten.

## Runs

| run | instance | shows |
|---|---|---|
| `AuthAccounts` | 2 handlers, 2 passwords, 2 apps, 2 sessions; register, login, logout, refresh; failing `users` statements and token provider | `CredentialsHold`, `RotationRetires`, `RefreshKeepsOwner`, `LogoutWinsOnce` |
| `AuthFaults` | 2 handlers, 2 sessions; all session operations; failing statements, failing, repeating and forgetful Redis, crashes | the inductive invariant `IInv`, `CopiesArePast`, `NoRefreshAfterRevoke`, `IssuedBacked`, `StaleDiesOut`, refinement of `SessionLedger` (`LedgerSpec`) |
| `HubPush` | 2 users, 3 streams, 1 push at a time, 4 arrays; fair | `HubExact`, `OwnStreamsOnly`, `QuietPushComplete`, refinement of `Subscriptions` (`BoardSpec`), `LeaverGoes` |
| `ChatTables` | 2 handlers, 3 users, 1 chat, 3 messages; every statement may fail, crashes | `BothMembersOrOrphan`, `SentByMembers`, `UnreadExact`, refinement of `Conversations` (`TalkSpec`) |
| `Pages` | 5 messages, 3 instants, delay 1, limits 0 to 3 with maximum 2; fair | `HistoryBackwards`, `ScrollsBack`, `ScrollEnds` |
| `RestCalls` | one call after another, 2 users, 2 sessions, every route and input; failing auth service, dying services and gateway, requests too long | `TypeOK`, `StatusTellsTruth`, `ActsAsOwner`, `LateCallsRefused` |
| `Bridges` | 2 browsers of one user, 2 concurrent pushes, a window of 1; browsers that stall and vanish, dying processes, stop and restart; fair | `DeliveredInOrder`, `PushWaitsForReader`, `PushReturns`, `GoneIsNoticed`, `StopWaitsForStreams` |
| `WebPage` | 2 users, 2 calls under way, 3 sockets; fair | `OneLiveSocket`, `NeverDeaf`, `SameUser`, `Reconnects` |

`AuthFaults` checks `TypeOK` too, as a part of `IInv`; that of the other
modules is a theorem (`HubTypes`, `ChatTypes`, `PageTypes`, `BridgeTypesHold`,
`WebTypes`), and so is `PushMatchesTable`, which `TalkSpec` implies.
Three of the properties say less than one might wish, because the code does
less: `SameUser` excepts a refresh that is answered after a logout (it brings the
old tokens back); `PushReturns` excepts a browser that stays connected and never
reads, for nothing bounds that wait; and `UnreadExact` says from which reset a
badge counts, not that what is no longer counted was shown: `ResetUnread` zeroes
the whole count, also of messages that came after the page was read or did not
fit on it.

Four runs check what a comment or a test says and find that the code does
otherwise; the counterexample of each is the finding in `PROJECT.json`:

| run | claim | what happens |
|---|---|---|
| `AuthStaleFill` | after a logout the session counts as inactive | a validation reads the row, the logout deletes the entry and revokes, the validation caches what it read: later validations say "active" |
| `HubLostPush` | Push sends to all streams of the user | a stream is removed during a push, another moves to a cell already read and is skipped |
| `ChatHalfMade` | GetOrCreateChat returns a usable chat | the second of two concurrent calls returns before the members are inserted |
| `PagesGap` | the cursor is the time of the last message received, so a message that shares its time with no other is received by the end of the scroll (`DistinctReceived`) | the cursor is the time of the first message not in the page, and the next page holds strictly older ones: one message is lost at every page boundary |

### Why the bounds are enough

Two handlers show every pairwise interleaving of statements; every race listed
under the hazards is between two calls.  Two sessions are what a rotation needs
(the old and the new one), and two apps and two passwords tell a right one from
a wrong one.  In `AuthFaults` every lifetime is one tick and the clock makes
one, so that each read, fill, revocation and verdict comes before or after the
expiry and an entry may be stored when its session has just run out.  `MaxTime`,
`MaxMessages`, `Arrays`, `Messages` and `SessionIds` only bound the instance; the
proofs hold for every value of them.  Three streams are the least with a
removal that moves a cell and an `append` that reuses the freed one while a
push walks the array; two users are needed to tell whose stream it is.  Three
users are a chat and an outsider; three messages let both members have messages
before and after a reset.  Five messages at three instants make at least two of
them share a time and give up to five pages; three with times of their own show
a lost one.

`RestCalls` has one caller: a call touches no state of another one but the
ledger, and `Elsewhere` does to that whatever another call could.  Two sessions
are the old and the new one of a refresh and let two users have one each; three
instants put the expiry of a token and that of a session on both sides of every
step.  Users and sessions are interchangeable, and the run says so (`SYMMETRY`; it
checks invariants only).  The numbers -1, 0 and 50 are a refused, a missing and a usual limit or
offset; the value of an out-of-range number and the default are both 50, since
no handler tells large limits apart.  In `Bridges` the window is 1, so that it is
full after one message, and two numbers tell a lost or a repeated message from
the next one, since at most two are on their way; the two browsers are of one
user, which is what makes one wait for the other in a push, and with two pushes
one finds the window filled by the other and each may walk the streams in an
order of its own; time stands still (`MaxTime` 0) since
`RestCalls` has the same interceptor with a clock.  `WebPage` has two calls,
which is a refresh that is answered after a logout, and three sockets: two that
are closing and the live one.

Deadlock is checked where the system runs for ever; `HubPush`,
`HubLostPush`, `Pages` and `PagesGap` end when all streams or messages of the instance are used up.

### Fairness

Safety properties do not depend on fairness.  `LeaverGoes` needs weak fairness of the steps of a push, except that `Send` need
not return while its stream is open (a client may stop reading), and strong
fairness of `Unsubscribe`: a blocked `Lock` of Go's `RWMutex` keeps new readers
out, so a sequence of pushes cannot keep it waiting for ever.  `ScrollEnds`
assumes that the client keeps scrolling.

In `Bridges` every goroutine that can go on does (`WF` of `Recv`, `RecvEnd`, of
`Write` while the browser reads, of the steps of the server, of `Send` when there
is room, and of `Stopped`).  Nothing makes a browser that stalled read again
(`Resume` has no fairness), and nobody is next in line for room in a window (no
strong fairness of `Send`).  `PushReturns` has both as premises: no browser stays
stalled for ever, and the pushes come to an end.  The steps of the interceptor
are among those of the server, so the auth service is assumed to answer
ValidateSession, if only with an error; the code sets no timeout for it.
`WriteFails` has strong fairness: it is enabled only while the bridge has a
message in its hand, and TCP reports the loss of a peer to some write if there
are writes again and again, not to a certain one.  `GoneIsNoticed` therefore has
the premise that there is a push at the stream again and again; without it nothing
tells the bridge.  Nobody has to log in, send, leave or stop a process.  In
`WebPage` timers fire and closing sockets close (`WF`); `Reconnects` needs `SF`
of `OnOpen`, a network in which a socket opens if it is tried again and again.

## Proofs

Every theorem holds for instances of any size: any number of users, sessions,
calls, streams, messages or sockets, any lifetimes and limits, any subset of the
faults.  What is assumed are the `ASSUME`s about the constants, which TLC
evaluates in the runs: `ConstantsAssumption` (`AuthService`), `HubAssumption`,
`ChatAssumption`, `PaginationAssumption` (with finitely many messages),
`WireAssumption`, `AccessAssumption`, `NothingAssumption`, `RestAssumption`,
`BridgeAssumption`, `WebAssumption`; they give types and say that a null is no
value.

| module | theorems |
|---|---|
| `AuthServiceProofs` | `Invariance`, `TypeCorrect`, `CopiesCorrect`, `LateRefreshFails`, `TokensBacked`, `PasswordsHold`, `RotationHolds`, `OwnerKept`, `OneLogoutWins`, `StaleEnds`, `Implements` |
| `HubProofs` | `HubInvariance`, `HubTypes`, `HubExactHolds`, `OwnStreamsHold`, `QuietPushHolds`, `HubImplements` |
| `ChatServiceProofs` | `ChatInvariance`, `ChatTypes`, `MembersHold`, `SendersHold`, `UnreadHolds`, `PushesHold`, `TalkImplements` |
| `PaginationProofs` | `ScrollInvariance`, `PageTypes`, `OrderOfHistory`, `OnlyCursorRows`, `ScrollGoesBack` |
| `AccessProofs` | lemmas about the interceptor and the ledger, for the next two |
| `RestCallsProofs` | `RestTypes`, `StatusHolds`, `OwnerActs`, `LateCallsAreRefused` |
| `BridgeProofs` | `BridgeTypesHold`, `OrderHolds`, `StreamsPassedInTime`, `PushesWaitForReaders` |
| `WebClientProofs` | `WebTypes`, `WebOneLiveSocket`, `WebNeverDeaf`, `WebSameUser` |

Each proof finds an inductive invariant `IInv`, shows that `Init` implies it and
that every action keeps it, and reads the properties off it.

### AuthService

* `Invariance`: `Spec => []IInv`, and from it `TypeCorrect`, `CopiesCorrect`,
  `LateRefreshFails`, `TokensBacked`, `PasswordsHold`,
  `RotationHolds`, `OwnerKept`;
* `OneLogoutWins`: the action property `LogoutWinsOnce`;
* `StaleEnds`: the action property `StaleDiesOut`.  A validation that is about to
  fill the cache with a copy of a session from before its revocation read the row
  before it (`FillsOnlyLeave`), only such a fill makes an entry that shows the
  session as active (`FillSpends`), and once neither Redis nor a goroutine holds
  a copy that counts as active, none comes back (`BeliefEnds`);
* `Implements`: `Spec => Ledger!Spec`, every behaviour of the service is one of
  `SessionLedger`, where `book` is the table `sessions`, `clock` is `now`, and
  `verdict` is read off the answer of a validation.

`IInv` adds to the properties what a goroutine may rely on between two of its
statements.  `LocalsSet`: a local variable is set before it is used.
`CopiesArePast`: the row it read is its session's row but for a revocation since
(rows never change owner or expiry, and "revoked" is final); without it neither
`Judge` nor `FillCache` could be related to the table.  `AboutToSign`: the
session to be signed exists and belongs to the caller, which `IssuedBacked`
needs.  `LoggedOutIsRevoked` and `LateRefreshStops`: a refresh that began after
the revocation is stuck before the lookup or over.  `PasswordChecked`: the
password compared stays the stored one (passwords are never changed).
`AnswerWhenIdle`: an answer belongs to a finished call.  The proof first shows
types, then for each part of `IInv` that every action keeps it, from a few
lemmas about what a step can change (`NextKeepsRows`, `OthersStay`,
`CopiesMove`, `HistoryMoves`, `StepLeads`); the refinement maps `SaveSession` to
`Open`, the revocations to `Close`, `Tick` to `Pass`, `Judge` to one of the two
verdicts and every arrival to `Ask` or a stutter.

### Hub

A slice header is only right together with the array behind it, and a push holds
a copy of one.  `Headers`: no two headers share an array and each fits its own.
`Listed`: the cells of a user are his registered streams, each once; while one
is being taken out, `MovingAt` says instead which cells have already moved down,
so `Book` holds at every step of the move.  `Walk` is what a
push may rely on whatever happens: its cells hold streams of its user, because
an array it walks is never handed to another header (`FreeArrays`) and every
write to it is of a stream of that user.  `Quiet` is what it may rely on until a
removal from its array: the cells are those of its snapshot, for `append` only
writes behind them.  `HubExact` follows from `Book`, `OwnStreamsOnly` from
`Walk`, `QuietPushComplete` from `Quiet` at the last turn of the loop.

`HubImplements` is proved step by step from the same invariant:
`Book` makes a snapshot a list of the subscribers, each once (`Begin`); a removal
is a `Leave` when it begins and a stutter for every cell it moves; `Walk` gives
the owner of a visit, `Quiet` its place in the plan, and `Turns`, an invariant
on top of `IInv`, that a push has made one visit for each turn of its loop.

### ChatService

`Phases` is what a handler knows between two statements (that it has checked
membership, that the message it pushes is stored).  `Apart`: no two handlers
insert the members of one chat or push one message.  `Kept`: who has sent a
message is a member of its chat.  Counting is done with the
cardinality of finite sets of messages (`FiniteSetTheorems`).

`TalkImplements` reads the abstract steps off the same invariant: `Apart` and
`Phases` give `InsertMembers` a chat without members (`Create`), `UnreadExact`
before and after a step turns its change of a counter into the badge of `Post`
or `Read` (`BadgesAreCounts`; the set counted and the set that waits are the
same), and `Phases` gives a push the member who has not been told (`Announce`).

### Pagination

`Reached`: what the client holds is no older than the cursor, and what was
stored before the scroll and is no older than the cursor has been received or
has the time of a cursor.  It is kept because `Lists` returns
no fewer rows than asked for unless there are no more.  `OnlyCursorRows` reads
off it what the finding of `PagesGap` can cost at most: the rows that share the
time of a cursor, and no others.  `ScrollGoesBack` is the
safety half of `ScrollEnds`: a page that leaves the scroll open brings something
and moves the cursor back, past which nothing has been received.

### Access, RestCalls and Bridge

`AccessInv`: a signed token is that of a session with the same owner, and what
was true of it when a call came is true until the call ends (`CheckedInTime`);
sessions are never removed nor change hands (`Lasting`).  From it a call that
passed did so in time, whatever the auth service answers within `SessionLedger`
(`PassedInTime`).  `RestCallsProofs` adds for each call that nothing is written
before the operation, what the operation has done when it ends well, and that a
code of refusal comes without a trace (`CallInv`).  `BridgeProofs` adds
`Phases`, what the two ends of a stream know of each other, and `InOrder`, that
what is due to a page (in the hand, in the pipe, and the next to be pushed) is a
chain that begins with the number the page waits for.

`PushesWaitForReaders` follows from `Phases`: a stream with something in its pipe
has a bridge that is reading or writing, and a bridge that writes has a message
and a browser.  It is the safety half of `PushReturns`: whatever the pushes, the
bridges and the processes do, a push waits in `Send` only for a bridge that can
go on by itself or waits for its browser.

### WebClient

`LiveIsNamed`: a live socket is the one `ws` names and still has its `onclose`.
`CallsInOrder` and `FreshIsOwn`: a login is under way only while the form is
shown, and a refresh sent since the last reset carries the tokens of the user
shown.  Without the latter its answer could bring another user's tokens.

Only model-checked: the liveness properties (`LeaverGoes`, `ScrollEnds`, `PushReturns`, `GoneIsNoticed`, `StopWaitsForStreams`,
`Reconnects`), since liveness under fairness is outside TLAPS here.

## Not modelled

* Configuration, wiring and logging: read or written once, without behaviour of
  their own.  Mocks and tests.
* In the generated code of gRPC: descriptors, reflection, registration and the
  getters.  `Wire` has the messages, `RestCalls` the two ends of a unary call,
  `Bridge` those of a stream.
* The graceful stop of the auth service, whose calls all end by themselves; the
  gateway has none.
* In the web client, the list of chats and the area of messages.  They hold a
  hazard that is listed without a property: `loadMessages` writes its answer
  into whatever chat is open by then.
* Data: the content of texts, times in answers, the encoding of tokens (a token
  is its claims and parses when it was signed), bcrypt (a password matches or
  does not), CORS and other headers.  `DecodJWT` and `IncrementUnread` are never
  called.
* `IsAdmin` and `GetUserChats` read only; they appear as answers in `RestCalls`.

## What is left

* `Bridge` over `Subscriptions`: `Bridge` has its own set of open streams and
  pushes that no removal disturbs, which is `Subscriptions` with `disturbed`
  false.  That a push reaches every stream that stays registered, without that
  premise, does not hold of this code (`HubLostPush`).
* `RestCalls` over `Conversations` and the handlers of `AuthService`: what one
  step leaves in `did` is so far matched with the statements by hand.  The session
  steps of `Access` are those of `SessionLedger` itself, so that calls keep to it
  holds by definition and is not listed as a result.
* The area of messages of the web client with its cursor, over `Pagination`.
