------------------------------- MODULE Access -------------------------------
(***************************************************************************)
(* The auth interceptors of the chat service (internal/interceptor/        *)
(* auth.go), which every unary call and every Subscribe stream passes      *)
(* before its handler runs.  The auth service behind ValidateSession is    *)
(* what SessionLedger promises: its table of sessions, its clock, and      *)
(* verdicts that may miss a revocation (a cached row) but nothing else.    *)
(*                                                                         *)
(* An access token is signed with the secret both services share, so the   *)
(* only tokens that parse are those that were signed: token[s] holds the   *)
(* claims of the one of session s.                                         *)
(***************************************************************************)
EXTENDS Wire

CONSTANTS
  Callers,      \* calls that pass the interceptors
  Nothing,      \* no token, no verdict
  AccessTTL,    \* accessTokenTTL
  RefreshTTL,   \* refreshTokenTTL
  MaxTime,      \* bounds the clock
  Faults        \* what may fail: the call to the auth service ("auth"), ...

ASSUME AccessAssumption ==
  /\ AccessTTL \in Nat \ {0} /\ RefreshTTL \in Nat \ {0} /\ MaxTime \in Nat

VARIABLES
  book, clock, verdict,   \* the ledger of the auth service
  token,      \* token[s]: the claims of the access token of session s, or Nothing
  gate,       \* gate[x]: how far call x has come in the interceptor
  header,     \* header[x]: metadata["authorization"]; 0 when it is missing
  since       \* history: when x came to the interceptor

ledger == <<book, clock, verdict>>
accessVars == <<book, clock, verdict, token, gate, header, since>>

Ledger == INSTANCE SessionLedger
            WITH Handlers <- Callers, SessionIds <- Sessions, Owners <- Users

-----------------------------------------------------------------------------
Claims == [user : Users, exp : Nat]

ASSUME NothingAssumption == Nothing \notin Claims

Gates == {"none", "token", "session", "passed", "refused"}

AccessTypeOK ==
  /\ book \in [Sessions -> Ledger!Row \cup {Ledger!NoRow}]
  /\ clock \in Nat
  /\ verdict \in [Callers -> Ledger!Verdict \cup {Ledger!NoVerdict}]
  /\ token \in [Sessions -> Claims \cup {Nothing}]
  /\ gate \in [Callers -> Gates]
  /\ header \in [Callers -> Token]
  /\ since \in [Callers -> Nat]

AccessInit ==
  /\ Ledger!Init
  /\ token = [s \in Sessions |-> Nothing]
  /\ gate = [x \in Callers |-> "none"]
  /\ header = [x \in Callers |-> 0]
  /\ since = [x \in Callers |-> 0]

-----------------------------------------------------------------------------
\* CreateSession for user u.
OpenSession(s, u) ==
  /\ book[s] = Ledger!NoRow
  /\ book' = [book EXCEPT ![s] =
                [status |-> "active", owner |-> u, expiry |-> clock + RefreshTTL]]
  /\ UNCHANGED <<clock, verdict>>

\* CreateAccessToken for user u and session s.
Sign(s, u) == token' = [token EXCEPT ![s] = [user |-> u, exp |-> clock + AccessTTL]]

CloseSession(s) == Ledger!Close(s) /\ UNCHANGED token

\* Sessions are opened and closed by others too, and time passes.
Elsewhere ==
  /\ \/ \E s \in Sessions, u \in Users : OpenSession(s, u) /\ Sign(s, u)
     \/ \E s \in Sessions : CloseSession(s)
     \/ clock < MaxTime /\ Ledger!Pass /\ UNCHANGED token
  /\ UNCHANGED <<gate, header, since>>

-----------------------------------------------------------------------------
\* A call reaches the server with the header its client gave it.
Enter(x) ==
  /\ gate[x] = "none"
  /\ gate' = [gate EXCEPT ![x] = "token"]
  /\ since' = [since EXCEPT ![x] = clock]
  /\ UNCHANGED <<ledger, token, header>>

\* What a client may present: nothing, junk, or a token that was signed.
Headers == {0, Junk} \cup {s \in Sessions : token[s] # Nothing}

\* jwt.ParseWithClaims: the signature, and now before exp.
TokenValid(h) == h \in Sessions /\ token[h] # Nothing /\ clock < token[h].exp

CheckToken(x) ==
  /\ gate[x] = "token"
  /\ gate' = [gate EXCEPT ![x] = IF TokenValid(header[x]) THEN "session" ELSE "refused"]
  /\ UNCHANGED <<ledger, token, header, since>>

\* The auth service's answer r to question q of call x.
ValidateSession(x, q, r) ==
  /\ q \in ValidateSessionRequest /\ r \in ValidateSessionResponse
  /\ IF r.active THEN Ledger!TellActive(x, q.session_id) ELSE Ledger!TellInactive(x, q.session_id)

Decide(x, pass) ==
  /\ gate' = [gate EXCEPT ![x] = IF pass THEN "passed" ELSE "refused"]
  /\ UNCHANGED <<token, header, since>>

\* Mutant: when the auth service does not answer, the call goes on.
FaultyFailOpen(x) ==
  /\ gate[x] = "session"
  /\ \/ \E b \in BOOLEAN :
          ValidateSession(x, [session_id |-> header[x]], [active |-> b]) /\ Decide(x, b)
     \/ "auth" \in Faults /\ Decide(x, TRUE) /\ UNCHANGED ledger

\* ValidateSession; an error of the call, whichever, refuses too.
AskSession(x) ==
  /\ gate[x] = "session"
  /\ \/ \E b \in BOOLEAN :
          ValidateSession(x, [session_id |-> header[x]], [active |-> b]) /\ Decide(x, b)
     \/ "auth" \in Faults /\ Decide(x, FALSE) /\ UNCHANGED ledger

\* The call is over.
Exit(x) ==
  /\ Ledger!Ask(x)
  /\ gate' = [gate EXCEPT ![x] = "none"]
  /\ header' = [header EXCEPT ![x] = 0]
  /\ since' = [since EXCEPT ![x] = 0]
  /\ UNCHANGED token

Intercept(x) == CheckToken(x) \/ AskSession(x)

-----------------------------------------------------------------------------
\* A call that has passed came with the token of a session, before the token
\* expired and before the session did, carries the user the session belongs to
\* and was vouched for by the auth service: no delay between the two checks, no
\* cached verdict and no outage lets a late or foreign call through.
PassedInTime ==
  \A x \in Callers : gate[x] = "passed" =>
    LET s == header[x]
    IN  /\ s \in Sessions /\ token[s] # Nothing
        /\ since[x] < token[s].exp
        /\ since[x] < book[s].expiry
        /\ token[s].user = book[s].owner
        /\ verdict[x] = [sid |-> s, active |-> TRUE]
=============================================================================
