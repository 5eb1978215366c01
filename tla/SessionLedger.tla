--------------------------- MODULE SessionLedger ---------------------------
(***************************************************************************)
(* What the auth service promises to the services that ask it about a      *)
(* session, without saying how: no handlers, no Redis, no partial steps.   *)
(*                                                                         *)
(* A session is opened once, may be closed (revoked) once and is never     *)
(* changed otherwise.  Whoever asks for a verdict may be told "inactive"   *)
(* only about a session that is really dead, and "active" only about one   *)
(* that exists and whose refresh lifetime has not run out.  A positive     *)
(* verdict may miss a revocation: that is the freedom the cache takes.     *)
(***************************************************************************)
EXTENDS Naturals

CONSTANTS
  Handlers,     \* whoever is being served
  SessionIds,   \* the ids of the sessions table
  Owners        \* [user, app] pairs a session belongs to

VARIABLES
  book,         \* book[s]: the session s, or NoRow
  clock,        \* time
  verdict       \* verdict[h]: what h was last told, or NoVerdict

ledgerVars == <<book, clock, verdict>>

Row == [status : {"active", "revoked"}, owner : Owners, expiry : Nat]
NoRow == [status |-> "absent"]

Verdict == [sid : SessionIds, active : BOOLEAN]
NoVerdict == [sid |-> "none"]

\* A session is dead once revoked or once its refresh lifetime is over.
Dead(s) == book[s].status = "revoked" \/ clock >= book[s].expiry

Init ==
  /\ book = [s \in SessionIds |-> NoRow]
  /\ clock = 0
  /\ verdict = [h \in Handlers |-> NoVerdict]

\* Any owner, any expiry.
Open(s) ==
  /\ book[s] = NoRow
  /\ book'[s] \in Row
  /\ book'[s].status = "active"
  /\ book' = [book EXCEPT ![s] = book'[s]]
  /\ UNCHANGED <<clock, verdict>>

Close(s) ==
  /\ book[s].status = "active"
  /\ book' = [book EXCEPT ![s].status = "revoked"]
  /\ UNCHANGED <<clock, verdict>>

Pass == clock' = clock + 1 /\ UNCHANGED <<book, verdict>>

TellActive(h, s) ==
  /\ book[s] # NoRow
  /\ clock < book[s].expiry
  /\ verdict' = [verdict EXCEPT ![h] = [sid |-> s, active |-> TRUE]]
  /\ UNCHANGED <<book, clock>>

TellInactive(h, s) ==
  /\ book[s] # NoRow
  /\ Dead(s)
  /\ verdict' = [verdict EXCEPT ![h] = [sid |-> s, active |-> FALSE]]
  /\ UNCHANGED <<book, clock>>

Ask(h) ==
  /\ verdict' = [verdict EXCEPT ![h] = NoVerdict]
  /\ UNCHANGED <<book, clock>>

\* Somebody is told something new, or nothing any more.
Tell ==
  /\ verdict' # verdict
  /\ \E h \in Handlers :
       Ask(h) \/ \E s \in SessionIds : TellActive(h, s) \/ TellInactive(h, s)

Next ==
  \/ Tell
  \/ \E s \in SessionIds : Open(s) \/ Close(s)
  \/ Pass

Spec == Init /\ [][Next]_ledgerVars
=============================================================================
