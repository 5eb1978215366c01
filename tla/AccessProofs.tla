---------------------------- MODULE AccessProofs ----------------------------
(***************************************************************************)
(* What the interceptor guarantees, step by step, for whatever the calls   *)
(* that pass it do: the modules that use Access cite these lemmas.         *)
(***************************************************************************)
EXTENDS Access, TLAPS

\* A token that was signed is that of a session with the same owner.
TokensBacked ==
  \A s \in Sessions : token[s] # Nothing =>
    /\ book[s] # Ledger!NoRow
    /\ token[s].user = book[s].owner

\* Between the two checks the token stays what it was when the call came.
CheckedInTime ==
  \A x \in Callers :
    /\ since[x] <= clock
    /\ gate[x] = "session" => /\ header[x] \in Sessions /\ token[header[x]] # Nothing
                              /\ since[x] < token[header[x]].exp

AccessInv ==
  /\ AccessTypeOK
  /\ TokensBacked
  /\ CheckedInTime
  /\ PassedInTime

\* Nothing that was signed or stored is signed anew or removed.
Lasting ==
  \A s \in Sessions : /\ token[s] # Nothing => token'[s] = token[s]
                      /\ book[s] # Ledger!NoRow => book'[s] # Ledger!NoRow

-----------------------------------------------------------------------------
LEMMA Rows ==
  ASSUME NEW r \in Ledger!Row
  PROVE  /\ r # Ledger!NoRow /\ r.status \in {"active", "revoked"}
         /\ r.owner \in Users /\ r.expiry \in Nat
  BY DEF Ledger!Row, Ledger!NoRow

LEMMA AccessStart == AccessInit => AccessInv
  <1> SUFFICES ASSUME AccessInit PROVE AccessInv
    OBVIOUS
  <1>1. AccessTypeOK
    BY DEF AccessInit, Ledger!Init, AccessTypeOK, Gates, Token
  <1>2. TokensBacked /\ CheckedInTime /\ PassedInTime
    BY DEF AccessInit, Ledger!Init, TokensBacked, CheckedInTime, PassedInTime
  <1> QED BY <1>1, <1>2 DEF AccessInv

\* A new session and its token.
LEMMA OpenKeeps ==
  ASSUME AccessInv, NEW s \in Sessions, NEW u \in Users, OpenSession(s, u),
         Sign(s, u) \/ UNCHANGED token, UNCHANGED <<gate, header, since>>
  PROVE  AccessInv' /\ Lasting /\ (Sign(s, u) => token'[s] # Nothing)
  <1> DEFINE row == [status |-> "active", owner |-> u, expiry |-> clock + RefreshTTL]
             claims == [user |-> u, exp |-> clock + AccessTTL]
  <1>1. clock \in Nat /\ UNCHANGED <<clock, verdict>> /\ book[s] = Ledger!NoRow
    BY DEF AccessInv, AccessTypeOK, OpenSession
  <1>2. row \in Ledger!Row /\ row.owner = u
    BY <1>1, AccessAssumption DEF Ledger!Row
  <1>3. claims \in Claims /\ claims # Nothing /\ claims.user = u
    BY <1>1, AccessAssumption, NothingAssumption DEF Claims
  <1>4. book' = [book EXCEPT ![s] = row]
    BY DEF OpenSession
  <1>5. token' = [token EXCEPT ![s] = claims] \/ token' = token
    BY DEF Sign
  <1>6. Sign(s, u) => token' = [token EXCEPT ![s] = claims]
    BY DEF Sign
  <1> HIDE DEF row, claims
  <1>7. \A t \in Sessions : book'[t] = IF t = s THEN row ELSE book[t]
    BY <1>4 DEF AccessInv, AccessTypeOK
  <1>8. \A t \in Sessions : t # s => token'[t] = token[t]
    BY <1>5 DEF AccessInv, AccessTypeOK
  <1>9. token[s] = Nothing /\ token'[s] \in {Nothing, claims}
    BY <1>1, <1>5 DEF AccessInv, AccessTypeOK, TokensBacked
  <1>10. AccessTypeOK'
    BY <1>1, <1>2, <1>3, <1>4, <1>5 DEF AccessInv, AccessTypeOK
  <1>11. TokensBacked'
    BY <1>2, <1>3, <1>7, <1>8, <1>9, Rows DEF AccessInv, TokensBacked
  <1>12. CheckedInTime' /\ PassedInTime'
    BY <1>1, <1>7, <1>8, <1>9 DEF AccessInv, CheckedInTime, PassedInTime
  <1>13. Sign(s, u) => token'[s] = claims
    BY <1>6 DEF AccessInv, AccessTypeOK
  <1>14. Lasting
    BY <1>1, <1>7, <1>8, <1>9 DEF Lasting
  <1> QED BY <1>3, <1>10, <1>11, <1>12, <1>13, <1>14 DEF AccessInv

LEMMA CloseKeeps ==
  ASSUME AccessInv, NEW s \in Sessions, CloseSession(s), UNCHANGED <<gate, header, since>>
  PROVE  AccessInv' /\ Lasting
  <1> DEFINE row == [book[s] EXCEPT !.status = "revoked"]
  <1>1. /\ book' = [book EXCEPT ![s] = row]
        /\ UNCHANGED <<clock, verdict, token>> /\ book[s].status = "active"
    BY DEF CloseSession, Ledger!Close
  <1>2. book[s] \in Ledger!Row
    BY <1>1 DEF AccessInv, AccessTypeOK, Ledger!NoRow
  <1>3. row \in Ledger!Row /\ row.owner = book[s].owner /\ row.expiry = book[s].expiry
    BY <1>2 DEF Ledger!Row
  <1> HIDE DEF row
  <1>4. \A t \in Sessions : book'[t] = IF t = s THEN row ELSE book[t]
    BY <1>1 DEF AccessInv, AccessTypeOK
  <1>5. AccessTypeOK'
    BY <1>1, <1>3 DEF AccessInv, AccessTypeOK
  <1>6. TokensBacked' /\ CheckedInTime' /\ PassedInTime'
    BY <1>1, <1>3, <1>4, Rows DEF AccessInv, TokensBacked, CheckedInTime, PassedInTime
  <1>7. Lasting
    BY <1>1, <1>3, <1>4, Rows DEF Lasting
  <1> QED BY <1>5, <1>6, <1>7 DEF AccessInv

LEMMA ElsewhereKeeps ==
  ASSUME AccessInv, Elsewhere
  PROVE  AccessInv' /\ Lasting
  <1>1. CASE clock < MaxTime /\ Ledger!Pass /\ UNCHANGED token
    <2>1. clock' = clock + 1 /\ UNCHANGED <<book, verdict, token, gate, header, since>>
      BY <1>1 DEF Elsewhere, Ledger!Pass
    <2> QED BY <2>1 DEF AccessInv, AccessTypeOK, TokensBacked, CheckedInTime, PassedInTime,
                        Lasting
  <1> QED BY <1>1, OpenKeeps, CloseKeeps DEF Elsewhere

\* A call that has not come to the interceptor may choose its header.
LEMMA HeaderKeeps ==
  ASSUME AccessInv, NEW x \in Callers, gate[x] = "none", NEW h \in Headers,
         header' = [header EXCEPT ![x] = h],
         UNCHANGED <<book, clock, verdict, token, gate, since>>
  PROVE  AccessInv'
  <1>1. h \in Token
    BY DEF Headers, Token
  <1> QED BY <1>1 DEF AccessInv, AccessTypeOK, TokensBacked, CheckedInTime, PassedInTime

LEMMA EnterKeeps ==
  ASSUME AccessInv, NEW x \in Callers, Enter(x)
  PROVE  AccessInv'
  BY DEF Enter, ledger, AccessInv, AccessTypeOK, Gates, TokensBacked, CheckedInTime,
         PassedInTime

LEMMA ExitKeeps ==
  ASSUME AccessInv, NEW x \in Callers, Exit(x)
  PROVE  AccessInv'
  <1>1. /\ verdict' = [verdict EXCEPT ![x] = Ledger!NoVerdict]
        /\ gate' = [gate EXCEPT ![x] = "none"]
        /\ header' = [header EXCEPT ![x] = 0]
        /\ since' = [since EXCEPT ![x] = 0]
        /\ UNCHANGED <<book, clock, token>>
    BY DEF Exit, Ledger!Ask
  <1>2. AccessTypeOK'
    BY <1>1 DEF AccessInv, AccessTypeOK, Gates, Token
  <1>3. TokensBacked' /\ CheckedInTime'
    BY <1>1 DEF AccessInv, AccessTypeOK, TokensBacked, CheckedInTime
  <1>4. PassedInTime'
    BY <1>1 DEF AccessInv, AccessTypeOK, PassedInTime
  <1> QED BY <1>2, <1>3, <1>4 DEF AccessInv

LEMMA CheckTokenKeeps ==
  ASSUME AccessInv, NEW x \in Callers, CheckToken(x)
  PROVE  AccessInv'
  <1>1. TokenValid(header[x]) => /\ header[x] \in Sessions /\ token[header[x]] # Nothing
                                 /\ since[x] < token[header[x]].exp
    <2> SUFFICES ASSUME TokenValid(header[x])
                 PROVE  since[x] < token[header[x]].exp
      BY DEF TokenValid
    <2>1. token[header[x]] \in Claims /\ clock < token[header[x]].exp
      BY DEF TokenValid, AccessInv, AccessTypeOK
    <2>2. token[header[x]].exp \in Nat /\ since[x] \in Nat /\ clock \in Nat
          /\ since[x] <= clock
      BY <2>1 DEF Claims, AccessInv, AccessTypeOK, CheckedInTime
    <2> QED BY <2>1, <2>2
  <1>2. /\ gate' = [gate EXCEPT ![x] = IF TokenValid(header[x]) THEN "session" ELSE "refused"]
        /\ UNCHANGED <<book, clock, verdict, token, header, since>> /\ gate[x] = "token"
    BY DEF CheckToken, ledger
  <1>3. \A y \in Callers : y # x => gate'[y] = gate[y]
    BY <1>2 DEF AccessInv, AccessTypeOK
  <1>4. gate'[x] = IF TokenValid(header[x]) THEN "session" ELSE "refused"
    BY <1>2 DEF AccessInv, AccessTypeOK
  <1>5. AccessTypeOK'
    BY <1>2 DEF AccessInv, AccessTypeOK, Gates
  <1>6. CheckedInTime'
    BY <1>1, <1>2, <1>3, <1>4 DEF AccessInv, CheckedInTime
  <1>7. TokensBacked' /\ PassedInTime'
    BY <1>2, <1>3, <1>4 DEF AccessInv, TokensBacked, PassedInTime
  <1> QED BY <1>5, <1>6, <1>7 DEF AccessInv

\* An active verdict is one about the session of the token, before its end.
LEMMA AskSessionKeeps ==
  ASSUME AccessInv, NEW x \in Callers, AskSession(x)
  PROVE  AccessInv'
  <1> DEFINE s == header[x]
  <1>1. /\ s \in Sessions /\ token[s] # Nothing /\ since[x] < token[s].exp
        /\ since[x] <= clock /\ gate[x] = "session"
    BY DEF AskSession, AccessInv, CheckedInTime
  <1>2. UNCHANGED <<token, header, since>>
    BY DEF AskSession, Decide
  <1>3. CASE UNCHANGED ledger /\ Decide(x, FALSE)
    BY <1>2, <1>3 DEF Decide, ledger, AccessInv, AccessTypeOK, Gates, TokensBacked,
                      CheckedInTime, PassedInTime
  <1>4. ASSUME NEW b \in BOOLEAN, ValidateSession(x, [session_id |-> s], [active |-> b]),
               Decide(x, b)
        PROVE  AccessInv'
    <2>1. /\ verdict' = [verdict EXCEPT ![x] = [sid |-> s, active |-> b]]
          /\ UNCHANGED <<book, clock>>
          /\ b => clock < book[s].expiry
      BY <1>4 DEF ValidateSession, Ledger!TellActive, Ledger!TellInactive
    <2>2. [sid |-> s, active |-> b] \in Ledger!Verdict
      BY <1>1 DEF Ledger!Verdict
    <2>3. gate' = [gate EXCEPT ![x] = IF b THEN "passed" ELSE "refused"]
      BY <1>4 DEF Decide
    <2>4. AccessTypeOK'
      BY <1>2, <2>1, <2>2, <2>3 DEF AccessInv, AccessTypeOK, Gates
    <2>5. TokensBacked' /\ CheckedInTime'
      BY <1>2, <2>1, <2>3 DEF AccessInv, AccessTypeOK, TokensBacked, CheckedInTime
    <2>6. b => since[x] < book[s].expiry /\ token[s].user = book[s].owner
      <3>1. book[s] \in Ledger!Row
        BY <1>1 DEF AccessInv, AccessTypeOK, TokensBacked
      <3> QED BY <1>1, <2>1, <3>1, Rows DEF AccessInv, AccessTypeOK, TokensBacked
    <2>7. PassedInTime'
      BY <1>1, <1>2, <2>1, <2>3, <2>6 DEF AccessInv, AccessTypeOK, PassedInTime
    <2> QED BY <2>4, <2>5, <2>7 DEF AccessInv
  <1> QED BY <1>3, <1>4 DEF AskSession

LEMMA InterceptKeeps ==
  ASSUME AccessInv, NEW x \in Callers, Intercept(x)
  PROVE  AccessInv'
  BY CheckTokenKeeps, AskSessionKeeps DEF Intercept

LEMMA AccessStutter ==
  ASSUME AccessInv, UNCHANGED accessVars
  PROVE  AccessInv'
  BY DEF accessVars, AccessInv, AccessTypeOK, TokensBacked, CheckedInTime, PassedInTime
=============================================================================
