-------------------------- MODULE AuthServiceInv ---------------------------
(***************************************************************************)
(* The inductive invariant behind the properties of AuthService: what each *)
(* goroutine may rely on between two of its statements while the others    *)
(* run.  Checked by TLC here, proved in AuthServiceProofs.                 *)
(***************************************************************************)
EXTENDS AuthService

\* The statements of a refresh that come after the session was found.
Refreshing(h) ==
  /\ call[h].op = "refresh"
  /\ pc[h] \in {"revoke_old", "drop", "mint", "save_session", "sign"}

\* Locals are set before they are used and cleared when the call is over.
LocalsSet ==
  \A h \in Handlers :
    /\ pc[h] = "idle" => loc[h] = Blank
    /\ Refreshing(h) => loc[h].row # NoRow
    /\ call[h].op = "validate" /\ pc[h] \in {"fill", "judge"} => loc[h].row # NoRow
    /\ call[h].op = "validate" /\ pc[h] = "fill" => loc[h].exp <= CacheTTL
    /\ Mints(h) /\ pc[h] = "sign" => loc[h].new \in SessionIds

\* The session about to be signed is in the table, with the caller as owner.
AboutToSign ==
  \A h \in Handlers :
    Mints(h) /\ pc[h] = "sign" =>
      /\ db[loc[h].new] # NoRow
      /\ db[loc[h].new].owner = OwnerOf(h)
      /\ call[h].op = "refresh" => loc[h].new # call[h].sid

\* A logout that was told "true" did revoke the session.
LoggedOutIsRevoked == \A s \in loggedOut : db[s].status = "revoked"

\* A refresh that began too late does not get past the lookup.
LateRefreshStops ==
  \A h \in Handlers :
    call[h].op = "refresh" /\ call[h].before # "live" =>
      /\ call[h].sid \in SessionIds
      /\ db[call[h].sid].status = "revoked"
      /\ pc[h] \in {"idle", "find_token"}
      /\ reply[h] # "ok"

\* The password that was stored or compared stays the stored one.
PasswordChecked ==
  \A h \in Handlers :
    /\ call[h].op = "register" /\ (pc[h] = "read_user" \/ reply[h] = "ok")
         => accounts[call[h].user] = call[h].pw
    /\ call[h].op = "login" /\ (pc[h] \in {"mint", "save_session", "sign"} \/ reply[h] = "ok")
         => accounts[call[h].owner.user] = call[h].pw

\* Only an idle goroutine has an answer.
AnswerWhenIdle == \A h \in Handlers : pc[h] # "idle" => reply[h] = "none"

IInv ==
  /\ TypeOK
  /\ LocalsSet
  /\ CopiesArePast
  /\ AboutToSign
  /\ LoggedOutIsRevoked
  /\ LateRefreshStops
  /\ PasswordChecked
  /\ AnswerWhenIdle
  /\ IssuedBacked
  /\ RotationRetires
=============================================================================
