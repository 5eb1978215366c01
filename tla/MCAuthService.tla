--------------------------- MODULE MCAuthService ---------------------------
(* Instances of AuthService for TLC. *)
EXTENDS AuthServiceInv, TLC

SessionOps == {"login", "logout", "refresh", "validate"}

\* Handlers, passwords, apps and session ids are interchangeable.
Symmetry ==
  Permutations(Handlers) \cup Permutations(SessionIds)
    \cup Permutations(Passwords) \cup Permutations(Apps)
=============================================================================
