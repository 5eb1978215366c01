------------------------------ MODULE MCBridge ------------------------------
(* Instances of Bridge for TLC. *)
EXTENDS Bridge

OneUser == {1}
OneSession == {1}
OneChat == {1}
NoNumbers == {0}
=============================================================================
