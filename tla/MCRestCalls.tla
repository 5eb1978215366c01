---------------------------- MODULE MCRestCalls ----------------------------
(* Instances of RestCalls for TLC. *)
EXTENDS RestCalls, TLC

Symmetry == Permutations(Users) \cup Permutations(Sessions)
OneChat == {1}
FewNumbers == {-1, 0, 50}
LeastNumber == -1
OneRow == {1}
=============================================================================
