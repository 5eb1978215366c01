--------------------------- MODULE MCChatService ---------------------------
(* Instances of ChatService for TLC. *)
EXTENDS ChatService, TLC

ChatUsers == 1..3
TwoChats == {{1, 2}, {2, 3}}
OneChat == {{1, 2}}
Symmetry == Permutations(Handlers)
=============================================================================
