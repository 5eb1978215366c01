--------------------------- MODULE MCPagination ---------------------------
(* Instances of Pagination for TLC. *)
EXTENDS Pagination

FewLimits == {0, 1, 2, 3}
=============================================================================
