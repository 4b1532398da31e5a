------------------------------- MODULE MCPaging -------------------------------
(* Paging on a small instance. *)
EXTENDS Paging

CONSTANTS x1, x2, x3
=============================================================================
