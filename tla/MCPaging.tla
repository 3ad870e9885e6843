------------------------------ MODULE MCPaging ------------------------------
(* Paging for TLC. The table grows up to Keys, and the client walks once, so  *)
(* the state space is finite without a constraint.                            *)
EXTENDS Paging

PerPagesMC == -1 .. 2
=============================================================================
