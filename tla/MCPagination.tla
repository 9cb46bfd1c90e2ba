---------------------------- MODULE MCPagination ----------------------------
(* Pagination for TLC with an 8-bit int: pageSize is at most 100, so every *)
(* page above 2 can overflow the offset, as pages above 2^63/100 do with   *)
(* Go's 64-bit int.                                                        *)
EXTENDS Pagination

=============================================================================
