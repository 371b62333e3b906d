---------------------------- MODULE MCPagination ----------------------------
(* A small instance of Pagination: two milliseconds to a second, an event
   every two seconds, windows of one interval. *)
EXTENDS Pagination

MCTimes == 24..41
=============================================================================
