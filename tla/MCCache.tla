------------------------------- MODULE MCCache -------------------------------
(* A small instance of Cache: two first levels and a second one, of a line each. *)
EXTENDS Cache

CONSTANTS x, y
MCFirsts == <<"i", "d">>
MCWays == [l1 |-> 1, l2 |-> 1]
MCPenalty == [i |-> 0, d |-> 1, L2 |-> 4]
MCQueues == [l1 |-> 2, l2 |-> 2]
=============================================================================
