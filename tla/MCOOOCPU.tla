------------------------------ MODULE MCOOOCPU ------------------------------
(* Four timestamps over two pages, a reorder buffer of three entries. *)
EXTENDS OOOCPU

CONSTANTS p1, p2
MCTrace ==
    << [instr |-> <<p1>>, data |-> <<[page |-> p2, read |-> TRUE]>>],
       [instr |-> <<p1>>, data |-> <<[page |-> p1, read |-> TRUE], [page |-> p2, read |-> FALSE]>>],
       [instr |-> <<p1, p2>>, data |-> <<>>],
       [instr |-> <<p2>>, data |-> <<[page |-> p2, read |-> FALSE]>>] >>
=============================================================================
