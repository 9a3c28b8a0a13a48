---------------------------- MODULE MCMultiQueue ----------------------------
(* Three pages, two frames of DRAM, three queues. *)
EXTENDS MultiQueue

Flags(second, aging, history, rollback, filter) ==
    [second |-> second, aging |-> aging, history |-> history, rollback |-> rollback, filter |-> filter]
MCFlags == {Flags(FALSE, FALSE, TRUE, TRUE, FALSE), Flags(TRUE, TRUE, FALSE, FALSE, TRUE),
            Flags(FALSE, TRUE, TRUE, TRUE, TRUE)}
MCPages == {<<0, 0>>, <<0, 1>>, <<0, 2>>}
MCOtherPages == {<<1, 0>>, <<1, 1>>, <<1, 2>>}   \* of another process
=============================================================================
