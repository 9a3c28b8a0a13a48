------------------------------ MODULE MCMemory ------------------------------
(* A DRAM and a PCM with the defaults of sim.cpp, and a DRAM with the others. *)
EXTENDS Memory

CONSTANTS b1, b2, c1

Input(b, row, column, read, priority) ==
    [bank |-> b, row |-> row, column |-> column, read |-> read, priority |-> priority]
MCInputs == {Input(b1, 0, 0, TRUE, 0), Input(b1, 1, 0, TRUE, 0), Input(b1, 0, 0, FALSE, 1),
             Input(b1, 0, 1, FALSE, 0), Input(b2, 0, 0, TRUE, 0)}

Dram == [policy |-> "OPEN_PAGE", destructive |-> TRUE, longClose |-> FALSE,
         globalQueue |-> FALSE, maxQueueSize |-> 3]
Pcm == [policy |-> "CLOSED_PAGE", destructive |-> FALSE, longClose |-> TRUE,
        globalQueue |-> FALSE, maxQueueSize |-> 2]
ClosedDram == [Dram EXCEPT !.policy = "CLOSED_PAGE", !.globalQueue = TRUE, !.maxQueueSize = 2]
MCSettings == {Dram, Pcm, ClosedDram}
=============================================================================
