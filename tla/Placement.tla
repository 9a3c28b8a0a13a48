----------------------------- MODULE Placement -----------------------------
(***************************************************************************)
(* What every migration policy promises: a page is in one of the two       *)
(* memories, pages change the memory one at a time, and a process has no   *)
(* more pages in DRAM than its share.                                      *)
(***************************************************************************)
EXTENDS Integers

CONSTANTS
    Pages,
    DramPages,   \* the share
    MaxFree      \* demotions keep at most so many frames free

VARIABLES dram, pcm, room

vars == <<dram, pcm, room>>

Init == dram = {} /\ pcm = {} /\ room = DramPages

AllocateDram(p) ==
    /\ p \notin dram \cup pcm /\ room > 0
    /\ dram' = dram \cup {p} /\ room' = room - 1
    /\ UNCHANGED pcm

AllocatePcm(p) ==
    /\ p \notin dram \cup pcm
    /\ pcm' = pcm \cup {p}
    /\ UNCHANGED <<dram, room>>

Promote(p) ==
    /\ p \in pcm /\ room > 0
    /\ dram' = dram \cup {p} /\ pcm' = pcm \ {p} /\ room' = room - 1

Demote(p) ==
    /\ p \in dram /\ room <= MaxFree
    /\ dram' = dram \ {p} /\ pcm' = pcm \cup {p} /\ room' = room + 1

Next == \E p \in Pages : AllocateDram(p) \/ AllocatePcm(p) \/ Promote(p) \/ Demote(p)

Spec == Init /\ [][Next]_vars
=============================================================================
