------------------------------- MODULE MCCopy -------------------------------
(* Small instances of PageCopy: the page, and where it starts. *)
EXTENDS PageCopy

CONSTANT p1

Demotion(threshold) ==
    [threshold |-> threshold, writeRaces |-> FALSE, inDram |-> {p1}, demotable |-> {p1}]
Promotion(threshold, writeRaces) ==
    [threshold |-> threshold, writeRaces |-> writeRaces, inDram |-> {}, demotable |-> {}]

\* A page that goes down to PCM and up again, and one that only goes up, whose
\* last blocks are read by the copy itself.  Of the blocks of the second one a
\* cache may hold dirty lines from before: the caches are not flushed for it.
MCBoth == {Demotion(0), Promotion(2, TRUE)}
MCDemotion == {Demotion(0)}
MCDemotionEarly == {Demotion(2)}
MCRollback == {Promotion(0, FALSE)}
=============================================================================
