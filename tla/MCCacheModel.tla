----------------------------- MODULE MCCacheModel -----------------------------
(* Three pages of two blocks, two indices, sets of two lines. *)
EXTENDS CacheModel

CONSTANTS p1, p2, p3
MCIndex == [x \in {p1, p2, p3} |-> IF x = p1 THEN 0 ELSE 1]
=============================================================================
