---------------------------- MODULE CacheContents ----------------------------
(***************************************************************************)
(* What the tags of a cache promise: a cache holds some blocks of some     *)
(* pages, knows which are dirty, and names the block it evicts.  A remap   *)
(* gives the blocks of a page another page, whatever else is in the cache. *)
(***************************************************************************)
CONSTANTS Pages, Offsets

VARIABLES
    contents,   \* the blocks held, and whether they are dirty
    evicted     \* what the last access has evicted: a block or nothing

Blocks == Pages \X Offsets

Init == contents = {} /\ evicted = {}

Dirty(b) == [block |-> b, dirty |-> TRUE] \in contents
Of(b) == {l \in contents : l.block = b}

\* Another block may have to go.
Access(b, read) ==
    \E gone \in SUBSET (contents \ Of(b)) :
        /\ gone # {} => Of(b) = {} /\ \E l \in gone : gone = {l}
        /\ contents' = (contents \ (Of(b) \cup gone)) \cup {[block |-> b, dirty |-> ~read \/ Dirty(b)]}
        /\ evicted' = gone

Flush(b) == contents' = contents \ Of(b) /\ evicted' = {}

MakeDirty(b) == /\ contents' = {IF l.block = b THEN [l EXCEPT !.dirty = TRUE] ELSE l : l \in contents}
                /\ evicted' = {}

Remap(p, q) ==
    /\ contents' = {IF l.block[1] = p THEN [l EXCEPT !.block = <<q, @[2]>>] ELSE l : l \in contents}
    /\ evicted' = {}

Next ==
    \/ \E b \in Blocks, read \in BOOLEAN : Access(b, read)
    \/ \E b \in Blocks : Flush(b) \/ MakeDirty(b)
    \/ \E p, q \in Pages : p # q /\ Remap(p, q)

Spec == Init /\ [][Next]_<<contents, evicted>>
=============================================================================
