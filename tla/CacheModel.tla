------------------------------ MODULE CacheModel ------------------------------
(***************************************************************************)
(* The tags of a cache (CacheModel and Set in src/Cache.cpp) and its remap *)
(* tables.  A block is found in the set that its page's index and its      *)
(* offset select.  When a page moves to a frame of another index, its      *)
(* blocks keep their sets under a marked address: the remap table finds    *)
(* them from the new page, the inverse table names them when they are      *)
(* evicted, and an entry lives while it counts blocks.                     *)
(* The caller (Cache, for the memory manager) moves a page to a frame that *)
(* no block of the cache is from.                                          *)
(***************************************************************************)
EXTENDS Integers, Sequences, FiniteSets, SequencesExt

CONSTANTS
    Pages, Offsets,
    Index,          \* the index of a page's sets
    Ways,
    Reuse           \* whether a frame may be remapped while a marked page keeps its address

ASSUME CacheModelAssumption ==
    /\ Ways \in Nat \ {0} /\ Reuse \in BOOLEAN
    /\ IsFiniteSet(Offsets)
    /\ \A p \in Pages : p \in DOMAIN Index

VARIABLES
    sets,            \* for an index and an offset: the lines, least recently used first
    remapTable,      \* by page: the marked page that its blocks have, how many there are
    invRemapTable,   \* by marked page: the page
    failed,          \* an assertion of remap has failed
    evicted          \* what the last access has reported as evicted: a block or nothing

vars == <<sets, remapTable, invRemapTable, failed, evicted>>

SetIndices == {Index[p] : p \in Pages} \X Offsets
Plain(p) == [page |-> p, marked |-> FALSE]
Marked(p) == [page |-> p, marked |-> TRUE]
SetOf(tag, o) == <<Index[tag.page], o>>

With(f, x, v) == [y \in DOMAIN f \cup {x} |-> IF y = x THEN v ELSE f[y]]
Without(f, x) == [y \in DOMAIN f \ {x} |-> f[y]]

\* Where a block of the page is looked for (getActualAddress).
Actual(p) == IF p \in DOMAIN remapTable THEN remapTable[p].addr ELSE Plain(p)

Tags(s) == {sets[s][i].tag : i \in DOMAIN sets[s]}
At(tag, s) == CHOOSE i \in DOMAIN sets[s] : sets[s][i].tag = tag
IsDirty(tag, s) == [tag |-> tag, dirty |-> TRUE] \in Range(sets[s])
Offs(tag) == {o \in Offsets : tag \in Tags(SetOf(tag, o))}

-----------------------------------------------------------------------------
(* Accesses and flushes *)

\* The tables without a block of a marked page.
UncountedAddr(tag, table) ==
    LET p == invRemapTable[tag] IN
    IF table[p].count > 1 THEN [table EXCEPT ![p].count = @ - 1] ELSE Without(table, p)

\* Mutant: the marked address is reported.
VictimAddress(tag) == tag.page

\* The page a victim is of, for the next level.
VictimPage(tag) == IF tag.marked THEN invRemapTable[tag] ELSE tag.page

\* access, of a block that is held.
Hit(p, o, read) ==
    LET tag == Actual(p)
        s == SetOf(tag, o)
    IN /\ tag \in Tags(s)
       /\ sets' = [sets EXCEPT ![s] =
                     Append(RemoveAt(@, At(tag, s)),
                            [tag |-> tag, dirty |-> ~read \/ IsDirty(tag, s)])]
       /\ evicted' = {}
       /\ UNCHANGED <<remapTable, invRemapTable, failed>>

\* The remap table counts a block that comes to be held.
Counted(p) == IF p \in DOMAIN remapTable THEN [remapTable EXCEPT ![p].count = @ + 1] ELSE remapTable

MissWithoutEviction(p, o, read) ==
    LET tag == Actual(p)
        s == SetOf(tag, o)
    IN /\ tag \notin Tags(s)
       /\ Len(sets[s]) < Ways
       /\ sets' = [sets EXCEPT ![s] = Append(@, [tag |-> tag, dirty |-> ~read])]
       /\ remapTable' = Counted(p)
       /\ evicted' = {}
       /\ UNCHANGED <<invRemapTable, failed>>

\* The last block of a marked page takes the entries of the page with it.
MissWithEviction(p, o, read) ==
    LET tag == Actual(p)
        s == SetOf(tag, o)
        victim == Head(sets[s])
        left == IF victim.tag.marked THEN UncountedAddr(victim.tag, Counted(p)) ELSE Counted(p)
    IN /\ tag \notin Tags(s)
       /\ Len(sets[s]) = Ways
       /\ sets' = [sets EXCEPT ![s] = Append(Tail(@), [tag |-> tag, dirty |-> ~read])]
       /\ remapTable' = left
       /\ invRemapTable' = IF victim.tag.marked /\ VictimPage(victim.tag) \notin DOMAIN left
                           THEN Without(invRemapTable, victim.tag) ELSE invRemapTable
       /\ evicted' = {[block |-> <<VictimPage(victim.tag), o>>, dirty |-> victim.dirty]}
       /\ UNCHANGED failed

Access(p, o, read) ==
    Hit(p, o, read) \/ MissWithoutEviction(p, o, read) \/ MissWithEviction(p, o, read)

\* flush looks the block up under its own address.
Flush(p, o) ==
    LET s == SetOf(Plain(p), o) IN
    /\ p \notin DOMAIN remapTable
    /\ IF Plain(p) \in Tags(s)
       THEN sets' = [sets EXCEPT ![s] = RemoveAt(@, At(Plain(p), s))]
       ELSE UNCHANGED sets
    /\ evicted' = {}
    /\ UNCHANGED <<remapTable, invRemapTable, failed>>

MakeDirty(p, o) ==
    LET tag == Actual(p) IN
    /\ sets' = [sets EXCEPT ![SetOf(tag, o)] =
                   [i \in DOMAIN @ |-> IF @[i].tag = tag THEN [@[i] EXCEPT !.dirty = TRUE] ELSE @[i]]]
    /\ evicted' = {}
    /\ UNCHANGED <<remapTable, invRemapTable, failed>>

-----------------------------------------------------------------------------
(* Remaps *)

\* changeTag, of the blocks of a page.
Retagged(from, to) ==
    [s \in SetIndices |-> [i \in DOMAIN sets[s] |->
        IF sets[s][i].tag = from THEN [sets[s][i] EXCEPT !.tag = to] ELSE sets[s][i]]]

\* Mutant: the entry of the marked page is left.
MarkUnlisted(p, q, n) ==
    /\ remapTable' = With(remapTable, q, [addr |-> Marked(p), count |-> n])
    /\ UNCHANGED invRemapTable

\* The entries of a page that becomes a marked one (emplace adds no second one).
Mark(p, q, n) ==
    /\ remapTable' = IF q \in DOMAIN remapTable THEN remapTable
                     ELSE With(remapTable, q, [addr |-> Marked(p), count |-> n])
    /\ invRemapTable' = IF Marked(p) \in DOMAIN invRemapTable THEN invRemapTable
                        ELSE With(invRemapTable, Marked(p), q)

\* remap, of a page with its own address.
RemapPlain(p, q) ==
    LET n == Cardinality(Offs(Plain(p))) IN
    /\ p \notin DOMAIN remapTable
    /\ IF Index[p] = Index[q]
       THEN sets' = Retagged(Plain(p), Plain(q)) /\ UNCHANGED <<remapTable, invRemapTable>>
       ELSE /\ sets' = Retagged(Plain(p), Marked(p))
            /\ IF n > 0 THEN Mark(p, q, n) ELSE UNCHANGED <<remapTable, invRemapTable>>
    /\ UNCHANGED failed

\* remap, of a page with marked blocks: they get their new address, or stay
\* marked under the new page.
RemapMarked(p, q) ==
    LET tag == remapTable[p].addr
        n == Cardinality(Offs(tag))
    IN /\ p \in DOMAIN remapTable
       /\ failed' = (failed \/ n # remapTable[p].count \/ tag \notin DOMAIN invRemapTable)
       /\ IF Index[tag.page] = Index[q]
          THEN /\ sets' = Retagged(tag, Plain(q))
               /\ remapTable' = Without(remapTable, p)
               /\ invRemapTable' = Without(invRemapTable, tag)
          ELSE /\ remapTable' = With(Without(remapTable, p), q, [addr |-> tag, count |-> n])
               /\ invRemapTable' = [invRemapTable EXCEPT ![tag] = q]
               /\ UNCHANGED sets

\* The page's blocks that are held (present), and the marked ones of its address.
HeldOf(p) == Offs(Actual(p))

Remap(p, q) ==
    /\ p # q
    /\ HeldOf(q) = {} /\ q \notin DOMAIN remapTable
    /\ Reuse \/ p \in DOMAIN remapTable \/ Marked(p) \notin DOMAIN invRemapTable
    /\ RemapPlain(p, q) \/ RemapMarked(p, q)
    /\ evicted' = {}

-----------------------------------------------------------------------------
(* The specification *)

Init ==
    /\ sets = [s \in SetIndices |-> <<>>]
    /\ remapTable = <<>> /\ invRemapTable = <<>>
    /\ failed = FALSE /\ evicted = {}

Next ==
    /\ ~failed
    /\ \/ \E p \in Pages, o \in Offsets, read \in BOOLEAN : Access(p, o, read)
       \/ \E p \in Pages, o \in Offsets : Flush(p, o) \/ MakeDirty(p, o)
       \/ \E p, q \in Pages : Remap(p, q)

Spec == Init /\ [][Next]_vars

-----------------------------------------------------------------------------
(* Properties *)

\* The tables are inverses, an entry counts the blocks of its marked page, which
\* are held under no other address, and a marked block has an entry: so a victim
\* can be named (the assertions of access and remap, 312-345, 438-470).
TablesAgree ==
    /\ ~failed
    /\ DOMAIN invRemapTable = {remapTable[p].addr : p \in DOMAIN remapTable}
    /\ \A p \in DOMAIN remapTable :
           /\ remapTable[p].addr.marked /\ invRemapTable[remapTable[p].addr] = p
           /\ remapTable[p].count = Cardinality(Offs(remapTable[p].addr)) /\ remapTable[p].count > 0
           /\ Offs(Plain(p)) = {}
    /\ \A s \in SetIndices :
           /\ Len(sets[s]) <= Ways /\ Cardinality(Tags(s)) = Len(sets[s])
           /\ \A tag \in Tags(s) : tag.marked => tag \in DOMAIN invRemapTable

contentsOf ==
    UNION {{[block |-> <<VictimPage(l.tag), s[2]>>, dirty |-> l.dirty] : l \in Range(sets[s])} :
           s \in SetIndices}

\* The sets and the tables together do what a cache with the blocks' own addresses
\* would do: every access finds what is held, a remap loses no block and no dirty
\* mark, and a victim is reported under the page it has now.
Contents == INSTANCE CacheContents WITH contents <- contentsOf
ImplementsContents == Contents!Spec
=============================================================================
