------------------------- MODULE PageMigrationProofs -------------------------
(***************************************************************************)
(* Theorems about PageMigration: its tables keep their types, no frame is  *)
(* lost or has two owners, a page moves only while the cores are kept away *)
(* from it, and all the tables agree.                                      *)
(*                                                                         *)
(* None of these is inductive by itself.  A migration is ended by the last *)
(* of its drains, flushes or writebacks, so that its counts have to be     *)
(* exact (Counts), what is under way has to belong to a migration          *)
(* (References), and no step of a migration may overlap with another       *)
(* (InTurn).  The flags of the pages, by which the handlers decide, have   *)
(* to tell what the table of migrations says (Flagged, Sourced).           *)
(*                                                                         *)
(* The invariant comes first, then what its operators on sequences do, the *)
(* end of a flush, which most actions may come to, one lemma per action,   *)
(* and the theorems; then, in the second part, that the tables agree.      *)
(***************************************************************************)
EXTENDS PageMigration, TLAPS, FiniteSetTheorems, SequenceTheorems

\* What the queue of flushes and the refused writebacks hold.
FlushEntries == [frame : Frames, block : Blocks, sent : BOOLEAN]
StalledEntries == [page : Frames, to : Frames]

\* Where the flushes of f are in q.
FlushesOf(q, f) == {i \in DOMAIN q : q[i].frame = f}

\* TypeOK in two halves: what the end of a flush changes, and the rest.
TableTypes ==
    /\ Mapped \subseteq Pages
    /\ \A v \in Mapped : pages[v] \in [frame : Frames, isMigrating : BOOLEAN, stallOnAccess : BOOLEAN]
    /\ DOMAIN physicalPages \subseteq Frames /\ \A f \in DOMAIN physicalPages : physicalPages[f] \in Pages
    /\ dramFree \subseteq DramFrames /\ pcmFree \subseteq PcmFrames
    /\ Migrating \subseteq Frames /\ \A f \in Migrating : migrations[f] \in Migration
    /\ migrationTableSize \in 0 .. MaxTableSize
    /\ demoting \in BOOLEAN
    /\ events \in [Kinds -> Nat]
    /\ stalledCpus \in [Pages -> SUBSET Cpus]
    /\ used \in [dram : 0 .. UsedModulus - 1, pcm : 0 .. UsedModulus - 1]
    /\ copies \subseteq Frames

FlushTypes ==
    /\ flushPolicy \in FlushPolicies
    /\ coresFinished \in BOOLEAN /\ registered \in BOOLEAN
    /\ flushQueue \in Seq(FlushEntries)
    /\ stalledRequests \in Seq(StalledEntries)
    /\ remaps \subseteq Frames /\ drains \subseteq Cpus \X Frames

\* The size of the table counts.
Sized == IsFiniteSet(Migrating) /\ migrationTableSize = Cardinality(Migrating)

\* The two flags of a page are those of its migration.
Flagged == \A v \in Mapped :
    /\ pages[v].isMigrating <=> pages[v].frame \in Migrating
    /\ pages[v].stallOnAccess <=>
           pages[v].frame \in Migrating /\ migrations[pages[v].frame].state # "COPY"

\* A migration is of the page in its source frame, to the other memory; only
\* promotions are rolled back.
Sourced == \A f \in Migrating :
    /\ f \in DOMAIN physicalPages /\ physicalPages[f] = migrations[f].virtualPage
    /\ InDram(f) # InDram(migrations[f].dest)
    /\ migrations[f].rolledBack => f \in PcmFrames

Drainers(d, f) == {c \in Cpus : <<c, f>> \in d}

\* What is under way (the flushes in q, the writebacks in s, the drains in d, the
\* remaps in r) is for the frames of M.
References(M, q, s, d, r) ==
    /\ \A i \in DOMAIN q : q[i].frame \in M
    /\ \A i \in DOMAIN s : s[i].page \in M
    /\ d \subseteq Cpus \X M
    /\ r \subseteq M

\* The counts of a migration are those of what is under way for it.
Counts(m, q, s, d) == \A f \in DOMAIN m :
    /\ m[f].flushesLeft = Cardinality(FlushesOf(q, f))
    /\ m[f].stalledLeft = Count(s, f)
    /\ m[f].drainsLeft = Cardinality(Drainers(d, f))

\* While a page is copied nothing else is under way for it, and flushes begin
\* when the cores have drained.
InTurn(m, r) == \A f \in DOMAIN m :
    /\ m[f].state = "COPY" => m[f].drainsLeft = 0 /\ IsFlushed(m[f]) /\ f \notin r
    /\ m[f].drainsLeft > 0 => IsFlushed(m[f])

\* Pages are either flushed or remapped.
ByPolicy == IF flushPolicy = "REMAP" THEN flushQueue = <<>> /\ stalledRequests = <<>> /\ drains = {}
            ELSE remaps = {}

Tables == TableTypes /\ EachFrameOnce /\ Sized /\ Flagged /\ Sourced
Flushes ==
    /\ FlushTypes
    /\ References(Migrating, flushQueue, stalledRequests, drains, remaps)
    /\ copies \subseteq Migrating
    /\ Counts(migrations, flushQueue, stalledRequests, drains)
    /\ InTurn(migrations, remaps)
    /\ ByPolicy
IInv == Tables /\ Flushes

-----------------------------------------------------------------------------
(* Places in sequences *)

\* The places in q of members of A.
Places(q, A) == {i \in DOMAIN q : q[i] \in A}

\* A sequence has a finite number of places.
LEMMA PlacesFinite ==
    ASSUME NEW S, NEW q \in Seq(S), NEW A
    PROVE  IsFiniteSet(Places(q, A)) /\ Cardinality(Places(q, A)) \in Nat
<1>1. DOMAIN q = 1 .. Len(q) /\ Len(q) \in Nat
    BY LenProperties
<1>2. IsFiniteSet(1 .. Len(q))
    BY <1>1, FS_Interval
<1>3. IsFiniteSet(Places(q, A))
    BY <1>1, <1>2, FS_Subset DEF Places
<1> QED
    BY <1>3, FS_CardinalityType

\* Places in q \o r are those in q and those in r.
LEMMA PlacesConcat ==
    ASSUME NEW S, NEW q \in Seq(S), NEW r \in Seq(S), NEW A
    PROVE  Cardinality(Places(q \o r, A)) = Cardinality(Places(q, A)) + Cardinality(Places(r, A))
<1> DEFINE right == {Len(q) + i : i \in Places(r, A)}
           shift == [i \in Places(r, A) |-> Len(q) + i]
<1>1. /\ Len(q) \in Nat /\ DOMAIN q = 1 .. Len(q)
      /\ Len(r) \in Nat /\ DOMAIN r = 1 .. Len(r)
    BY LenProperties
<1>2. q \o r \in Seq(S) /\ Len(q \o r) = Len(q) + Len(r)
    BY ConcatProperties
<1>3. DOMAIN (q \o r) = 1 .. Len(q) + Len(r)
    BY <1>2, LenProperties
<1>4. \A i \in 1 .. Len(q) + Len(r) : (q \o r)[i] = IF i <= Len(q) THEN q[i] ELSE r[i - Len(q)]
    BY ConcatProperties
<1>5. Places(q \o r, A) = Places(q, A) \cup right
    <2>1. ASSUME NEW i \in Places(q \o r, A) PROVE i \in Places(q, A) \cup right
        <3>1. i \in 1 .. Len(q) + Len(r) /\ (q \o r)[i] \in A
            BY <1>3 DEF Places
        <3>2. CASE i <= Len(q)
            BY <1>1, <1>4, <3>1, <3>2 DEF Places
        <3>3. CASE i > Len(q)
            <4>1. i - Len(q) \in Places(r, A)
                BY <1>1, <1>4, <3>1, <3>3 DEF Places
            <4>2. i = Len(q) + (i - Len(q))
                BY <1>1, <3>1
            <4> QED
                BY <4>1, <4>2
        <3> QED
            BY <1>1, <3>1, <3>2, <3>3
    <2>2. ASSUME NEW i \in Places(q, A) PROVE i \in Places(q \o r, A)
        BY <1>1, <1>3, <1>4 DEF Places
    <2>3. ASSUME NEW i \in Places(r, A) PROVE Len(q) + i \in Places(q \o r, A)
        BY <1>1, <1>3, <1>4 DEF Places
    <2> QED
        BY <2>1, <2>2, <2>3
<1>6. Places(q, A) \cap right = {}
    BY <1>1 DEF Places
<1>7. shift \in Bijection(Places(r, A), right)
    <2>1. Places(r, A) \subseteq Nat
        BY <1>1 DEF Places
    <2> QED
        BY <2>1, <1>1 DEF Bijection, Injection, Surjection, IsInjective
<1>8. IsFiniteSet(right) /\ Cardinality(right) = Cardinality(Places(r, A))
    BY <1>7, PlacesFinite, FS_Bijection DEF ExistsBijection
<1>9. Cardinality(Places(q, A) \cup right)
          = Cardinality(Places(q, A)) + Cardinality(right) - Cardinality(Places(q, A) \cap right)
    BY <1>8, PlacesFinite, FS_Union
<1>10. Cardinality(Places(q, A)) \in Nat /\ Cardinality(Places(r, A)) \in Nat
    BY PlacesFinite
<1>11. Cardinality(Places(q, A) \cap right) = 0
    BY <1>6, FS_EmptySet
<1> HIDE DEF right, shift
<1> QED
    BY <1>5, <1>8, <1>9, <1>10, <1>11

\* A sequence of one element has one place, if the element is in A.
LEMMA PlacesSingle ==
    ASSUME NEW S, NEW e \in S, NEW A
    PROVE  Cardinality(Places(<<e>>, A)) = IF e \in A THEN 1 ELSE 0
<1>1. Places(<<e>>, A) = IF e \in A THEN {1} ELSE {}
    BY DEF Places
<1> QED
    BY <1>1, FS_Singleton, FS_EmptySet

\* Append adds a place, if the element is in A.
LEMMA PlacesAppend ==
    ASSUME NEW S, NEW q \in Seq(S), NEW e \in S, NEW A
    PROVE  Cardinality(Places(Append(q, e), A))
               = Cardinality(Places(q, A)) + IF e \in A THEN 1 ELSE 0
<1>1. Append(q, e) = q \o <<e>> /\ <<e>> \in Seq(S)
    BY AppendIsConcat
<1>2. Cardinality(Places(q \o <<e>>, A)) = Cardinality(Places(q, A)) + Cardinality(Places(<<e>>, A))
    BY <1>1, PlacesConcat
<1>3. Cardinality(Places(<<e>>, A)) = IF e \in A THEN 1 ELSE 0
    BY PlacesSingle
<1> QED
    BY <1>1, <1>2, <1>3

\* Places are those in the first n elements and those in the others.
LEMMA PlacesSplit ==
    ASSUME NEW S, NEW q \in Seq(S), NEW A, NEW n \in 0 .. Len(q)
    PROVE  /\ SubSeq(q, 1, n) \in Seq(S) /\ SubSeq(q, n + 1, Len(q)) \in Seq(S)
           /\ Cardinality(Places(q, A)) = Cardinality(Places(SubSeq(q, 1, n), A))
                                              + Cardinality(Places(SubSeq(q, n + 1, Len(q)), A))
<1>1. Len(q) \in Nat /\ \A i \in 1 .. Len(q) : q[i] \in S
    BY LenProperties, ElementOfSeq
<1>2. SubSeq(q, 1, n) \in Seq(S) /\ SubSeq(q, n + 1, Len(q)) \in Seq(S)
    BY <1>1, SubSeqProperties
<1>3. q = SubSeq(q, 1, n) \o SubSeq(q, n + 1, Len(q))
    <2>1. q = SubSeq(q, 1, Len(q))
        BY SubSeqFull
    <2>2. 1 \in 1 .. Len(q) + 1 /\ n \in 1 - 1 .. Len(q) /\ Len(q) \in n .. Len(q)
        BY <1>1
    <2> QED
        BY <2>1, <2>2, ConcatAdjacentSubSeq
<1> DEFINE left == SubSeq(q, 1, n)
           right == SubSeq(q, n + 1, Len(q))
<1>4. Cardinality(Places(left \o right, A)) = Cardinality(Places(left, A)) + Cardinality(Places(right, A))
    <2> HIDE DEF left, right
    <2>1. left \in Seq(S) /\ right \in Seq(S)
        BY <1>2 DEF left, right
    <2> QED
        BY <2>1, PlacesConcat
<1> QED
    BY <1>2, <1>3, <1>4

\* RemoveAt takes the place of the element it removes, and no other.
LEMMA PlacesRemoved ==
    ASSUME NEW S, NEW q \in Seq(S), NEW A, NEW i \in DOMAIN q
    PROVE  /\ RemoveAt(q, i) \in Seq(S)
           /\ Cardinality(Places(RemoveAt(q, i), A))
                  = Cardinality(Places(q, A)) - IF q[i] \in A THEN 1 ELSE 0
           /\ Places(q, A) # {} \/ q[i] \notin A
<1> DEFINE left == SubSeq(q, 1, i - 1)
           right == SubSeq(q, i + 1, Len(q))
<1>1. Len(q) \in Nat /\ DOMAIN q = 1 .. Len(q) /\ i \in 1 .. Len(q) /\ q[i] \in S
    BY LenProperties, ElementOfSeq
<1>2. i - 1 \in 0 .. Len(q) /\ i \in 0 .. Len(q)
    BY <1>1
<1>3. left \in Seq(S) /\ right \in Seq(S)
    <2>1. (i - 1) + 1 = i
        BY <1>1
    <2> QED
        BY <1>2, PlacesSplit
<1>4. Cardinality(Places(q, A)) = Cardinality(Places(SubSeq(q, 1, i), A)) + Cardinality(Places(right, A))
    BY <1>2, PlacesSplit
<1>5. SubSeq(q, 1, i) = Append(left, q[i])
    <2>1. 1 \in 1 .. Len(q) /\ i \in 1 .. Len(q)
        BY <1>1
    <2>2. SubSeq(q, 1, i) = left \o <<q[i]>>
        BY <2>1, SubSeqRecursiveSecond
    <2> QED
        BY <1>1, <1>3, <2>2, AppendIsConcat
<1>6. Cardinality(Places(SubSeq(q, 1, i), A)) = Cardinality(Places(left, A)) + IF q[i] \in A THEN 1 ELSE 0
    <2>1. left \in Seq(S) /\ q[i] \in S
        BY <1>1, <1>3
    <2> HIDE DEF left
    <2>2. Cardinality(Places(Append(left, q[i]), A)) = Cardinality(Places(left, A)) + IF q[i] \in A THEN 1 ELSE 0
        BY <2>1, PlacesAppend
    <2> QED
        BY <1>5, <2>2
<1>7. RemoveAt(q, i) = left \o right
    BY DEF RemoveAt
<1>8. Cardinality(Places(RemoveAt(q, i), A)) = Cardinality(Places(left, A)) + Cardinality(Places(right, A))
    <2>1. left \in Seq(S) /\ right \in Seq(S)
        BY <1>3
    <2> HIDE DEF left, right
    <2>2. Cardinality(Places(left \o right, A)) = Cardinality(Places(left, A)) + Cardinality(Places(right, A))
        BY <2>1, PlacesConcat
    <2> QED
        BY <1>7, <2>2
<1>9. Cardinality(Places(left, A)) \in Nat /\ Cardinality(Places(right, A)) \in Nat
    BY <1>3, PlacesFinite
<1>10. left \o right \in Seq(S)
    BY <1>3, ConcatProperties
<1>11. Places(q, A) # {} \/ q[i] \notin A
    BY DEF Places
<1>12. Cardinality(Places(RemoveAt(q, i), A)) = Cardinality(Places(q, A)) - IF q[i] \in A THEN 1 ELSE 0
    <2> HIDE DEF left, right
    <2>1. CASE q[i] \in A
        BY <1>4, <1>6, <1>8, <1>9, <2>1
    <2>2. CASE q[i] \notin A
        BY <1>4, <1>6, <1>8, <1>9, <2>2
    <2> QED
        BY <2>1, <2>2
<1> QED
    <2> HIDE DEF left, right
    <2> QED
        BY <1>7, <1>10, <1>11, <1>12

\* What is left after RemoveAt was there before.
LEMMA RemovedAreThere ==
    ASSUME NEW S, NEW q \in Seq(S), NEW i \in DOMAIN q
    PROVE  \A j \in DOMAIN RemoveAt(q, i) : \E k \in DOMAIN q : RemoveAt(q, i)[j] = q[k]
<1> DEFINE A == {q[k] : k \in DOMAIN q}
<1>1. q \in Seq(A)
    BY LenProperties
<1>2. RemoveAt(q, i) \in Seq(A)
    BY <1>1, PlacesRemoved
<1>3. \A j \in DOMAIN RemoveAt(q, i) : RemoveAt(q, i)[j] \in A
    <2> HIDE DEF A
    <2> QED
        BY <1>2, LenProperties, ElementOfSeq
<1> QED
    BY <1>3

\* The flushes of f, as places.
LEMMA FlushesAreAt ==
    ASSUME NEW q \in Seq(FlushEntries), NEW f
    PROVE  FlushesOf(q, f) = Places(q, {e \in FlushEntries : e.frame = f})
<1>1. \A i \in DOMAIN q : q[i] \in FlushEntries
    BY LenProperties, ElementOfSeq
<1> QED
    BY <1>1 DEF FlushesOf, Places

\* They are finitely many.
LEMMA FlushesFinite ==
    ASSUME NEW q \in Seq(FlushEntries), NEW f
    PROVE  IsFiniteSet(FlushesOf(q, f)) /\ Cardinality(FlushesOf(q, f)) \in Nat
<1> DEFINE A == {e \in FlushEntries : e.frame = f}
<1>1. FlushesOf(q, f) = Places(q, A)
    BY FlushesAreAt
<1> HIDE DEF A
<1> QED
    BY <1>1, PlacesFinite

\* The writebacks of f, as places.
LEMMA StalledAreAt ==
    ASSUME NEW q \in Seq(StalledEntries), NEW f
    PROVE  Count(q, f) = Cardinality(Places(q, {e \in StalledEntries : e.page = f}))
<1>1. \A i \in DOMAIN q : q[i] \in StalledEntries
    BY LenProperties, ElementOfSeq
<1>2. {i \in DOMAIN q : q[i].page = f} = Places(q, {e \in StalledEntries : e.page = f})
    BY <1>1 DEF Places
<1> QED
    BY <1>2 DEF Count

\* SendFlushes changes what was sent and nothing else.
LEMMA SendFlushesKeeps ==
    ASSUME NEW q \in Seq(FlushEntries)
    PROVE  /\ SendFlushes(q) \in Seq(FlushEntries)
           /\ DOMAIN SendFlushes(q) = DOMAIN q
           /\ \A i \in DOMAIN q : SendFlushes(q)[i].frame = q[i].frame
           /\ \A f : FlushesOf(SendFlushes(q), f) = FlushesOf(q, f)
<1>1. Len(q) \in Nat /\ DOMAIN q = 1 .. Len(q) /\ \A i \in DOMAIN q : q[i] \in FlushEntries
    BY LenProperties, ElementOfSeq
<1> DEFINE sends(i) == q[i].sent \/ Cardinality({j \in 1 .. i : ~q[j].sent}) + Cardinality(Sent(q))
                                        <= MaxFlushQueueSize
<1>2. SendFlushes(q) = [i \in DOMAIN q |-> [q[i] EXCEPT !.sent = sends(i)]]
    BY DEF SendFlushes
<1>3. \A i : sends(i) \in BOOLEAN
    OBVIOUS
<1> HIDE DEF sends
<1>4. ASSUME NEW i \in DOMAIN q
      PROVE  SendFlushes(q)[i] \in FlushEntries /\ SendFlushes(q)[i].frame = q[i].frame
    BY <1>1, <1>2, <1>3 DEF FlushEntries
<1>5. SendFlushes(q) \in [1 .. Len(q) -> FlushEntries]
    BY <1>1, <1>2, <1>4
<1>6. SendFlushes(q) \in Seq(FlushEntries)
    BY <1>1, <1>5
<1>7. DOMAIN SendFlushes(q) = DOMAIN q
    BY <1>2
<1> QED
    BY <1>4, <1>6, <1>7 DEF FlushesOf

\* flushPage: the blocks of the page, and of no other, are added to the flushes.
LEMMA FlushPageAdds ==
    ASSUME NEW q \in Seq(FlushEntries), NEW f \in Frames, NEW r, r = SendFlushes(q \o BlocksOf(f))
    PROVE  /\ r \in Seq(FlushEntries)
           /\ \A i \in DOMAIN r : r[i].frame = f \/ \E j \in DOMAIN q : r[i].frame = q[j].frame
           /\ \A g : Cardinality(FlushesOf(r, g))
                         = Cardinality(FlushesOf(q, g)) + IF g = f THEN NumBlocks ELSE 0
<1>1. NumBlocks \in Nat
    BY PageMigrationAssumption
<1> DEFINE b == BlocksOf(f)
<1>2. DOMAIN b = 1 .. NumBlocks /\ \A i \in DOMAIN b : b[i].frame = f
    BY DEF BlocksOf
<1>3. b \in Seq(FlushEntries)
    <2>1. \A i \in 1 .. NumBlocks : [frame |-> f, block |-> i - 1, sent |-> FALSE] \in FlushEntries
        BY <1>1 DEF FlushEntries, Blocks
    <2>2. b \in [1 .. NumBlocks -> FlushEntries]
        BY <2>1 DEF BlocksOf
    <2> QED
        BY <1>1, <2>2
<1>4. ASSUME NEW g
      PROVE  Cardinality(FlushesOf(b, g)) = IF g = f THEN NumBlocks ELSE 0
    <2>1. FlushesOf(b, g) = IF g = f THEN 1 .. NumBlocks ELSE {}
        BY <1>2 DEF FlushesOf
    <2>2. Cardinality(1 .. NumBlocks) = NumBlocks
        BY <1>1, FS_Interval
    <2> QED
        BY <2>1, <2>2, FS_EmptySet
<1> HIDE DEF b
<1>5. q \o b \in Seq(FlushEntries) /\ Len(q \o b) = Len(q) + Len(b)
    BY <1>3, ConcatProperties
<1>6. ASSUME NEW g
      PROVE  Cardinality(FlushesOf(q \o b, g)) = Cardinality(FlushesOf(q, g)) + Cardinality(FlushesOf(b, g))
    <2> DEFINE A == {e \in FlushEntries : e.frame = g}
    <2>1. FlushesOf(q \o b, g) = Places(q \o b, A)
        BY <1>5, FlushesAreAt
    <2>2. FlushesOf(q, g) = Places(q, A) /\ FlushesOf(b, g) = Places(b, A)
        BY <1>3, FlushesAreAt
    <2> HIDE DEF A
    <2> QED
        BY <1>3, <2>1, <2>2, PlacesConcat
<1>7. /\ r \in Seq(FlushEntries) /\ DOMAIN r = DOMAIN (q \o b)
      /\ \A i \in DOMAIN (q \o b) : r[i].frame = (q \o b)[i].frame
      /\ \A g : FlushesOf(r, g) = FlushesOf(q \o b, g)
    BY <1>5, SendFlushesKeeps DEF b
<1>8. ASSUME NEW i \in DOMAIN r
      PROVE  r[i].frame = f \/ \E j \in DOMAIN q : r[i].frame = q[j].frame
    <2>1. Len(q) \in Nat /\ DOMAIN q = 1 .. Len(q) /\ Len(b) \in Nat /\ DOMAIN b = 1 .. Len(b)
        BY <1>3, LenProperties
    <2>2. i \in 1 .. Len(q) + Len(b)
        BY <1>5, <1>7, LenProperties
    <2>3. (q \o b)[i] = IF i <= Len(q) THEN q[i] ELSE b[i - Len(q)]
        BY <1>3, <2>2, ConcatProperties
    <2>4. CASE i <= Len(q)
        BY <1>7, <2>1, <2>2, <2>3, <2>4
    <2>5. CASE i > Len(q)
        <3>1. i - Len(q) \in DOMAIN b
            BY <2>1, <2>2, <2>5
        <3> QED
            BY <1>2, <1>7, <2>1, <2>2, <2>3, <2>5, <3>1
    <2> QED
        BY <2>1, <2>2, <2>4, <2>5
<1> QED
    BY <1>4, <1>6, <1>7, <1>8

\* The flushes of q are all for frames of M.
FlushesIn(q, M) == \A i \in DOMAIN q : q[i].frame \in M

\* flushCompleted: one flush of its page is gone from the queue, and no other.
LEMMA FlushCompletedRemoves ==
    ASSUME NEW q \in Seq(FlushEntries), NEW i \in DOMAIN q, NEW f, f = q[i].frame,
           NEW r, r = SendFlushes(RemoveAt(q, i)), NEW M, FlushesIn(q, M)
    PROVE  /\ r \in Seq(FlushEntries)
           /\ FlushesIn(r, M)
           /\ \A g : g # f => Cardinality(FlushesOf(r, g)) = Cardinality(FlushesOf(q, g))
           /\ Cardinality(FlushesOf(r, f)) = Cardinality(FlushesOf(q, f)) - 1
           /\ Cardinality(FlushesOf(q, f)) \in Nat \ {0}
<1> DEFINE p == RemoveAt(q, i)
           A(g) == {e \in FlushEntries : e.frame = g}
<1>1. q[i] \in FlushEntries
    BY LenProperties, ElementOfSeq
<1>2. p \in Seq(FlushEntries)
    BY PlacesRemoved
<1>3. ASSUME NEW g
      PROVE  Cardinality(Places(p, A(g))) = Cardinality(Places(q, A(g))) - IF g = q[i].frame THEN 1 ELSE 0
    <2>1. q[i] \in A(g) <=> g = q[i].frame
        BY <1>1
    <2> HIDE DEF A
    <2> QED
        BY <2>1, PlacesRemoved
<1>4. ASSUME NEW g
      PROVE  Cardinality(FlushesOf(p, g)) = Cardinality(FlushesOf(q, g)) - IF g = q[i].frame THEN 1 ELSE 0
    <2>1. FlushesOf(p, g) = Places(p, A(g)) /\ FlushesOf(q, g) = Places(q, A(g))
        <3>1. FlushesOf(q, g) = Places(q, A(g))
            BY FlushesAreAt
        <3> HIDE DEF p
        <3> QED
            BY <1>2, <3>1, FlushesAreAt
    <2> QED
        BY <1>3, <2>1
<1>5. \A j \in DOMAIN p : \E k \in DOMAIN q : p[j] = q[k]
    BY RemovedAreThere
<1>6. Cardinality(FlushesOf(q, f)) \in Nat \ {0}
    <2>1. i \in FlushesOf(q, f)
        BY DEF FlushesOf
    <2>2. IsFiniteSet(FlushesOf(q, f)) /\ Cardinality(FlushesOf(q, f)) \in Nat
        BY FlushesFinite
    <2> QED
        BY <2>1, <2>2, FS_EmptySet
<1> HIDE DEF p
<1>7. /\ r \in Seq(FlushEntries) /\ DOMAIN r = DOMAIN p
      /\ \A j \in DOMAIN p : r[j].frame = p[j].frame
      /\ \A g : FlushesOf(r, g) = FlushesOf(p, g)
    BY <1>2, SendFlushesKeeps DEF p
<1>8. FlushesIn(r, M)
    BY <1>5, <1>7 DEF FlushesIn
<1>9. ASSUME NEW g
      PROVE  Cardinality(FlushesOf(r, g)) = Cardinality(FlushesOf(q, g)) - IF g = f THEN 1 ELSE 0
    BY <1>4, <1>7
<1>10. \A g : g # f => Cardinality(FlushesOf(r, g)) = Cardinality(FlushesOf(q, g))
    BY <1>9, FlushesFinite
<1> QED
    BY <1>6, <1>7, <1>8, <1>9, <1>10

-----------------------------------------------------------------------------
(* The end of a flush *)

\* The migrations m are those of the table, but for what is left to be done for them.
Recounted(m) ==
    /\ DOMAIN m = Migrating
    /\ \A f \in Migrating :
           /\ m[f] \in Migration
           /\ m[f].virtualPage = migrations[f].virtualPage /\ m[f].dest = migrations[f].dest
           /\ m[f].state = migrations[f].state /\ m[f].rolledBack = migrations[f].rolledBack
           /\ m[f].needsCopying = migrations[f].needsCopying

\* What becomes of the migrations of F at the end of their flush: they turn
\* round, begin to copy, or end.
Turned(F, m) == {f \in F : m[f].rolledBack}
Begun(F, m) == {f \in F \ Turned(F, m) : m[f].state = "FLUSH_BEFORE"}
Ended(F, m) == F \ (Turned(F, m) \cup Begun(F, m))
Moved(F, m) == Turned(F, m) \cup Ended(F, m)

\* finishFlushing on the tables, without the CHOOSE.
Outcome(F, m) ==
    /\ Mapped' = Mapped
    /\ \A v \in Mapped : pages'[v] =
           IF pages[v].frame \notin F THEN pages[v]
           ELSE [frame |-> IF pages[v].frame \in Moved(F, m) THEN m[pages[v].frame].dest
                           ELSE pages[v].frame,
                 isMigrating |-> pages[v].frame \notin Ended(F, m),
                 stallOnAccess |-> FALSE]
    /\ DOMAIN physicalPages' = (DOMAIN physicalPages \ Moved(F, m))
                                   \cup {m[f].dest : f \in Moved(F, m)}
    /\ \A f \in DOMAIN physicalPages \ Moved(F, m) : physicalPages'[f] = physicalPages[f]
    /\ \A f \in Moved(F, m) : physicalPages'[m[f].dest] = m[f].virtualPage
    /\ Migrating' = (Migrating \ Moved(F, m)) \cup {m[f].dest : f \in Turned(F, m)}
    /\ \A f \in Migrating \ F : migrations'[f] = m[f]
    /\ \A f \in Begun(F, m) : migrations'[f] = [m[f] EXCEPT !.state = "COPY", !.needsCopying = TRUE]
    /\ \A f \in Turned(F, m) : migrations'[m[f].dest] = NewMigration(m[f].virtualPage, f, "COPY")

\* FinishFlushing has this outcome: destinations are distinct, so CHOOSE finds the only one.
LEMMA FinishFlushingDoes ==
    ASSUME Tables, NEW F \in SUBSET Migrating, NEW m, Recounted(m), NEW kind, FinishFlushing(F, m, kind)
    PROVE  Outcome(F, m)
<1> DEFINE rolledBack == {f \in F : m[f].rolledBack}
           before == {f \in F \ rolledBack : m[f].state = "FLUSH_BEFORE"}
           after == F \ (rolledBack \cup before)
           moved == rolledBack \cup after
           toCopy == [f \in before |-> [m[f] EXCEPT !.state = "COPY", !.needsCopying = TRUE]]
           newPlaces == {m[f].dest : f \in moved}
           oldOf(g) == CHOOSE f \in moved : m[f].dest = g
           back == [g \in {m[f].dest : f \in rolledBack} |->
                       NewMigration(m[oldOf(g)].virtualPage, oldOf(g), "COPY")]
<1>1. /\ rolledBack = Turned(F, m) /\ before = Begun(F, m)
      /\ after = Ended(F, m) /\ moved = Moved(F, m)
    BY DEF Turned, Begun, Ended, Moved
<1>2. ASSUME NEW f \in moved PROVE oldOf(m[f].dest) = f
    <2>1. \A g \in moved : m[g].dest = m[f].dest => g = f
        BY DEF Recounted, Tables, EachFrameOnce
    <2> QED
        BY <2>1
<1>3. \A f \in moved : m[f].dest \notin DOMAIN physicalPages /\ m[f].dest \notin Migrating
    <2>1. \A f \in Migrating : m[f].dest \in Destinations
        BY DEF Recounted, Destinations
    <2>2. DOMAIN physicalPages \cap Destinations = {} /\ Migrating \subseteq DOMAIN physicalPages
        BY DEF Tables, EachFrameOnce, Sourced
    <2> QED
        BY <2>1, <2>2
<1>4. pages' = [v \in Mapped |->
              IF pages[v].frame \notin F THEN pages[v]
              ELSE [frame |-> IF pages[v].frame \in moved THEN m[pages[v].frame].dest ELSE pages[v].frame,
                    isMigrating |-> pages[v].frame \notin after,
                    stallOnAccess |-> FALSE]]
    BY DEF FinishFlushing
<1>5. physicalPages' = With(Without(physicalPages, moved), [g \in newPlaces |-> m[oldOf(g)].virtualPage])
    BY DEF FinishFlushing
<1>6. migrations' = With(With(Without(m, moved), toCopy), back)
    BY DEF FinishFlushing
<1>7. /\ DOMAIN physicalPages' = (DOMAIN physicalPages \ moved) \cup newPlaces
      /\ \A f \in DOMAIN physicalPages \ moved : physicalPages'[f] = physicalPages[f]
      /\ \A f \in moved : physicalPages'[m[f].dest] = m[f].virtualPage
    <2>1. \A f \in moved : m[f].dest \in newPlaces /\ m[oldOf(m[f].dest)] = m[f]
        BY <1>2
    <2>2. \A g \in newPlaces : g \notin DOMAIN physicalPages
        BY <1>3
    <2> HIDE DEF oldOf, newPlaces, moved
    <2> QED
        BY <1>5, <2>1, <2>2 DEF With, Without
<1>8. /\ Migrating' = (Migrating \ moved) \cup {m[f].dest : f \in rolledBack}
      /\ \A f \in Migrating \ F : migrations'[f] = m[f]
      /\ \A f \in before : migrations'[f] = [m[f] EXCEPT !.state = "COPY", !.needsCopying = TRUE]
      /\ \A f \in rolledBack : migrations'[m[f].dest] = NewMigration(m[f].virtualPage, f, "COPY")
    <2> DEFINE kept == With(Without(m, moved), toCopy)
    <2>1. /\ before \subseteq Migrating \ moved /\ rolledBack \subseteq moved
          /\ DOMAIN m = Migrating
        BY DEF Recounted
    <2>2. /\ DOMAIN kept = Migrating \ moved
          /\ \A f \in before : kept[f] = [m[f] EXCEPT !.state = "COPY", !.needsCopying = TRUE]
          /\ \A f \in Migrating \ F : kept[f] = m[f]
        <3>1. F \subseteq Migrating /\ moved \subseteq F /\ before \subseteq F
            OBVIOUS
        <3>2. DOMAIN toCopy = before
              /\ \A f \in before : toCopy[f] = [m[f] EXCEPT !.state = "COPY", !.needsCopying = TRUE]
            OBVIOUS
        <3> HIDE DEF moved, before, toCopy
        <3> QED
            BY <2>1, <3>1, <3>2 DEF With, Without
    <2>3. DOMAIN back = {m[f].dest : f \in rolledBack}
        OBVIOUS
    <2>4. \A f \in rolledBack : back[m[f].dest] = NewMigration(m[f].virtualPage, f, "COPY")
        <3> SUFFICES ASSUME NEW f \in rolledBack
                     PROVE  back[m[f].dest] = NewMigration(m[f].virtualPage, f, "COPY")
            OBVIOUS
        <3>1. back[m[f].dest] = NewMigration(m[oldOf(m[f].dest)].virtualPage, oldOf(m[f].dest), "COPY")
            OBVIOUS
        <3> QED
            BY <1>2, <3>1
    <2>5. \A g \in DOMAIN back : g \notin Migrating
        BY <1>3
    <2>6. migrations' = With(kept, back)
        BY <1>6
    <2> HIDE DEF kept, back, moved, rolledBack, before
    <2>7. Migrating' = (Migrating \ moved) \cup {m[f].dest : f \in rolledBack}
        <3>1. DOMAIN With(kept, back) = DOMAIN kept \cup DOMAIN back
            BY DEF With
        <3> QED
            BY <2>2, <2>3, <2>6, <3>1 DEF Migrating
    <2>8. \A f \in DOMAIN kept : migrations'[f] = kept[f]
        BY <2>2, <2>5, <2>6 DEF With
    <2>9. \A g \in DOMAIN back : migrations'[g] = back[g]
        BY <2>6 DEF With
    <2>10. \A f \in Migrating \ F : f \in DOMAIN kept
        BY <2>2 DEF moved, rolledBack
    <2>11. \A f \in rolledBack : m[f].dest \in DOMAIN back
        BY <2>3
    <2> QED
        BY <2>1, <2>2, <2>4, <2>7, <2>8, <2>9, <2>10, <2>11
<1> HIDE DEF rolledBack, before, after, moved, toCopy, newPlaces, oldOf, back
<1>9. newPlaces = {m[f].dest : f \in moved}
    BY DEF newPlaces
<1>10. Mapped' = Mapped
    BY <1>4 DEF Mapped
<1>11. \A v \in Mapped : pages'[v] =
            IF pages[v].frame \notin F THEN pages[v]
            ELSE [frame |-> IF pages[v].frame \in moved THEN m[pages[v].frame].dest ELSE pages[v].frame,
                  isMigrating |-> pages[v].frame \notin after,
                  stallOnAccess |-> FALSE]
    BY <1>4
<1> QED
    BY <1>1, <1>7, <1>8, <1>9, <1>10, <1>11 DEF Outcome

\* The sizes of two sets without common elements add up.
LEMMA CardinalityOfDisjoint ==
    ASSUME NEW S, NEW T, IsFiniteSet(S), IsFiniteSet(T), S \cap T = {}
    PROVE  IsFiniteSet(S \cup T) /\ Cardinality(S \cup T) = Cardinality(S) + Cardinality(T)
<1>1. IsFiniteSet(S \cup T) /\ Cardinality(S \cup T) = Cardinality(S) + Cardinality(T) - Cardinality(S \cap T)
    BY FS_Union
<1>2. Cardinality(S) \in Nat /\ Cardinality(T) \in Nat /\ Cardinality(S \cap T) = 0
    BY FS_CardinalityType, FS_EmptySet
<1> QED
    BY <1>1, <1>2

\* Where the pages of the moved migrations go was reserved for them.
LEMMA DestinationsApart ==
    ASSUME Tables, NEW m, Recounted(m)
    PROVE  \A f \in Migrating :
               /\ m[f].dest \in Frames /\ m[f].dest \notin DOMAIN physicalPages
               /\ m[f].dest \notin Migrating /\ m[f].dest \notin dramFree \cup pcmFree
               /\ f \in DOMAIN physicalPages /\ m[f].virtualPage = physicalPages[f]
               /\ m[f].virtualPage \in Mapped /\ pages[m[f].virtualPage].frame = f
               /\ \A g \in Migrating : m[f].dest = m[g].dest => f = g
<1> SUFFICES ASSUME NEW f \in Migrating
             PROVE  /\ m[f].dest \in Frames /\ m[f].dest \notin DOMAIN physicalPages
                    /\ m[f].dest \notin Migrating /\ m[f].dest \notin dramFree \cup pcmFree
                    /\ f \in DOMAIN physicalPages /\ m[f].virtualPage = physicalPages[f]
                    /\ m[f].virtualPage \in Mapped /\ pages[m[f].virtualPage].frame = f
                    /\ \A g \in Migrating : m[f].dest = m[g].dest => f = g
    OBVIOUS
<1>1. m[f] \in Migration /\ m[f].dest = migrations[f].dest /\ m[f].virtualPage = migrations[f].virtualPage
    BY DEF Recounted
<1>2. m[f].dest \in Destinations /\ m[f].dest \in Frames
    BY <1>1 DEF Destinations, Migration
<1>3. f \in DOMAIN physicalPages /\ physicalPages[f] = m[f].virtualPage /\ Migrating \subseteq DOMAIN physicalPages
    BY <1>1 DEF Tables, Sourced
<1>4. /\ DOMAIN physicalPages = MappedFrames /\ MappedFrames \cap Destinations = {}
      /\ (dramFree \cup pcmFree) \cap Destinations = {}
    BY DEF Tables, EachFrameOnce
<1>5. PICK v \in Mapped : pages[v].frame = f
    BY <1>3, <1>4 DEF MappedFrames
<1>6. m[f].virtualPage = v
    BY <1>3, <1>5 DEF Tables, EachFrameOnce
<1>7. \A g \in Migrating : m[f].dest = m[g].dest => f = g
    BY DEF Recounted, Tables, EachFrameOnce
<1> QED
    BY <1>1, <1>2, <1>3, <1>4, <1>5, <1>6, <1>7

\* Migrations that turn round remain, under the other frame of their page.
LEMMA FinishFlushingCounts ==
    ASSUME Tables, NEW F \in SUBSET Migrating, NEW m, Recounted(m), NEW kind, FinishFlushing(F, m, kind)
    PROVE  /\ Sized'
           /\ IsFiniteSet(Ended(F, m)) /\ IsFiniteSet(Begun(F, m)) /\ IsFiniteSet(Turned(F, m))
<1> DEFINE turned == Turned(F, m)
           ended == Ended(F, m)
           begun == Begun(F, m)
           newOnes == {m[f].dest : f \in turned}
           stay == Migrating \ Moved(F, m)
           to == [f \in turned |-> m[f].dest]
<1>1. IsFiniteSet(Migrating) /\ migrationTableSize = Cardinality(Migrating)
    BY DEF Tables, Sized
<1>2. /\ turned \subseteq Migrating /\ ended \subseteq Migrating /\ begun \subseteq Migrating
      /\ turned \cap ended = {} /\ Moved(F, m) = turned \cup ended
      /\ stay \subseteq Migrating /\ Migrating = (stay \cup turned) \cup ended
      /\ stay \cap turned = {} /\ (stay \cup turned) \cap ended = {}
    BY DEF Turned, Ended, Begun, Moved
<1>3. IsFiniteSet(turned) /\ IsFiniteSet(ended) /\ IsFiniteSet(begun) /\ IsFiniteSet(stay)
    <2> HIDE DEF turned, ended, begun, stay
    <2> QED
        BY <1>1, <1>2, FS_Subset
<1>4. to \in Bijection(turned, newOnes)
    <2>1. \A f, g \in turned : m[f].dest = m[g].dest => f = g
        BY <1>2, DestinationsApart
    <2> HIDE DEF turned
    <2> QED
        BY <2>1 DEF Bijection, Injection, Surjection, IsInjective
<1>5. IsFiniteSet(newOnes) /\ Cardinality(newOnes) = Cardinality(turned)
    BY <1>3, <1>4, FS_Bijection DEF ExistsBijection
<1>6. newOnes \cap stay = {}
    BY <1>2, DestinationsApart
<1>7. Migrating' = stay \cup newOnes
    <2>1. Outcome(F, m)
        BY FinishFlushingDoes
    <2> QED
        BY <2>1 DEF Outcome
<1>8. migrationTableSize' = migrationTableSize - Cardinality(ended)
    <2>1. ended = F \ (Turned(F, m) \cup Begun(F, m))
        BY DEF Ended
    <2> QED
        BY <2>1 DEF FinishFlushing, Turned, Begun
<1> HIDE DEF turned, ended, begun, newOnes, stay, to
<1>9. /\ Cardinality(stay \cup newOnes) = Cardinality(stay) + Cardinality(newOnes)
      /\ IsFiniteSet(stay \cup newOnes)
    BY <1>3, <1>5, <1>6, CardinalityOfDisjoint
<1>10. /\ Cardinality(Migrating) = Cardinality(stay \cup turned) + Cardinality(ended)
       /\ Cardinality(stay \cup turned) = Cardinality(stay) + Cardinality(turned)
    BY <1>2, <1>3, CardinalityOfDisjoint
<1>11. /\ Cardinality(stay) \in Nat /\ Cardinality(turned) \in Nat /\ Cardinality(ended) \in Nat
    BY <1>3, FS_CardinalityType
<1>12. Sized'
    BY <1>1, <1>5, <1>7, <1>8, <1>9, <1>10, <1>11 DEF Sized
<1> QED
    BY <1>3, <1>12 DEF turned, ended, begun

\* The counters of the memory used stay below their modulus.
LEMMA UseKeepsType ==
    ASSUME used \in [dram : 0 .. UsedModulus - 1, pcm : 0 .. UsedModulus - 1],
           NEW d \in Int, NEW p \in Int, Use(d, p)
    PROVE  used' \in [dram : 0 .. UsedModulus - 1, pcm : 0 .. UsedModulus - 1]
<1>1. UsedModulus \in Nat \ {0}
    BY PageMigrationAssumption
<1>2. \A n \in Int : n % UsedModulus \in 0 .. UsedModulus - 1
    BY <1>1
<1>3. used.dram + d \in Int /\ used.pcm + p \in Int
    BY <1>1
<1> QED
    BY <1>2, <1>3 DEF Use

\* A migration that begins to copy, or is new, is one of Migration.
LEMMA MigrationTypes ==
    /\ \A x \in Migration : [x EXCEPT !.state = "COPY", !.needsCopying = TRUE] \in Migration
    /\ \A v \in Pages, f \in Frames, s \in {"FLUSH_BEFORE", "COPY", "FLUSH_AFTER"} :
           NewMigration(v, f, s) \in Migration
<1>1. ASSUME NEW x \in Migration
      PROVE  [x EXCEPT !.state = "COPY", !.needsCopying = TRUE] \in Migration
    BY DEF Migration
<1>2. ASSUME NEW v \in Pages, NEW f \in Frames, NEW s \in {"FLUSH_BEFORE", "COPY", "FLUSH_AFTER"}
      PROVE  NewMigration(v, f, s) \in Migration
    BY DEF Migration, NewMigration
<1> QED
    BY <1>1, <1>2

\* A flush that ends is that of migrations that are not being copied.
FlushEnds(F, m, kind) ==
    /\ FinishFlushing(F, m, kind)
    /\ \A f \in F : migrations[f].state # "COPY"
    /\ kind \in {"none", "UNSTALL"} /\ (kind = "UNSTALL" => events["UNSTALL"] > 0)

\* The end of a flush keeps the types of the tables.
LEMMA FinishFlushingTypes ==
    ASSUME Tables, NEW F \in SUBSET Migrating, NEW m, Recounted(m), NEW kind, FlushEnds(F, m, kind)
    PROVE  TableTypes'
<1> DEFINE turned == Turned(F, m)
           ended == Ended(F, m)
           begun == Begun(F, m)
           moved == Moved(F, m)
<1> USE DEF FlushEnds
<1>0. Outcome(F, m)
    BY FinishFlushingDoes
<1>1. /\ turned \subseteq F /\ ended \subseteq F /\ begun \subseteq F
      /\ moved = turned \cup ended /\ F = (turned \cup ended) \cup begun
    BY DEF Turned, Ended, Begun, Moved
<1>2. Mapped' \subseteq Pages /\ \A v \in Mapped' :
          pages'[v] \in [frame : Frames, isMigrating : BOOLEAN, stallOnAccess : BOOLEAN]
    <2>1. Mapped' = Mapped /\ Mapped \subseteq Pages
        BY <1>0 DEF Outcome, Tables, TableTypes
    <2>2. ASSUME NEW v \in Mapped
          PROVE  pages'[v] \in [frame : Frames, isMigrating : BOOLEAN, stallOnAccess : BOOLEAN]
        <3>1. pages[v] \in [frame : Frames, isMigrating : BOOLEAN, stallOnAccess : BOOLEAN]
            BY DEF Tables, TableTypes
        <3>2. pages[v].frame \in moved => m[pages[v].frame].dest \in Frames
            BY <1>1, DestinationsApart
        <3>3. pages'[v] = IF pages[v].frame \notin F THEN pages[v]
                  ELSE [frame |-> IF pages[v].frame \in moved THEN m[pages[v].frame].dest
                                  ELSE pages[v].frame,
                        isMigrating |-> pages[v].frame \notin ended,
                        stallOnAccess |-> FALSE]
            BY <1>0 DEF Outcome
        <3> HIDE DEF moved, ended
        <3> QED
            BY <3>1, <3>2, <3>3
    <2> QED
        BY <2>1, <2>2
<1>3. DOMAIN physicalPages' \subseteq Frames
      /\ \A f \in DOMAIN physicalPages' : physicalPages'[f] \in Pages
    <2>1. /\ DOMAIN physicalPages' = (DOMAIN physicalPages \ moved) \cup {m[f].dest : f \in moved}
          /\ \A f \in DOMAIN physicalPages \ moved : physicalPages'[f] = physicalPages[f]
          /\ \A f \in moved : physicalPages'[m[f].dest] = m[f].virtualPage
        BY <1>0 DEF Outcome
    <2>2. \A f \in moved : m[f].dest \in Frames /\ m[f].virtualPage \in Pages
        BY <1>1, DestinationsApart DEF Tables, TableTypes
    <2> HIDE DEF moved
    <2> QED
        BY <2>1, <2>2 DEF Tables, TableTypes
<1>4. dramFree' \subseteq DramFrames /\ pcmFree' \subseteq PcmFrames
    <2>1. /\ dramFree' = dramFree \cup (ended \cap DramFrames)
          /\ pcmFree' = pcmFree \cup (ended \ (ended \cap DramFrames))
        BY DEF FinishFlushing, Turned, Begun, Ended
    <2>2. ended \subseteq Frames
        BY <1>1 DEF Tables, TableTypes
    <2> QED
        BY <2>1, <2>2 DEF Tables, TableTypes, Frames
<1>5. Migrating' \subseteq Frames /\ \A f \in Migrating' : migrations'[f] \in Migration
    <2>1. /\ Migrating' = (Migrating \ moved) \cup {m[f].dest : f \in turned}
          /\ \A f \in Migrating \ F : migrations'[f] = m[f]
          /\ \A f \in begun : migrations'[f] = [m[f] EXCEPT !.state = "COPY", !.needsCopying = TRUE]
          /\ \A f \in turned : migrations'[m[f].dest] = NewMigration(m[f].virtualPage, f, "COPY")
        BY <1>0 DEF Outcome
    <2>2. \A f \in Migrating : m[f] \in Migration /\ f \in Frames
        BY DEF Recounted, Tables, TableTypes
    <2>3. \A f \in Migrating : m[f].dest \in Frames /\ m[f].virtualPage \in Pages
        BY DestinationsApart DEF Tables, TableTypes
    <2>4. ASSUME NEW f \in Migrating \ moved PROVE migrations'[f] \in Migration
        <3>1. f \in Migrating \ F \/ f \in begun
            BY <1>1
        <3>2. CASE f \in Migrating \ F
            BY <2>1, <2>2, <3>2
        <3>3. CASE f \in begun
            <4>1. m[f] \in Migration /\ migrations'[f] = [m[f] EXCEPT !.state = "COPY", !.needsCopying = TRUE]
                BY <2>1, <2>2, <3>3
            <4> QED
                BY <4>1, MigrationTypes
        <3> QED
            BY <3>1, <3>2, <3>3
    <2>5. ASSUME NEW f \in turned PROVE migrations'[m[f].dest] \in Migration
        <3>1. f \in Migrating
            BY <1>1
        <3> QED
            <4>1. migrations'[m[f].dest] = NewMigration(m[f].virtualPage, f, "COPY")
                BY <2>1
            <4>2. m[f].virtualPage \in Pages /\ f \in Frames
                BY <2>2, <2>3, <3>1
            <4> QED
                BY <4>1, <4>2, MigrationTypes
    <2>6. turned \subseteq Migrating
        BY <1>1
    <2>7. ASSUME NEW g \in Migrating' PROVE g \in Frames /\ migrations'[g] \in Migration
        <3>1. CASE g \in Migrating \ moved
            BY <2>2, <2>4, <3>1
        <3>2. CASE \E f \in turned : g = m[f].dest
            BY <2>3, <2>5, <2>6, <3>2
        <3> QED
            BY <2>1, <3>1, <3>2
    <2> QED
        BY <2>7
<1>6. migrationTableSize' \in 0 .. MaxTableSize
    <2>1. Sized' /\ IsFiniteSet(ended)
        BY FinishFlushingCounts
    <2>2. migrationTableSize' \in Nat /\ Cardinality(ended) \in Nat
        BY <2>1, FS_CardinalityType DEF Sized
    <2>3. migrationTableSize' = migrationTableSize - Cardinality(ended)
        BY DEF FinishFlushing, Turned, Begun, Ended
    <2>4. migrationTableSize \in 0 .. MaxTableSize /\ MaxTableSize \in Nat
        BY PageMigrationAssumption DEF Tables, TableTypes
    <2> HIDE DEF ended
    <2> QED
        BY <2>2, <2>3, <2>4
<1>7. demoting' \in BOOLEAN
    BY DEF FinishFlushing, Tables, TableTypes
<1>8. events' \in [Kinds -> Nat]
    <2>1. IsFiniteSet(begun) /\ IsFiniteSet(ended)
        BY FinishFlushingCounts
    <2>2. Cardinality(begun) \in Nat /\ IsFiniteSet(ended \cap DramFrames)
        <3> HIDE DEF begun, ended
        <3> QED
            BY <2>1, FS_CardinalityType, FS_Subset
    <2>3. Cardinality(ended \cap DramFrames) \in Nat
        BY <2>2, FS_CardinalityType
    <2>4. events' = [k \in Kinds |-> events[k] - (IF k = kind THEN 1 ELSE 0)
              + (CASE k = "COPY_PAGE" -> Cardinality(begun)
                   [] k = "DEMOTE" -> Cardinality(ended \cap DramFrames)
                   [] OTHER -> 0)]
        BY DEF FinishFlushing, Turned, Begun, Ended
    <2>5. events \in [Kinds -> Nat]
        BY DEF Tables, TableTypes
    <2> HIDE DEF begun, ended
    <2> DEFINE new(k) == events[k] - (IF k = kind THEN 1 ELSE 0)
                             + (CASE k = "COPY_PAGE" -> Cardinality(begun)
                                  [] k = "DEMOTE" -> Cardinality(ended \cap DramFrames)
                                  [] OTHER -> 0)
    <2>6. new("COPY_PAGE") \in Nat
        BY <2>2, <2>5 DEF Kinds
    <2>7. new("DEMOTE") \in Nat
        BY <2>3, <2>5 DEF Kinds
    <2>8. new("UNSTALL") \in Nat
        BY <2>5 DEF Kinds
    <2>9. \A k \in Kinds : new(k) \in Nat
        BY <2>6, <2>7, <2>8 DEF Kinds
    <2> QED
        BY <2>4, <2>9
<1>9. stalledCpus' \in [Pages -> SUBSET Cpus]
    BY DEF FinishFlushing, Tables, TableTypes
<1>10. used' \in [dram : 0 .. UsedModulus - 1, pcm : 0 .. UsedModulus - 1]
    <2>1. IsFiniteSet(turned) /\ IsFiniteSet(ended)
        BY FinishFlushingCounts
    <2>2. IsFiniteSet(ended \cap DramFrames) /\ IsFiniteSet(ended \ (ended \cap DramFrames))
        <3> HIDE DEF ended
        <3> QED
            BY <2>1, FS_Subset
    <2>3. /\ Cardinality(turned) \in Nat /\ Cardinality(ended \cap DramFrames) \in Nat
          /\ Cardinality(ended \ (ended \cap DramFrames)) \in Nat
        BY <2>1, <2>2, FS_CardinalityType
    <2>4. Use(-Cardinality(ended \cap DramFrames),
              Cardinality(turned) - Cardinality(ended \ (ended \cap DramFrames)))
        BY DEF FinishFlushing, Turned, Begun, Ended
    <2> HIDE DEF turned, ended
    <2> QED
        BY <2>3, <2>4, UseKeepsType DEF Tables, TableTypes
<1>11. copies' \subseteq Frames
    <2>1. copies' = (copies \ moved) \cup {m[f].dest : f \in turned}
        BY DEF FinishFlushing, Turned, Begun, Ended, Moved
    <2>2. \A f \in turned : m[f].dest \in Frames
        BY <1>1, DestinationsApart
    <2> HIDE DEF turned, moved
    <2> QED
        BY <2>1, <2>2 DEF Tables, TableTypes
<1> QED
    BY <1>2, <1>3, <1>4, <1>5, <1>6, <1>7, <1>8, <1>9, <1>10, <1>11 DEF TableTypes

\* What becomes of a page.
LEMMA OutcomeOfPage ==
    ASSUME NEW F, NEW m, Moved(F, m) \subseteq F, Outcome(F, m), NEW v \in Mapped
    PROVE  /\ pages[v].frame \notin F => pages'[v] = pages[v]
           /\ pages'[v].frame =
                  IF pages[v].frame \in Moved(F, m) THEN m[pages[v].frame].dest ELSE pages[v].frame
           /\ pages[v].frame \in F =>
                  /\ pages'[v].isMigrating <=> pages[v].frame \notin Ended(F, m)
                  /\ ~pages'[v].stallOnAccess
<1>1. CASE pages[v].frame \notin F
    <2>1. pages'[v] = pages[v]
        BY <1>1 DEF Outcome
    <2> QED
        BY <1>1, <2>1
<1>2. CASE pages[v].frame \in F
    <2> DEFINE frame == IF pages[v].frame \in Moved(F, m) THEN m[pages[v].frame].dest ELSE pages[v].frame
               flag == pages[v].frame \notin Ended(F, m)
    <2>1. pages'[v] = [frame |-> frame, isMigrating |-> flag, stallOnAccess |-> FALSE]
        BY <1>2 DEF Outcome
    <2>2. pages'[v].isMigrating = flag
        <3> HIDE DEF flag, frame
        <3> QED
            BY <2>1
    <2>3. pages'[v].frame = frame
        <3> HIDE DEF flag, frame
        <3> QED
            BY <2>1
    <2>4. pages'[v].stallOnAccess = FALSE
        <3> HIDE DEF flag, frame
        <3> QED
            BY <2>1
    <2>5. pages'[v].isMigrating <=> flag
        <3> HIDE DEF flag
        <3> QED
            BY <2>2, Zenon
    <2> QED
        BY <1>2, <2>3, <2>4, <2>5
<1> QED
    BY <1>1, <1>2

\* The end of a flush gives each frame it takes to one owner.
LEMMA FinishFlushingKeepsFrames ==
    ASSUME Tables, NEW F \in SUBSET Migrating, NEW m, Recounted(m), NEW kind, FlushEnds(F, m, kind)
    PROVE  EachFrameOnce'
<1> DEFINE turned == Turned(F, m)
           ended == Ended(F, m)
           moved == Moved(F, m)
           free == dramFree \cup pcmFree
           reserved == {m[f].dest : f \in turned}
           taken == {m[f].dest : f \in moved}
<1>0. Outcome(F, m)
    BY FinishFlushingDoes DEF FlushEnds
<1>1. /\ moved = turned \cup ended /\ turned \cap ended = {} /\ moved \subseteq Migrating
      /\ turned \subseteq moved /\ F \subseteq Migrating /\ moved \subseteq F
    BY DEF Turned, Ended, Begun, Moved
<1>2. \A f \in Migrating :
          /\ m[f].dest \in Frames /\ m[f].dest \notin MappedFrames /\ m[f].dest \notin free
          /\ f \in MappedFrames /\ f \in Frames
          /\ \A g \in Migrating : m[f].dest = m[g].dest => f = g
    BY DestinationsApart DEF Tables, TableTypes, EachFrameOnce
<1>3. dramFree' \cup pcmFree' = free \cup ended
    <2>1. /\ dramFree' = dramFree \cup (ended \cap DramFrames)
          /\ pcmFree' = pcmFree \cup (ended \ (ended \cap DramFrames))
        BY DEF FlushEnds, FinishFlushing, Turned, Begun, Ended
    <2> QED
        BY <2>1
<1>4. Destinations = {m[f].dest : f \in Migrating}
    BY DEF Destinations, Recounted
<1>5. \A f \in Migrating \ moved : migrations'[f].dest = m[f].dest
    <2>1. \A f \in Migrating \ moved : f \in Migrating \ F \/ f \in Begun(F, m)
        BY DEF Turned, Ended, Begun, Moved
    <2>2. \A f \in Begun(F, m) : migrations'[f].dest = m[f].dest
        <3> SUFFICES ASSUME NEW f \in Begun(F, m) PROVE migrations'[f].dest = m[f].dest
            OBVIOUS
        <3>1. migrations'[f] = [m[f] EXCEPT !.state = "COPY", !.needsCopying = TRUE] /\ f \in Migrating
            BY <1>0 DEF Outcome, Begun
        <3>2. m[f] \in Migration
            BY <3>1 DEF Recounted
        <3> QED
            BY <3>1, <3>2 DEF Migration
    <2> QED
        BY <1>0, <2>1, <2>2 DEF Outcome
<1>6. \A f \in turned : migrations'[m[f].dest].dest = f
    <2> SUFFICES ASSUME NEW f \in turned PROVE migrations'[m[f].dest].dest = f
        OBVIOUS
    <2>1. migrations'[m[f].dest] = NewMigration(m[f].virtualPage, f, "COPY")
        BY <1>0 DEF Outcome
    <2> QED
        BY <2>1 DEF NewMigration
<1>7. Migrating' = (Migrating \ moved) \cup reserved
    BY <1>0 DEF Outcome
<1>8. Destinations' = {m[f].dest : f \in Migrating \ moved} \cup turned
    <2>1. Destinations' = {migrations'[g].dest : g \in Migrating'}
        BY DEF Destinations
    <2> HIDE DEF turned, moved
    <2> QED
        BY <1>5, <1>6, <1>7, <2>1
<1>9. \A v \in Mapped : pages'[v].frame =
          IF pages[v].frame \in moved THEN m[pages[v].frame].dest ELSE pages[v].frame
    BY <1>0, <1>1, OutcomeOfPage
<1>10. MappedFrames' = (MappedFrames \ moved) \cup taken
    <2>1. MappedFrames' = {pages'[v].frame : v \in Mapped}
        BY <1>0 DEF MappedFrames, Outcome
    <2>2. MappedFrames = {pages[v].frame : v \in Mapped}
        BY DEF MappedFrames
    <2> HIDE DEF moved
    <2>3. \A f \in moved : \E v \in Mapped : pages[v].frame = f
        BY <1>1, <1>2, <2>2
    <2> QED
        BY <1>9, <2>1, <2>2, <2>3
<1>11. /\ Frames = free \cup MappedFrames \cup Destinations
       /\ free \cap (MappedFrames \cup Destinations) = {}
       /\ MappedFrames \cap Destinations = {}
       /\ DOMAIN physicalPages = MappedFrames
       /\ \A v \in Mapped : physicalPages[pages[v].frame] = v
    BY DEF Tables, EachFrameOnce
<1> HIDE DEF turned, ended, moved, free
<1>12. Frames = dramFree' \cup pcmFree' \cup MappedFrames' \cup Destinations'
    BY <1>1, <1>2, <1>3, <1>4, <1>8, <1>10, <1>11
<1>13. (dramFree' \cup pcmFree') \cap (MappedFrames' \cup Destinations') = {}
    BY <1>1, <1>2, <1>3, <1>8, <1>10, <1>11
<1>14. MappedFrames' \cap Destinations' = {}
    BY <1>1, <1>2, <1>4, <1>8, <1>10, <1>11
<1>15. \A f, g \in Migrating' : migrations'[f].dest = migrations'[g].dest => f = g
    <2>1. \A f \in Migrating \ moved, g \in turned : m[f].dest # g
        BY <1>1, <1>2
    <2>2. \A f \in Migrating' : \/ f \in Migrating \ moved /\ migrations'[f].dest = m[f].dest
                                \/ \E g \in turned : f = m[g].dest /\ migrations'[f].dest = g
        BY <1>5, <1>6, <1>7
    <2> QED
        BY <1>2, <2>1, <2>2
<1>16. DOMAIN physicalPages' = MappedFrames'
    BY <1>0, <1>10, <1>11 DEF Outcome, moved
<1>17. \A v \in Mapped' : physicalPages'[pages'[v].frame] = v
    <2> SUFFICES ASSUME NEW v \in Mapped PROVE physicalPages'[pages'[v].frame] = v
        BY <1>0 DEF Outcome
    <2>1. physicalPages[pages[v].frame] = v /\ pages[v].frame \in DOMAIN physicalPages
        BY <1>11 DEF MappedFrames
    <2>2. CASE pages[v].frame \in moved
        <3>1. m[pages[v].frame].virtualPage = v
            BY <1>1, <2>1, <2>2, DestinationsApart
        <3>2. physicalPages'[m[pages[v].frame].dest] = m[pages[v].frame].virtualPage
            BY <1>0, <2>2 DEF Outcome, moved
        <3> QED
            BY <1>9, <2>2, <3>1, <3>2
    <2>3. CASE pages[v].frame \notin moved
        <3>1. physicalPages'[pages[v].frame] = physicalPages[pages[v].frame]
            BY <1>0, <2>1, <2>3 DEF Outcome, moved
        <3> QED
            BY <1>9, <2>1, <2>3, <3>1
    <2> QED
        BY <2>2, <2>3
<1> QED
    BY <1>12, <1>13, <1>14, <1>15, <1>16, <1>17 DEF EachFrameOnce

\* The end of a flush keeps the tables.
LEMMA FinishFlushingKeepsTables ==
    ASSUME Tables, NEW F \in SUBSET Migrating, NEW m, Recounted(m), NEW kind, FlushEnds(F, m, kind)
    PROVE  Tables'
<1> DEFINE turned == Turned(F, m)
           begun == Begun(F, m)
           ended == Ended(F, m)
           moved == Moved(F, m)
<1>0. Outcome(F, m)
    BY FinishFlushingDoes DEF FlushEnds
<1>1. /\ moved = turned \cup ended /\ moved \subseteq Migrating /\ turned \subseteq moved
      /\ turned \cap ended = {} /\ F = moved \cup begun /\ begun \cap moved = {}
      /\ F \subseteq Migrating
    BY DEF Turned, Ended, Begun, Moved
<1>2. \A f \in Migrating :
          /\ m[f].dest \in Frames /\ m[f].dest \notin Migrating /\ m[f].dest \notin DOMAIN physicalPages
          /\ f \in DOMAIN physicalPages /\ m[f].virtualPage = physicalPages[f]
          /\ \A g \in Migrating : m[f].dest = m[g].dest => f = g
    BY DestinationsApart
<1>3. Migrating' = (Migrating \ moved) \cup {m[f].dest : f \in turned}
    BY <1>0 DEF Outcome
<1>4. /\ \A f \in Migrating \ F : migrations'[f] = m[f]
      /\ \A f \in begun : /\ migrations'[f].state = "COPY"
                          /\ migrations'[f].dest = m[f].dest
                          /\ migrations'[f].virtualPage = m[f].virtualPage
                          /\ migrations'[f].rolledBack = m[f].rolledBack
      /\ \A f \in turned : /\ migrations'[m[f].dest].state = "COPY"
                           /\ migrations'[m[f].dest].dest = f
                           /\ migrations'[m[f].dest].virtualPage = m[f].virtualPage
                           /\ ~migrations'[m[f].dest].rolledBack
    <2>1. \A f \in Migrating \ F : migrations'[f] = m[f]
        BY <1>0 DEF Outcome
    <2>2. ASSUME NEW f \in begun
          PROVE  /\ migrations'[f].state = "COPY"
                 /\ migrations'[f].dest = m[f].dest
                 /\ migrations'[f].virtualPage = m[f].virtualPage
                 /\ migrations'[f].rolledBack = m[f].rolledBack
        <3>1. migrations'[f] = [m[f] EXCEPT !.state = "COPY", !.needsCopying = TRUE]
            BY <1>0 DEF Outcome
        <3>2. m[f] \in Migration
            BY <1>1 DEF Recounted
        <3> QED
            BY <3>1, <3>2 DEF Migration
    <2>3. ASSUME NEW f \in turned
          PROVE  /\ migrations'[m[f].dest].state = "COPY"
                 /\ migrations'[m[f].dest].dest = f
                 /\ migrations'[m[f].dest].virtualPage = m[f].virtualPage
                 /\ ~migrations'[m[f].dest].rolledBack
        <3>1. migrations'[m[f].dest] = NewMigration(m[f].virtualPage, f, "COPY")
            BY <1>0 DEF Outcome
        <3> QED
            BY <3>1 DEF NewMigration
    <2> QED
        BY <2>1, <2>2, <2>3
<1>5. \A f \in Migrating :
          /\ InDram(f) # InDram(m[f].dest)
          /\ m[f].rolledBack => f \in PcmFrames
          /\ m[f].state = migrations[f].state
    BY DEF Recounted, Tables, Sourced
<1>6. Flagged'
    <2> SUFFICES ASSUME NEW v \in Mapped
                 PROVE  /\ pages'[v].isMigrating <=> pages'[v].frame \in Migrating'
                        /\ pages'[v].stallOnAccess <=>
                               pages'[v].frame \in Migrating' /\ migrations'[pages'[v].frame].state # "COPY"
        BY <1>0 DEF Outcome, Flagged
    <2> DEFINE f == pages[v].frame
    <2>1. /\ pages[v].isMigrating <=> f \in Migrating
          /\ pages[v].stallOnAccess <=> f \in Migrating /\ migrations[f].state # "COPY"
          /\ f \in DOMAIN physicalPages
        BY DEF Tables, Flagged, EachFrameOnce, MappedFrames
    <2>2. /\ f \notin F => pages'[v] = pages[v]
          /\ pages'[v].frame = IF f \in moved THEN m[f].dest ELSE f
          /\ f \in F => (pages'[v].isMigrating <=> f \notin ended) /\ ~pages'[v].stallOnAccess
        BY <1>0, <1>1, OutcomeOfPage
    <2> HIDE DEF f, turned, begun, ended, moved
    <2>3. CASE f \notin F
        <3>1. pages'[v] = pages[v] /\ pages[v].frame = f
            BY <2>2, <2>3 DEF f
        <3>2. f \in Migrating' <=> f \in Migrating
            BY <1>1, <1>2, <1>3, <2>1, <2>3
        <3>3. f \in Migrating => migrations'[f].state = migrations[f].state
            BY <1>4, <1>5, <2>3
        <3> QED
            BY <2>1, <3>1, <3>2, <3>3
    <2>4. CASE f \in begun
        <3>1. pages'[v].frame = f /\ pages'[v].isMigrating /\ ~pages'[v].stallOnAccess
            BY <1>1, <2>2, <2>4
        <3>2. f \in Migrating'
            BY <1>1, <1>3, <2>4
        <3> QED
            BY <1>4, <2>4, <3>1, <3>2
    <2>5. CASE f \in turned
        <3>1. pages'[v].frame = m[f].dest /\ pages'[v].isMigrating /\ ~pages'[v].stallOnAccess
            BY <1>1, <2>2, <2>5
        <3>2. m[f].dest \in Migrating'
            BY <1>3, <2>5
        <3> QED
            BY <1>4, <2>5, <3>1, <3>2
    <2>6. CASE f \in ended
        <3>1. pages'[v].frame = m[f].dest /\ ~pages'[v].isMigrating /\ ~pages'[v].stallOnAccess
            BY <1>1, <2>2, <2>6
        <3>2. m[f].dest \notin Migrating'
            BY <1>1, <1>2, <1>3, <2>6
        <3> QED
            BY <3>1, <3>2
    <2> QED
        BY <1>1, <2>3, <2>4, <2>5, <2>6
<1>7. Sourced'
    <2>1. /\ DOMAIN physicalPages' = (DOMAIN physicalPages \ moved) \cup {m[f].dest : f \in moved}
          /\ \A f \in DOMAIN physicalPages \ moved : physicalPages'[f] = physicalPages[f]
          /\ \A f \in moved : physicalPages'[m[f].dest] = m[f].virtualPage
        BY <1>0 DEF Outcome
    <2> HIDE DEF turned, begun, ended, moved
    <2>2. ASSUME NEW f \in Migrating \ moved
          PROVE  /\ f \in DOMAIN physicalPages' /\ physicalPages'[f] = migrations'[f].virtualPage
                 /\ InDram(f) # InDram(migrations'[f].dest)
                 /\ migrations'[f].rolledBack => f \in PcmFrames
        <3>1. f \in DOMAIN physicalPages' /\ physicalPages'[f] = m[f].virtualPage
            BY <1>2, <2>1
        <3>2. /\ migrations'[f].virtualPage = m[f].virtualPage /\ migrations'[f].dest = m[f].dest
              /\ migrations'[f].rolledBack = m[f].rolledBack
            BY <1>1, <1>4
        <3> QED
            BY <1>5, <3>1, <3>2
    <2>3. ASSUME NEW f \in turned
          PROVE  /\ m[f].dest \in DOMAIN physicalPages'
                 /\ physicalPages'[m[f].dest] = migrations'[m[f].dest].virtualPage
                 /\ InDram(m[f].dest) # InDram(migrations'[m[f].dest].dest)
                 /\ ~migrations'[m[f].dest].rolledBack
        BY <1>1, <1>4, <1>5, <2>1
    <2>4. Sourced' <=> \A f \in Migrating' :
              /\ f \in DOMAIN physicalPages' /\ physicalPages'[f] = migrations'[f].virtualPage
              /\ InDram(f) # InDram(migrations'[f].dest)
              /\ migrations'[f].rolledBack => f \in PcmFrames
        BY DEF Sourced
    <2> QED
        BY <1>3, <2>2, <2>3, <2>4
<1>8. TableTypes' /\ EachFrameOnce' /\ Sized'
    BY FinishFlushingTypes, FinishFlushingKeepsFrames, FinishFlushingCounts DEF FlushEnds
<1> QED
    BY <1>6, <1>7, <1>8 DEF Tables

\* Nothing is under way for f.
Idle(q, s, d, f) ==
    /\ \A i \in DOMAIN q : q[i].frame # f
    /\ \A i \in DOMAIN s : s[i].page # f
    /\ \A c \in Cpus : <<c, f>> \notin d

\* The writebacks of f are finitely many.
LEMMA StalledFinite ==
    ASSUME NEW s \in Seq(StalledEntries), NEW f
    PROVE  IsFiniteSet({i \in DOMAIN s : s[i].page = f}) /\ Count(s, f) \in Nat
<1>1. DOMAIN s = 1 .. Len(s) /\ Len(s) \in Nat
    BY LenProperties
<1>2. IsFiniteSet({i \in DOMAIN s : s[i].page = f})
    <2>1. IsFiniteSet(1 .. Len(s)) /\ {i \in DOMAIN s : s[i].page = f} \subseteq 1 .. Len(s)
        BY <1>1, FS_Interval
    <2> QED
        BY <2>1, FS_Subset
<1> QED
    BY <1>2, FS_CardinalityType DEF Count

\* The cores that drain for f are finitely many.
LEMMA DrainersFinite ==
    ASSUME NEW d, NEW f
    PROVE  IsFiniteSet(Drainers(d, f)) /\ Cardinality(Drainers(d, f)) \in Nat
<1>1. Drainers(d, f) \subseteq Cpus /\ IsFiniteSet(Cpus)
    BY PageMigrationAssumption DEF Drainers
<1>2. IsFiniteSet(Drainers(d, f))
    BY <1>1, FS_Subset
<1> QED
    BY <1>2, FS_CardinalityType

\* When nothing is under way for f, every count of it is zero.
LEMMA IdleCounts ==
    ASSUME NEW q \in Seq(FlushEntries), NEW s \in Seq(StalledEntries), NEW d, NEW f
    PROVE  Idle(q, s, d, f) <=> /\ Cardinality(FlushesOf(q, f)) = 0
                                /\ Count(s, f) = 0
                                /\ Cardinality(Drainers(d, f)) = 0
<1>1. Cardinality(FlushesOf(q, f)) = 0 <=> FlushesOf(q, f) = {}
    BY FlushesFinite, FS_EmptySet
<1>2. Count(s, f) = 0 <=> {i \in DOMAIN s : s[i].page = f} = {}
    BY StalledFinite, FS_EmptySet DEF Count
<1>3. Cardinality(Drainers(d, f)) = 0 <=> Drainers(d, f) = {}
    BY DrainersFinite, FS_EmptySet
<1>4. FlushesOf(q, f) = {} <=> \A i \in DOMAIN q : q[i].frame # f
    BY DEF FlushesOf
<1>5. {i \in DOMAIN s : s[i].page = f} = {} <=> \A i \in DOMAIN s : s[i].page # f
    OBVIOUS
<1>6. Drainers(d, f) = {} <=> \A c \in Cpus : <<c, f>> \notin d
    BY DEF Drainers
<1> QED
    BY <1>1, <1>2, <1>3, <1>4, <1>5, <1>6 DEF Idle

\* The end of a flush keeps what is under way for the other migrations.
LEMMA FinishFlushingKeepsFlushes ==
    ASSUME Tables, NEW F \in SUBSET Migrating, NEW m, Recounted(m), NEW kind, FlushEnds(F, m, kind),
           FlushTypes', ByPolicy', copies \subseteq Migrating,
           References(Migrating, flushQueue', stalledRequests', drains', remaps'),
           Counts(m, flushQueue', stalledRequests', drains'),
           InTurn(m, remaps'),
           \A f \in F : IsFlushed(m[f]) /\ m[f].drainsLeft = 0 /\ f \notin remaps'
    PROVE  Flushes'
<1> DEFINE turned == Turned(F, m)
           begun == Begun(F, m)
           moved == Moved(F, m)
           Nothing(f) == Idle(flushQueue', stalledRequests', drains', f)
<1>0. Outcome(F, m) /\ DOMAIN m = Migrating
    BY FinishFlushingDoes DEF FlushEnds, Recounted
<1>1. /\ flushQueue' \in Seq(FlushEntries) /\ stalledRequests' \in Seq(StalledEntries)
      /\ drains' \subseteq Cpus \X Frames
    BY DEF FlushTypes
<1>2. \A f : Nothing(f) <=> /\ Cardinality(FlushesOf(flushQueue', f)) = 0
                            /\ Count(stalledRequests', f) = 0
                            /\ Cardinality(Drainers(drains', f)) = 0
    BY <1>1, IdleCounts
<1>3. \A f \in F : Nothing(f) /\ f \notin remaps'
    BY <1>0, <1>2 DEF Counts, IsFlushed
<1>4. \A f : f \notin Migrating => Nothing(f) /\ f \notin remaps'
    BY DEF References, Idle
<1>5. /\ turned \subseteq moved /\ moved \subseteq F /\ F \subseteq Migrating
      /\ \A f \in Migrating \ moved : f \in Migrating \ F \/ f \in begun
      /\ begun \subseteq F
    BY DEF Turned, Begun, Ended, Moved
<1>6. Migrating' = (Migrating \ moved) \cup {m[f].dest : f \in turned}
    BY <1>0 DEF Outcome
<1>7. \A f \in turned : m[f].dest \notin Migrating
    BY <1>5, DestinationsApart
<1>8. \A f \in Migrating' :
          \/ f \in Migrating \ F /\ migrations'[f] = m[f]
          \/ /\ Nothing(f) /\ f \notin remaps'
             /\ migrations'[f].drainsLeft = 0 /\ IsFlushed(migrations'[f])
    <2>1. ASSUME NEW f \in Migrating \ F PROVE migrations'[f] = m[f]
        BY <1>0 DEF Outcome
    <2>2. ASSUME NEW f \in begun PROVE migrations'[f].drainsLeft = 0 /\ IsFlushed(migrations'[f])
        <3>1. migrations'[f] = [m[f] EXCEPT !.state = "COPY", !.needsCopying = TRUE]
            BY <1>0 DEF Outcome
        <3>2. m[f] \in Migration /\ m[f].drainsLeft = 0 /\ IsFlushed(m[f])
            BY <1>5 DEF Recounted
        <3> QED
            BY <3>1, <3>2 DEF Migration, IsFlushed
    <2>3. ASSUME NEW f \in turned
          PROVE  migrations'[m[f].dest].drainsLeft = 0 /\ IsFlushed(migrations'[m[f].dest])
        <3>1. migrations'[m[f].dest] = NewMigration(m[f].virtualPage, f, "COPY")
            BY <1>0 DEF Outcome
        <3> QED
            BY <3>1 DEF NewMigration, IsFlushed
    <2> HIDE DEF turned, begun, moved, Nothing
    <2> SUFFICES ASSUME NEW f \in Migrating'
                 PROVE  \/ f \in Migrating \ F /\ migrations'[f] = m[f]
                        \/ /\ Nothing(f) /\ f \notin remaps'
                           /\ migrations'[f].drainsLeft = 0 /\ IsFlushed(migrations'[f])
        OBVIOUS
    <2>4. CASE f \in Migrating \ F
        BY <2>1, <2>4
    <2>5. CASE f \in begun
        BY <1>3, <1>5, <2>2, <2>5
    <2>6. CASE \E g \in turned : f = m[g].dest
        BY <1>4, <1>7, <2>3, <2>6
    <2> QED
        BY <1>5, <1>6, <2>4, <2>5, <2>6
<1>9. Migrating \ F \subseteq Migrating'
    BY <1>5, <1>6
<1>10. References(Migrating', flushQueue', stalledRequests', drains', remaps')
    <2>1. \A i \in DOMAIN flushQueue' : flushQueue'[i].frame \in Migrating \ F
        BY <1>3 DEF References, Idle
    <2>2. \A i \in DOMAIN stalledRequests' : stalledRequests'[i].page \in Migrating \ F
        BY <1>3 DEF References, Idle
    <2>3. drains' \subseteq Cpus \X (Migrating \ F)
        BY <1>3 DEF References, Idle
    <2>4. remaps' \subseteq Migrating \ F
        BY <1>3 DEF References
    <2> QED
        BY <1>9, <2>1, <2>2, <2>3, <2>4 DEF References
<1>11. copies' \subseteq Migrating'
    <2>1. copies' = (copies \ moved) \cup {m[f].dest : f \in turned}
        BY DEF FlushEnds, FinishFlushing, Turned, Begun, Ended, Moved
    <2> QED
        BY <1>6, <2>1
<1>12. Counts(migrations, flushQueue, stalledRequests, drains)'
    <2> SUFFICES ASSUME NEW f \in Migrating'
                 PROVE  /\ migrations'[f].flushesLeft = Cardinality(FlushesOf(flushQueue', f))
                        /\ migrations'[f].stalledLeft = Count(stalledRequests', f)
                        /\ migrations'[f].drainsLeft = Cardinality(Drainers(drains', f))
        BY DEF Counts, FlushesOf, Count, Drainers, Migrating
    <2> HIDE DEF Nothing
    <2>1. CASE f \in Migrating \ F /\ migrations'[f] = m[f]
        BY <1>0, <2>1 DEF Counts
    <2>2. CASE /\ Nothing(f)
               /\ migrations'[f].drainsLeft = 0 /\ IsFlushed(migrations'[f])
        BY <1>2, <2>2 DEF IsFlushed
    <2> QED
        BY <1>8, <2>1, <2>2
<1>13. InTurn(migrations, remaps)'
    <2> SUFFICES ASSUME NEW f \in Migrating'
                 PROVE  /\ migrations'[f].state = "COPY" =>
                               migrations'[f].drainsLeft = 0 /\ IsFlushed(migrations'[f]) /\ f \notin remaps'
                        /\ migrations'[f].drainsLeft > 0 => IsFlushed(migrations'[f])
        BY DEF InTurn, IsFlushed, Migrating
    <2>1. CASE f \in Migrating \ F /\ migrations'[f] = m[f]
        BY <1>0, <2>1 DEF InTurn
    <2>2. CASE /\ f \notin remaps'
               /\ migrations'[f].drainsLeft = 0 /\ IsFlushed(migrations'[f])
        BY <2>2
    <2> QED
        BY <1>8, <2>1, <2>2
<1> QED
    BY <1>10, <1>11, <1>12, <1>13 DEF Flushes, References, Idle

-----------------------------------------------------------------------------
(* The actions *)

\* The initial states: nothing is mapped, nothing is under way.
LEMMA InitIsGood == Init => IInv
<1> SUFFICES ASSUME Init PROVE IInv
    OBVIOUS
<1> USE DEF Init
<1>1. Mapped = {} /\ Migrating = {} /\ DOMAIN physicalPages = {} /\ MappedFrames = {} /\ Destinations = {}
    BY DEF Mapped, Migrating, MappedFrames, Destinations
<1>2. TableTypes
    <2>1. UsedModulus \in Nat \ {0} /\ MaxTableSize \in Nat
        BY PageMigrationAssumption
    <2>2. used \in [dram : 0 .. UsedModulus - 1, pcm : 0 .. UsedModulus - 1]
        BY <2>1
    <2>3. events \in [Kinds -> Nat]
        BY DEF Kinds
    <2>4. stalledCpus \in [Pages -> SUBSET Cpus]
        OBVIOUS
    <2>5. Mapped \subseteq Pages /\ \A v \in Mapped :
              pages[v] \in [frame : Frames, isMigrating : BOOLEAN, stallOnAccess : BOOLEAN]
        BY <1>1
    <2>6. DOMAIN physicalPages \subseteq Frames
          /\ \A f \in DOMAIN physicalPages : physicalPages[f] \in Pages
        BY <1>1
    <2>7. Migrating \subseteq Frames /\ \A f \in Migrating : migrations[f] \in Migration
        BY <1>1
    <2>8. migrationTableSize \in 0 .. MaxTableSize
        BY <2>1
    <2>9. dramFree \subseteq DramFrames /\ pcmFree \subseteq PcmFrames /\ demoting \in BOOLEAN
          /\ copies \subseteq Frames
        OBVIOUS
    <2> HIDE DEF Init
    <2> QED
        BY <2>2, <2>3, <2>4, <2>5, <2>6, <2>7, <2>8, <2>9 DEF TableTypes
<1>3. EachFrameOnce
    BY <1>1 DEF EachFrameOnce, Frames
<1>4. Sized
    BY <1>1, FS_EmptySet DEF Sized
<1>5. Flagged /\ Sourced
    BY <1>1 DEF Flagged, Sourced
<1>6. FlushTypes
    <2>1. flushQueue \in Seq(FlushEntries) /\ stalledRequests \in Seq(StalledEntries)
        BY EmptySeq
    <2> QED
        BY <2>1 DEF FlushTypes
<1>7. References(Migrating, flushQueue, stalledRequests, drains, remaps) /\ copies \subseteq Migrating
    BY <1>1 DEF References
<1>8. Counts(migrations, flushQueue, stalledRequests, drains) /\ InTurn(migrations, remaps)
    BY <1>1 DEF Counts, InTurn, Migrating
<1>9. ByPolicy
    BY DEF ByPolicy
<1> QED
    BY <1>2, <1>3, <1>4, <1>5, <1>6, <1>7, <1>8, <1>9 DEF IInv, Tables, Flushes

\* What Flushes says is untouched by steps that change none of its variables.
LEMMA FlushesStay ==
    ASSUME Flushes, UNCHANGED <<flushVars, drainVars, migrations, copies>>, coresFinished' \in BOOLEAN
    PROVE  Flushes'
BY DEF Flushes, FlushTypes, References, Counts, InTurn, ByPolicy, FlushesOf, Count, Drainers, IsFlushed,
       Migrating, flushVars, drainVars

\* A page gets a frame that was free.
LEMMA AllocateKeeps ==
    ASSUME IInv, NEW v \in Pages, Allocate(v)
    PROVE  IInv'
<1>1. PICK f \in dramFree \cup pcmFree :
          /\ v \notin Mapped
          /\ pages' = With(pages, Entry(v, [frame |-> f, isMigrating |-> FALSE, stallOnAccess |-> FALSE]))
          /\ physicalPages' = With(physicalPages, Entry(f, v))
          /\ dramFree' = dramFree \ {f} /\ pcmFree' = pcmFree \ {f}
          /\ IF InDram(f) THEN Use(1, 0) ELSE Use(0, 1)
          /\ UNCHANGED <<flushVars, drainVars, migrations, migrationTableSize, demoting, events,
                         coresFinished, stalledCpus, copies>>
    BY DEF Allocate
<1> DEFINE p == [frame |-> f, isMigrating |-> FALSE, stallOnAccess |-> FALSE]
<1>2. f \in Frames /\ f \notin MappedFrames /\ f \notin Destinations /\ f \notin Migrating
    BY DEF IInv, Tables, TableTypes, EachFrameOnce, Frames, Sourced
<1>3. /\ Mapped' = Mapped \cup {v} /\ pages'[v] = p
      /\ \A u \in Mapped : u # v /\ pages'[u] = pages[u]
    BY <1>1 DEF With, Entry, Mapped
<1>4. /\ DOMAIN physicalPages = MappedFrames
      /\ DOMAIN physicalPages' = DOMAIN physicalPages \cup {f} /\ physicalPages'[f] = v
      /\ \A g \in DOMAIN physicalPages : g # f /\ physicalPages'[g] = physicalPages[g]
    BY <1>1, <1>2 DEF With, Entry, IInv, Tables, EachFrameOnce
<1>5. MappedFrames' = MappedFrames \cup {f}
    BY <1>3 DEF MappedFrames
<1>6. Migrating' = Migrating /\ Destinations' = Destinations /\ migrations' = migrations
    BY <1>1 DEF Migrating, Destinations
<1>7. EachFrameOnce'
    <2>1. \A u \in Mapped' : physicalPages'[pages'[u].frame] = u
        BY <1>2, <1>3, <1>4 DEF IInv, Tables, EachFrameOnce, MappedFrames
    <2>2. \A g, h \in Migrating' : migrations'[g].dest = migrations'[h].dest => g = h
        BY <1>6 DEF IInv, Tables, EachFrameOnce
    <2>3. Frames = dramFree' \cup pcmFree' \cup MappedFrames' \cup Destinations'
        BY <1>1, <1>2, <1>5, <1>6 DEF IInv, Tables, EachFrameOnce
    <2>4. /\ (dramFree' \cup pcmFree') \cap (MappedFrames' \cup Destinations') = {}
          /\ MappedFrames' \cap Destinations' = {}
        BY <1>1, <1>2, <1>5, <1>6 DEF IInv, Tables, EachFrameOnce
    <2> QED
        BY <1>4, <1>5, <2>1, <2>2, <2>3, <2>4 DEF EachFrameOnce
<1>8. TableTypes'
    <2>1. used' \in [dram : 0 .. UsedModulus - 1, pcm : 0 .. UsedModulus - 1]
        BY <1>1, UseKeepsType DEF IInv, Tables, TableTypes
    <2>2. Mapped' \subseteq Pages /\ \A u \in Mapped' :
              pages'[u] \in [frame : Frames, isMigrating : BOOLEAN, stallOnAccess : BOOLEAN]
        <3>1. p \in [frame : Frames, isMigrating : BOOLEAN, stallOnAccess : BOOLEAN]
            BY <1>2
        <3> HIDE DEF p
        <3> QED
            BY <1>3, <3>1 DEF IInv, Tables, TableTypes
    <2>3. DOMAIN physicalPages' \subseteq Frames
          /\ \A g \in DOMAIN physicalPages' : physicalPages'[g] \in Pages
        BY <1>2, <1>4 DEF IInv, Tables, TableTypes
    <2> QED
        BY <1>1, <1>6, <2>1, <2>2, <2>3 DEF IInv, Tables, TableTypes
<1>9. Sized'
    BY <1>1, <1>6 DEF IInv, Tables, Sized
<1>10. Flagged'
    <2>1. p.frame = f /\ ~p.isMigrating /\ ~p.stallOnAccess
        OBVIOUS
    <2> QED
        BY <1>2, <1>3, <1>6, <2>1 DEF IInv, Tables, Flagged
<1>11. Sourced'
    BY <1>4, <1>6 DEF IInv, Tables, Sourced
<1>12. Flushes'
    BY <1>1, FlushesStay DEF IInv, Flushes, FlushTypes
<1> QED
    BY <1>7, <1>8, <1>9, <1>10, <1>11, <1>12 DEF IInv, Tables

\* Steps that touch none of the tables.
LEMMA TablesStay ==
    ASSUME Tables, UNCHANGED <<tableVars, migrations, migrationTableSize>>,
           demoting' \in BOOLEAN, events' \in [Kinds -> Nat], copies' \subseteq Frames,
           stalledCpus' \in [Pages -> SUBSET Cpus]
    PROVE  Tables'
<1>1. /\ UNCHANGED <<pages, physicalPages, dramFree, pcmFree, used>>
      /\ UNCHANGED <<Mapped, Migrating, MappedFrames, Destinations>>
    BY DEF tableVars, Mapped, Migrating, MappedFrames, Destinations
<1>2. TableTypes'
    BY <1>1 DEF Tables, TableTypes
<1>3. EachFrameOnce'
    BY <1>1 DEF Tables, EachFrameOnce
<1>4. Sized' /\ Flagged' /\ Sourced'
    BY <1>1 DEF Tables, Sized, Flagged, Sourced
<1> QED
    BY <1>2, <1>3, <1>4 DEF Tables

\* A core stops at a page.
LEMMA StallCpuKeeps ==
    ASSUME IInv, NEW c \in Cpus, NEW v \in Pages, StallCpu(c, v)
    PROVE  IInv'
<1>1. UNCHANGED <<tableVars, flushVars, drainVars, migrations, migrationTableSize, demoting, events,
                  coresFinished, copies>>
      /\ stalledCpus' \in [Pages -> SUBSET Cpus]
    BY DEF StallCpu, IInv, Tables, TableTypes
<1>2. Tables'
    BY <1>1, TablesStay DEF IInv, Tables, TableTypes
<1>3. Flushes'
    BY <1>1, FlushesStay DEF IInv, Flushes, FlushTypes
<1> QED
    BY <1>2, <1>3 DEF IInv

\* The cores have come to their end.
LEMMA FinishCoresKeeps ==
    ASSUME IInv, FinishCores
    PROVE  IInv'
<1>1. /\ UNCHANGED <<tableVars, flushVars, drainVars, migrations, migrationTableSize, demoting, events,
                     stalledCpus, copies>>
      /\ coresFinished' \in BOOLEAN
    BY DEF FinishCores
<1>2. Tables'
    BY <1>1, TablesStay DEF IInv, Tables, TableTypes
<1>3. Flushes'
    BY <1>1, FlushesStay DEF IInv
<1> QED
    BY <1>2, <1>3 DEF IInv

\* The memory has room, and an event is due.
LEMMA MemoryUnstallsKeeps ==
    ASSUME IInv, MemoryUnstalls
    PROVE  IInv'
<1>1. /\ UNCHANGED <<tableVars, flushQueue, stalledRequests, drainVars, migrations, migrationTableSize,
                     demoting, coresFinished, stalledCpus, copies>>
      /\ registered' = FALSE
      /\ events' = [events EXCEPT !["UNSTALL"] = @ + 1]
    BY DEF MemoryUnstalls, AddEvent
<1>2. events' \in [Kinds -> Nat]
    BY <1>1 DEF IInv, Tables, TableTypes, Kinds
<1>3. Tables'
    BY <1>1, <1>2, TablesStay DEF IInv, Tables, TableTypes
<1>4. Flushes'
    BY <1>1 DEF IInv, Flushes, FlushTypes, References, Counts, InTurn, ByPolicy, FlushesOf, Count, Drainers,
        IsFlushed, Migrating, drainVars
<1> QED
    BY <1>3, <1>4 DEF IInv

\* A migration is of a mapped page, which is in its source frame.
LEMMA MigratingPage ==
    ASSUME Tables, NEW f \in Migrating
    PROVE  /\ migrations[f] \in Migration /\ f \in Frames
           /\ migrations[f].virtualPage \in Mapped /\ pages[migrations[f].virtualPage].frame = f
           /\ migrations[f].dest \notin dramFree \cup pcmFree /\ migrations[f].dest \in Frames
           /\ migrations[f].dest \notin DOMAIN physicalPages
<1>1. Recounted(migrations)
    BY DEF Recounted, Tables, TableTypes, Migrating
<1> QED
    BY <1>1, DestinationsApart DEF Tables, TableTypes

\* Pages whose frames are the same keep the frames in use.
LEMMA FramesStay ==
    ASSUME EachFrameOnce, UNCHANGED <<physicalPages, dramFree, pcmFree>>,
           Mapped' = Mapped, \A v \in Mapped : pages'[v].frame = pages[v].frame,
           Migrating' = Migrating, \A f \in Migrating : migrations'[f].dest = migrations[f].dest
    PROVE  EachFrameOnce'
<1>1. MappedFrames' = MappedFrames /\ Destinations' = Destinations
    BY DEF MappedFrames, Destinations
<1>2. /\ \A f, g \in Migrating' : migrations'[f].dest = migrations'[g].dest => f = g
      /\ \A v \in Mapped' : physicalPages'[pages'[v].frame] = v
    BY DEF EachFrameOnce
<1> QED
    BY <1>1, <1>2 DEF EachFrameOnce

\* What is known of a page.
PageType == [frame : Frames, isMigrating : BOOLEAN, stallOnAccess : BOOLEAN]

\* The migration m is started, of a page that is not migrating, to a free frame.
Starts(v, dest, m) ==
    /\ v \in Mapped /\ ~pages[v].isMigrating
    /\ dest \in dramFree \cup pcmFree /\ InDram(pages[v].frame) # InDram(dest)
    /\ m \in Migration /\ m.virtualPage = v /\ m.dest = dest /\ ~m.rolledBack
    /\ migrations' = With(migrations, Entry(pages[v].frame, m))
    /\ migrationTableSize < MaxTableSize /\ migrationTableSize' = migrationTableSize + 1
    /\ dramFree' = dramFree \ {dest} /\ pcmFree' = pcmFree \ {dest}
    /\ UNCHANGED <<physicalPages, stalledCpus>>
    /\ Mapped' = Mapped /\ \A u \in Mapped : u # v => pages'[u] = pages[u]
    /\ pages'[v] \in PageType /\ pages'[v].frame = pages[v].frame /\ pages'[v].isMigrating
    /\ pages'[v].stallOnAccess <=> m.state # "COPY"

\* A migration that starts keeps the tables.
LEMMA StartKeepsTables ==
    ASSUME Tables, NEW v, NEW dest, NEW m, Starts(v, dest, m),
           used' \in [dram : 0 .. UsedModulus - 1, pcm : 0 .. UsedModulus - 1],
           demoting' \in BOOLEAN, events' \in [Kinds -> Nat], copies' \subseteq Frames
    PROVE  /\ Tables'
           /\ pages[v].frame \in Frames \ Migrating
           /\ Migrating' = Migrating \cup {pages[v].frame} /\ migrations'[pages[v].frame] = m
           /\ \A g \in Migrating : migrations'[g] = migrations[g]
<1> USE DEF Starts
<1> DEFINE f == pages[v].frame
<1>1. /\ f \in Frames /\ f \in MappedFrames /\ physicalPages[f] = v /\ f \notin Migrating
      /\ dest \in Frames /\ dest \notin MappedFrames /\ dest \notin Destinations
    <2>1. f \in Frames /\ f \notin Migrating
        BY DEF Tables, TableTypes, Flagged
    <2>2. f \in MappedFrames /\ physicalPages[f] = v
        BY DEF Tables, EachFrameOnce, MappedFrames
    <2>3. dest \in Frames /\ dest \notin MappedFrames /\ dest \notin Destinations
        BY DEF Tables, TableTypes, EachFrameOnce, Frames
    <2> QED
        BY <2>1, <2>2, <2>3
<1> HIDE DEF f
<1>2. /\ Migrating' = Migrating \cup {f} /\ migrations'[f] = m
      /\ \A g \in Migrating : g # f /\ migrations'[g] = migrations[g]
    BY <1>1 DEF With, Entry, Migrating, f
<1>3. Destinations' = Destinations \cup {dest}
    BY <1>2 DEF Destinations
<1>4. \A u \in Mapped : pages'[u].frame = pages[u].frame
    OBVIOUS
<1>5. MappedFrames' = MappedFrames
    BY <1>4 DEF MappedFrames
<1>6. EachFrameOnce'
    <2>1. \A g, h \in Migrating' : migrations'[g].dest = migrations'[h].dest => g = h
        <3>1. \A g \in Migrating : migrations'[g].dest \in Destinations
            BY <1>2 DEF Destinations
        <3> QED
            BY <1>1, <1>2, <3>1 DEF Tables, EachFrameOnce
    <2>2. \A u \in Mapped' : physicalPages'[pages'[u].frame] = u
        BY <1>4 DEF Tables, EachFrameOnce
    <2>3. /\ Frames = dramFree' \cup pcmFree' \cup MappedFrames' \cup Destinations'
          /\ (dramFree' \cup pcmFree') \cap (MappedFrames' \cup Destinations') = {}
          /\ MappedFrames' \cap Destinations' = {}
        BY <1>1, <1>3, <1>5 DEF Tables, EachFrameOnce
    <2>4. DOMAIN physicalPages' = MappedFrames'
        BY <1>5 DEF Tables, EachFrameOnce
    <2> QED
        BY <2>1, <2>2, <2>3, <2>4 DEF EachFrameOnce
<1>7. Sized'
    BY <1>1, <1>2, FS_AddElement DEF Tables, Sized
<1>8. Flagged'
    <2> SUFFICES ASSUME NEW u \in Mapped
                 PROVE  /\ pages'[u].isMigrating <=> pages'[u].frame \in Migrating'
                        /\ pages'[u].stallOnAccess <=>
                               pages'[u].frame \in Migrating' /\ migrations'[pages'[u].frame].state # "COPY"
        BY DEF Flagged
    <2>1. CASE u = v
        BY <1>2, <2>1 DEF f
    <2>2. CASE u # v
        <3>1. pages[u].frame # f
            BY <1>1, <2>2 DEF Tables, EachFrameOnce
        <3> QED
            BY <1>2, <2>2, <3>1 DEF Tables, Flagged
    <2> QED
        BY <2>1, <2>2
<1>9. Sourced'
    <2>1. f \in DOMAIN physicalPages
        BY <1>1 DEF Tables, EachFrameOnce
    <2>2. InDram(f) # InDram(dest)
        BY DEF f
    <2> QED
        BY <1>1, <1>2, <2>1, <2>2 DEF Tables, Sourced
<1>10. TableTypes'
    <2>2. \A u \in Mapped' : pages'[u] \in [frame : Frames, isMigrating : BOOLEAN, stallOnAccess : BOOLEAN]
        BY DEF Tables, TableTypes, PageType
    <2>3. Migrating' \subseteq Frames /\ \A g \in Migrating' : migrations'[g] \in Migration
        BY <1>1, <1>2 DEF Tables, TableTypes
    <2>4. migrationTableSize' \in 0 .. MaxTableSize
        BY PageMigrationAssumption DEF Tables, TableTypes
    <2> QED
        BY <2>2, <2>3, <2>4 DEF Tables, TableTypes
<1> QED
    BY <1>1, <1>2, <1>6, <1>7, <1>8, <1>9, <1>10 DEF Tables, f

\* A new migration finds nothing under way for its frame.
LEMMA StartKeepsFlushes ==
    ASSUME Flushes, NEW f \in Frames \ Migrating, NEW m,
           Migrating' = Migrating \cup {f}, migrations'[f] = m,
           \A g \in Migrating : migrations'[g] = migrations[g],
           m.drainsLeft = 0, IsFlushed(m), copies' = copies \cup {f},
           UNCHANGED <<flushVars, drainVars, coresFinished>>
    PROVE  Flushes'
<1>0. UNCHANGED <<flushPolicy, flushQueue, stalledRequests, registered, drains, remaps>>
    BY DEF flushVars, drainVars
<1>1. FlushTypes' /\ ByPolicy'
    BY <1>0 DEF Flushes, FlushTypes, ByPolicy
<1>2. References(Migrating', flushQueue', stalledRequests', drains', remaps')
    BY <1>0 DEF Flushes, References
<1>3. Idle(flushQueue, stalledRequests, drains, f) /\ f \notin remaps
    BY DEF Flushes, References, Idle
<1>4. /\ Cardinality(FlushesOf(flushQueue, f)) = 0
      /\ Count(stalledRequests, f) = 0
      /\ Cardinality(Drainers(drains, f)) = 0
    BY <1>3, IdleCounts DEF Flushes, FlushTypes
<1>5. Counts(migrations, flushQueue, stalledRequests, drains)'
    <2> SUFFICES ASSUME NEW g \in Migrating'
                 PROVE  /\ migrations'[g].flushesLeft = Cardinality(FlushesOf(flushQueue, g))
                        /\ migrations'[g].stalledLeft = Count(stalledRequests, g)
                        /\ migrations'[g].drainsLeft = Cardinality(Drainers(drains, g))
        <3>1. \A g \in Migrating' :
                  /\ FlushesOf(flushQueue, g)' = FlushesOf(flushQueue, g)
                  /\ Count(stalledRequests, g)' = Count(stalledRequests, g)
                  /\ Drainers(drains, g)' = Drainers(drains, g)
            BY <1>0 DEF FlushesOf, Count, Drainers
        <3>2. Counts(migrations, flushQueue, stalledRequests, drains)' =
                  \A g \in Migrating' :
                      /\ migrations'[g].flushesLeft = Cardinality(FlushesOf(flushQueue, g)')
                      /\ migrations'[g].stalledLeft = Count(stalledRequests, g)'
                      /\ migrations'[g].drainsLeft = Cardinality(Drainers(drains, g)')
            BY DEF Counts, Migrating
        <3> QED
            BY <3>1, <3>2
    <2>1. CASE g \in Migrating
        BY <2>1 DEF Flushes, Counts, Migrating
    <2>2. CASE g = f
        BY <1>4, <2>2 DEF IsFlushed
    <2> QED
        BY <2>1, <2>2
<1>6. InTurn(migrations, remaps)'
    <2> SUFFICES ASSUME NEW g \in Migrating'
                 PROVE  /\ migrations'[g].state = "COPY" =>
                               migrations'[g].drainsLeft = 0 /\ IsFlushed(migrations'[g]) /\ g \notin remaps
                        /\ migrations'[g].drainsLeft > 0 => IsFlushed(migrations'[g])
        BY <1>0 DEF InTurn, IsFlushed, Migrating
    <2>1. CASE g \in Migrating
        BY <2>1 DEF Flushes, InTurn, Migrating
    <2>2. CASE g = f
        BY <1>3, <2>2
    <2> QED
        BY <2>1, <2>2
<1>7. copies' \subseteq Migrating'
    BY DEF Flushes
<1> QED
    BY <1>1, <1>2, <1>5, <1>6, <1>7 DEF Flushes, References

\* The fields of a new migration.
LEMMA NewMigrationIs ==
    ASSUME NEW v \in Pages, NEW dest \in Frames, NEW s \in {"FLUSH_BEFORE", "COPY", "FLUSH_AFTER"},
           NEW m, m = NewMigration(v, dest, s)
    PROVE  /\ m \in Migration /\ m.virtualPage = v /\ m.dest = dest /\ m.state = s /\ ~m.rolledBack
           /\ m.drainsLeft = 0 /\ m.flushesLeft = 0 /\ m.stalledLeft = 0 /\ IsFlushed(m)
<1>1. m \in Migration
    BY MigrationTypes
<1> QED
    BY <1>1 DEF NewMigration, IsFlushed

\* A promotion starts.
LEMMA MigrateOnDemandKeeps ==
    ASSUME IInv, NEW f \in PcmFrames, MigrateOnDemand(f)
    PROVE  IInv'
<1> DEFINE v == physicalPages[f]
<1>1. PICK dest \in dramFree :
          /\ f \in DOMAIN physicalPages /\ ~pages[v].isMigrating /\ migrationTableSize < MaxTableSize
          /\ pages' = [pages EXCEPT ![v].isMigrating = TRUE]
          /\ dramFree' = dramFree \ {dest}
          /\ migrations' = With(migrations, Entry(f, NewMigration(v, dest, "COPY")))
          /\ migrationTableSize' = migrationTableSize + 1
          /\ Use(1, 0)
          /\ copies' = copies \cup {f}
          /\ UNCHANGED <<flushVars, drainVars, physicalPages, pcmFree, demoting, events,
                         coresFinished, stalledCpus>>
    BY DEF MigrateOnDemand
<1> DEFINE m == NewMigration(v, dest, "COPY")
<1>2. v \in Mapped /\ pages[v].frame = f /\ v \in Pages
    <2>1. PICK u \in Mapped : pages[u].frame = f
        BY <1>1 DEF IInv, Tables, EachFrameOnce, MappedFrames
    <2> QED
        BY <2>1 DEF IInv, Tables, EachFrameOnce, TableTypes
<1>3. dest \in DramFrames /\ dest \in Frames /\ InDram(f) # InDram(dest) /\ pcmFree' = pcmFree \ {dest}
    BY <1>1, PageMigrationAssumption DEF IInv, Tables, TableTypes, Frames, InDram
<1>4. /\ m \in Migration /\ m.virtualPage = v /\ m.dest = dest /\ m.state = "COPY" /\ ~m.rolledBack
      /\ m.drainsLeft = 0 /\ IsFlushed(m)
    BY <1>2, <1>3, NewMigrationIs
<1> HIDE DEF m
<1>5. pages[v] \in PageType /\ ~pages[v].stallOnAccess
    BY <1>1, <1>2 DEF IInv, Tables, TableTypes, PageType, Flagged
<1>6. /\ Mapped' = Mapped /\ \A u \in Mapped : u # v => pages'[u] = pages[u]
      /\ pages'[v] = [pages[v] EXCEPT !.isMigrating = TRUE]
    BY <1>1, <1>2 DEF Mapped
<1>7. /\ pages'[v] \in PageType /\ pages'[v].frame = pages[v].frame
      /\ pages'[v].isMigrating = TRUE /\ pages'[v].stallOnAccess = pages[v].stallOnAccess
    BY <1>5, <1>6 DEF PageType
<1>8. demoting' \in BOOLEAN /\ events' \in [Kinds -> Nat] /\ copies' \subseteq Frames
    BY <1>1, <1>3 DEF IInv, Tables, TableTypes, Frames
<1>9. /\ migrations' = With(migrations, Entry(pages[v].frame, m))
      /\ dest \in dramFree \cup pcmFree
    BY <1>1, <1>2 DEF m
<1> HIDE DEF v
<1>13. Starts(v, dest, m)
    BY <1>1, <1>2, <1>3, <1>4, <1>5, <1>6, <1>7, <1>9 DEF Starts
<1>14. used' \in [dram : 0 .. UsedModulus - 1, pcm : 0 .. UsedModulus - 1]
    <2>1. Use(1, 0)
        BY <1>1
    <2>2. used \in [dram : 0 .. UsedModulus - 1, pcm : 0 .. UsedModulus - 1]
        BY DEF IInv, Tables, TableTypes
    <2> QED
        BY <2>1, <2>2, UseKeepsType
<1>10. /\ Tables' /\ f \in Frames \ Migrating
       /\ Migrating' = Migrating \cup {f} /\ migrations'[f] = m
       /\ \A g \in Migrating : migrations'[g] = migrations[g]
    BY <1>2, <1>8, <1>13, <1>14, StartKeepsTables DEF IInv
<1>11. Flushes'
    BY <1>1, <1>4, <1>10, StartKeepsFlushes DEF IInv
<1> QED
    BY <1>10, <1>11 DEF IInv

\* The flush before a copy begins with the migration.
LEMMA StartFlushKeepsFlushes ==
    ASSUME Flushes, NEW f \in Frames \ Migrating, NEW m,
           Migrating' = Migrating \cup {f}, migrations'[f] = m,
           \A g \in Migrating : migrations'[g] = migrations[g],
           m.state = "FLUSH_BEFORE", m.drainsLeft = 0, m.flushesLeft = NumBlocks, m.stalledLeft = 0,
           copies' = copies, flushPolicy = "FLUSH_PCM_BEFORE", FlushPage(f),
           UNCHANGED <<stalledRequests, registered, drainVars, coresFinished>>
    PROVE  Flushes'
<1>0. UNCHANGED <<flushPolicy, stalledRequests, registered, drains, remaps>>
      /\ flushQueue' = SendFlushes(flushQueue \o BlocksOf(f))
    BY DEF drainVars, FlushPage
<1>1. flushQueue \in Seq(FlushEntries) /\ stalledRequests \in Seq(StalledEntries)
    BY DEF Flushes, FlushTypes
<1>2. /\ flushQueue' \in Seq(FlushEntries)
      /\ \A i \in DOMAIN flushQueue' :
             flushQueue'[i].frame = f \/ \E j \in DOMAIN flushQueue : flushQueue'[i].frame = flushQueue[j].frame
      /\ \A g : Cardinality(FlushesOf(flushQueue', g))
                    = Cardinality(FlushesOf(flushQueue, g)) + IF g = f THEN NumBlocks ELSE 0
    BY <1>0, <1>1, FlushPageAdds
<1>3. FlushTypes' /\ ByPolicy'
    BY <1>0, <1>2 DEF Flushes, FlushTypes, ByPolicy
<1>4. References(Migrating', flushQueue', stalledRequests', drains', remaps')
    BY <1>0, <1>2 DEF Flushes, References
<1>5. Idle(flushQueue, stalledRequests, drains, f)
    BY DEF Flushes, References, Idle
<1>6. /\ Cardinality(FlushesOf(flushQueue, f)) = 0
      /\ Count(stalledRequests, f) = 0
      /\ Cardinality(Drainers(drains, f)) = 0
    BY <1>1, <1>5, IdleCounts
<1>7. NumBlocks \in Nat
    BY PageMigrationAssumption
<1>8. Counts(migrations, flushQueue, stalledRequests, drains)'
    <2> SUFFICES ASSUME NEW g \in Migrating'
                 PROVE  /\ migrations'[g].flushesLeft = Cardinality(FlushesOf(flushQueue', g))
                        /\ migrations'[g].stalledLeft = Count(stalledRequests', g)
                        /\ migrations'[g].drainsLeft = Cardinality(Drainers(drains', g))
        BY DEF Counts, FlushesOf, Count, Drainers, Migrating
    <2>1. CASE g \in Migrating
        <3>1. Cardinality(FlushesOf(flushQueue', g)) = Cardinality(FlushesOf(flushQueue, g))
            BY <1>1, <1>2, <2>1, FlushesFinite
        <3> QED
            BY <1>0, <2>1, <3>1 DEF Flushes, Counts, Migrating
    <2>2. CASE g = f
        BY <1>0, <1>2, <1>6, <1>7, <2>2
    <2> QED
        BY <2>1, <2>2
<1>9. InTurn(migrations, remaps)'
    <2> SUFFICES ASSUME NEW g \in Migrating'
                 PROVE  /\ migrations'[g].state = "COPY" =>
                               migrations'[g].drainsLeft = 0 /\ IsFlushed(migrations'[g]) /\ g \notin remaps
                        /\ migrations'[g].drainsLeft > 0 => IsFlushed(migrations'[g])
        BY <1>0 DEF InTurn, IsFlushed, Migrating
    <2>1. CASE g \in Migrating
        BY <2>1 DEF Flushes, InTurn, Migrating
    <2>2. CASE g = f
        BY <2>2
    <2> QED
        BY <2>1, <2>2
<1>10. copies' \subseteq Migrating'
    BY DEF Flushes
<1> QED
    BY <1>3, <1>4, <1>8, <1>9, <1>10 DEF Flushes, References

\* A demotion starts, with a flush or with its copy.
LEMMA DemoteKeeps ==
    ASSUME IInv, migrationTableSize < MaxTableSize, NEW v \in Pages, Demote(v),
           demoting' \in BOOLEAN, events' \in [Kinds -> Nat],
           UNCHANGED <<drainVars, stalledRequests, registered, coresFinished, stalledCpus>>
    PROVE  IInv'
<1> DEFINE f == pages[v].frame
           before == flushPolicy = "FLUSH_PCM_BEFORE"
           start(dest) == NewMigration(v, dest, IF before THEN "FLUSH_BEFORE" ELSE "COPY")
<1>1. PICK dest \in pcmFree :
          /\ v \in Mapped /\ InDram(f) /\ ~pages[v].isMigrating
          /\ pages' = [pages EXCEPT ![v].isMigrating = TRUE, ![v].stallOnAccess = @ \/ before]
          /\ pcmFree' = pcmFree \ {dest}
          /\ migrations' = With(migrations, Entry(f, IF before THEN Flushing(start(dest)) ELSE start(dest)))
          /\ migrationTableSize' = migrationTableSize + 1
          /\ Use(0, 1)
          /\ IF before THEN FlushPage(f) /\ UNCHANGED copies
             ELSE copies' = copies \cup {f} /\ UNCHANGED flushQueue
          /\ UNCHANGED <<physicalPages, dramFree>>
    BY DEF Demote
<1> DEFINE m == IF before THEN Flushing(start(dest)) ELSE start(dest)
<1>2. /\ dest \in PcmFrames /\ dest \in Frames /\ InDram(f) # InDram(dest) /\ dramFree' = dramFree \ {dest}
      /\ dest \in dramFree \cup pcmFree
    BY <1>1, PageMigrationAssumption DEF IInv, Tables, TableTypes, Frames, InDram
<1>3. /\ m \in Migration /\ m.virtualPage = v /\ m.dest = dest /\ ~m.rolledBack
      /\ m.state = IF before THEN "FLUSH_BEFORE" ELSE "COPY"
      /\ m.drainsLeft = 0 /\ m.stalledLeft = 0
      /\ m.flushesLeft = IF before THEN NumBlocks ELSE 0
    <2>1. /\ start(dest) \in Migration /\ start(dest).virtualPage = v /\ start(dest).dest = dest
          /\ ~start(dest).rolledBack /\ start(dest).state = (IF before THEN "FLUSH_BEFORE" ELSE "COPY")
          /\ start(dest).drainsLeft = 0 /\ start(dest).stalledLeft = 0 /\ start(dest).flushesLeft = 0
        BY <1>2, NewMigrationIs
    <2> HIDE DEF start
    <2>2. NumBlocks \in Nat
        BY PageMigrationAssumption
    <2>3. CASE before
        BY <2>1, <2>2, <2>3 DEF Flushing, Migration
    <2>4. CASE ~before
        BY <2>1, <2>4
    <2> QED
        BY <2>3, <2>4
<1>4. pages[v] \in PageType /\ ~pages[v].stallOnAccess
    BY <1>1 DEF IInv, Tables, TableTypes, PageType, Flagged
<1>5. /\ Mapped' = Mapped /\ \A u \in Mapped : u # v => pages'[u] = pages[u]
    BY <1>1 DEF Mapped
<1>6. /\ pages'[v] \in PageType /\ pages'[v].frame = f
      /\ pages'[v].isMigrating
      /\ pages'[v].stallOnAccess <=> before
    <2> DEFINE p == [pages[v] EXCEPT !.isMigrating = TRUE]
               b == pages[v].stallOnAccess \/ before
    <2>1. p \in PageType /\ p.frame = pages[v].frame /\ p.isMigrating = TRUE /\ p.stallOnAccess = pages[v].stallOnAccess
        BY <1>4 DEF PageType
    <2>2. pages'[v] = [p EXCEPT !.stallOnAccess = b]
        <3> DEFINE q == [pages EXCEPT ![v].isMigrating = TRUE]
        <3>1. pages' = [q EXCEPT ![v].stallOnAccess = @ \/ before]
            BY <1>1
        <3>2. q[v] = p /\ v \in DOMAIN q
            BY <1>1 DEF Mapped
        <3>3. pages'[v] = [q[v] EXCEPT !.stallOnAccess = @ \/ before]
            <4> HIDE DEF q
            <4> QED
                BY <3>1, <3>2
        <3> QED
            BY <1>4, <2>1, <3>2, <3>3
    <2>3. b \in BOOLEAN /\ (b <=> before)
        BY <1>4
    <2> HIDE DEF b, p
    <2>4. /\ [p EXCEPT !.stallOnAccess = b] \in PageType
          /\ [p EXCEPT !.stallOnAccess = b].frame = p.frame
          /\ [p EXCEPT !.stallOnAccess = b].stallOnAccess = b
          /\ [p EXCEPT !.stallOnAccess = b].isMigrating = p.isMigrating
        BY <2>1, <2>3 DEF PageType
    <2>5. pages'[v].stallOnAccess = b
        BY <2>2, <2>4
    <2> HIDE DEF before
    <2>6. pages'[v].stallOnAccess <=> before
        BY <2>3, <2>5, Zenon
    <2>7. /\ pages'[v] \in PageType /\ pages'[v].frame = f
          /\ pages'[v].isMigrating
        BY <2>1, <2>2, <2>4
    <2> QED
        BY <2>6, <2>7
<1>7. f \in Frames
    BY <1>1 DEF IInv, Tables, TableTypes
<1>8. copies' \subseteq Frames
    BY <1>1, <1>7 DEF IInv, Tables, TableTypes
<1>9. migrations' = With(migrations, Entry(pages[v].frame, m))
    BY <1>1
<1>10. pages'[v].stallOnAccess <=> m.state # "COPY"
    BY <1>3, <1>6
<1> HIDE DEF m, before, f
<1>14. Starts(v, dest, m)
    BY <1>1, <1>2, <1>3, <1>5, <1>6, <1>9, <1>10 DEF Starts, f
<1>15. used' \in [dram : 0 .. UsedModulus - 1, pcm : 0 .. UsedModulus - 1]
    <2>1. Use(0, 1)
        BY <1>1
    <2>2. used \in [dram : 0 .. UsedModulus - 1, pcm : 0 .. UsedModulus - 1]
        BY DEF IInv, Tables, TableTypes
    <2> QED
        BY <2>1, <2>2, UseKeepsType
<1>11. /\ Tables' /\ f \in Frames \ Migrating
       /\ Migrating' = Migrating \cup {f} /\ migrations'[f] = m
       /\ \A g \in Migrating : migrations'[g] = migrations[g]
    BY <1>8, <1>14, <1>15, StartKeepsTables DEF IInv, f
<1>12. CASE before
    BY <1>1, <1>3, <1>11, <1>12, StartFlushKeepsFlushes DEF IInv, before
<1>13. CASE ~before
    <2>1. UNCHANGED <<flushVars, drainVars, coresFinished>> /\ copies' = copies \cup {f}
        BY <1>1, <1>13 DEF flushVars
    <2>2. m.drainsLeft = 0 /\ IsFlushed(m)
        BY <1>3, <1>13 DEF IsFlushed
    <2> QED
        BY <1>11, <2>1, <2>2, StartKeepsFlushes DEF IInv
<1> QED
    BY <1>11, <1>12, <1>13 DEF IInv

\* Only what is left to be done for migrations changes, or that one is rolled back.
LEMMA RecountKeepsTables ==
    ASSUME Tables, Migrating' = Migrating,
           \A f \in Migrating :
               /\ migrations'[f] \in Migration
               /\ migrations'[f].virtualPage = migrations[f].virtualPage
               /\ migrations'[f].dest = migrations[f].dest
               /\ migrations'[f].state = migrations[f].state
               /\ migrations'[f].rolledBack => f \in PcmFrames,
           UNCHANGED <<tableVars, migrationTableSize, stalledCpus>>,
           demoting' \in BOOLEAN, events' \in [Kinds -> Nat], copies' \subseteq Frames
    PROVE  Tables'
<1>1. /\ UNCHANGED <<pages, physicalPages, dramFree, pcmFree, used, migrationTableSize, stalledCpus>>
      /\ Mapped' = Mapped
    BY DEF tableVars, Mapped
<1>2. EachFrameOnce'
    BY <1>1, FramesStay DEF Tables
<1>3. TableTypes'
    BY <1>1 DEF Tables, TableTypes
<1>4. Sized' /\ Flagged' /\ Sourced'
    BY <1>1 DEF Tables, Sized, Flagged, Sourced
<1> QED
    BY <1>2, <1>3, <1>4 DEF Tables

\* Steps that change no state and no count of a migration keep Flushes.
LEMMA SameCountsKeepFlushes ==
    ASSUME Flushes, Migrating' = Migrating,
           \A f \in Migrating :
               /\ migrations'[f].state = migrations[f].state
               /\ migrations'[f].drainsLeft = migrations[f].drainsLeft
               /\ migrations'[f].flushesLeft = migrations[f].flushesLeft
               /\ migrations'[f].stalledLeft = migrations[f].stalledLeft,
           UNCHANGED <<flushVars, drainVars>>, coresFinished' \in BOOLEAN, copies' \subseteq Migrating
    PROVE  Flushes'
<1>1. UNCHANGED <<flushPolicy, flushQueue, stalledRequests, registered, drains, remaps>>
    BY DEF flushVars, drainVars
<1>2. FlushTypes' /\ ByPolicy' /\ References(Migrating, flushQueue, stalledRequests, drains, remaps)'
    BY <1>1 DEF Flushes, FlushTypes, ByPolicy, References
<1>3. Counts(migrations, flushQueue, stalledRequests, drains)'
    <2> SUFFICES ASSUME NEW g \in Migrating'
                 PROVE  /\ migrations'[g].flushesLeft = Cardinality(FlushesOf(flushQueue', g))
                        /\ migrations'[g].stalledLeft = Count(stalledRequests', g)
                        /\ migrations'[g].drainsLeft = Cardinality(Drainers(drains', g))
        BY DEF Counts, FlushesOf, Count, Drainers, Migrating
    <2> QED
        BY <1>1 DEF Flushes, Counts, Migrating
<1>4. InTurn(migrations, remaps)'
    BY <1>1 DEF Flushes, InTurn, IsFlushed, Migrating
<1> QED
    BY <1>2, <1>3, <1>4 DEF Flushes

\* A promotion is to be rolled back.
LEMMA RollbackPromotionKeeps ==
    ASSUME IInv, NEW v \in Pages, RollbackPromotion(v),
           demoting' \in BOOLEAN, events' \in [Kinds -> Nat],
           UNCHANGED <<drainVars, stalledRequests, registered, coresFinished, stalledCpus>>
    PROVE  IInv'
<1> DEFINE f == pages[v].frame
<1>1. /\ v \in Mapped /\ pages[v].isMigrating /\ f \in PcmFrames
      /\ migrations' = [migrations EXCEPT ![f].rolledBack = TRUE]
      /\ UNCHANGED <<pages, physicalPages, dramFree, pcmFree, used, migrationTableSize, flushQueue, copies>>
    BY DEF RollbackPromotion
<1>2. f \in Migrating
    BY <1>1 DEF IInv, Tables, Flagged
<1> HIDE DEF f
<1>3. Migrating' = Migrating
    BY <1>1 DEF Migrating
<1>4. ASSUME NEW g \in Migrating
      PROVE  /\ migrations'[g] \in Migration
             /\ migrations'[g].virtualPage = migrations[g].virtualPage
             /\ migrations'[g].dest = migrations[g].dest
             /\ migrations'[g].state = migrations[g].state
             /\ migrations'[g].rolledBack => g \in PcmFrames
             /\ migrations'[g].drainsLeft = migrations[g].drainsLeft
             /\ migrations'[g].flushesLeft = migrations[g].flushesLeft
             /\ migrations'[g].stalledLeft = migrations[g].stalledLeft
    <2>1. migrations[g] \in Migration /\ (migrations[g].rolledBack => g \in PcmFrames)
        BY DEF IInv, Tables, TableTypes, Sourced
    <2>2. CASE g = f
        <3>1. migrations'[g] = [migrations[g] EXCEPT !.rolledBack = TRUE]
            BY <1>1, <2>2 DEF Migrating
        <3>2. g \in PcmFrames
            BY <1>1, <2>2 DEF f
        <3> QED
            BY <2>1, <3>1, <3>2 DEF Migration
    <2>3. CASE g # f
        <3>1. migrations'[g] = migrations[g]
            BY <1>1, <2>3 DEF Migrating
        <3> QED
            BY <2>1, <3>1
    <2> QED
        BY <2>2, <2>3
<1>5. Tables'
    <2>1. UNCHANGED <<tableVars, migrationTableSize, stalledCpus>> /\ copies' \subseteq Frames
        BY <1>1 DEF tableVars, IInv, Tables, TableTypes
    <2> QED
        BY <1>3, <1>4, <2>1, RecountKeepsTables DEF IInv
<1>6. Flushes'
    <2>1. UNCHANGED <<flushVars, drainVars>> /\ coresFinished' \in BOOLEAN /\ copies' \subseteq Migrating
        BY <1>1 DEF flushVars, IInv, Flushes, FlushTypes
    <2> QED
        BY <1>3, <1>4, <2>1, SameCountsKeepFlushes DEF IInv
<1> QED
    BY <1>5, <1>6 DEF IInv

\* The DEMOTE event.
LEMMA DemoteEventKeeps ==
    ASSUME IInv, DemoteEvent
    PROVE  IInv'
<1>1. UNCHANGED <<drainVars, stalledRequests, registered, coresFinished, stalledCpus>>
    BY DEF DemoteEvent
<1>2. events' \in [Kinds -> Nat]
    <2>1. events \in [Kinds -> Nat] /\ events["DEMOTE"] > 0
        BY DEF DemoteEvent, IInv, Tables, TableTypes
    <2>2. events' = [events EXCEPT !["DEMOTE"] = @ - 1] \/ events' = events
        BY DEF DemoteEvent, TakeEvent
    <2> QED
        BY <2>1, <2>2 DEF Kinds
<1>3. CASE /\ migrationTableSize < MaxTableSize
           /\ \E v \in Pages : Demote(v) \/ RollbackPromotion(v)
           /\ demoting' = TRUE
    BY <1>1, <1>2, <1>3, DemoteKeeps, RollbackPromotionKeeps
<1>4. CASE UNCHANGED <<demoting, pages, physicalPages, dramFree, pcmFree, used, migrations,
                       migrationTableSize, flushQueue, copies>>
    <2>1. /\ UNCHANGED <<tableVars, migrations, migrationTableSize>> /\ demoting' \in BOOLEAN
          /\ copies' \subseteq Frames /\ stalledCpus' \in [Pages -> SUBSET Cpus]
        BY <1>1, <1>4 DEF tableVars, IInv, Tables, TableTypes
    <2>2. Tables'
        BY <1>2, <2>1, TablesStay DEF IInv
    <2>3. UNCHANGED <<flushVars, drainVars, migrations, copies>> /\ coresFinished' \in BOOLEAN
        BY <1>1, <1>4 DEF flushVars, IInv, Flushes, FlushTypes
    <2>4. Flushes'
        BY <2>3, FlushesStay DEF IInv
    <2> QED
        BY <2>2, <2>4 DEF IInv
<1> QED
    BY <1>3, <1>4 DEF DemoteEvent

\* The COPY_PAGE event.
LEMMA CopyPageEventKeeps ==
    ASSUME IInv, CopyPageEvent
    PROVE  IInv'
<1>1. PICK f \in Migrating :
          /\ events["COPY_PAGE"] > 0
          /\ migrations' = [migrations EXCEPT ![f].needsCopying = FALSE]
          /\ copies' = copies \cup {f}
          /\ TakeEvent("COPY_PAGE")
          /\ UNCHANGED <<tableVars, flushVars, drainVars, migrationTableSize, demoting, coresFinished, stalledCpus>>
    BY DEF CopyPageEvent
<1>2. Migrating' = Migrating
    BY <1>1 DEF Migrating
<1>3. events' \in [Kinds -> Nat]
    BY <1>1 DEF TakeEvent, Kinds, IInv, Tables, TableTypes
<1>4. ASSUME NEW g \in Migrating
      PROVE  /\ migrations'[g] \in Migration
             /\ migrations'[g].virtualPage = migrations[g].virtualPage
             /\ migrations'[g].dest = migrations[g].dest
             /\ migrations'[g].state = migrations[g].state
             /\ migrations'[g].rolledBack => g \in PcmFrames
             /\ migrations'[g].drainsLeft = migrations[g].drainsLeft
             /\ migrations'[g].flushesLeft = migrations[g].flushesLeft
             /\ migrations'[g].stalledLeft = migrations[g].stalledLeft
    <2>1. migrations[g] \in Migration /\ (migrations[g].rolledBack => g \in PcmFrames)
        BY DEF IInv, Tables, TableTypes, Sourced
    <2>2. migrations'[g] = [migrations[g] EXCEPT !.needsCopying = FALSE] \/ migrations'[g] = migrations[g]
        BY <1>1 DEF Migrating
    <2> QED
        BY <2>1, <2>2 DEF Migration
<1>5. Tables'
    <2>1. copies' \subseteq Frames /\ demoting' \in BOOLEAN
        BY <1>1 DEF IInv, Tables, TableTypes
    <2> QED
        BY <1>1, <1>2, <1>3, <1>4, <2>1, RecountKeepsTables DEF IInv
<1>6. Flushes'
    <2>1. UNCHANGED <<flushVars, drainVars>> /\ coresFinished' \in BOOLEAN /\ copies' \subseteq Migrating
        BY <1>1 DEF IInv, Flushes, FlushTypes
    <2> QED
        BY <1>2, <1>4, <2>1, SameCountsKeepFlushes DEF IInv
<1> QED
    BY <1>5, <1>6 DEF IInv

\* A copy is complete: the drains begin, or the remap.
LEMMA CopyCompletedKeeps ==
    ASSUME IInv, NEW f \in copies, CopyCompleted(f)
    PROVE  IInv'
<1> DEFINE v == migrations[f].virtualPage
           remap == flushPolicy = "REMAP"
<1>1. /\ migrations[f].state = "COPY" /\ ~migrations[f].rolledBack
      /\ pages' = [pages EXCEPT ![v].stallOnAccess = TRUE]
      /\ UNCHANGED <<flushPolicy, physicalPages, dramFree, pcmFree, used, flushVars, migrationTableSize,
                     demoting, events, coresFinished, stalledCpus, copies>>
    BY DEF CopyCompleted, StallOnAccess
<1>2. /\ remap => /\ remaps' = remaps \cup {f} /\ drains' = drains
                  /\ migrations' = [migrations EXCEPT ![f].state = "FLUSH_AFTER"]
      /\ ~remap => /\ drains' = drains \cup (Cpus \X {f}) /\ remaps' = remaps
                   /\ migrations' = [migrations EXCEPT ![f].state = "FLUSH_AFTER",
                                                       ![f].drainsLeft = @ + Cardinality(Cpus)]
    BY DEF CopyCompleted
<1>3. f \in Migrating /\ f \in Frames /\ v \in Mapped /\ pages[v].frame = f /\ migrations[f] \in Migration
    BY MigratingPage DEF IInv, Flushes
<1>4. migrations[f].drainsLeft = 0 /\ IsFlushed(migrations[f]) /\ f \notin remaps
    BY <1>1, <1>3 DEF IInv, Flushes, InTurn, Migrating
<1>5. Cardinality(Cpus) \in Nat
    BY PageMigrationAssumption, FS_CardinalityType
<1>6. Migrating' = Migrating /\ \A g \in Migrating : g # f => migrations'[g] = migrations[g]
    BY <1>2 DEF Migrating
<1>7. /\ migrations'[f] \in Migration
      /\ migrations'[f].virtualPage = v /\ migrations'[f].dest = migrations[f].dest
      /\ migrations'[f].rolledBack = migrations[f].rolledBack /\ migrations'[f].state = "FLUSH_AFTER"
      /\ migrations'[f].flushesLeft = migrations[f].flushesLeft
      /\ migrations'[f].stalledLeft = migrations[f].stalledLeft
      /\ migrations'[f].drainsLeft = IF remap THEN 0 ELSE Cardinality(Cpus)
    <2>1. CASE remap
        <3>1. migrations'[f] = [migrations[f] EXCEPT !.state = "FLUSH_AFTER"]
            BY <1>2, <1>3, <2>1 DEF Migrating
        <3> QED
            BY <1>3, <1>4, <2>1, <3>1 DEF Migration
    <2>2. CASE ~remap
        <3>1. migrations'[f] = [migrations[f] EXCEPT !.state = "FLUSH_AFTER",
                                                     !.drainsLeft = @ + Cardinality(Cpus)]
            BY <1>2, <1>3, <2>2 DEF Migrating
        <3>2. migrations[f].drainsLeft + Cardinality(Cpus) = Cardinality(Cpus)
            BY <1>4, <1>5
        <3>3. migrations'[f] = [migrations[f] EXCEPT !.state = "FLUSH_AFTER", !.drainsLeft = Cardinality(Cpus)]
            BY <1>3, <3>1, <3>2 DEF Migration
        <3> HIDE DEF remap, v
        <3>4. /\ migrations'[f] \in Migration
              /\ migrations'[f].virtualPage = migrations[f].virtualPage
              /\ migrations'[f].dest = migrations[f].dest
              /\ migrations'[f].rolledBack = migrations[f].rolledBack /\ migrations'[f].state = "FLUSH_AFTER"
              /\ migrations'[f].flushesLeft = migrations[f].flushesLeft
              /\ migrations'[f].stalledLeft = migrations[f].stalledLeft
              /\ migrations'[f].drainsLeft = Cardinality(Cpus)
            BY <1>3, <1>5, <3>3 DEF Migration
        <3> QED
            BY <2>2, <3>4 DEF v
    <2> QED
        BY <2>1, <2>2
<1>8. /\ Mapped' = Mapped /\ \A u \in Mapped : u # v => pages'[u] = pages[u] /\ pages[u].frame # f
      /\ pages'[v] \in PageType /\ pages'[v].frame = f
      /\ pages'[v].isMigrating = pages[v].isMigrating /\ pages'[v].stallOnAccess = TRUE
    <2>1. pages[v] \in PageType
        BY <1>3 DEF IInv, Tables, TableTypes, PageType
    <2>2. pages'[v] = [pages[v] EXCEPT !.stallOnAccess = TRUE]
        BY <1>1, <1>3 DEF Mapped
    <2>3. \A u \in Mapped : u # v => pages'[u] = pages[u] /\ pages[u].frame # f
        BY <1>1, <1>3 DEF Mapped, IInv, Tables, EachFrameOnce
    <2>4. Mapped' = Mapped
        BY <1>1 DEF Mapped
    <2> QED
        BY <1>3, <2>1, <2>2, <2>3, <2>4 DEF PageType
<1> HIDE DEF v
<1>9. Tables'
    <2>1. EachFrameOnce'
        BY <1>1, <1>3, <1>6, <1>7, <1>8, FramesStay DEF IInv, Tables
    <2>2. TableTypes'
        <3>1. \A u \in Mapped' : pages'[u] \in [frame : Frames, isMigrating : BOOLEAN, stallOnAccess : BOOLEAN]
            BY <1>8 DEF IInv, Tables, TableTypes, PageType
        <3>2. \A g \in Migrating' : migrations'[g] \in Migration
            BY <1>6, <1>7 DEF IInv, Tables, TableTypes
        <3> QED
            BY <1>1, <1>6, <1>8, <3>1, <3>2 DEF IInv, Tables, TableTypes
    <2>3. Sized'
        BY <1>1, <1>6 DEF IInv, Tables, Sized
    <2>4. Sourced'
        BY <1>1, <1>6, <1>7 DEF IInv, Tables, Sourced, v
    <2>5. Flagged'
        <3> SUFFICES ASSUME NEW u \in Mapped
                     PROVE  /\ pages'[u].isMigrating <=> pages'[u].frame \in Migrating'
                            /\ pages'[u].stallOnAccess <=>
                                   pages'[u].frame \in Migrating' /\ migrations'[pages'[u].frame].state # "COPY"
            BY <1>8 DEF Flagged
        <3>1. CASE u = v
            BY <1>3, <1>6, <1>7, <1>8, <3>1 DEF IInv, Tables, Flagged
        <3>2. CASE u # v
            BY <1>6, <1>8, <3>2 DEF IInv, Tables, Flagged
        <3> QED
            BY <3>1, <3>2
    <2> QED
        BY <2>1, <2>2, <2>3, <2>4, <2>5 DEF Tables
<1>10. UNCHANGED <<flushQueue, stalledRequests, registered>>
    BY <1>1 DEF flushVars
<1>11. FlushTypes' /\ ByPolicy'
    BY <1>1, <1>2, <1>3, <1>10 DEF IInv, Flushes, FlushTypes, ByPolicy
<1>12. References(Migrating', flushQueue', stalledRequests', drains', remaps')
    BY <1>2, <1>3, <1>6, <1>10 DEF IInv, Flushes, References
<1>13. Drainers(drains, f) = {} /\ \A g : g # f => Drainers(drains', g) = Drainers(drains, g)
    <2>1. Cardinality(Drainers(drains, f)) = 0
        BY <1>3, <1>4 DEF IInv, Flushes, Counts, Migrating
    <2>2. Drainers(drains, f) = {}
        BY <2>1, DrainersFinite, FS_EmptySet
    <2> QED
        BY <1>2, <2>2 DEF Drainers
<1>14. Cardinality(Drainers(drains', f)) = migrations'[f].drainsLeft
    <2>1. CASE remap
        BY <1>2, <1>7, <1>13, <2>1, FS_EmptySet
    <2>2. CASE ~remap
        <3>1. Drainers(drains', f) = Cpus
            BY <1>2, <2>2 DEF Drainers
        <3> QED
            BY <1>7, <2>2, <3>1
    <2> QED
        BY <2>1, <2>2
<1>15. Counts(migrations, flushQueue, stalledRequests, drains)'
    <2> SUFFICES ASSUME NEW g \in Migrating'
                 PROVE  /\ migrations'[g].flushesLeft = Cardinality(FlushesOf(flushQueue', g))
                        /\ migrations'[g].stalledLeft = Count(stalledRequests', g)
                        /\ migrations'[g].drainsLeft = Cardinality(Drainers(drains', g))
        BY DEF Counts, FlushesOf, Count, Drainers, Migrating
    <2>1. /\ migrations[g].flushesLeft = Cardinality(FlushesOf(flushQueue, g))
          /\ migrations[g].stalledLeft = Count(stalledRequests, g)
          /\ migrations[g].drainsLeft = Cardinality(Drainers(drains, g))
        BY <1>6 DEF IInv, Flushes, Counts, Migrating
    <2> QED
        BY <1>6, <1>7, <1>10, <1>13, <1>14, <2>1
<1>16. InTurn(migrations, remaps)'
    <2> SUFFICES ASSUME NEW g \in Migrating'
                 PROVE  /\ migrations'[g].state = "COPY" =>
                               migrations'[g].drainsLeft = 0 /\ IsFlushed(migrations'[g]) /\ g \notin remaps'
                        /\ migrations'[g].drainsLeft > 0 => IsFlushed(migrations'[g])
        BY DEF InTurn, IsFlushed, Migrating
    <2>1. CASE g = f
        BY <1>4, <1>7, <2>1 DEF IsFlushed
    <2>2. CASE g # f
        BY <1>2, <1>6, <2>2 DEF IInv, Flushes, InTurn, Migrating
    <2> QED
        BY <2>1, <2>2
<1>17. copies' \subseteq Migrating'
    BY <1>1, <1>6 DEF IInv, Flushes
<1> QED
    BY <1>9, <1>11, <1>12, <1>15, <1>16, <1>17 DEF IInv, Flushes, References

\* A promotion has been rolled back in the memory.
LEMMA RollbackCompletedKeeps ==
    ASSUME IInv, NEW f \in copies, RollbackCompleted(f)
    PROVE  IInv'
<1> DEFINE v == migrations[f].virtualPage
           dest == migrations[f].dest
<1>1. /\ migrations[f].state = "COPY" /\ migrations[f].rolledBack
      /\ dramFree' = dramFree \cup {dest}
      /\ Use(-1, 0)
      /\ pages' = [pages EXCEPT ![v].isMigrating = FALSE]
      /\ copies' = copies \ {f} /\ demoting' = FALSE
      /\ events' = [events EXCEPT !["DEMOTE"] = @ + 1]
      /\ migrations' = Without(migrations, {f})
      /\ migrationTableSize' = migrationTableSize - 1
      /\ UNCHANGED <<physicalPages, pcmFree, flushVars, drainVars, coresFinished, stalledCpus>>
    BY DEF RollbackCompleted, AddEvent
<1>2. /\ f \in Migrating /\ f \in Frames /\ v \in Mapped /\ pages[v].frame = f
      /\ dest \in Frames /\ dest \notin DOMAIN physicalPages
    BY MigratingPage DEF IInv, Flushes
<1>3. dest \in DramFrames
    BY <1>1, <1>2, PageMigrationAssumption DEF IInv, Tables, Sourced, InDram, Frames
<1>4. /\ Migrating' = Migrating \ {f}
      /\ \A g \in Migrating' : g \in Migrating /\ migrations'[g] = migrations[g]
    BY <1>1 DEF Without, Migrating
<1>5. /\ Mapped' = Mapped /\ \A u \in Mapped : u # v => pages'[u] = pages[u] /\ pages[u].frame # f
      /\ pages'[v] \in PageType /\ pages'[v].frame = f
      /\ pages'[v].isMigrating = FALSE /\ pages'[v].stallOnAccess = pages[v].stallOnAccess
    <2>1. pages[v] \in PageType
        BY <1>2 DEF IInv, Tables, TableTypes, PageType
    <2>2. pages'[v] = [pages[v] EXCEPT !.isMigrating = FALSE]
        BY <1>1, <1>2 DEF Mapped
    <2>3. \A u \in Mapped : u # v => pages'[u] = pages[u] /\ pages[u].frame # f
        BY <1>1, <1>2 DEF Mapped, IInv, Tables, EachFrameOnce
    <2>4. Mapped' = Mapped
        BY <1>1 DEF Mapped
    <2> QED
        BY <1>2, <2>1, <2>2, <2>3, <2>4 DEF PageType
<1> HIDE DEF v
<1>6. Destinations = Destinations' \cup {dest} /\ dest \notin Destinations'
    <2>1. \A g \in Migrating : g # f => migrations[g].dest # dest
        BY <1>2 DEF IInv, Tables, EachFrameOnce
    <2>2. Destinations' = {migrations[g].dest : g \in Migrating \ {f}}
        BY <1>4 DEF Destinations
    <2> HIDE DEF dest
    <2>3. migrations[f].dest = dest
        BY DEF dest
    <2> QED
        BY <1>2, <2>1, <2>2, <2>3 DEF Destinations
<1> HIDE DEF dest
<1>7. MappedFrames' = MappedFrames
    BY <1>2, <1>5 DEF MappedFrames
<1>8. EachFrameOnce'
    <2>1. \A g, h \in Migrating' : migrations'[g].dest = migrations'[h].dest => g = h
        BY <1>4 DEF IInv, Tables, EachFrameOnce
    <2>2. \A u \in Mapped' : physicalPages'[pages'[u].frame] = u
        BY <1>1, <1>2, <1>5 DEF IInv, Tables, EachFrameOnce
    <2>3. /\ Frames = dramFree \cup pcmFree \cup MappedFrames \cup Destinations
          /\ (dramFree \cup pcmFree) \cap (MappedFrames \cup Destinations) = {}
          /\ MappedFrames \cap Destinations = {}
          /\ DOMAIN physicalPages = MappedFrames
        BY DEF IInv, Tables, EachFrameOnce
    <2>4. /\ Frames = dramFree' \cup pcmFree' \cup MappedFrames' \cup Destinations'
          /\ (dramFree' \cup pcmFree') \cap (MappedFrames' \cup Destinations') = {}
          /\ MappedFrames' \cap Destinations' = {}
        BY <1>1, <1>6, <1>7, <2>3
    <2> QED
        BY <1>1, <1>7, <2>1, <2>2, <2>3, <2>4 DEF EachFrameOnce
<1>9. Sized'
    <2>1. IsFiniteSet(Migrating) /\ migrationTableSize = Cardinality(Migrating)
        BY DEF IInv, Tables, Sized
    <2> QED
        BY <1>1, <1>2, <1>4, <2>1, FS_RemoveElement DEF Sized
<1>10. TableTypes'
    <2>1. used' \in [dram : 0 .. UsedModulus - 1, pcm : 0 .. UsedModulus - 1]
        <3>1. Use(-1, 0) /\ used \in [dram : 0 .. UsedModulus - 1, pcm : 0 .. UsedModulus - 1]
            BY <1>1 DEF IInv, Tables, TableTypes
        <3> QED
            BY <3>1, UseKeepsType
    <2>2. \A u \in Mapped' : pages'[u] \in [frame : Frames, isMigrating : BOOLEAN, stallOnAccess : BOOLEAN]
        BY <1>5 DEF IInv, Tables, TableTypes, PageType
    <2>3. Migrating' \subseteq Frames /\ \A g \in Migrating' : migrations'[g] \in Migration
        BY <1>4 DEF IInv, Tables, TableTypes
    <2>4. migrationTableSize' \in 0 .. MaxTableSize
        <3>1. Cardinality(Migrating') \in Nat
            BY <1>9, FS_CardinalityType DEF Sized
        <3>2. migrationTableSize' = Cardinality(Migrating')
            BY <1>9 DEF Sized
        <3>3. migrationTableSize \in 0 .. MaxTableSize /\ MaxTableSize \in Nat
            BY PageMigrationAssumption DEF IInv, Tables, TableTypes
        <3> QED
            BY <1>1, <3>1, <3>2, <3>3
    <2>5. events' \in [Kinds -> Nat]
        BY <1>1 DEF IInv, Tables, TableTypes, Kinds
    <2> QED
        BY <1>1, <1>3, <1>5, <2>1, <2>2, <2>3, <2>4, <2>5 DEF IInv, Tables, TableTypes
<1>11. Sourced'
    BY <1>1, <1>4 DEF IInv, Tables, Sourced
<1>12. Flagged'
    <2> SUFFICES ASSUME NEW u \in Mapped
                 PROVE  /\ pages'[u].isMigrating <=> pages'[u].frame \in Migrating'
                        /\ pages'[u].stallOnAccess <=>
                               pages'[u].frame \in Migrating' /\ migrations'[pages'[u].frame].state # "COPY"
        BY <1>5 DEF Flagged
    <2>1. CASE u = v
        BY <1>1, <1>2, <1>4, <1>5, <2>1 DEF IInv, Tables, Flagged
    <2>2. CASE u # v
        BY <1>4, <1>5, <2>2 DEF IInv, Tables, Flagged
    <2> QED
        BY <2>1, <2>2
<1>13. /\ UNCHANGED <<flushPolicy, flushQueue, stalledRequests, registered, drains, remaps, coresFinished>>
    BY <1>1 DEF flushVars, drainVars
<1>14. Idle(flushQueue, stalledRequests, drains, f) /\ f \notin remaps
    <2>1. /\ Cardinality(FlushesOf(flushQueue, f)) = 0 /\ Count(stalledRequests, f) = 0
          /\ Cardinality(Drainers(drains, f)) = 0 /\ f \notin remaps
        BY <1>1, <1>2 DEF IInv, Flushes, Counts, InTurn, IsFlushed, Migrating
    <2> QED
        BY <2>1, IdleCounts DEF IInv, Flushes, FlushTypes
<1>15. References(Migrating', flushQueue', stalledRequests', drains', remaps')
    BY <1>4, <1>13, <1>14 DEF IInv, Flushes, References, Idle
<1>16. Counts(migrations, flushQueue, stalledRequests, drains)'
    <2> SUFFICES ASSUME NEW g \in Migrating'
                 PROVE  /\ migrations'[g].flushesLeft = Cardinality(FlushesOf(flushQueue', g))
                        /\ migrations'[g].stalledLeft = Count(stalledRequests', g)
                        /\ migrations'[g].drainsLeft = Cardinality(Drainers(drains', g))
        BY DEF Counts, FlushesOf, Count, Drainers, Migrating
    <2> QED
        BY <1>4, <1>13 DEF IInv, Flushes, Counts, Migrating
<1>17. InTurn(migrations, remaps)'
    <2> SUFFICES ASSUME NEW g \in Migrating'
                 PROVE  /\ migrations'[g].state = "COPY" =>
                               migrations'[g].drainsLeft = 0 /\ IsFlushed(migrations'[g]) /\ g \notin remaps'
                        /\ migrations'[g].drainsLeft > 0 => IsFlushed(migrations'[g])
        BY DEF InTurn, IsFlushed, Migrating
    <2> QED
        BY <1>4, <1>13 DEF IInv, Flushes, InTurn, Migrating
<1>18. FlushTypes' /\ ByPolicy' /\ copies' \subseteq Migrating'
    BY <1>1, <1>4, <1>13 DEF IInv, Flushes, FlushTypes, ByPolicy
<1>19. Tables'
    BY <1>8, <1>9, <1>10, <1>11, <1>12 DEF Tables
<1> QED
    BY <1>15, <1>16, <1>17, <1>18, <1>19 DEF IInv, Flushes, References

\* A writeback more that the memory has refused.
LEMMA StalledAppended ==
    ASSUME NEW s \in Seq(StalledEntries), NEW e \in StalledEntries, NEW r, r = Append(s, e),
           NEW M, \A j \in DOMAIN s : s[j].page \in M
    PROVE  /\ r \in Seq(StalledEntries)
           /\ \A j \in DOMAIN r : r[j].page = e.page \/ r[j].page \in M
           /\ \A g : Count(r, g) = Count(s, g) + IF g = e.page THEN 1 ELSE 0
<1>1. /\ r \in Seq(StalledEntries) /\ Len(r) = Len(s) + 1
      /\ \A j \in 1 .. Len(s) : r[j] = s[j]
      /\ r[Len(s) + 1] = e
    BY AppendProperties
<1>2. DOMAIN s = 1 .. Len(s) /\ Len(s) \in Nat /\ DOMAIN r = 1 .. Len(s) + 1
    BY <1>1, LenProperties
<1>3. \A j \in DOMAIN r : r[j].page = e.page \/ r[j].page \in M
    BY <1>1, <1>2
<1>4. ASSUME NEW g PROVE Count(r, g) = Count(s, g) + IF g = e.page THEN 1 ELSE 0
    <2> DEFINE A == {x \in StalledEntries : x.page = g}
    <2>1. Count(r, g) = Cardinality(Places(r, A)) /\ Count(s, g) = Cardinality(Places(s, A))
        BY <1>1, StalledAreAt
    <2>2. e \in A <=> g = e.page
        OBVIOUS
    <2> HIDE DEF A
    <2>3. Cardinality(Places(Append(s, e), A)) = Cardinality(Places(s, A)) + IF e \in A THEN 1 ELSE 0
        BY PlacesAppend
    <2> QED
        BY <2>1, <2>2, <2>3
<1> QED
    BY <1>1, <1>3, <1>4

\* The table as it is.
LEMMA RecountedByItself ==
    ASSUME Tables
    PROVE  Recounted(migrations)
BY DEF Recounted, Tables, TableTypes, Migrating

\* A step at which the migrations of F are flushed, and m are those of the table
\* but for what is left to be done for them, of others than F for one at least.
Ending(F, m, kind) ==
    /\ F \in SUBSET Migrating /\ Recounted(m) /\ FlushEnds(F, m, kind)
    /\ Counts(m, flushQueue', stalledRequests', drains')
    /\ \A f \in F : IsFlushed(m[f]) /\ m[f].drainsLeft = 0 /\ migrations[f].drainsLeft = 0
    /\ \A f \in Migrating \ F : m[f] = migrations[f] \/ ~IsFlushed(m[f])

\* What a step does to the pages, by MovesAreGuarded.
Guarded == \A v \in Mapped :
    /\ pages'[v].frame # pages[v].frame =>
           pages[v].stallOnAccess /\ drains \cap (Cpus \X {pages[v].frame}) = {}
    /\ pages[v].stallOnAccess /\ ~pages'[v].stallOnAccess =>
           \/ pages'[v].frame = migrations[pages[v].frame].dest
           \/ migrations[pages[v].frame].state = "FLUSH_BEFORE"

\* When a flush ends no core is drained for its page, and the page moves or
\* makes way for the copy.
LEMMA FlushEndsGuarded ==
    ASSUME IInv, NEW F, NEW m, NEW kind, Ending(F, m, kind)
    PROVE  Guarded
<1>0. /\ F \in SUBSET Migrating /\ Recounted(m) /\ FlushEnds(F, m, kind)
      /\ \A f \in F : migrations[f].drainsLeft = 0
    BY DEF Ending
<1>1. Outcome(F, m)
    BY <1>0, FinishFlushingDoes DEF FlushEnds, IInv
<1>2. Moved(F, m) \subseteq F
    BY DEF Moved, Turned, Ended
<1> SUFFICES ASSUME NEW v \in Mapped
             PROVE  /\ pages'[v].frame # pages[v].frame =>
                           pages[v].stallOnAccess /\ drains \cap (Cpus \X {pages[v].frame}) = {}
                    /\ pages[v].stallOnAccess /\ ~pages'[v].stallOnAccess =>
                           \/ pages'[v].frame = migrations[pages[v].frame].dest
                           \/ migrations[pages[v].frame].state = "FLUSH_BEFORE"
    BY DEF Guarded
<1> DEFINE f == pages[v].frame
<1> HIDE DEF f
<1>3. /\ f \notin F => pages'[v] = pages[v]
      /\ pages'[v].frame = IF f \in Moved(F, m) THEN m[f].dest ELSE f
    BY <1>1, <1>2, OutcomeOfPage DEF f
<1>4. CASE f \notin F
    BY <1>3, <1>4 DEF f
<1>5. CASE f \in F
    <2>1. f \in Migrating /\ migrations[f].state # "COPY" /\ migrations[f].drainsLeft = 0
        BY <1>0, <1>5 DEF FlushEnds
    <2>2. pages[v].stallOnAccess
        BY <2>1 DEF f, IInv, Tables, Flagged
    <2>3. drains \cap (Cpus \X {f}) = {}
        <3>1. Cardinality(Drainers(drains, f)) = 0
            BY <2>1 DEF IInv, Flushes, Counts, Migrating
        <3>2. IsFiniteSet(Drainers(drains, f))
            BY PageMigrationAssumption, FS_Subset DEF Drainers
        <3>3. Drainers(drains, f) = {}
            BY <3>1, <3>2, FS_EmptySet
        <3> QED
            BY <3>3 DEF Drainers
    <2>4. pages'[v].frame = migrations[f].dest \/ migrations[f].state = "FLUSH_BEFORE"
        <3>1. m[f].state = migrations[f].state /\ m[f].dest = migrations[f].dest
            BY <1>0, <2>1 DEF Recounted
        <3>2. f \in Moved(F, m) \/ f \in Begun(F, m)
            BY <1>5 DEF Moved, Ended
        <3> QED
            BY <1>3, <3>1, <3>2 DEF Begun
    <2> QED
        BY <2>2, <2>3, <2>4 DEF f
<1> QED
    BY <1>4, <1>5

\* The cache has remapped a page.
LEMMA RemapCompletedKeeps ==
    ASSUME IInv, NEW f \in remaps, RemapCompleted(f)
    PROVE  IInv' /\ Ending({f}, migrations, "none")
<1>1. /\ FinishFlushing({f}, migrations, "none")
      /\ remaps' = remaps \ {f}
      /\ UNCHANGED <<flushPolicy, flushQueue, stalledRequests, registered, drains, coresFinished>>
    BY DEF RemapCompleted, flushVars
<1>2. f \in Migrating /\ flushPolicy = "REMAP"
    BY DEF IInv, Flushes, References, ByPolicy
<1>3. flushQueue = <<>> /\ stalledRequests = <<>> /\ drains = {}
    BY <1>2 DEF IInv, Flushes, ByPolicy
<1>4. Idle(flushQueue, stalledRequests, drains, f)
    BY <1>3 DEF Idle
<1>5. migrations[f].drainsLeft = 0 /\ IsFlushed(migrations[f])
    BY <1>2, <1>4, IdleCounts DEF IInv, Flushes, FlushTypes, Counts, IsFlushed, Migrating
<1>6. migrations[f].state # "COPY"
    BY <1>2 DEF IInv, Flushes, InTurn, Migrating
<1>7. FlushEnds({f}, migrations, "none")
    BY <1>1, <1>6 DEF FlushEnds
<1>8. {f} \in SUBSET Migrating /\ Recounted(migrations)
    BY <1>2, RecountedByItself DEF IInv
<1>9. FlushTypes' /\ ByPolicy'
    BY <1>1 DEF IInv, Flushes, FlushTypes, ByPolicy
<1>10. References(Migrating, flushQueue', stalledRequests', drains', remaps')
    BY <1>1 DEF IInv, Flushes, References
<1>11. Counts(migrations, flushQueue', stalledRequests', drains')
    BY <1>1 DEF IInv, Flushes
<1>12. InTurn(migrations, remaps')
    BY <1>1 DEF IInv, Flushes, InTurn
<1>13. \A g \in {f} : IsFlushed(migrations[g]) /\ migrations[g].drainsLeft = 0 /\ g \notin remaps'
    BY <1>1, <1>5
<1>14. Tables'
    BY <1>7, <1>8, FinishFlushingKeepsTables DEF IInv
<1>15. Flushes'
    BY <1>7, <1>8, <1>9, <1>10, <1>11, <1>12, <1>13, FinishFlushingKeepsFlushes DEF IInv, Flushes
<1>16. Ending({f}, migrations, "none")
    BY <1>5, <1>7, <1>8, <1>11 DEF Ending
<1> QED
    BY <1>14, <1>15, <1>16 DEF IInv

\* A block is flushed; x is the migration of its page then.
LEMMA BlockFlushedKeeps ==
    ASSUME IInv, NEW i \in DOMAIN flushQueue, NEW f, f = flushQueue[i].frame,
           flushQueue' = SendFlushes(RemoveAt(flushQueue, i)),
           NEW x \in Migration, x.virtualPage = migrations[f].virtualPage, x.dest = migrations[f].dest,
           x.state = migrations[f].state, x.rolledBack = migrations[f].rolledBack,
           x.needsCopying = migrations[f].needsCopying,
           x.drainsLeft = migrations[f].drainsLeft, x.flushesLeft = migrations[f].flushesLeft - 1,
           stalledRequests' \in Seq(StalledEntries),
           \A j \in DOMAIN stalledRequests' : \/ stalledRequests'[j].page = f
                                              \/ stalledRequests'[j].page \in Migrating,
           x.stalledLeft = Count(stalledRequests', f),
           \A g \in Migrating : g # f => Count(stalledRequests', g) = Count(stalledRequests, g),
           FinishFlushing(IF IsFlushed(x) THEN {f} ELSE {}, [migrations EXCEPT ![f] = x], "none"),
           registered' \in BOOLEAN, UNCHANGED <<drainVars, coresFinished>>
    PROVE  IInv' /\ \E F, m : Ending(F, m, "none")
<1> DEFINE F == IF IsFlushed(x) THEN {f} ELSE {}
           m == [migrations EXCEPT ![f] = x]
<1>1. flushQueue \in Seq(FlushEntries) /\ f \in Migrating
    BY DEF IInv, Flushes, FlushTypes, References
<1>2. /\ flushQueue' \in Seq(FlushEntries)
      /\ FlushesIn(flushQueue', Migrating)
      /\ \A g : g # f => Cardinality(FlushesOf(flushQueue', g)) = Cardinality(FlushesOf(flushQueue, g))
      /\ Cardinality(FlushesOf(flushQueue', f)) = Cardinality(FlushesOf(flushQueue, f)) - 1
      /\ Cardinality(FlushesOf(flushQueue, f)) \in Nat \ {0}
    <2>1. FlushesIn(flushQueue, Migrating)
        BY DEF IInv, Flushes, References, FlushesIn
    <2> QED
        BY <1>1, <2>1, FlushCompletedRemoves
<1>3. /\ migrations[f].flushesLeft = Cardinality(FlushesOf(flushQueue, f))
      /\ migrations[f].flushesLeft > 0
    BY <1>1, <1>2 DEF IInv, Flushes, Counts, Migrating
<1>4. migrations[f].state # "COPY" /\ migrations[f].drainsLeft = 0
    <2>1. ~IsFlushed(migrations[f])
        BY <1>3 DEF IsFlushed
    <2>2. migrations[f].drainsLeft \in Nat
        BY <1>1 DEF IInv, Tables, TableTypes, Migration
    <2> QED
        BY <1>1, <2>1, <2>2 DEF IInv, Flushes, InTurn, Migrating
<1>5. flushPolicy # "REMAP" /\ remaps = {}
    <2>1. flushQueue # <<>>
        BY EmptySeq
    <2> QED
        BY <2>1 DEF IInv, Flushes, ByPolicy
<1>6. UNCHANGED <<flushPolicy, drains, remaps, coresFinished>>
    BY DEF drainVars
<1>7. /\ DOMAIN m = Migrating /\ m[f] = x /\ \A g \in Migrating : g # f => m[g] = migrations[g]
    BY <1>1 DEF Migrating
<1>8. F \in SUBSET Migrating /\ \A g \in F : g = f /\ IsFlushed(x)
    BY <1>1
<1>9. FinishFlushing(F, m, "none")
    OBVIOUS
<1> HIDE DEF F, m
<1>10. Recounted(m)
    BY <1>1, <1>7, RecountedByItself DEF Recounted, IInv
<1>11. FlushEnds(F, m, "none")
    BY <1>4, <1>8, <1>9 DEF FlushEnds
<1>12. Tables'
    BY <1>8, <1>10, <1>11, FinishFlushingKeepsTables DEF IInv
<1>13. FlushTypes' /\ ByPolicy'
    BY <1>2, <1>5, <1>6 DEF IInv, Flushes, FlushTypes, ByPolicy
<1>14. References(Migrating, flushQueue', stalledRequests', drains', remaps')
    BY <1>1, <1>2, <1>6 DEF IInv, Flushes, References, FlushesIn
<1>15. Counts(m, flushQueue', stalledRequests', drains')
    <2> SUFFICES ASSUME NEW g \in Migrating
                 PROVE  /\ m[g].flushesLeft = Cardinality(FlushesOf(flushQueue', g))
                        /\ m[g].stalledLeft = Count(stalledRequests', g)
                        /\ m[g].drainsLeft = Cardinality(Drainers(drains', g))
        BY <1>7 DEF Counts
    <2>1. /\ migrations[g].flushesLeft = Cardinality(FlushesOf(flushQueue, g))
          /\ migrations[g].stalledLeft = Count(stalledRequests, g)
          /\ migrations[g].drainsLeft = Cardinality(Drainers(drains, g))
        BY DEF IInv, Flushes, Counts, Migrating
    <2>2. CASE g = f
        BY <1>2, <1>6, <1>7, <2>1, <2>2
    <2>3. CASE g # f
        <3>1. Cardinality(FlushesOf(flushQueue', g)) = Cardinality(FlushesOf(flushQueue, g))
            BY <1>1, <1>2, <2>3, FlushesFinite
        <3> QED
            BY <1>6, <1>7, <2>1, <2>3, <3>1
    <2> QED
        BY <2>2, <2>3
<1>16. InTurn(m, remaps')
    <2> SUFFICES ASSUME NEW g \in Migrating
                 PROVE  /\ m[g].state = "COPY" => m[g].drainsLeft = 0 /\ IsFlushed(m[g]) /\ g \notin remaps'
                        /\ m[g].drainsLeft > 0 => IsFlushed(m[g])
        BY <1>7 DEF InTurn
    <2>1. CASE g = f
        BY <1>4, <1>7, <2>1
    <2>2. CASE g # f
        BY <1>6, <1>7, <2>2 DEF IInv, Flushes, InTurn, Migrating
    <2> QED
        BY <2>1, <2>2
<1>17. \A g \in F : IsFlushed(m[g]) /\ m[g].drainsLeft = 0 /\ g \notin remaps'
    BY <1>4, <1>5, <1>6, <1>7, <1>8
<1>18. Flushes'
    BY <1>8, <1>10, <1>11, <1>13, <1>14, <1>15, <1>16, <1>17, FinishFlushingKeepsFlushes DEF IInv, Flushes
<1>19. \A g \in Migrating \ F : m[g] = migrations[g] \/ ~IsFlushed(m[g])
    <2>1. IsFlushed(x) => f \in F
        BY DEF F
    <2> QED
        BY <1>7, <2>1
<1>20. Ending(F, m, "none")
    BY <1>4, <1>8, <1>10, <1>11, <1>15, <1>17, <1>19 DEF Ending
<1> QED
    BY <1>12, <1>18, <1>20 DEF IInv

\* The cache has flushed a block, which may leave a writeback.
LEMMA FlushCompletedKeeps ==
    ASSUME IInv, NEW i \in DOMAIN flushQueue, NEW dirty \in BOOLEAN, FlushCompleted(i, dirty)
    PROVE  IInv' /\ \E F, m : Ending(F, m, "none")
<1> DEFINE f == flushQueue[i].frame
           flushed == [migrations[f] EXCEPT !.flushesLeft = @ - 1]
           more == [flushed EXCEPT !.stalledLeft = @ + 1]
<1>1. f \in Migrating /\ f \in Frames /\ migrations[f] \in Migration
    BY DEF IInv, Flushes, References, Tables, TableTypes
<1>2. /\ flushQueue' = SendFlushes(RemoveAt(flushQueue, i))
      /\ UNCHANGED <<drainVars, coresFinished>>
    BY DEF FlushCompleted
<1>3. /\ migrations[f].flushesLeft > 0
      /\ migrations[f].stalledLeft = Count(stalledRequests, f)
    <2>1. Cardinality(FlushesOf(flushQueue, f)) \in Nat \ {0}
        <3>1. f = flushQueue[i].frame /\ flushQueue \in Seq(FlushEntries)
              /\ FlushesIn(flushQueue, Migrating)
            BY DEF IInv, Flushes, FlushTypes, References, FlushesIn
        <3> HIDE DEF f
        <3> QED
            BY <1>2, <3>1, FlushCompletedRemoves
    <2>2. migrations[f].flushesLeft = Cardinality(FlushesOf(flushQueue, f))
        BY <1>1 DEF IInv, Flushes, Counts, Migrating
    <2> HIDE DEF f
    <2> QED
        BY <1>1, <2>1, <2>2 DEF IInv, Flushes, Counts, Migrating
<1>4. /\ flushed \in Migration
      /\ flushed.virtualPage = migrations[f].virtualPage /\ flushed.dest = migrations[f].dest
      /\ flushed.state = migrations[f].state /\ flushed.rolledBack = migrations[f].rolledBack
      /\ flushed.needsCopying = migrations[f].needsCopying
      /\ flushed.drainsLeft = migrations[f].drainsLeft
      /\ flushed.flushesLeft = migrations[f].flushesLeft - 1
      /\ flushed.stalledLeft = migrations[f].stalledLeft
    <2> HIDE DEF f
    <2> QED
        BY <1>1, <1>3 DEF Migration
<1>5. /\ more \in Migration
      /\ more.virtualPage = migrations[f].virtualPage /\ more.dest = migrations[f].dest
      /\ more.state = migrations[f].state /\ more.rolledBack = migrations[f].rolledBack
      /\ more.needsCopying = migrations[f].needsCopying
      /\ more.drainsLeft = migrations[f].drainsLeft
      /\ more.flushesLeft = migrations[f].flushesLeft - 1
      /\ more.stalledLeft = migrations[f].stalledLeft + 1
    <2> HIDE DEF f, flushed
    <2> QED
        BY <1>4 DEF Migration
<1>6. /\ stalledRequests \in Seq(StalledEntries)
      /\ \A j \in DOMAIN stalledRequests : stalledRequests[j].page \in Migrating
      /\ registered \in BOOLEAN
    BY DEF IInv, Flushes, FlushTypes, References
<1>7. CASE /\ FinishFlushing(IF IsFlushed(flushed) THEN {f} ELSE {}, [migrations EXCEPT ![f] = flushed], "none")
           /\ UNCHANGED <<stalledRequests, registered>>
    <2> HIDE DEF flushed, f
    <2>1. f = flushQueue[i].frame
        BY DEF f
    <2> QED
        BY <1>2, <1>3, <1>4, <1>6, <1>7, <2>1, BlockFlushedKeeps
<1>8. CASE /\ stalledRequests' = Append(stalledRequests, [page |-> f, to |-> WritebackFrame(f)])
           /\ registered' = (registered \/ stalledRequests = <<>>)
           /\ FinishFlushing(IF IsFlushed(more) THEN {f} ELSE {}, [migrations EXCEPT ![f] = more], "none")
    <2> DEFINE e == [page |-> f, to |-> WritebackFrame(f)]
    <2>1. e \in StalledEntries /\ e.page = f
        BY <1>1 DEF StalledEntries, WritebackFrame, Migration
    <2> HIDE DEF e, f, more
    <2>2. stalledRequests' = Append(stalledRequests, e)
        BY <1>8 DEF e
    <2>3. /\ stalledRequests' \in Seq(StalledEntries)
          /\ \A j \in DOMAIN stalledRequests' : stalledRequests'[j].page = f \/ stalledRequests'[j].page \in Migrating
          /\ \A g : Count(stalledRequests', g) = Count(stalledRequests, g) + IF g = f THEN 1 ELSE 0
        <3>1. /\ Append(stalledRequests, e) \in Seq(StalledEntries)
              /\ \A j \in DOMAIN Append(stalledRequests, e) :
                     Append(stalledRequests, e)[j].page = e.page \/ Append(stalledRequests, e)[j].page \in Migrating
              /\ \A g : Count(Append(stalledRequests, e), g)
                            = Count(stalledRequests, g) + IF g = e.page THEN 1 ELSE 0
            BY <1>6, <2>1, StalledAppended
        <3> QED
            BY <2>1, <2>2, <3>1
    <2>4. more.stalledLeft = Count(stalledRequests', f)
        BY <1>3, <1>5, <2>3
    <2>5. \A g \in Migrating : g # f => Count(stalledRequests', g) = Count(stalledRequests, g)
        <3>1. \A g : Count(stalledRequests, g) \in Nat
            BY <1>6, StalledFinite
        <3> QED
            BY <2>3, <3>1
    <2>6. registered' \in BOOLEAN
        BY <1>6, <1>8
    <2>7. f = flushQueue[i].frame
        BY DEF f
    <2> QED
        <3>1. /\ stalledRequests' \in Seq(StalledEntries)
              /\ \A j \in DOMAIN stalledRequests' : \/ stalledRequests'[j].page = f
                                                 \/ stalledRequests'[j].page \in Migrating
            BY <2>3
        <3>2. FinishFlushing(IF IsFlushed(more) THEN {f} ELSE {}, [migrations EXCEPT ![f] = more], "none")
            BY <1>8
        <3> QED
            BY <1>2, <1>5, <2>4, <2>5, <2>6, <2>7, <3>1, <3>2, BlockFlushedKeeps
<1> HIDE DEF more
<1> QED
    BY <1>7, <1>8 DEF FlushCompleted, more

\* A core has drained; the last of them lets the flush begin.
LEMMA DrainCompletedKeeps ==
    ASSUME IInv, NEW c, NEW f, <<c, f>> \in drains, DrainCompleted(c, f)
    PROVE  IInv'
<1> DEFINE m == [migrations[f] EXCEPT !.drainsLeft = @ - 1]
           last == m.drainsLeft = 0
           x == migrations'[f]
<1>1. /\ drains' = drains \ {<<c, f>>}
      /\ last => flushQueue' = SendFlushes(flushQueue \o BlocksOf(f))
                 /\ migrations' = [migrations EXCEPT ![f] = Flushing(m)]
      /\ ~last => flushQueue' = flushQueue /\ migrations' = [migrations EXCEPT ![f] = m]
      /\ UNCHANGED <<flushPolicy, tableVars, remaps, stalledRequests, registered, migrationTableSize,
                     demoting, events, coresFinished, stalledCpus, copies>>
    BY DEF DrainCompleted, FlushPage
<1>2. f \in Migrating /\ c \in Cpus /\ f \in Frames /\ migrations[f] \in Migration
    BY DEF IInv, Flushes, References, Tables, TableTypes
<1>3. /\ Drainers(drains', f) = Drainers(drains, f) \ {c} /\ c \in Drainers(drains, f)
      /\ \A g : g # f => Drainers(drains', g) = Drainers(drains, g)
    BY <1>1, <1>2 DEF Drainers
<1>4. /\ Cardinality(Drainers(drains', f)) = Cardinality(Drainers(drains, f)) - 1
      /\ Cardinality(Drainers(drains', f)) \in Nat
    BY <1>3, DrainersFinite, FS_RemoveElement
<1>5. /\ migrations[f].drainsLeft = Cardinality(Drainers(drains, f))
      /\ migrations[f].stalledLeft = Count(stalledRequests, f)
      /\ migrations[f].flushesLeft = Cardinality(FlushesOf(flushQueue, f))
    BY <1>2 DEF IInv, Flushes, Counts, Migrating
<1>6. migrations[f].drainsLeft - 1 \in Nat /\ migrations[f].drainsLeft > 0
    BY <1>4, <1>5, DrainersFinite
<1>7. migrations[f].state # "COPY" /\ IsFlushed(migrations[f])
    BY <1>2, <1>6 DEF IInv, Flushes, InTurn, Migrating
<1>8. flushPolicy # "REMAP" /\ remaps = {}
    BY DEF IInv, Flushes, ByPolicy
<1>9. Migrating' = Migrating /\ \A g \in Migrating : g # f => migrations'[g] = migrations[g]
    BY <1>1 DEF Migrating
<1>10. /\ m \in Migration
       /\ m.virtualPage = migrations[f].virtualPage /\ m.dest = migrations[f].dest
       /\ m.state = migrations[f].state /\ m.rolledBack = migrations[f].rolledBack
       /\ m.stalledLeft = migrations[f].stalledLeft /\ m.flushesLeft = migrations[f].flushesLeft
       /\ m.drainsLeft = migrations[f].drainsLeft - 1
    BY <1>2, <1>6 DEF Migration
<1> HIDE DEF m
<1>11. NumBlocks \in Nat
    BY PageMigrationAssumption
<1>12. /\ x \in Migration
       /\ x.virtualPage = migrations[f].virtualPage /\ x.dest = migrations[f].dest
       /\ x.state = migrations[f].state /\ x.rolledBack = migrations[f].rolledBack
       /\ x.stalledLeft = migrations[f].stalledLeft
       /\ x.drainsLeft = migrations[f].drainsLeft - 1
       /\ x.flushesLeft = migrations[f].flushesLeft + IF last THEN NumBlocks ELSE 0
    <2>1. CASE last
        <3>1. x = [m EXCEPT !.flushesLeft = @ + NumBlocks]
            BY <1>1, <1>2, <2>1 DEF Flushing, Migrating
        <3>2. m.flushesLeft + NumBlocks \in Nat
            BY <1>10, <1>11 DEF Migration
        <3>3. /\ x \in Migration /\ x.virtualPage = m.virtualPage /\ x.dest = m.dest /\ x.state = m.state
              /\ x.rolledBack = m.rolledBack /\ x.stalledLeft = m.stalledLeft /\ x.drainsLeft = m.drainsLeft
              /\ x.flushesLeft = m.flushesLeft + NumBlocks
            <4> HIDE DEF x
            <4> QED
                BY <1>10, <3>1, <3>2 DEF Migration
        <3> HIDE DEF x
        <3> QED
            BY <1>10, <2>1, <3>3
    <2>2. CASE ~last
        <3>1. x = m
            BY <1>1, <1>2, <2>2 DEF Migrating
        <3>2. m.flushesLeft + 0 = m.flushesLeft
            BY <1>10 DEF Migration
        <3> HIDE DEF x
        <3> QED
            BY <1>10, <2>2, <3>1, <3>2
    <2> QED
        BY <2>1, <2>2
<1>13. /\ flushQueue' \in Seq(FlushEntries) /\ FlushesIn(flushQueue', Migrating)
       /\ \A g : Cardinality(FlushesOf(flushQueue', g))
                     = Cardinality(FlushesOf(flushQueue, g)) + IF g = f /\ last THEN NumBlocks ELSE 0
    <2>1. flushQueue \in Seq(FlushEntries) /\ FlushesIn(flushQueue, Migrating)
        BY DEF IInv, Flushes, FlushTypes, References, FlushesIn
    <2>2. CASE last
        <3>1. flushQueue' = SendFlushes(flushQueue \o BlocksOf(f))
            BY <1>1, <2>2
        <3>2. /\ flushQueue' \in Seq(FlushEntries)
              /\ \A i \in DOMAIN flushQueue' : flushQueue'[i].frame = f
                     \/ \E j \in DOMAIN flushQueue : flushQueue'[i].frame = flushQueue[j].frame
              /\ \A g : Cardinality(FlushesOf(flushQueue', g))
                            = Cardinality(FlushesOf(flushQueue, g)) + IF g = f THEN NumBlocks ELSE 0
            BY <1>2, <2>1, <3>1, FlushPageAdds
        <3>3. FlushesIn(flushQueue', Migrating)
            BY <1>2, <2>1, <3>2 DEF FlushesIn
        <3> QED
            BY <2>2, <3>2, <3>3
    <2>3. CASE ~last
        <3>1. flushQueue' = flushQueue
            BY <1>1, <2>3
        <3>2. \A g : Cardinality(FlushesOf(flushQueue, g)) + 0 = Cardinality(FlushesOf(flushQueue, g))
            BY <2>1, FlushesFinite
        <3> QED
            BY <2>1, <2>3, <3>1, <3>2
    <2> QED
        BY <2>2, <2>3
<1> HIDE DEF last, x
<1>14. x = migrations'[f]
    BY DEF x
<1>15. Tables'
    <2>1. ASSUME NEW g \in Migrating
          PROVE  /\ migrations'[g] \in Migration
                 /\ migrations'[g].virtualPage = migrations[g].virtualPage
                 /\ migrations'[g].dest = migrations[g].dest
                 /\ migrations'[g].state = migrations[g].state
                 /\ migrations'[g].rolledBack => g \in PcmFrames
        <3>1. migrations[g] \in Migration /\ (migrations[g].rolledBack => g \in PcmFrames)
            BY DEF IInv, Tables, TableTypes, Sourced
        <3> QED
            BY <1>9, <1>12, <1>14, <3>1
    <2>2. demoting' \in BOOLEAN /\ events' \in [Kinds -> Nat] /\ copies' \subseteq Frames
        BY <1>1 DEF IInv, Tables, TableTypes
    <2> QED
        BY <1>1, <1>9, <2>1, <2>2, RecountKeepsTables DEF IInv
<1>16. FlushTypes' /\ ByPolicy'
    BY <1>1, <1>8, <1>13 DEF IInv, Flushes, FlushTypes, ByPolicy
<1>17. References(Migrating', flushQueue', stalledRequests', drains', remaps')
    BY <1>1, <1>9, <1>13 DEF IInv, Flushes, References, FlushesIn
<1>18. Counts(migrations, flushQueue, stalledRequests, drains)'
    <2> SUFFICES ASSUME NEW g \in Migrating
                 PROVE  /\ migrations'[g].flushesLeft = Cardinality(FlushesOf(flushQueue', g))
                        /\ migrations'[g].stalledLeft = Count(stalledRequests', g)
                        /\ migrations'[g].drainsLeft = Cardinality(Drainers(drains', g))
        BY <1>9 DEF Counts, FlushesOf, Count, Drainers, Migrating
    <2>1. /\ migrations[g].flushesLeft = Cardinality(FlushesOf(flushQueue, g))
          /\ migrations[g].stalledLeft = Count(stalledRequests, g)
          /\ migrations[g].drainsLeft = Cardinality(Drainers(drains, g))
        BY DEF IInv, Flushes, Counts, Migrating
    <2>2. stalledRequests' = stalledRequests
        BY <1>1
    <2>3. CASE g = f
        BY <1>4, <1>5, <1>12, <1>13, <1>14, <2>2, <2>3
    <2>4. CASE g # f
        <3>1. Cardinality(FlushesOf(flushQueue', g)) = Cardinality(FlushesOf(flushQueue, g))
            <4>1. Cardinality(FlushesOf(flushQueue, g)) \in Nat
                BY FlushesFinite DEF IInv, Flushes, FlushTypes
            <4> QED
                BY <1>13, <2>4, <4>1
        <3> QED
            BY <1>3, <1>9, <2>1, <2>2, <2>4, <3>1
    <2> QED
        BY <2>3, <2>4
<1>19. InTurn(migrations, remaps)'
    <2> SUFFICES ASSUME NEW g \in Migrating
                 PROVE  /\ migrations'[g].state = "COPY" =>
                               migrations'[g].drainsLeft = 0 /\ IsFlushed(migrations'[g]) /\ g \notin remaps'
                        /\ migrations'[g].drainsLeft > 0 => IsFlushed(migrations'[g])
        BY <1>9 DEF InTurn, IsFlushed, Migrating
    <2>1. CASE g = f
        <3>1. x.drainsLeft > 0 => ~last
            BY <1>10, <1>12 DEF last
        <3>2. ~last => IsFlushed(x)
            BY <1>7, <1>12 DEF IsFlushed
        <3> QED
            BY <1>7, <1>12, <1>14, <2>1, <3>1, <3>2
    <2>2. CASE g # f
        BY <1>1, <1>9, <2>2 DEF IInv, Flushes, InTurn, Migrating
    <2> QED
        BY <2>1, <2>2
<1>20. copies' \subseteq Migrating'
    BY <1>1, <1>9 DEF IInv, Flushes
<1> QED
    BY <1>15, <1>16, <1>17, <1>18, <1>19, <1>20 DEF IInv, Flushes, References

StalledIn(s, M) == \A i \in DOMAIN s : s[i].page \in M

\* The first n of the writebacks, and the others.
LEMMA StalledSplit ==
    ASSUME NEW s \in Seq(StalledEntries), NEW n \in 0 .. Len(s), NEW M, StalledIn(s, M)
    PROVE  /\ SubSeq(s, n + 1, Len(s)) \in Seq(StalledEntries)
           /\ StalledIn(SubSeq(s, n + 1, Len(s)), M)
           /\ \A g : /\ Count(SubSeq(s, 1, n), g) \in Nat
                     /\ Count(SubSeq(s, n + 1, Len(s)), g) \in Nat
                     /\ Count(s, g) = Count(SubSeq(s, 1, n), g) + Count(SubSeq(s, n + 1, Len(s)), g)
<1> DEFINE left == SubSeq(s, 1, n)
           right == SubSeq(s, n + 1, Len(s))
<1>1. left \in Seq(StalledEntries) /\ right \in Seq(StalledEntries)
    BY PlacesSplit
<1>2. ASSUME NEW A
      PROVE  Cardinality(Places(s, A)) = Cardinality(Places(left, A)) + Cardinality(Places(right, A))
    BY PlacesSplit
<1>3. Len(s) \in Nat /\ DOMAIN s = 1 .. Len(s) /\ \A i \in 1 .. Len(s) : s[i] \in StalledEntries
    BY LenProperties, ElementOfSeq
<1>4. StalledIn(right, M)
    <2>1. /\ Len(right) = IF n + 1 <= Len(s) THEN Len(s) - (n + 1) + 1 ELSE 0
          /\ \A i \in 1 .. Len(s) - (n + 1) + 1 : right[i] = s[(n + 1) + i - 1]
        BY <1>3, SubSeqProperties
    <2>2. DOMAIN right = 1 .. Len(right)
        <3> HIDE DEF right
        <3> QED
            BY <1>1, LenProperties
    <2> SUFFICES ASSUME NEW i \in DOMAIN right PROVE right[i].page \in M
        BY DEF StalledIn
    <2> HIDE DEF right
    <2>3. n \in Nat /\ i \in Nat /\ 1 <= i /\ i <= Len(right)
        BY <1>3, <2>1, <2>2
    <2>4. n + 1 <= Len(s) /\ i <= Len(s) - (n + 1) + 1
        <3>1. Len(s) \in Nat
            BY <1>3
        <3>2. n + 1 <= Len(s)
            <4>1. CASE ~ (n + 1 <= Len(s))
                <5>1. Len(right) = 0
                    BY <2>1, <4>1
                <5> QED
                    BY <2>3, <5>1
            <4> QED
                BY <4>1
        <3>3. Len(right) = Len(s) - (n + 1) + 1
            BY <2>1, <3>2
        <3> QED
            BY <2>3, <3>2, <3>3
    <2>5. i \in 1 .. Len(s) - (n + 1) + 1 /\ (n + 1) + i - 1 \in 1 .. Len(s)
        BY <1>3, <2>3, <2>4
    <2> QED
        BY <1>3, <2>1, <2>5 DEF StalledIn
<1> HIDE DEF left, right
<1>5. ASSUME NEW g
      PROVE  Count(left, g) \in Nat /\ Count(right, g) \in Nat /\ Count(s, g) = Count(left, g) + Count(right, g)
    <2> DEFINE A == {e \in StalledEntries : e.page = g}
    <2>1. /\ Count(left, g) = Cardinality(Places(left, A)) /\ Count(right, g) = Cardinality(Places(right, A))
          /\ Count(s, g) = Cardinality(Places(s, A))
        BY <1>1, StalledAreAt
    <2> HIDE DEF A
    <2> QED
        BY <1>1, <1>2, <2>1, StalledFinite
<1> QED
    BY <1>1, <1>4, <1>5 DEF left, right

\* The UNSTALL event: the memory takes some of the writebacks.
LEMMA UnstallEventKeeps ==
    ASSUME IInv, NEW n \in 0 .. Len(stalledRequests), UnstallEvent(n)
    PROVE  IInv' /\ \E F, m : Ending(F, m, "UNSTALL")
<1> DEFINE taken == SubSeq(stalledRequests, 1, n)
           m == [f \in Migrating |-> [migrations[f] EXCEPT !.stalledLeft = @ - Count(taken, f)]]
           F == {f \in Migrating : Count(taken, f) > 0 /\ IsFlushed(m[f])}
<1>1. /\ events["UNSTALL"] > 0
      /\ stalledRequests' = SubSeq(stalledRequests, n + 1, Len(stalledRequests))
      /\ registered' = (registered \/ n < Len(stalledRequests))
      /\ FinishFlushing(F, m, "UNSTALL")
      /\ UNCHANGED <<flushPolicy, flushQueue, drains, remaps, coresFinished>>
    BY DEF UnstallEvent, drainVars
<1>2. /\ stalledRequests' \in Seq(StalledEntries)
      /\ StalledIn(stalledRequests', Migrating)
      /\ \A g : /\ Count(taken, g) \in Nat /\ Count(stalledRequests', g) \in Nat
                /\ Count(stalledRequests, g) = Count(taken, g) + Count(stalledRequests', g)
    <2>1. stalledRequests \in Seq(StalledEntries) /\ StalledIn(stalledRequests, Migrating)
        BY DEF IInv, Flushes, FlushTypes, References, StalledIn
    <2> QED
        BY <1>1, <2>1, StalledSplit
<1> HIDE DEF taken
<1>3. ASSUME NEW f \in Migrating
      PROVE  /\ m[f] \in Migration
             /\ m[f].virtualPage = migrations[f].virtualPage /\ m[f].dest = migrations[f].dest
             /\ m[f].state = migrations[f].state /\ m[f].rolledBack = migrations[f].rolledBack
             /\ m[f].needsCopying = migrations[f].needsCopying
             /\ m[f].drainsLeft = migrations[f].drainsLeft
             /\ m[f].flushesLeft = migrations[f].flushesLeft
             /\ m[f].stalledLeft = Count(stalledRequests', f)
             /\ migrations[f].stalledLeft = Count(taken, f) + Count(stalledRequests', f)
             /\ Count(taken, f) = 0 => m[f] = migrations[f]
    <2>1. migrations[f] \in Migration
        BY DEF IInv, Tables, TableTypes
    <2>2. migrations[f].stalledLeft = Count(taken, f) + Count(stalledRequests', f)
        BY <1>2 DEF IInv, Flushes, Counts, Migrating
    <2>3. migrations[f].stalledLeft - Count(taken, f) = Count(stalledRequests', f)
        BY <1>2, <2>2
    <2>4. m[f] = [migrations[f] EXCEPT !.stalledLeft = Count(stalledRequests', f)]
        BY <2>1, <2>3 DEF Migration
    <2>5. Count(stalledRequests', f) \in Nat
        BY <1>2
    <2> HIDE DEF m
    <2>6. Count(taken, f) = 0 => migrations[f].stalledLeft = Count(stalledRequests', f)
        BY <2>2, <2>5
    <2>7. Count(taken, f) = 0 => m[f] = migrations[f]
        BY <2>1, <2>4, <2>6 DEF Migration
    <2> QED
        BY <2>1, <2>2, <2>4, <2>5, <2>7 DEF Migration
<1>4. /\ F \in SUBSET Migrating /\ \A f \in F : Count(taken, f) > 0 /\ IsFlushed(m[f])
      /\ \A f \in Migrating \ F : Count(taken, f) > 0 => ~IsFlushed(m[f])
    OBVIOUS
<1>5. DOMAIN m = Migrating
    OBVIOUS
<1> HIDE DEF m, F
<1>6. Recounted(m)
    BY <1>3, <1>5 DEF Recounted
<1>7. \A f \in F : migrations[f].state # "COPY" /\ migrations[f].drainsLeft = 0 /\ f \notin remaps
    <2> SUFFICES ASSUME NEW f \in F
                 PROVE  migrations[f].state # "COPY" /\ migrations[f].drainsLeft = 0 /\ f \notin remaps
        OBVIOUS
    <2>1. f \in Migrating /\ Count(taken, f) > 0
        BY <1>4
    <2>2. migrations[f].stalledLeft > 0
        BY <1>2, <1>3, <2>1
    <2>3. ~IsFlushed(migrations[f])
        BY <2>2 DEF IsFlushed
    <2>4. migrations[f].drainsLeft \in Nat
        BY <2>1 DEF IInv, Tables, TableTypes, Migration
    <2>5. Count(stalledRequests, f) # 0
        BY <2>1, <2>2 DEF IInv, Flushes, Counts, Migrating
    <2>6. stalledRequests # <<>>
        <3>1. stalledRequests = <<>> => Idle(<<>>, stalledRequests, {}, f)
            BY DEF Idle
        <3>2. <<>> \in Seq(FlushEntries) /\ stalledRequests \in Seq(StalledEntries)
            BY EmptySeq DEF IInv, Flushes, FlushTypes
        <3> QED
            BY <2>5, <3>1, <3>2, IdleCounts
    <2>7. f \notin remaps
        BY <2>6 DEF IInv, Flushes, ByPolicy
    <2> QED
        BY <2>1, <2>3, <2>4, <2>7 DEF IInv, Flushes, InTurn, Migrating
<1>8. FlushEnds(F, m, "UNSTALL")
    BY <1>1, <1>7 DEF FlushEnds
<1>9. Tables'
    BY <1>4, <1>6, <1>8, FinishFlushingKeepsTables DEF IInv
<1>10. FlushTypes' /\ ByPolicy'
    <2>1. registered' \in BOOLEAN
        BY <1>1
    <2>2. flushPolicy = "REMAP" => stalledRequests' = <<>>
        <3> SUFFICES ASSUME flushPolicy = "REMAP" PROVE stalledRequests' = <<>>
            OBVIOUS
        <3>1. stalledRequests = <<>>
            BY DEF IInv, Flushes, ByPolicy
        <3>2. Len(stalledRequests) = 0 /\ n = 0
            BY <3>1
        <3> QED
            BY <1>1, <3>2, SubSeqEmpty
    <2> QED
        BY <1>1, <1>2, <2>1, <2>2 DEF IInv, Flushes, FlushTypes, ByPolicy
<1>11. References(Migrating, flushQueue', stalledRequests', drains', remaps')
    BY <1>1, <1>2 DEF IInv, Flushes, References, StalledIn
<1>12. Counts(m, flushQueue', stalledRequests', drains')
    <2> SUFFICES ASSUME NEW f \in Migrating
                 PROVE  /\ m[f].flushesLeft = Cardinality(FlushesOf(flushQueue', f))
                        /\ m[f].stalledLeft = Count(stalledRequests', f)
                        /\ m[f].drainsLeft = Cardinality(Drainers(drains', f))
        BY <1>5 DEF Counts
    <2>1. /\ migrations[f].flushesLeft = Cardinality(FlushesOf(flushQueue, f))
          /\ migrations[f].drainsLeft = Cardinality(Drainers(drains, f))
        BY DEF IInv, Flushes, Counts, Migrating
    <2> QED
        BY <1>1, <1>3, <2>1
<1>13. InTurn(m, remaps')
    <2> SUFFICES ASSUME NEW f \in Migrating
                 PROVE  /\ m[f].state = "COPY" => m[f].drainsLeft = 0 /\ IsFlushed(m[f]) /\ f \notin remaps'
                        /\ m[f].drainsLeft > 0 => IsFlushed(m[f])
        BY <1>5 DEF InTurn
    <2>1. /\ migrations[f].state = "COPY" =>
                 migrations[f].drainsLeft = 0 /\ IsFlushed(migrations[f]) /\ f \notin remaps
          /\ migrations[f].drainsLeft > 0 => IsFlushed(migrations[f])
        BY DEF IInv, Flushes, InTurn, Migrating
    <2>2. IsFlushed(migrations[f]) => IsFlushed(m[f])
        BY <1>2, <1>3 DEF IsFlushed
    <2> QED
        BY <1>1, <1>3, <2>1, <2>2
<1>14. \A f \in F : IsFlushed(m[f]) /\ m[f].drainsLeft = 0 /\ f \notin remaps'
    BY <1>1, <1>3, <1>4, <1>7
<1>15. Flushes'
    BY <1>4, <1>6, <1>8, <1>10, <1>11, <1>12, <1>13, <1>14, FinishFlushingKeepsFlushes DEF IInv, Flushes
<1>16. \A f \in Migrating \ F : m[f] = migrations[f] \/ ~IsFlushed(m[f])
    BY <1>2, <1>3, <1>4
<1>17. Ending(F, m, "UNSTALL")
    BY <1>4, <1>6, <1>7, <1>8, <1>12, <1>14, <1>16 DEF Ending
<1> QED
    BY <1>9, <1>15, <1>17 DEF IInv

-----------------------------------------------------------------------------
(* The theorems *)

\* Every step keeps the invariant.
LEMMA NextKeeps == IInv /\ [Next]_vars => IInv'
<1> SUFFICES ASSUME IInv, [Next]_vars PROVE IInv'
    OBVIOUS
<1>1. ASSUME NEW v \in Pages, Allocate(v) PROVE IInv'
    BY <1>1, AllocateKeeps
<1>2. ASSUME NEW c \in Cpus, NEW v \in Pages, StallCpu(c, v) PROVE IInv'
    BY <1>2, StallCpuKeeps
<1>3. CASE FinishCores
    BY <1>3, FinishCoresKeeps
<1>4. ASSUME NEW f \in PcmFrames, MigrateOnDemand(f) PROVE IInv'
    BY <1>4, MigrateOnDemandKeeps
<1>5. ASSUME NEW f \in copies, CopyCompleted(f) PROVE IInv'
    BY <1>5, CopyCompletedKeeps
<1>6. ASSUME NEW f \in copies, RollbackCompleted(f) PROVE IInv'
    BY <1>6, RollbackCompletedKeeps
<1>7. ASSUME NEW d \in drains, DrainCompleted(d[1], d[2]) PROVE IInv'
    <2>1. d \in Cpus \X Frames
        BY DEF IInv, Flushes, FlushTypes
    <2>2. <<d[1], d[2]>> \in drains
        BY <2>1
    <2> QED
        BY <1>7, <2>2, DrainCompletedKeeps
<1>8. ASSUME NEW i \in DOMAIN flushQueue, NEW dirty \in BOOLEAN, FlushCompleted(i, dirty) PROVE IInv'
    BY <1>8, FlushCompletedKeeps
<1>9. ASSUME NEW f \in remaps, RemapCompleted(f) PROVE IInv'
    BY <1>9, RemapCompletedKeeps
<1>10. CASE MemoryUnstalls
    BY <1>10, MemoryUnstallsKeeps
<1>11. ASSUME NEW n \in 0 .. Len(stalledRequests), UnstallEvent(n) PROVE IInv'
    BY <1>11, UnstallEventKeeps
<1>12. CASE CopyPageEvent
    BY <1>12, CopyPageEventKeeps
<1>13. CASE DemoteEvent
    BY <1>13, DemoteEventKeeps
<1>14. CASE UNCHANGED vars
    <2>1. UNCHANGED <<tableVars, flushVars, drainVars, migrations, migrationTableSize, demoting, events,
                      coresFinished, stalledCpus, copies>>
        BY <1>14 DEF vars
    <2>2. Tables'
        BY <2>1, TablesStay DEF IInv, Tables, TableTypes
    <2>3. Flushes'
        BY <2>1, FlushesStay DEF IInv, Flushes, FlushTypes
    <2> QED
        BY <2>2, <2>3 DEF IInv
<1>15. CASE Reaction
    BY <1>5, <1>6, <1>7, <1>8, <1>9, <1>10, <1>11, <1>12, <1>13, <1>15 DEF Reaction
<1> QED
    BY <1>1, <1>2, <1>3, <1>4, <1>14, <1>15 DEF Next

\* Steps other than the end of a flush leave the pages where they are and let no
\* core go on.
LEMMA StepsAreGuarded == IInv /\ [Next]_vars => Guarded
<1> SUFFICES ASSUME IInv, [Next]_vars PROVE Guarded
    OBVIOUS
<1>1. ASSUME \A v \in Mapped : /\ pages'[v].frame = pages[v].frame
                               /\ pages[v].stallOnAccess => pages'[v].stallOnAccess
      PROVE  Guarded
    BY <1>1 DEF Guarded
<1>2. ASSUME UNCHANGED pages PROVE Guarded
    BY <1>1, <1>2
<1>3. \A v \in Mapped : pages[v] \in [frame : Frames, isMigrating : BOOLEAN, stallOnAccess : BOOLEAN]
    BY DEF IInv, Tables, TableTypes
<1>4. ASSUME NEW v, pages' = [pages EXCEPT ![v].isMigrating = TRUE] \/ pages' = [pages EXCEPT ![v].isMigrating = FALSE]
      PROVE  Guarded
    BY <1>1, <1>3, <1>4 DEF Mapped
<1>5. ASSUME NEW v, pages' = [pages EXCEPT ![v].stallOnAccess = TRUE] PROVE Guarded
    BY <1>1, <1>3, <1>5 DEF Mapped
<1>6. ASSUME NEW v \in Pages, Allocate(v) PROVE Guarded
    <2>1. \A w \in Mapped : pages'[w] = pages[w]
        BY <1>6 DEF Allocate, With, Entry, Mapped
    <2> QED
        BY <1>1, <2>1
<1>7. ASSUME NEW f \in PcmFrames, MigrateOnDemand(f) PROVE Guarded
    BY <1>4, <1>7 DEF MigrateOnDemand
<1>8. CASE DemoteEvent
    <2>1. ASSUME NEW v \in Pages, Demote(v) PROVE Guarded
        <3> DEFINE before == flushPolicy = "FLUSH_PCM_BEFORE"
        <3>1. v \in Mapped /\ pages' = [pages EXCEPT ![v].isMigrating = TRUE, ![v].stallOnAccess = @ \/ before]
            BY <2>1 DEF Demote
        <3> HIDE DEF before
        <3>2. ASSUME NEW w \in Mapped
              PROVE  pages'[w].frame = pages[w].frame /\ (pages[w].stallOnAccess => pages'[w].stallOnAccess)
            <4>1. CASE w # v
                BY <3>1, <4>1 DEF Mapped
            <4>2. CASE w = v
                <5>1. pages'[v].frame = pages[v].frame
                    BY <1>3, <3>1 DEF Mapped
                <5>2. pages'[v].stallOnAccess = (pages[v].stallOnAccess \/ before)
                    BY <1>3, <3>1 DEF Mapped
                <5>3. pages[v].stallOnAccess => pages'[v].stallOnAccess
                    BY <5>2, Zenon
                <5> QED
                    BY <4>2, <5>1, <5>3
            <4> QED
                BY <4>1, <4>2
        <3> QED
            BY <1>1, <3>2
    <2>2. ASSUME NEW v \in Pages, RollbackPromotion(v) PROVE Guarded
        BY <1>2, <2>2 DEF RollbackPromotion
    <2> QED
        BY <1>2, <1>8, <2>1, <2>2 DEF DemoteEvent
<1>9. ASSUME NEW f \in copies, CopyCompleted(f) PROVE Guarded
    BY <1>5, <1>9 DEF CopyCompleted, StallOnAccess
<1>10. ASSUME NEW f \in copies, RollbackCompleted(f) PROVE Guarded
    BY <1>4, <1>10 DEF RollbackCompleted
<1>11. ASSUME NEW i \in DOMAIN flushQueue, NEW dirty \in BOOLEAN, FlushCompleted(i, dirty) PROVE Guarded
    BY <1>11, FlushCompletedKeeps, FlushEndsGuarded
<1>12. ASSUME NEW f \in remaps, RemapCompleted(f) PROVE Guarded
    BY <1>12, RemapCompletedKeeps, FlushEndsGuarded
<1>13. ASSUME NEW n \in 0 .. Len(stalledRequests), UnstallEvent(n) PROVE Guarded
    BY <1>13, UnstallEventKeeps, FlushEndsGuarded
<1>14. CASE CopyPageEvent
    BY <1>2, <1>14 DEF CopyPageEvent, tableVars
<1>15. CASE \/ \E c \in Cpus, v \in Pages : StallCpu(c, v)
            \/ FinishCores
            \/ \E d \in drains : DrainCompleted(d[1], d[2])
            \/ MemoryUnstalls
            \/ UNCHANGED vars
    BY <1>2, <1>15 DEF StallCpu, FinishCores, DrainCompleted, MemoryUnstalls, vars, tableVars
<1> QED
    BY <1>6, <1>7, <1>8, <1>9, <1>10, <1>11, <1>12, <1>13, <1>14, <1>15 DEF Next, Reaction

\* The inductive invariant is one.
LEMMA Invariant == Spec => []IInv
<1> QED
    BY InitIsGood, NextKeeps, PTL DEF Spec

\* It says that the tables are typed.
LEMMA IInvIsTyped == IInv => TypeOK
BY DEF IInv, Tables, Flushes, TableTypes, FlushTypes, FlushEntries, StalledEntries, TypeOK

\* Whatever the manager is asked and told, its tables keep their types: no frame
\* gets into the free list of the other memory, and the counts of a migration and
\* of the events never go below zero, nor the table's size above its bound.
THEOREM TypeCorrect == Spec => []TypeOK
BY Invariant, IInvIsTyped, PTL

\* No frame is lost or has two owners, for every number of frames, pages, cores
\* and blocks, each flush policy and bound of the flush queue: what promotions,
\* demotions and rollbacks take from the free lists they give back once.
THEOREM EachFrameOwnedOnce == Spec => []EachFrameOnce
<1>1. IInv => EachFrameOnce
    BY DEF IInv, Tables
<1> QED
    BY <1>1, Invariant, PTL

\* A page moves only while cores are stopped at it and none is draining for it
\* (drainCompleted before flushPage), and cores go on only with a page that has
\* moved or whose copy is yet to begin (finishFlushing).
THEOREM MovesGuarded == Spec => MovesAreGuarded
<1>1. IInv /\ [Next]_vars => [\A v \in Mapped :
          /\ pages'[v].frame # pages[v].frame =>
                 pages[v].stallOnAccess /\ drains \cap (Cpus \X {pages[v].frame}) = {}
          /\ pages[v].stallOnAccess /\ ~pages'[v].stallOnAccess =>
                 \/ pages'[v].frame = migrations[pages[v].frame].dest
                 \/ migrations[pages[v].frame].state = "FLUSH_BEFORE"]_vars
    BY StepsAreGuarded DEF Guarded
<1> QED
    BY <1>1, Invariant, PTL DEF Spec, MovesAreGuarded
-----------------------------------------------------------------------------
(***************************************************************************)
(* PageMigration keeps its tables in agreement (TablesAgree): what is      *)
(* migrating, what the memory has been told, what is flushed, drained or   *)
(* refused for it, and which events are due.                               *)
(*                                                                         *)
(* Four more parts are added to the invariant, each kept by every step     *)
(* given that invariant: Started (the copies, the events that begin them,  *)
(* and the one demotion), Waiting (each flush waits for something), Filled *)
(* (the flush queue leaves no room unused) and Writebacks (where the       *)
(* refused ones go, and the one wakeup).  The end of a flush, which four   *)
(* of the actions may come to, is dealt with once for each part.           *)
(***************************************************************************)
-----------------------------------------------------------------------------
(* The flush queue is filled *)

\* What the queue holds at the cache: as many blocks as there are, up to the bound.
Least(a, b) == IF a < b THEN a ELSE b
Filled == Cardinality(Sent(flushQueue)) = Least(Len(flushQueue), MaxFlushQueueSize)

Below(U, i) == {j \in U : j <= i}

\* The first k members of a set of numbers.
LEMMA FirstOnes ==
    ASSUME NEW n \in Nat, NEW U \in SUBSET (1 .. n), NEW k \in Nat
    PROVE  /\ IsFiniteSet({i \in U : Cardinality(Below(U, i)) <= k})
           /\ Cardinality({i \in U : Cardinality(Below(U, i)) <= k}) = Least(Cardinality(U), k)
<1> DEFINE c == Cardinality(U)
           r == [i \in U |-> Cardinality(Below(U, i))]
           V == {i \in U : Cardinality(Below(U, i)) <= k}
           l == Least(c, k)
           rV == [i \in V |-> r[i]]
<1>1. IsFiniteSet(U) /\ c \in Nat
    <2>1. IsFiniteSet(1 .. n)
        BY FS_Interval
    <2> QED
        BY <2>1, FS_Subset, FS_CardinalityType
<1>2. ASSUME NEW i \in U
      PROVE  IsFiniteSet(Below(U, i)) /\ Cardinality(Below(U, i)) \in 1 .. c
    <2>1. Below(U, i) \in SUBSET U /\ Below(U, i) # {}
        BY DEF Below
    <2>2. IsFiniteSet(Below(U, i)) /\ Cardinality(Below(U, i)) <= c
        BY <1>1, <2>1, FS_Subset
    <2>3. Cardinality(Below(U, i)) \in Nat /\ Cardinality(Below(U, i)) # 0
        BY <2>1, <2>2, FS_CardinalityType, FS_EmptySet
    <2> HIDE DEF c
    <2> QED
        BY <1>1, <2>2, <2>3
<1>3. ASSUME NEW i \in U, NEW j \in U, i < j
      PROVE  Cardinality(Below(U, i)) # Cardinality(Below(U, j))
    <2>1. Below(U, i) \in SUBSET Below(U, j) /\ Below(U, i) # Below(U, j)
        <3>1. \A x \in U : x \in Nat
            OBVIOUS
        <3>2. \A x \in U : x <= i => x <= j
            BY <1>3, <3>1
        <3>3. j \in Below(U, j) /\ j \notin Below(U, i)
            BY <1>3, <3>1 DEF Below
        <3>4. Below(U, i) \subseteq Below(U, j)
            BY <3>2 DEF Below
        <3> QED
            BY <3>3, <3>4
    <2> QED
        BY <1>2, <2>1, FS_Subset
<1>4. r \in Injection(U, 1 .. c)
    <2>1. r \in [U -> 1 .. c]
        BY <1>2
    <2>2. ASSUME NEW i \in U, NEW j \in U, r[i] = r[j] PROVE i = j
        BY <1>3, <2>2
    <2> HIDE DEF r, c
    <2> QED
        BY <2>1, <2>2 DEF Injection, IsInjective
<1>5. r \in Surjection(U, 1 .. c)
    <2>1. IsFiniteSet(1 .. c) /\ Cardinality(1 .. c) = c
        BY <1>1, FS_Interval
    <2> HIDE DEF r
    <2> QED
        BY <1>4, <2>1, FS_Injection
<1>6. l \in Nat /\ l <= c /\ l <= k /\ \A x \in Nat : x <= c /\ x <= k => x <= l
    BY <1>1 DEF Least
<1>7. rV \in Bijection(V, 1 .. l)
    <2>1. r \in [U -> 1 .. c] /\ \A i, j \in U : r[i] = r[j] => i = j
        BY <1>4 DEF Injection, IsInjective
    <2>2. \A x \in 1 .. c : \E i \in U : r[i] = x
        BY <1>5 DEF Surjection
    <2>3. \A i \in U : i \in V <=> r[i] <= k
        OBVIOUS
    <2>4. V \subseteq U
        OBVIOUS
    <2> HIDE DEF r, V, c, l
    <2>5. \A i \in V : rV[i] = r[i] /\ r[i] \in 1 .. l
        BY <1>1, <1>6, <2>1, <2>3, <2>4
    <2>6. rV \in [V -> 1 .. l]
        BY <2>5
    <2>7. \A i, j \in V : rV[i] = rV[j] => i = j
        BY <2>1, <2>4
    <2>8. \A x \in 1 .. l : \E i \in V : rV[i] = x
        <3> SUFFICES ASSUME NEW x \in 1 .. l PROVE \E i \in V : rV[i] = x
            OBVIOUS
        <3>1. x \in 1 .. c /\ x <= k
            BY <1>1, <1>6
        <3>2. PICK i \in U : r[i] = x
            BY <2>2, <3>1
        <3> QED
            BY <2>3, <2>5, <3>1, <3>2
    <2> HIDE DEF rV
    <2> QED
        BY <2>6, <2>7, <2>8 DEF Bijection, Injection, Surjection, IsInjective
<1>8. IsFiniteSet(V)
    BY <1>1, FS_Subset
<1>9. Cardinality(1 .. l) = Cardinality(V)
    <2> HIDE DEF V, l, rV
    <2> QED
        BY <1>7, <1>8, FS_Bijection DEF ExistsBijection
<1>10. Cardinality(1 .. l) = l
    <2> HIDE DEF l
    <2> QED
        BY <1>6, FS_Interval
<1> QED
    BY <1>8, <1>9, <1>10

\* What was sent, as places.
LEMMA SentAreAt ==
    ASSUME NEW q \in Seq(FlushEntries)
    PROVE  Sent(q) = Places(q, {e \in FlushEntries : e.sent})
<1>1. \A i \in DOMAIN q : q[i] \in FlushEntries
    BY LenProperties, ElementOfSeq
<1> QED
    BY <1>1 DEF Sent, Places

\* SendFlushes sends as many as there is room for.
LEMMA SendFlushesFills ==
    ASSUME NEW q \in Seq(FlushEntries), Cardinality(Sent(q)) <= MaxFlushQueueSize
    PROVE  /\ Cardinality(Sent(SendFlushes(q))) = Least(Len(q), MaxFlushQueueSize)
           /\ Len(SendFlushes(q)) = Len(q)
<1> DEFINE S == Sent(q)
           U == DOMAIN q \ S
           k == MaxFlushQueueSize - Cardinality(S)
           V == {i \in U : Cardinality(Below(U, i)) <= k}
           r == SendFlushes(q)
<1>1. Len(q) \in Nat /\ DOMAIN q = 1 .. Len(q) /\ \A i \in 1 .. Len(q) : q[i] \in FlushEntries
    BY LenProperties, ElementOfSeq
<1>2. r \in Seq(FlushEntries) /\ DOMAIN r = DOMAIN q
    BY SendFlushesKeeps
<1>3. Len(r) = Len(q)
    <2> HIDE DEF r
    <2> QED
        BY <1>1, <1>2, LenProperties
<1>4. S \subseteq 1 .. Len(q) /\ U \in SUBSET (1 .. Len(q)) /\ S \cup U = 1 .. Len(q) /\ S \cap U = {}
    BY <1>1 DEF Sent
<1>5. /\ IsFiniteSet(1 .. Len(q)) /\ Cardinality(1 .. Len(q)) = Len(q)
      /\ IsFiniteSet(S) /\ IsFiniteSet(U) /\ Cardinality(S) \in Nat /\ Cardinality(U) \in Nat
      /\ Len(q) = Cardinality(S) + Cardinality(U)
    <2>1. IsFiniteSet(1 .. Len(q)) /\ Cardinality(1 .. Len(q)) = Len(q)
        <3>1. PICK n \in Nat : n = Len(q)
            BY <1>1
        <3>2. IsFiniteSet(1 .. n) /\ Cardinality(1 .. n) = n
            BY FS_Interval
        <3> QED
            BY <3>1, <3>2
    <2> HIDE DEF S, U
    <2>2. IsFiniteSet(S) /\ IsFiniteSet(U)
        BY <1>4, <2>1, FS_Subset
    <2> QED
        BY <1>4, <2>1, <2>2, CardinalityOfDisjoint, FS_CardinalityType
<1>6. k \in Nat
    BY <1>5, PageMigrationAssumption
<1>7. IsFiniteSet(V) /\ Cardinality(V) = Least(Cardinality(U), k)
    <2> HIDE DEF U, k
    <2> QED
        BY <1>1, <1>4, <1>6, FirstOnes
<1>8. Sent(r) = S \cup V
    <2>1. ASSUME NEW i \in 1 .. Len(q)
          PROVE  r[i].sent <=> q[i].sent \/ Cardinality(Below(U, i)) <= k
        <3> DEFINE B == {j \in 1 .. i : ~q[j].sent}
                   flag == q[i].sent \/ Cardinality(B) + Cardinality(Sent(q)) <= MaxFlushQueueSize
        <3>1. B = Below(U, i)
            BY <1>1 DEF Below, Sent
        <3>2. r[i] = [q[i] EXCEPT !.sent = flag]
            BY <1>1 DEF SendFlushes
        <3>3. r[i].sent = flag
            <4> HIDE DEF flag, r
            <4> QED
                BY <1>1, <3>2 DEF FlushEntries
        <3>4. r[i].sent <=> flag
            <4> HIDE DEF flag, r
            <4> QED
                BY <3>3, Zenon
        <3>5. Cardinality(B) \in Nat
            <4>1. B \in SUBSET (1 .. Len(q))
                BY <1>1
            <4> HIDE DEF B
            <4> QED
                BY <1>5, <4>1, FS_Subset, FS_CardinalityType
        <3>6. Cardinality(B) + Cardinality(S) <= MaxFlushQueueSize <=> Cardinality(B) <= k
            <4> HIDE DEF B, S
            <4> QED
                BY <1>5, <3>5, PageMigrationAssumption DEF k
        <3> QED
            BY <3>1, <3>4, <3>6
    <2>2. \A i \in 1 .. Len(q) : i \in S <=> q[i].sent
        BY <1>1 DEF Sent
    <2>3. \A i \in 1 .. Len(q) : i \in Sent(r) <=> r[i].sent
        BY <1>1, <1>2 DEF Sent
    <2>4. Sent(r) \subseteq 1 .. Len(q)
        BY <1>1, <1>2 DEF Sent
    <2> HIDE DEF r, S, k
    <2> QED
        BY <1>1, <1>4, <2>1, <2>2, <2>3, <2>4
<1>9. Cardinality(Sent(r)) = Cardinality(S) + Cardinality(V)
    <2>1. S \cap V = {}
        OBVIOUS
    <2> HIDE DEF S, V, r
    <2> QED
        BY <1>5, <1>7, <1>8, <2>1, CardinalityOfDisjoint
<1>10. Cardinality(S) + Least(Cardinality(U), k) = Least(Len(q), MaxFlushQueueSize)
    <2> HIDE DEF S, U
    <2> QED
        BY <1>5, <1>6, PageMigrationAssumption DEF Least
<1> QED
    BY <1>3, <1>7, <1>9, <1>10

\* flushPage adds blocks that are not sent.
LEMMA FlushPageFills ==
    ASSUME NEW q \in Seq(FlushEntries), NEW f \in Frames, NEW r, r = SendFlushes(q \o BlocksOf(f)),
           Cardinality(Sent(q)) <= MaxFlushQueueSize
    PROVE  Cardinality(Sent(r)) = Least(Len(r), MaxFlushQueueSize)
<1> DEFINE b == BlocksOf(f)
           A == {e \in FlushEntries : e.sent}
<1>1. NumBlocks \in Nat
    BY PageMigrationAssumption
<1>2. DOMAIN b = 1 .. NumBlocks /\ \A i \in 1 .. NumBlocks : b[i] \in FlushEntries /\ ~b[i].sent
    BY <1>1 DEF BlocksOf, FlushEntries, Blocks
<1>3. b \in Seq(FlushEntries)
    BY <1>1, <1>2 DEF BlocksOf
<1>4. Places(b, A) = {}
    BY <1>2 DEF Places
<1> HIDE DEF b, A
<1>5. q \o b \in Seq(FlushEntries)
    BY <1>3, ConcatProperties
<1>6. Cardinality(Places(q \o b, A)) = Cardinality(Places(q, A))
    BY <1>3, <1>4, PlacesConcat, PlacesFinite, FS_EmptySet
<1>7. Cardinality(Sent(q \o b)) <= MaxFlushQueueSize
    BY <1>5, <1>6, SentAreAt DEF A
<1> QED
    BY <1>5, <1>7, SendFlushesFills DEF b

\* A block that is flushed makes room.
LEMMA FlushCompletedFills ==
    ASSUME NEW q \in Seq(FlushEntries), NEW i \in DOMAIN q, NEW r, r = SendFlushes(RemoveAt(q, i)),
           Cardinality(Sent(q)) <= MaxFlushQueueSize
    PROVE  Cardinality(Sent(r)) = Least(Len(r), MaxFlushQueueSize)
<1> DEFINE p == RemoveAt(q, i)
           A == {e \in FlushEntries : e.sent}
<1>1. p \in Seq(FlushEntries)
      /\ Cardinality(Places(p, A)) = Cardinality(Places(q, A)) - IF q[i] \in A THEN 1 ELSE 0
    BY PlacesRemoved
<1>2. Cardinality(Places(q, A)) \in Nat
    <2> HIDE DEF A
    <2> QED
        BY PlacesFinite
<1>3. Cardinality(Sent(q)) = Cardinality(Places(q, A))
    BY SentAreAt
<1> HIDE DEF p, A
<1>4. Cardinality(Sent(p)) = Cardinality(Places(p, A))
    BY <1>1, SentAreAt DEF A
<1>5. Cardinality(Sent(p)) <= MaxFlushQueueSize
    BY <1>1, <1>2, <1>3, <1>4, PageMigrationAssumption
<1> QED
    BY <1>1, <1>5, SendFlushesFills DEF p

\* Only flushPage and flushCompleted touch the queue, and both fill it.
LEMMA FilledKept == IInv /\ Filled /\ [Next]_vars => Filled'
<1> SUFFICES ASSUME IInv, Filled, [Next]_vars PROVE Filled'
    OBVIOUS
<1>1. ASSUME UNCHANGED flushQueue PROVE Filled'
    BY <1>1 DEF Filled, Sent
<1>2. flushQueue \in Seq(FlushEntries) /\ Cardinality(Sent(flushQueue)) <= MaxFlushQueueSize
    <2>1. flushQueue \in Seq(FlushEntries)
        BY DEF IInv, Flushes, FlushTypes
    <2>2. Len(flushQueue) \in Nat
        BY <2>1, LenProperties
    <2> QED
        BY <2>1, <2>2, PageMigrationAssumption DEF Filled, Least
<1>3. ASSUME NEW f \in Frames, FlushPage(f) PROVE Filled'
    <2>1. flushQueue' = SendFlushes(flushQueue \o BlocksOf(f))
        BY <1>3 DEF FlushPage
    <2>2. Cardinality(Sent(flushQueue')) = Least(Len(flushQueue'), MaxFlushQueueSize)
        BY <1>2, <2>1, FlushPageFills
    <2> QED
        BY <2>2 DEF Filled, Sent
<1>4. ASSUME NEW i \in DOMAIN flushQueue, flushQueue' = SendFlushes(RemoveAt(flushQueue, i)) PROVE Filled'
    <2>1. Cardinality(Sent(flushQueue')) = Least(Len(flushQueue'), MaxFlushQueueSize)
        BY <1>2, <1>4, FlushCompletedFills
    <2> QED
        BY <2>1 DEF Filled, Sent
<1>5. CASE DemoteEvent
    <2>1. ASSUME NEW v \in Pages, Demote(v) PROVE Filled'
        <3>1. pages[v].frame \in Frames
            BY <2>1 DEF Demote, IInv, Tables, TableTypes
        <3>2. FlushPage(pages[v].frame) \/ UNCHANGED flushQueue
            BY <2>1 DEF Demote
        <3> QED
            BY <1>1, <1>3, <3>1, <3>2
    <2>2. ASSUME NEW v \in Pages, RollbackPromotion(v) PROVE Filled'
        BY <1>1, <2>2 DEF RollbackPromotion
    <2> QED
        BY <1>1, <1>5, <2>1, <2>2 DEF DemoteEvent
<1>6. ASSUME NEW d \in drains, DrainCompleted(d[1], d[2]) PROVE Filled'
    <2>1. d[2] \in Frames
        BY DEF IInv, Flushes, FlushTypes
    <2>2. FlushPage(d[2]) \/ UNCHANGED flushQueue
        BY <1>6 DEF DrainCompleted
    <2> QED
        BY <1>1, <1>3, <2>1, <2>2
<1>7. ASSUME NEW i \in DOMAIN flushQueue, NEW dirty \in BOOLEAN, FlushCompleted(i, dirty) PROVE Filled'
    BY <1>4, <1>7 DEF FlushCompleted
<1>8. ASSUME NEW f, RemapCompleted(f) PROVE Filled'
    BY <1>1, <1>8 DEF RemapCompleted, flushVars
<1>9. CASE \/ MemoryUnstalls
           \/ \E n \in 0 .. Len(stalledRequests) : UnstallEvent(n)
           \/ CopyPageEvent
           \/ \E f \in copies : CopyCompleted(f) \/ RollbackCompleted(f)
           \/ \E v \in Pages : Allocate(v)
           \/ \E c \in Cpus, v \in Pages : StallCpu(c, v)
           \/ FinishCores
           \/ \E f \in PcmFrames : MigrateOnDemand(f)
           \/ UNCHANGED vars
    <2>1. UNCHANGED flushQueue
        BY <1>9 DEF MemoryUnstalls, UnstallEvent, CopyPageEvent, CopyCompleted, RollbackCompleted, Allocate,
                    StallCpu, FinishCores, MigrateOnDemand, vars, flushVars
    <2> QED
        BY <1>1, <2>1
<1> QED
    BY <1>5, <1>6, <1>7, <1>8, <1>9 DEF Next, Reaction

-----------------------------------------------------------------------------
(* The end of a flush *)

\* The memory has been told of the migrations that copy, or have, but for those
\* whose copy is yet to be begun by an event.
Copying == \A f \in Migrating :
    /\ f \in copies <=> migrations[f].state # "FLUSH_BEFORE" /\ ~migrations[f].needsCopying
    /\ migrations[f].needsCopying => migrations[f].state = "COPY"

\* The copies to be begun, each by an event.
Awaited == {f \in Migrating : migrations[f].needsCopying}
CopiesDue == events["COPY_PAGE"] = Cardinality(Awaited)

\* The migrations to PCM.
Demotions == {f \in Migrating : InDram(f) \/ migrations[f].rolledBack}
OneAtATime ==
    IF demoting THEN (\E f : Demotions = {f}) /\ events["DEMOTE"] = 0
    ELSE Demotions = {} /\ (events["DEMOTE"] = 1 \/ (events["DEMOTE"] = 0 /\ coresFinished))

Started == Copying /\ CopiesDue /\ OneAtATime

\* The frames the memory copies once the flushes F have ended: not those of the
\* migrations that moved, and those the ones that turned round go back to.
CopiesAfter(F, m) == (copies \ Moved(F, m)) \cup {m[f].dest : f \in Turned(F, m)}

LEMMA EndingCopies ==
    ASSUME NEW F, NEW m, NEW kind, Ending(F, m, kind)
    PROVE  copies' = CopiesAfter(F, m)
<1>1. FinishFlushing(F, m, kind)
    BY DEF Ending, FlushEnds
<1>2. /\ Turned(F, m) = {f \in F : m[f].rolledBack}
      /\ Begun(F, m) = {f \in F \ {g \in F : m[g].rolledBack} : m[f].state = "FLUSH_BEFORE"}
      /\ Ended(F, m) = F \ (Turned(F, m) \cup Begun(F, m))
      /\ Moved(F, m) = Turned(F, m) \cup Ended(F, m)
    BY DEF Turned, Begun, Ended, Moved
<1> QED
    BY <1>1, <1>2 DEF FinishFlushing, CopiesAfter

\* What the end of a flush does beyond the tables.
EndingEffect(F, m, kind) ==
    /\ demoting' <=> demoting /\ Ended(F, m) \cap DramFrames = {}
    /\ events'["COPY_PAGE"] = events["COPY_PAGE"] + Cardinality(Begun(F, m))
    /\ events'["DEMOTE"] = events["DEMOTE"] + Cardinality(Ended(F, m) \cap DramFrames)
    /\ events'["UNSTALL"] = events["UNSTALL"] - IF kind = "UNSTALL" THEN 1 ELSE 0

LEMMA EndingDoes ==
    ASSUME IInv, NEW F, NEW m, NEW kind, Ending(F, m, kind)
    PROVE  Outcome(F, m) /\ EndingEffect(F, m, kind)
<1>1. /\ F \in SUBSET Migrating /\ Recounted(m) /\ FinishFlushing(F, m, kind)
      /\ kind \in {"none", "UNSTALL"}
    BY DEF Ending, FlushEnds
<1>2. Outcome(F, m)
    BY <1>1, FinishFlushingDoes DEF IInv
<1>3. /\ Turned(F, m) = {f \in F : m[f].rolledBack}
      /\ Begun(F, m) = {f \in F \ {g \in F : m[g].rolledBack} : m[f].state = "FLUSH_BEFORE"}
      /\ Ended(F, m) = F \ (Turned(F, m) \cup Begun(F, m))
      /\ Moved(F, m) = Turned(F, m) \cup Ended(F, m)
    BY DEF Turned, Begun, Ended, Moved
<1>4. demoting' = (demoting /\ Ended(F, m) \cap DramFrames = {})
    BY <1>1, <1>3 DEF FinishFlushing
<1>5. demoting' <=> demoting /\ Ended(F, m) \cap DramFrames = {}
    BY <1>4, Zenon
<1>6. events' = [k \in Kinds |-> events[k]
              - (IF k = kind THEN 1 ELSE 0)
              + (CASE k = "COPY_PAGE" -> Cardinality(Begun(F, m))
                   [] k = "DEMOTE" -> Cardinality(Ended(F, m) \cap DramFrames)
                   [] OTHER -> 0)]
    BY <1>1, <1>3 DEF FinishFlushing
<1>7. /\ events["COPY_PAGE"] \in Nat /\ events["DEMOTE"] \in Nat /\ events["UNSTALL"] \in Nat
    BY DEF IInv, Tables, TableTypes, Kinds
<1>8. /\ IsFiniteSet(Begun(F, m)) /\ IsFiniteSet(Ended(F, m) \cap DramFrames)
    BY <1>1, FinishFlushingCounts, FS_Intersection DEF IInv
<1>9. Cardinality(Begun(F, m)) \in Nat /\ Cardinality(Ended(F, m) \cap DramFrames) \in Nat
    BY <1>8, FS_CardinalityType
<1>10. /\ events'["COPY_PAGE"] = events["COPY_PAGE"] + Cardinality(Begun(F, m))
       /\ events'["DEMOTE"] = events["DEMOTE"] + Cardinality(Ended(F, m) \cap DramFrames)
       /\ events'["UNSTALL"] = events["UNSTALL"] - IF kind = "UNSTALL" THEN 1 ELSE 0
    BY <1>1, <1>6, <1>7, <1>9 DEF Kinds
<1> QED
    BY <1>2, <1>5, <1>10 DEF EndingEffect

\* The migrations after it: those that go on, those that begin to copy, and
\* those that have turned round.
Remaining(F, m, f) == f \in Migrating \ F /\ migrations'[f] = m[f]
Beginning(F, m, f) == f \in Begun(F, m) /\ migrations'[f] = [m[f] EXCEPT !.state = "COPY", !.needsCopying = TRUE]
Turning(F, m, f) == \E g \in Turned(F, m) :
    f = m[g].dest /\ migrations'[f] = NewMigration(m[g].virtualPage, g, "COPY")

\* Every migration after the end of a flush is one of the three.
LEMMA AfterEnding ==
    ASSUME IInv, NEW F, NEW m, NEW kind, Ending(F, m, kind)
    PROVE  /\ \A f \in Migrating' : Remaining(F, m, f) \/ Beginning(F, m, f) \/ Turning(F, m, f)
           /\ \A f \in Migrating \ F : f \in Migrating' /\ Remaining(F, m, f)
           /\ \A f \in Begun(F, m) : f \in Migrating' /\ Beginning(F, m, f)
           /\ \A g \in Turned(F, m) : m[g].dest \in Migrating' /\ Turning(F, m, m[g].dest)
           /\ \A g \in Turned(F, m) : /\ g \in PcmFrames /\ m[g].dest \in DramFrames
                                      /\ m[g].dest \notin Migrating
<1>1. F \in SUBSET Migrating /\ Recounted(m) /\ Outcome(F, m)
    BY EndingDoes DEF Ending
<1>2. /\ Migrating' = (Migrating \ Moved(F, m)) \cup {m[f].dest : f \in Turned(F, m)}
      /\ \A f \in Migrating \ F : migrations'[f] = m[f]
      /\ \A f \in Begun(F, m) : migrations'[f] = [m[f] EXCEPT !.state = "COPY", !.needsCopying = TRUE]
      /\ \A f \in Turned(F, m) : migrations'[m[f].dest] = NewMigration(m[f].virtualPage, f, "COPY")
    BY <1>1 DEF Outcome
<1>3. /\ Moved(F, m) \subseteq F /\ Begun(F, m) \subseteq F /\ Turned(F, m) \subseteq F
      /\ Moved(F, m) \cap Begun(F, m) = {} /\ F = Moved(F, m) \cup Begun(F, m)
    BY DEF Moved, Begun, Turned, Ended
<1>4. ASSUME NEW g \in Turned(F, m)
      PROVE  g \in PcmFrames /\ m[g].dest \in DramFrames /\ m[g].dest \notin Migrating
    <2>1. g \in Migrating /\ migrations[g].rolledBack /\ m[g].dest = migrations[g].dest
        BY <1>1, <1>3 DEF Recounted, Turned
    <2>2. g \in PcmFrames /\ (InDram(g) # InDram(migrations[g].dest))
        BY <2>1 DEF IInv, Tables, Sourced
    <2>3. m[g].dest \in Frames /\ m[g].dest \notin Migrating
        BY <1>1, <2>1, DestinationsApart DEF IInv
    <2>4. g \notin DramFrames
        BY <2>2, PageMigrationAssumption
    <2>5. (g \in DramFrames) # (migrations[g].dest \in DramFrames)
        BY <2>2 DEF InDram
    <2>6. migrations[g].dest \in DramFrames
        BY <2>4, <2>5
    <2> QED
        BY <2>1, <2>2, <2>3, <2>6
<1>5. ASSUME NEW f \in Migrating \ F PROVE f \in Migrating' /\ Remaining(F, m, f)
    BY <1>2, <1>3 DEF Remaining
<1>6. ASSUME NEW f \in Begun(F, m) PROVE f \in Migrating' /\ Beginning(F, m, f)
    BY <1>1, <1>2, <1>3 DEF Beginning
<1>7. ASSUME NEW g \in Turned(F, m) PROVE m[g].dest \in Migrating' /\ Turning(F, m, m[g].dest)
    BY <1>2 DEF Turning
<1>8. ASSUME NEW f \in Migrating' PROVE Remaining(F, m, f) \/ Beginning(F, m, f) \/ Turning(F, m, f)
    <2>1. f \in Migrating \ F \/ f \in Begun(F, m) \/ \E g \in Turned(F, m) : f = m[g].dest
        BY <1>2, <1>3
    <2> QED
        BY <1>5, <1>6, <1>7, <2>1
<1> QED
    BY <1>4, <1>5, <1>6, <1>7, <1>8

\* The fields that the end of a flush is about.
LEMMA AfterEndingFields ==
    ASSUME IInv, NEW F, NEW m, NEW kind, Ending(F, m, kind), NEW f \in Migrating'
    PROVE  /\ Remaining(F, m, f) =>
                  /\ migrations'[f].state = migrations[f].state
                  /\ migrations'[f].dest = migrations[f].dest
                  /\ migrations'[f].rolledBack = migrations[f].rolledBack
                  /\ migrations'[f].needsCopying = migrations[f].needsCopying
           /\ Beginning(F, m, f) => /\ migrations'[f].state = "COPY" /\ migrations'[f].needsCopying
                                    /\ ~migrations'[f].rolledBack /\ ~migrations[f].rolledBack
                                    /\ migrations[f].state = "FLUSH_BEFORE"
           /\ Turning(F, m, f) => /\ migrations'[f].state = "COPY" /\ ~migrations'[f].needsCopying
                                  /\ ~migrations'[f].rolledBack
<1>1. F \in SUBSET Migrating /\ Recounted(m)
    BY DEF Ending
<1>2. Begun(F, m) \subseteq F
    BY DEF Begun, Turned
<1>3. Remaining(F, m, f) =>
                  /\ migrations'[f].state = migrations[f].state
                  /\ migrations'[f].dest = migrations[f].dest
                  /\ migrations'[f].rolledBack = migrations[f].rolledBack
                  /\ migrations'[f].needsCopying = migrations[f].needsCopying
    BY <1>1 DEF Remaining, Recounted
<1>4. ASSUME Beginning(F, m, f)
      PROVE  /\ migrations'[f].state = "COPY" /\ migrations'[f].needsCopying
             /\ ~migrations'[f].rolledBack /\ ~migrations[f].rolledBack
             /\ migrations[f].state = "FLUSH_BEFORE"
    <2>1. /\ f \in F /\ f \in Migrating /\ m[f] \in Migration
          /\ m[f].rolledBack = migrations[f].rolledBack /\ m[f].state = migrations[f].state
        BY <1>1, <1>2, <1>4 DEF Beginning, Recounted
    <2>2. m[f].rolledBack = FALSE /\ m[f].state = "FLUSH_BEFORE"
        BY <1>4, <2>1 DEF Beginning, Begun, Turned, Migration
    <2>3. migrations'[f] = [m[f] EXCEPT !.state = "COPY", !.needsCopying = TRUE]
        BY <1>4 DEF Beginning
    <2>4. migrations'[f].state = "COPY" /\ migrations'[f].needsCopying = TRUE /\ migrations'[f].rolledBack = FALSE
        BY <2>1, <2>2, <2>3 DEF Migration
    <2> QED
        BY <2>1, <2>2, <2>4
<1>5. Turning(F, m, f) => /\ migrations'[f].state = "COPY" /\ ~migrations'[f].needsCopying
                          /\ ~migrations'[f].rolledBack
    BY DEF Turning, NewMigration
<1> QED
    BY <1>3, <1>4, <1>5

\* The memory is told of the migrations that turn round, and forgets those that moved.
LEMMA EndingKeepsCopying ==
    ASSUME IInv, Copying, NEW F, NEW m, NEW kind, Ending(F, m, kind)
    PROVE  Copying'
<1>1. /\ copies' = (copies \ Moved(F, m)) \cup {m[f].dest : f \in Turned(F, m)}
      /\ Moved(F, m) \subseteq F /\ Begun(F, m) \cap Moved(F, m) = {}
    <2>1. Moved(F, m) \subseteq F /\ Begun(F, m) \cap Moved(F, m) = {}
        BY DEF Moved, Begun, Turned, Ended
    <2>2. copies' = CopiesAfter(F, m)
        BY EndingCopies
    <2> QED
        BY <2>1, <2>2 DEF CopiesAfter
<1>2. \A g \in Turned(F, m) : m[g].dest \notin Migrating
    BY AfterEnding
<1> SUFFICES ASSUME NEW f \in Migrating'
             PROVE  /\ f \in copies' <=> migrations'[f].state # "FLUSH_BEFORE" /\ ~migrations'[f].needsCopying
                    /\ migrations'[f].needsCopying => migrations'[f].state = "COPY"
    BY DEF Copying, Migrating
<1>3. CASE Remaining(F, m, f)
    <2>1. f \in Migrating /\ f \notin F
        BY <1>3 DEF Remaining
    <2>2. f \in copies' <=> f \in copies
        BY <1>1, <1>2, <2>1
    <2> QED
        BY <1>3, <2>1, <2>2, AfterEndingFields DEF Copying
<1>4. CASE Beginning(F, m, f)
    <2>1. f \in Migrating /\ f \notin Moved(F, m)
        BY <1>1, <1>4 DEF Beginning, Begun, Turned, Ending
    <2>2. f \notin copies
        BY <1>4, <2>1, AfterEndingFields DEF Copying
    <2>3. f \notin copies'
        BY <1>1, <1>2, <2>1, <2>2
    <2> QED
        BY <1>4, <2>3, AfterEndingFields
<1>5. CASE Turning(F, m, f)
    <2>1. f \in copies'
        BY <1>1, <1>5 DEF Turning
    <2> QED
        BY <1>5, <2>1, AfterEndingFields
<1> QED
    BY <1>3, <1>4, <1>5, AfterEnding

\* One event is added for each migration that may begin to copy.
LEMMA EndingKeepsCopiesDue ==
    ASSUME IInv, Copying, CopiesDue, NEW F, NEW m, NEW kind, Ending(F, m, kind)
    PROVE  CopiesDue'
<1>1. F \in SUBSET Migrating /\ \A f \in F : migrations[f].state # "COPY"
    BY DEF Ending, FlushEnds
<1>2. Awaited \subseteq Migrating \ F
    BY <1>1 DEF Awaited, Copying
<1>3. Awaited' = Awaited \cup Begun(F, m)
    <2>1. Awaited' = {f \in Migrating' : migrations'[f].needsCopying}
        BY DEF Awaited, Migrating
    <2>2. ASSUME NEW f \in Awaited' PROVE f \in Awaited \cup Begun(F, m)
        <3>1. f \in Migrating' /\ migrations'[f].needsCopying
            BY <2>1, <2>2
        <3>2. CASE Remaining(F, m, f)
            BY <3>1, <3>2, AfterEndingFields DEF Awaited, Remaining
        <3>3. CASE Beginning(F, m, f)
            BY <3>3 DEF Beginning
        <3>4. CASE Turning(F, m, f)
            BY <3>1, <3>4, AfterEndingFields
        <3> QED
            BY <3>1, <3>2, <3>3, <3>4, AfterEnding
    <2>3. ASSUME NEW f \in Awaited PROVE f \in Awaited'
        <3>1. f \in Migrating' /\ Remaining(F, m, f)
            BY <1>2, AfterEnding
        <3>2. migrations'[f].needsCopying
            BY <3>1, AfterEndingFields DEF Awaited
        <3> QED
            BY <2>1, <3>1, <3>2
    <2>4. ASSUME NEW f \in Begun(F, m) PROVE f \in Awaited'
        <3>1. f \in Migrating' /\ Beginning(F, m, f)
            BY AfterEnding
        <3> QED
            BY <2>1, <3>1, AfterEndingFields
    <2> QED
        BY <2>2, <2>3, <2>4
<1>4. Begun(F, m) \subseteq F
    BY DEF Begun, Turned
<1>5. IsFiniteSet(Awaited) /\ IsFiniteSet(Begun(F, m)) /\ Awaited \cap Begun(F, m) = {}
    <2>1. IsFiniteSet(Migrating)
        BY DEF IInv, Tables, Sized
    <2> QED
        BY <1>1, <1>2, <1>4, <2>1, FS_Subset
<1>6. Cardinality(Awaited \cup Begun(F, m)) = Cardinality(Awaited) + Cardinality(Begun(F, m))
    BY <1>5, CardinalityOfDisjoint
<1>7. events'["COPY_PAGE"] = events["COPY_PAGE"] + Cardinality(Begun(F, m))
    <2>1. EndingEffect(F, m, kind)
        BY EndingDoes
    <2> QED
        BY <2>1 DEF EndingEffect
<1>8. events'["COPY_PAGE"] = Cardinality(Awaited')
    BY <1>3, <1>6, <1>7 DEF CopiesDue
<1> QED
    BY <1>8 DEF CopiesDue

\* A demotion that ends makes room for the next one; one that begins to copy, or a
\* promotion that turns round, is still the only one.
LEMMA EndingKeepsDemotions ==
    ASSUME IInv, OneAtATime, NEW F, NEW m, NEW kind, Ending(F, m, kind), UNCHANGED coresFinished
    PROVE  OneAtATime'
<1> DEFINE turned == Turned(F, m)
           demoted == Ended(F, m) \cap DramFrames
           there == {m[f].dest : f \in turned}
<1>1. F \in SUBSET Migrating /\ Recounted(m)
    BY DEF Ending
<1>2. /\ demoting' <=> demoting /\ demoted = {}
      /\ events'["DEMOTE"] = events["DEMOTE"] + Cardinality(demoted)
    <2>1. EndingEffect(F, m, kind)
        BY EndingDoes
    <2> QED
        BY <2>1 DEF EndingEffect
<1>3. /\ turned \subseteq Demotions /\ demoted \subseteq Demotions /\ turned \cap demoted = {}
      /\ \A f \in Demotions \cap F : f \in turned \/ f \in demoted \/ f \in Begun(F, m)
    <2>1. \A f \in F : f \in Migrating /\ (m[f].rolledBack <=> migrations[f].rolledBack)
        BY <1>1 DEF Recounted
    <2>2. turned \subseteq Demotions
        BY <2>1 DEF Turned, Demotions
    <2>3. demoted \subseteq Demotions /\ turned \cap demoted = {}
        BY <2>1 DEF Ended, Demotions, InDram
    <2>4. \A f \in Demotions \cap F : f \in turned \/ f \in demoted \/ f \in Begun(F, m)
        BY <2>1 DEF Ended, Turned, Demotions, InDram
    <2> QED
        BY <2>2, <2>3, <2>4
<1>4. Demotions' = (Demotions \ (turned \cup demoted)) \cup there
    <2>1. Demotions' = {f \in Migrating' : InDram(f) \/ migrations'[f].rolledBack}
        BY DEF Demotions, Migrating, InDram
    <2>2. ASSUME NEW f \in Demotions' PROVE f \in (Demotions \ (turned \cup demoted)) \cup there
        <3>1. f \in Migrating' /\ (InDram(f) \/ migrations'[f].rolledBack)
            BY <2>1, <2>2
        <3>2. CASE Remaining(F, m, f)
            <4>1. f \in Migrating /\ f \notin F
                BY <3>2 DEF Remaining
            <4>2. f \notin turned \cup demoted
                BY <4>1 DEF Turned, Ended
            <4> QED
                BY <3>1, <3>2, <4>1, <4>2, AfterEndingFields DEF Demotions
        <3>3. CASE Beginning(F, m, f)
            <4>1. f \in Begun(F, m) /\ f \in Migrating
                BY <1>1, <3>3 DEF Beginning, Begun, Turned
            <4>2. InDram(f) /\ f \notin turned \cup demoted
                BY <3>1, <3>3, <4>1, AfterEndingFields DEF Begun, Ended
            <4> QED
                BY <4>1, <4>2 DEF Demotions
        <3>4. CASE Turning(F, m, f)
            BY <3>4 DEF Turning
        <3> QED
            BY <3>1, <3>2, <3>3, <3>4, AfterEnding
    <2>3. ASSUME NEW f \in Demotions \ (turned \cup demoted) PROVE f \in Demotions'
        <3>0. f \in Migrating /\ (InDram(f) \/ migrations[f].rolledBack)
            BY DEF Demotions
        <3>1. CASE f \in F
            <4>1. f \in Begun(F, m)
                BY <1>3, <2>3, <3>1
            <4>2. f \in Migrating' /\ Beginning(F, m, f)
                BY <4>1, AfterEnding
            <4>3. ~migrations[f].rolledBack
                BY <4>2, AfterEndingFields
            <4> QED
                BY <2>1, <3>0, <4>2, <4>3
        <3>2. CASE f \notin F
            <4>1. f \in Migrating' /\ Remaining(F, m, f)
                BY <3>0, <3>2, AfterEnding
            <4> QED
                BY <2>1, <3>0, <4>1, AfterEndingFields
        <3> QED
            BY <3>1, <3>2
    <2>4. ASSUME NEW f \in there PROVE f \in Demotions'
        <3>1. PICK g \in turned : f = m[g].dest
            BY <2>4
        <3>2. f \in Migrating' /\ f \in DramFrames
            BY <3>1, AfterEnding
        <3> QED
            BY <2>1, <3>2 DEF InDram
    <2> HIDE DEF there, turned, demoted
    <2> QED
        BY <2>2, <2>3, <2>4
<1>5. turned = {} => there = {}
    OBVIOUS
<1>6. \A g : turned = {g} => there = {m[g].dest}
    OBVIOUS
<1> HIDE DEF turned, demoted, there
<1>7. Cardinality({}) = 0 /\ \A x : Cardinality({x}) = 1
    BY FS_EmptySet, FS_Singleton
<1>8. CASE ~demoting
    <2>1. Demotions = {} /\ (events["DEMOTE"] = 1 \/ (events["DEMOTE"] = 0 /\ coresFinished))
        BY <1>8 DEF OneAtATime
    <2>2. turned = {} /\ demoted = {} /\ there = {}
        BY <1>3, <1>5, <2>1
    <2>3. Demotions' = {} /\ ~demoting' /\ events'["DEMOTE"] = events["DEMOTE"]
        BY <1>2, <1>4, <1>7, <1>8, <2>1, <2>2
    <2> QED
        BY <2>1, <2>3 DEF OneAtATime
<1>9. CASE demoting
    <2>1. PICK g : Demotions = {g}
        BY <1>9 DEF OneAtATime
    <2>2. events["DEMOTE"] = 0
        BY <1>9 DEF OneAtATime
    <2>3. CASE demoted # {}
        <3>1. demoted = {g} /\ turned = {} /\ there = {}
            BY <1>3, <1>5, <2>1, <2>3
        <3>2. Demotions' = {} /\ ~demoting'
            BY <1>2, <1>4, <2>1, <2>3, <3>1
        <3>3. Cardinality(demoted) = 1
            BY <1>7, <3>1
        <3>4. events'["DEMOTE"] = 1
            BY <1>2, <2>2, <3>3
        <3> QED
            BY <3>2, <3>4 DEF OneAtATime
    <2>4. CASE demoted = {}
        <3>1. demoting' /\ events'["DEMOTE"] = 0
            BY <1>2, <1>7, <1>9, <2>2, <2>4
        <3>2. \E x : Demotions' = {x}
            <4>1. CASE turned = {}
                BY <1>4, <1>5, <2>1, <2>4, <4>1
            <4>2. CASE turned # {}
                <5>1. turned = {g} /\ there = {m[g].dest}
                    BY <1>3, <1>6, <2>1, <4>2
                <5> QED
                    BY <1>4, <2>1, <2>4, <5>1
            <4> QED
                BY <4>1, <4>2
        <3> QED
            BY <3>1, <3>2 DEF OneAtATime
    <2> QED
        BY <2>3, <2>4
<1> QED
    BY <1>8, <1>9

-----------------------------------------------------------------------------
(* The copies and the demotions *)

\* A migration starts, or the one of f changes.
Starting(f, x) ==
    /\ f \notin Migrating /\ Migrating' = Migrating \cup {f} /\ migrations'[f] = x
    /\ \A g \in Migrating : migrations'[g] = migrations[g]
Changing(f, x) ==
    /\ f \in Migrating /\ Migrating' = Migrating /\ migrations'[f] = x
    /\ \A g \in Migrating : g # f => migrations'[g] = migrations[g]

\* A new entry of the table starts a migration.
LEMMA StartingIs ==
    ASSUME NEW f, f \notin Migrating, NEW x, migrations' = With(migrations, Entry(f, x))
    PROVE  Starting(f, x)
BY DEF Starting, With, Entry, Migrating

\* An entry that is replaced changes one.
LEMMA ChangingIs ==
    ASSUME NEW f \in Migrating, NEW x, migrations' = [migrations EXCEPT ![f] = x]
    PROVE  Changing(f, x)
BY DEF Changing, Migrating

\* What starts on demand is a promotion.
LEMMA OnDemandIs ==
    ASSUME IInv, NEW f \in PcmFrames, MigrateOnDemand(f)
    PROVE  /\ \E v \in Pages, dest \in Frames : Starting(f, NewMigration(v, dest, "COPY"))
           /\ copies' = copies \cup {f}
           /\ UNCHANGED <<flushVars, drainVars, demoting, events, coresFinished>>
<1>1. PICK dest \in dramFree :
          /\ f \in DOMAIN physicalPages /\ ~pages[physicalPages[f]].isMigrating
          /\ migrations' = With(migrations, Entry(f, NewMigration(physicalPages[f], dest, "COPY")))
    BY DEF MigrateOnDemand
<1>2. /\ physicalPages[f] \in Mapped /\ physicalPages[f] \in Pages /\ pages[physicalPages[f]].frame = f
      /\ dest \in Frames
    <2>1. PICK u \in Mapped : pages[u].frame = f
        BY <1>1 DEF IInv, Tables, EachFrameOnce, MappedFrames
    <2>2. dest \in Frames
        BY DEF IInv, Tables, TableTypes, Frames
    <2> QED
        BY <2>1, <2>2 DEF IInv, Tables, EachFrameOnce, TableTypes
<1>3. f \notin Migrating
    BY <1>1, <1>2 DEF IInv, Tables, Flagged
<1>4. Starting(f, NewMigration(physicalPages[f], dest, "COPY"))
    <2> DEFINE x == NewMigration(physicalPages[f], dest, "COPY")
    <2>1. migrations' = With(migrations, Entry(f, x))
        BY <1>1
    <2> HIDE DEF x
    <2>2. Starting(f, x)
        BY <1>3, <2>1, StartingIs
    <2> QED
        BY <2>2 DEF x
<1>5. copies' = copies \cup {f} /\ UNCHANGED <<flushVars, drainVars, demoting, events, coresFinished>>
    BY DEF MigrateOnDemand
<1> QED
    BY <1>2, <1>4, <1>5

\* A demotion starts with a flush, or with its copy.
LEMMA DemoteIs ==
    ASSUME IInv, NEW v \in Pages, Demote(v)
    PROVE  \E f \in DramFrames, dest \in Frames :
               \/ /\ Starting(f, Flushing(NewMigration(v, dest, "FLUSH_BEFORE")))
                  /\ UNCHANGED copies
               \/ /\ Starting(f, NewMigration(v, dest, "COPY"))
                  /\ copies' = copies \cup {f}
<1> DEFINE f == pages[v].frame
           before == flushPolicy = "FLUSH_PCM_BEFORE"
<1>1. PICK dest \in pcmFree :
          /\ v \in Mapped /\ InDram(f) /\ ~pages[v].isMigrating
          /\ before => /\ migrations' = With(migrations, Entry(f, Flushing(NewMigration(v, dest, "FLUSH_BEFORE"))))
                       /\ UNCHANGED copies
          /\ ~before => /\ migrations' = With(migrations, Entry(f, NewMigration(v, dest, "COPY")))
                        /\ copies' = copies \cup {f}
    BY DEF Demote
<1>2. f \in DramFrames /\ dest \in Frames /\ f \notin Migrating
    BY <1>1 DEF IInv, Tables, TableTypes, Frames, Flagged, InDram
<1> HIDE DEF f
<1>3. CASE before
    <2> DEFINE x == Flushing(NewMigration(v, dest, "FLUSH_BEFORE"))
    <2>1. migrations' = With(migrations, Entry(f, x))
        BY <1>1, <1>3
    <2> HIDE DEF x
    <2>2. Starting(f, x)
        BY <1>2, <2>1, StartingIs
    <2> QED
        BY <1>1, <1>2, <1>3, <2>2 DEF x
<1>4. CASE ~before
    <2> DEFINE x == NewMigration(v, dest, "COPY")
    <2>1. migrations' = With(migrations, Entry(f, x))
        BY <1>1, <1>4
    <2> HIDE DEF x
    <2>2. Starting(f, x)
        BY <1>2, <2>1, StartingIs
    <2> QED
        BY <1>1, <1>2, <1>4, <2>2 DEF x
<1> QED
    BY <1>3, <1>4

\* Steps that leave of each migration what Started is about.
LEMMA StartedStays ==
    ASSUME IInv, Started, Migrating' = Migrating,
           \A f \in Migrating : /\ migrations'[f].needsCopying <=> migrations[f].needsCopying
                                /\ migrations'[f].rolledBack <=> migrations[f].rolledBack
                                /\ migrations'[f].state # migrations[f].state =>
                                       /\ migrations'[f].state # "FLUSH_BEFORE"
                                       /\ migrations[f].state # "FLUSH_BEFORE"
                                       /\ ~migrations[f].needsCopying,
           UNCHANGED <<copies, demoting>>, coresFinished => coresFinished',
           events'["COPY_PAGE"] = events["COPY_PAGE"], events'["DEMOTE"] = events["DEMOTE"]
    PROVE  Started'
<1>1. Copying'
    <2> SUFFICES ASSUME NEW f \in Migrating
                 PROVE  /\ f \in copies' <=> migrations'[f].state # "FLUSH_BEFORE" /\ ~migrations'[f].needsCopying
                        /\ migrations'[f].needsCopying => migrations'[f].state = "COPY"
        BY DEF Copying, Migrating
    <2>1. /\ f \in copies <=> migrations[f].state # "FLUSH_BEFORE" /\ ~migrations[f].needsCopying
          /\ migrations[f].needsCopying => migrations[f].state = "COPY"
        BY DEF Started, Copying
    <2> QED
        BY <2>1
<1>2. Awaited' = Awaited
    <2>1. Awaited' = {f \in Migrating' : migrations'[f].needsCopying}
        BY DEF Awaited, Migrating
    <2> QED
        BY <2>1 DEF Awaited
<1>3. Demotions' = Demotions
    <2>1. Demotions' = {f \in Migrating' : InDram(f) \/ migrations'[f].rolledBack}
        BY DEF Demotions, Migrating, InDram
    <2> QED
        BY <2>1 DEF Demotions
<1> QED
    BY <1>1, <1>2, <1>3 DEF Started, CopiesDue, OneAtATime

\* What a migration that starts is for Started.
LEMMA StartsOne ==
    ASSUME IInv, Started, NEW f, NEW x, Starting(f, x), ~x.needsCopying, ~x.rolledBack,
           \/ x.state = "FLUSH_BEFORE" /\ UNCHANGED copies
           \/ x.state # "FLUSH_BEFORE" /\ copies' = copies \cup {f},
           events'["COPY_PAGE"] = events["COPY_PAGE"]
    PROVE  /\ Copying' /\ CopiesDue'
           /\ Demotions' = IF InDram(f) THEN Demotions \cup {f} ELSE Demotions
<1> USE DEF Starting
<1>1. Copying'
    <2>1. f \notin copies
        BY DEF IInv, Flushes
    <2> SUFFICES ASSUME NEW g \in Migrating'
                 PROVE  /\ g \in copies' <=> migrations'[g].state # "FLUSH_BEFORE" /\ ~migrations'[g].needsCopying
                        /\ migrations'[g].needsCopying => migrations'[g].state = "COPY"
        BY DEF Copying, Migrating
    <2>2. CASE g = f
        BY <2>1, <2>2
    <2>3. CASE g # f
        <3>1. g \in Migrating /\ migrations'[g] = migrations[g] /\ (g \in copies' <=> g \in copies)
            BY <2>3
        <3> QED
            BY <3>1 DEF Started, Copying
    <2> QED
        BY <2>2, <2>3
<1>2. Awaited' = Awaited
    <2>1. Awaited' = {g \in Migrating' : migrations'[g].needsCopying}
        BY DEF Awaited, Migrating
    <2> QED
        BY <2>1 DEF Awaited
<1>3. Demotions' = IF InDram(f) THEN Demotions \cup {f} ELSE Demotions
    <2>1. Demotions' = {g \in Migrating' : InDram(g) \/ migrations'[g].rolledBack}
        BY DEF Demotions, Migrating, InDram
    <2> QED
        BY <2>1 DEF Demotions
<1> QED
    BY <1>1, <1>2, <1>3 DEF Started, CopiesDue

\* The DEMOTE event starts a demotion or has a promotion rolled back, if none is
\* under way.
LEMMA DemoteEventStarts == ASSUME IInv, Started, DemoteEvent PROVE Started'
<1>1. /\ events["DEMOTE"] > 0 /\ ~demoting /\ Demotions = {} /\ events["DEMOTE"] = 1
      /\ UNCHANGED coresFinished
    BY DEF DemoteEvent, Started, OneAtATime
<1>2. events \in [Kinds -> Nat]
    BY DEF IInv, Tables, TableTypes
<1>3. TakeEvent("DEMOTE") => events'["COPY_PAGE"] = events["COPY_PAGE"] /\ events'["DEMOTE"] = 0
    BY <1>1, <1>2 DEF TakeEvent, Kinds
<1>4. ASSUME NEW v \in Pages, Demote(v), demoting' = TRUE, TakeEvent("DEMOTE") PROVE Started'
    <2>1. PICK f \in DramFrames, dest \in Frames :
              \/ /\ Starting(f, Flushing(NewMigration(v, dest, "FLUSH_BEFORE")))
                 /\ UNCHANGED copies
              \/ /\ Starting(f, NewMigration(v, dest, "COPY"))
                 /\ copies' = copies \cup {f}
        BY <1>4, DemoteIs
    <2>2. Copying' /\ CopiesDue' /\ Demotions' = {f}
        <3>1. CASE Starting(f, Flushing(NewMigration(v, dest, "FLUSH_BEFORE"))) /\ UNCHANGED copies
            <4> DEFINE x == Flushing(NewMigration(v, dest, "FLUSH_BEFORE"))
            <4>1. x.state = "FLUSH_BEFORE" /\ ~x.needsCopying /\ ~x.rolledBack
                BY DEF Flushing, NewMigration
            <4> HIDE DEF x
            <4>2. Starting(f, x)
                BY <3>1 DEF x
            <4>3. Copying' /\ CopiesDue' /\ Demotions' = IF InDram(f) THEN Demotions \cup {f} ELSE Demotions
                BY <1>3, <1>4, <3>1, <4>1, <4>2, StartsOne
            <4> QED
                BY <1>1, <4>3 DEF InDram
        <3>2. CASE Starting(f, NewMigration(v, dest, "COPY")) /\ copies' = copies \cup {f}
            <4> DEFINE x == NewMigration(v, dest, "COPY")
            <4>1. x.state # "FLUSH_BEFORE" /\ ~x.needsCopying /\ ~x.rolledBack
                BY DEF NewMigration
            <4> HIDE DEF x
            <4>2. Starting(f, x)
                BY <3>2 DEF x
            <4>3. Copying' /\ CopiesDue' /\ Demotions' = IF InDram(f) THEN Demotions \cup {f} ELSE Demotions
                BY <1>3, <1>4, <3>2, <4>1, <4>2, StartsOne
            <4> QED
                BY <1>1, <4>3 DEF InDram
        <3> QED
            BY <2>1, <3>1, <3>2
    <2>3. OneAtATime'
        BY <1>3, <1>4, <2>2 DEF OneAtATime
    <2> QED
        BY <2>2, <2>3 DEF Started
<1>5. ASSUME NEW v \in Pages, RollbackPromotion(v), demoting' = TRUE, TakeEvent("DEMOTE") PROVE Started'
    <2> DEFINE f == pages[v].frame
               x == [migrations[f] EXCEPT !.rolledBack = TRUE]
    <2>1. f \in Migrating /\ migrations[f] \in Migration
        BY <1>5 DEF RollbackPromotion, IInv, Tables, Flagged, TableTypes
    <2>2. migrations' = [migrations EXCEPT ![f] = x] /\ UNCHANGED copies
        BY <1>5 DEF RollbackPromotion
    <2>3. /\ x.rolledBack /\ x.state = migrations[f].state
          /\ x.needsCopying = migrations[f].needsCopying
        BY <2>1 DEF Migration
    <2> HIDE DEF x, f
    <2>4. Changing(f, x)
        BY <2>1, <2>2, ChangingIs
    <2>5. Copying'
        <3> SUFFICES ASSUME NEW g \in Migrating
                     PROVE  /\ g \in copies' <=> migrations'[g].state # "FLUSH_BEFORE" /\ ~migrations'[g].needsCopying
                            /\ migrations'[g].needsCopying => migrations'[g].state = "COPY"
            BY <2>4 DEF Copying, Migrating, Changing
        <3>1. migrations'[g].state = migrations[g].state /\ migrations'[g].needsCopying = migrations[g].needsCopying
            BY <2>3, <2>4 DEF Changing
        <3> QED
            BY <2>2, <3>1 DEF Started, Copying
    <2>6. Awaited' = Awaited
        <3>1. Awaited' = {g \in Migrating' : migrations'[g].needsCopying}
            BY DEF Awaited, Migrating
        <3> QED
            BY <2>3, <2>4, <3>1 DEF Awaited, Changing
    <2>7. Demotions' = {f}
        <3>1. Demotions' = {g \in Migrating' : InDram(g) \/ migrations'[g].rolledBack}
            BY DEF Demotions, Migrating, InDram
        <3>2. \A g \in Migrating : ~(InDram(g) \/ migrations[g].rolledBack)
            BY <1>1 DEF Demotions
        <3> QED
            BY <2>3, <2>4, <3>1, <3>2 DEF Changing
    <2> QED
        BY <1>3, <1>5, <2>5, <2>6, <2>7 DEF Started, CopiesDue, OneAtATime
<1>6. CASE /\ UNCHANGED <<demoting, migrations, copies>>
           /\ IF coresFinished THEN TakeEvent("DEMOTE") ELSE UNCHANGED events
    <2>1. Copying' /\ Awaited' = Awaited /\ Demotions' = Demotions
        BY <1>6 DEF Started, Copying, Awaited, Demotions, Migrating, InDram
    <2>2. OneAtATime'
        BY <1>1, <1>3, <1>6, <2>1 DEF OneAtATime
    <2>3. events'["COPY_PAGE"] = events["COPY_PAGE"]
        BY <1>3, <1>6
    <2> QED
        BY <2>1, <2>2, <2>3 DEF Started, CopiesDue
<1> QED
    BY <1>4, <1>5, <1>6 DEF DemoteEvent

\* The event of a copy that waits for it.
LEMMA CopyPageEventStarts == ASSUME IInv, Started, CopyPageEvent PROVE Started'
<1>1. PICK f \in Migrating :
          /\ events["COPY_PAGE"] > 0
          /\ migrations[f].needsCopying
          /\ migrations' = [migrations EXCEPT ![f].needsCopying = FALSE]
          /\ copies' = copies \cup {f}
          /\ TakeEvent("COPY_PAGE")
          /\ UNCHANGED <<demoting, coresFinished>>
    BY DEF CopyPageEvent
<1> DEFINE x == [migrations[f] EXCEPT !.needsCopying = FALSE]
<1>2. migrations[f] \in Migration
    BY DEF IInv, Tables, TableTypes
<1>3. ~x.needsCopying /\ x.state = migrations[f].state /\ x.rolledBack = migrations[f].rolledBack
    BY <1>2 DEF Migration
<1>4. migrations' = [migrations EXCEPT ![f] = x]
    BY <1>1
<1> HIDE DEF x
<1>5. Changing(f, x)
    BY <1>4, ChangingIs
<1>6. events' = [events EXCEPT !["COPY_PAGE"] = @ - 1] /\ events \in [Kinds -> Nat]
    BY <1>1 DEF TakeEvent, IInv, Tables, TableTypes
<1>7. events'["COPY_PAGE"] = events["COPY_PAGE"] - 1 /\ events'["DEMOTE"] = events["DEMOTE"]
    BY <1>6 DEF Kinds
<1>8. migrations[f].state = "COPY"
    BY <1>1 DEF Started, Copying
<1>9. Copying'
    <2> SUFFICES ASSUME NEW g \in Migrating
                 PROVE  /\ g \in copies' <=> migrations'[g].state # "FLUSH_BEFORE" /\ ~migrations'[g].needsCopying
                        /\ migrations'[g].needsCopying => migrations'[g].state = "COPY"
        BY <1>5 DEF Copying, Migrating, Changing
    <2>1. CASE g = f
        BY <1>1, <1>3, <1>5, <1>8, <2>1 DEF Changing
    <2>2. CASE g # f
        BY <1>1, <1>5, <2>2 DEF Changing, Started, Copying
    <2> QED
        BY <2>1, <2>2
<1>10. Awaited' = Awaited \ {f} /\ f \in Awaited
    <2>1. Awaited' = {g \in Migrating' : migrations'[g].needsCopying}
        BY DEF Awaited, Migrating
    <2> QED
        BY <1>1, <1>3, <1>5, <2>1 DEF Awaited, Changing
<1>11. Cardinality(Awaited \ {f}) = Cardinality(Awaited) - 1
    <2>1. IsFiniteSet(Awaited)
        BY FS_Subset DEF IInv, Tables, Sized, Awaited
    <2> QED
        BY <1>10, <2>1, FS_RemoveElement
<1>12. CopiesDue'
    BY <1>7, <1>10, <1>11 DEF Started, CopiesDue
<1>13. Demotions' = Demotions
    <2>1. Demotions' = {g \in Migrating' : InDram(g) \/ migrations'[g].rolledBack}
        BY DEF Demotions, Migrating, InDram
    <2> QED
        BY <1>3, <1>5, <2>1 DEF Demotions, Changing
<1> QED
    BY <1>1, <1>7, <1>9, <1>12, <1>13 DEF Started, OneAtATime

\* The end of a rollback is that of the only demotion.
LEMMA RollbackCompletedStarts == ASSUME IInv, Started, NEW f \in copies, RollbackCompleted(f) PROVE Started'
<1>1. /\ migrations[f].state = "COPY" /\ migrations[f].rolledBack
      /\ copies' = copies \ {f} /\ demoting' = FALSE /\ AddEvent("DEMOTE")
      /\ migrations' = Without(migrations, {f})
      /\ UNCHANGED coresFinished
    BY DEF RollbackCompleted
<1>2. f \in Migrating /\ f \in Demotions /\ f \notin Awaited
    BY <1>1 DEF IInv, Flushes, Demotions, Started, Copying, Awaited
<1>3. Migrating' = Migrating \ {f} /\ \A g \in Migrating \ {f} : migrations'[g] = migrations[g]
    BY <1>1 DEF Without, Migrating
<1>4. events' = [events EXCEPT !["DEMOTE"] = @ + 1] /\ events \in [Kinds -> Nat]
    BY <1>1 DEF AddEvent, IInv, Tables, TableTypes
<1>5. events'["COPY_PAGE"] = events["COPY_PAGE"] /\ events'["DEMOTE"] = events["DEMOTE"] + 1
    BY <1>4 DEF Kinds
<1>6. Copying'
    <2> SUFFICES ASSUME NEW g \in Migrating \ {f}
                 PROVE  /\ g \in copies' <=> migrations'[g].state # "FLUSH_BEFORE" /\ ~migrations'[g].needsCopying
                        /\ migrations'[g].needsCopying => migrations'[g].state = "COPY"
        BY <1>3 DEF Copying, Migrating
    <2> QED
        BY <1>1, <1>3 DEF Started, Copying
<1>7. Awaited' = Awaited
    <2>1. Awaited' = {g \in Migrating' : migrations'[g].needsCopying}
        BY DEF Awaited, Migrating
    <2> QED
        BY <1>2, <1>3, <2>1 DEF Awaited
<1>8. Demotions' = Demotions \ {f}
    <2>1. Demotions' = {g \in Migrating' : InDram(g) \/ migrations'[g].rolledBack}
        BY DEF Demotions, Migrating, InDram
    <2> QED
        BY <1>3, <2>1 DEF Demotions
<1>9. Demotions = {f} /\ events["DEMOTE"] = 0
    BY <1>2 DEF Started, OneAtATime
<1>10. Demotions' = {} /\ events'["DEMOTE"] = 1 /\ ~demoting'
    BY <1>1, <1>5, <1>8, <1>9
<1> QED
    BY <1>5, <1>6, <1>7, <1>10 DEF Started, CopiesDue, OneAtATime

\* A copy that is complete stays known to the memory.
LEMMA CopyCompletedStarts == ASSUME IInv, Started, NEW f \in copies, CopyCompleted(f) PROVE Started'
<1>1. /\ migrations[f].state = "COPY" /\ ~migrations[f].rolledBack
      /\ UNCHANGED <<demoting, events, coresFinished, copies>>
    BY DEF CopyCompleted
<1>2. f \in Migrating /\ migrations[f] \in Migration /\ ~migrations[f].needsCopying
    BY DEF IInv, Flushes, Tables, TableTypes, Started, Copying
<1>3. PICK n \in Nat : migrations' = [migrations EXCEPT ![f].state = "FLUSH_AFTER", ![f].drainsLeft = n]
    <2>1. migrations[f].drainsLeft \in Nat /\ Cardinality(Cpus) \in Nat
        BY <1>2, PageMigrationAssumption, FS_CardinalityType DEF Migration
    <2>2. CASE migrations' = [migrations EXCEPT ![f].state = "FLUSH_AFTER"]
        <3>1. migrations' = [migrations EXCEPT ![f].state = "FLUSH_AFTER", ![f].drainsLeft = migrations[f].drainsLeft]
            <4>1. [migrations[f] EXCEPT !.state = "FLUSH_AFTER", !.drainsLeft = migrations[f].drainsLeft]
                      = [migrations[f] EXCEPT !.state = "FLUSH_AFTER"]
                BY <1>2 DEF Migration
            <4> QED
                BY <1>2, <2>2, <4>1 DEF Migrating
        <3>2. migrations[f].drainsLeft \in Nat
            BY <2>1
        <3> WITNESS migrations[f].drainsLeft \in Nat
        <3> QED
            BY <3>1
    <2>3. CASE migrations' = [migrations EXCEPT ![f].state = "FLUSH_AFTER", ![f].drainsLeft = @ + Cardinality(Cpus)]
        <3>1. migrations' = [migrations EXCEPT ![f].state = "FLUSH_AFTER",
                                               ![f].drainsLeft = migrations[f].drainsLeft + Cardinality(Cpus)]
            BY <1>2, <2>3 DEF Migrating, Migration
        <3>2. migrations[f].drainsLeft + Cardinality(Cpus) \in Nat
            BY <2>1
        <3> WITNESS migrations[f].drainsLeft + Cardinality(Cpus) \in Nat
        <3> QED
            BY <3>1
    <2> QED
        BY <2>2, <2>3 DEF CopyCompleted
<1> DEFINE x == [migrations[f] EXCEPT !.state = "FLUSH_AFTER", !.drainsLeft = n]
<1>4. /\ x.state = "FLUSH_AFTER" /\ x.needsCopying = migrations[f].needsCopying
      /\ x.rolledBack = migrations[f].rolledBack
    BY <1>2 DEF Migration
<1>5. migrations' = [migrations EXCEPT ![f] = x]
    BY <1>2, <1>3 DEF Migrating
<1> HIDE DEF x
<1>6. Changing(f, x)
    BY <1>2, <1>5, ChangingIs
<1> QED
    BY <1>1, <1>2, <1>4, <1>6, StartedStays DEF Changing

\* A drain changes what is left to be done and nothing else.
LEMMA DrainCompletedStarts ==
    ASSUME IInv, Started, NEW c, NEW f, <<c, f>> \in drains, DrainCompleted(c, f)
    PROVE  Started'
<1>1. f \in Migrating /\ migrations[f] \in Migration
    BY DEF IInv, Flushes, References, Tables, TableTypes
<1> DEFINE m == [migrations[f] EXCEPT !.drainsLeft = @ - 1]
           x == IF m.drainsLeft = 0 THEN Flushing(m) ELSE m
<1>2. migrations' = [migrations EXCEPT ![f] = x] /\ UNCHANGED <<demoting, events, coresFinished, copies>>
    BY DEF DrainCompleted
<1>3. /\ m.state = migrations[f].state /\ m.needsCopying = migrations[f].needsCopying
      /\ m.rolledBack = migrations[f].rolledBack /\ DOMAIN m = DOMAIN migrations[f]
    BY <1>1 DEF Migration
<1>4. /\ Flushing(m).state = m.state /\ Flushing(m).needsCopying = m.needsCopying
      /\ Flushing(m).rolledBack = m.rolledBack
    <2>1. DOMAIN m = DOMAIN migrations[f]
        BY <1>3
    <2>2. Flushing(m) = [m EXCEPT !.flushesLeft = m.flushesLeft + NumBlocks]
        BY <1>1 DEF Flushing, Migration
    <2> QED
        BY <1>1, <2>2 DEF Migration
<1>5. /\ x.state = migrations[f].state /\ x.needsCopying = migrations[f].needsCopying
      /\ x.rolledBack = migrations[f].rolledBack
    BY <1>3, <1>4
<1> HIDE DEF x
<1>6. Changing(f, x)
    BY <1>1, <1>2, ChangingIs
<1> QED
    BY <1>2, <1>5, <1>6, StartedStays DEF Changing

\* Every step keeps the books of what was started.
LEMMA StartedKept == IInv /\ Started /\ [Next]_vars => Started'
<1> SUFFICES ASSUME IInv, Started, [Next]_vars PROVE Started'
    OBVIOUS
<1>1. ASSUME NEW F, NEW m, NEW kind, Ending(F, m, kind), UNCHANGED coresFinished PROVE Started'
    BY <1>1, EndingKeepsCopying, EndingKeepsCopiesDue, EndingKeepsDemotions DEF Started
<1>2. ASSUME UNCHANGED <<migrations, copies, demoting>>, coresFinished => coresFinished',
             events'["COPY_PAGE"] = events["COPY_PAGE"], events'["DEMOTE"] = events["DEMOTE"]
      PROVE  Started'
    BY <1>2, StartedStays DEF Migrating
<1>3. ASSUME NEW f \in PcmFrames, MigrateOnDemand(f) PROVE Started'
    <2>1. PICK v \in Pages, dest \in Frames : Starting(f, NewMigration(v, dest, "COPY"))
        BY <1>3, OnDemandIs
    <2>2. copies' = copies \cup {f} /\ UNCHANGED <<demoting, events, coresFinished>>
        BY <1>3, OnDemandIs
    <2> DEFINE x == NewMigration(v, dest, "COPY")
    <2>3. x.state # "FLUSH_BEFORE" /\ ~x.needsCopying /\ ~x.rolledBack
        BY DEF NewMigration
    <2>4. Starting(f, x)
        BY <2>1
    <2> HIDE DEF x
    <2>5. Copying' /\ CopiesDue' /\ Demotions' = IF InDram(f) THEN Demotions \cup {f} ELSE Demotions
        BY <2>2, <2>3, <2>4, StartsOne
    <2>6. ~InDram(f)
        BY PageMigrationAssumption DEF InDram
    <2> QED
        BY <2>2, <2>5, <2>6 DEF Started, OneAtATime
<1>4. ASSUME NEW i \in DOMAIN flushQueue, NEW dirty \in BOOLEAN, FlushCompleted(i, dirty) PROVE Started'
    <2>1. PICK F, m : Ending(F, m, "none")
        BY <1>4, FlushCompletedKeeps
    <2>2. UNCHANGED coresFinished
        BY <1>4 DEF FlushCompleted
    <2> QED
        BY <1>1, <2>1, <2>2
<1>5. ASSUME NEW f \in remaps, RemapCompleted(f) PROVE Started'
    <2>1. Ending({f}, migrations, "none")
        BY <1>5, RemapCompletedKeeps
    <2>2. UNCHANGED coresFinished
        BY <1>5 DEF RemapCompleted
    <2> QED
        BY <1>1, <2>1, <2>2
<1>6. ASSUME NEW n \in 0 .. Len(stalledRequests), UnstallEvent(n) PROVE Started'
    <2>1. PICK F, m : Ending(F, m, "UNSTALL")
        BY <1>6, UnstallEventKeeps
    <2>2. UNCHANGED coresFinished
        BY <1>6 DEF UnstallEvent
    <2> QED
        BY <1>1, <2>1, <2>2
<1>7. ASSUME NEW d \in drains, DrainCompleted(d[1], d[2]) PROVE Started'
    <2>1. d \in Cpus \X Frames
        BY DEF IInv, Flushes, FlushTypes
    <2>2. <<d[1], d[2]>> \in drains
        BY <2>1
    <2> QED
        BY <1>7, <2>2, DrainCompletedStarts
<1>8. CASE MemoryUnstalls
    <2>1. UNCHANGED <<migrations, copies, demoting, coresFinished>> /\ events' = [events EXCEPT !["UNSTALL"] = @ + 1]
        BY <1>8 DEF MemoryUnstalls, AddEvent
    <2>2. events \in [Kinds -> Nat]
        BY DEF IInv, Tables, TableTypes
    <2>3. events'["COPY_PAGE"] = events["COPY_PAGE"] /\ events'["DEMOTE"] = events["DEMOTE"]
        BY <2>1, <2>2 DEF Kinds
    <2> QED
        BY <1>2, <2>1, <2>3
<1>9. CASE \/ \E v \in Pages : Allocate(v)
           \/ \E c \in Cpus, v \in Pages : StallCpu(c, v)
           \/ FinishCores
           \/ UNCHANGED vars
    <2>1. /\ UNCHANGED <<migrations, copies, demoting, events>>
          /\ coresFinished' = coresFinished \/ coresFinished' = TRUE
        BY <1>9 DEF Allocate, StallCpu, FinishCores, vars
    <2>2. coresFinished => coresFinished'
        BY <2>1, Zenon
    <2> QED
        BY <1>2, <2>1, <2>2
<1> QED
    BY <1>3, <1>4, <1>5, <1>6, <1>7, <1>8, <1>9, DemoteEventStarts, CopyPageEventStarts, RollbackCompletedStarts,
       CopyCompletedStarts DEF Next, Reaction

-----------------------------------------------------------------------------
(* What a flush waits for *)

\* A migration that flushes waits for a core, a block or a writeback.
Waiting == \A f \in Migrating :
    migrations[f].state # "COPY" /\ f \notin remaps =>
        migrations[f].drainsLeft > 0 \/ ~IsFlushed(migrations[f])

\* Every migration after a step waits as before, or for something new, or copies.
LEMMA WaitingStays ==
    ASSUME Waiting,
           \A f \in Migrating' :
               \/ /\ f \in Migrating /\ (f \in remaps => f \in remaps')
                  /\ migrations'[f].state = migrations[f].state
                  /\ migrations'[f].drainsLeft = migrations[f].drainsLeft
                  /\ IsFlushed(migrations[f]) <=> IsFlushed(migrations'[f])
               \/ migrations'[f].state = "COPY"
               \/ migrations'[f].drainsLeft > 0 \/ ~IsFlushed(migrations'[f]) \/ f \in remaps'
    PROVE  Waiting'
<1> SUFFICES ASSUME NEW f \in Migrating', migrations'[f].state # "COPY", f \notin remaps'
             PROVE  migrations'[f].drainsLeft > 0 \/ ~IsFlushed(migrations'[f])
    BY DEF Waiting, IsFlushed, Migrating
<1> QED
    BY DEF Waiting

\* The end of a flush leaves the other migrations what they wait for.
LEMMA EndingKeepsWaiting ==
    ASSUME IInv, Waiting, NEW F, NEW m, NEW kind, Ending(F, m, kind), remaps \ F \subseteq remaps'
    PROVE  Waiting'
<1> SUFFICES ASSUME NEW f \in Migrating'
             PROVE  \/ /\ f \in Migrating /\ (f \in remaps => f \in remaps')
                       /\ migrations'[f].state = migrations[f].state
                       /\ migrations'[f].drainsLeft = migrations[f].drainsLeft
                       /\ IsFlushed(migrations[f]) <=> IsFlushed(migrations'[f])
                    \/ migrations'[f].state = "COPY"
                    \/ migrations'[f].drainsLeft > 0 \/ ~IsFlushed(migrations'[f]) \/ f \in remaps'
    BY WaitingStays
<1>1. CASE Remaining(F, m, f)
    <2>1. f \in Migrating \ F /\ migrations'[f] = m[f]
        BY <1>1 DEF Remaining
    <2>2. m[f] = migrations[f] \/ ~IsFlushed(m[f])
        BY <2>1 DEF Ending
    <2> QED
        BY <2>1, <2>2
<1>2. CASE Beginning(F, m, f) \/ Turning(F, m, f)
    BY <1>2, AfterEndingFields
<1> QED
    BY <1>1, <1>2, AfterEnding

\* Every step keeps each flush waiting for something.
LEMMA WaitingKept == IInv /\ Waiting /\ [Next]_vars => Waiting'
<1> SUFFICES ASSUME IInv, Waiting, [Next]_vars PROVE Waiting'
    OBVIOUS
<1>0. \A f \in Migrating' : migrations'[f] \in Migration
    <2>1. Tables'
        BY NextKeeps DEF IInv
    <2> QED
        BY <2>1 DEF Tables, TableTypes, Migrating, Migration, Frames
<1>1. ASSUME UNCHANGED <<migrations, remaps>> PROVE Waiting'
    BY <1>1, WaitingStays DEF Migrating
<1>2. ASSUME NEW f, NEW x, Starting(f, x), x.state = "COPY" \/ ~IsFlushed(x), UNCHANGED remaps
      PROVE  Waiting'
    BY <1>2, WaitingStays DEF Starting
<1>3. ASSUME NEW f, NEW x, Changing(f, x), UNCHANGED remaps, x.state = migrations[f].state,
             x.drainsLeft = migrations[f].drainsLeft, x.flushesLeft = migrations[f].flushesLeft,
             x.stalledLeft = migrations[f].stalledLeft
      PROVE  Waiting'
    BY <1>3, WaitingStays DEF Changing, IsFlushed
<1>4. ASSUME NEW f, NEW x, Changing(f, x), x.drainsLeft > 0 \/ ~IsFlushed(x) \/ f \in remaps',
             remaps \subseteq remaps'
      PROVE  Waiting'
    BY <1>4, WaitingStays DEF Changing
<1>5. NumBlocks \in Nat /\ NumBlocks > 0
    BY PageMigrationAssumption
<1>6. ASSUME NEW f \in PcmFrames, MigrateOnDemand(f) PROVE Waiting'
    <2>1. PICK v \in Pages, dest \in Frames : Starting(f, NewMigration(v, dest, "COPY"))
        BY <1>6, OnDemandIs
    <2>2. NewMigration(v, dest, "COPY").state = "COPY" /\ UNCHANGED remaps
        BY <1>6 DEF NewMigration, MigrateOnDemand, drainVars
    <2> QED
        BY <1>2, <2>1, <2>2
<1>7. CASE DemoteEvent
    <2>0. UNCHANGED remaps
        BY <1>7 DEF DemoteEvent, drainVars
    <2>1. ASSUME NEW v \in Pages, Demote(v) PROVE Waiting'
        <3>1. PICK f \in DramFrames, dest \in Frames :
                  \/ Starting(f, Flushing(NewMigration(v, dest, "FLUSH_BEFORE")))
                  \/ Starting(f, NewMigration(v, dest, "COPY"))
            BY <2>1, DemoteIs
        <3>2. ~IsFlushed(Flushing(NewMigration(v, dest, "FLUSH_BEFORE")))
            BY <1>5 DEF IsFlushed, Flushing, NewMigration
        <3>3. NewMigration(v, dest, "COPY").state = "COPY"
            BY DEF NewMigration
        <3> QED
            BY <1>2, <2>0, <3>1, <3>2, <3>3
    <2>2. ASSUME NEW v \in Pages, RollbackPromotion(v) PROVE Waiting'
        <3> DEFINE f == pages[v].frame
                   x == [migrations[f] EXCEPT !.rolledBack = TRUE]
        <3>1. f \in Migrating /\ migrations[f] \in Migration
            BY <2>2 DEF RollbackPromotion, IInv, Tables, Flagged, TableTypes
        <3>2. migrations' = [migrations EXCEPT ![f] = x]
            BY <2>2 DEF RollbackPromotion
        <3>3. /\ x.state = migrations[f].state /\ x.drainsLeft = migrations[f].drainsLeft
              /\ x.flushesLeft = migrations[f].flushesLeft /\ x.stalledLeft = migrations[f].stalledLeft
            BY <3>1 DEF Migration
        <3> HIDE DEF x, f
        <3>4. Changing(f, x)
            BY <3>1, <3>2, ChangingIs
        <3> QED
            BY <1>3, <2>0, <3>3, <3>4
    <2> QED
        BY <1>1, <1>7, <2>0, <2>1, <2>2 DEF DemoteEvent
<1>8. CASE CopyPageEvent
    <2>1. PICK f \in Migrating : migrations' = [migrations EXCEPT ![f].needsCopying = FALSE] /\ UNCHANGED remaps
        BY <1>8 DEF CopyPageEvent, drainVars
    <2> DEFINE x == [migrations[f] EXCEPT !.needsCopying = FALSE]
    <2>2. migrations[f] \in Migration
        BY DEF IInv, Tables, TableTypes
    <2>3. /\ x.state = migrations[f].state /\ x.drainsLeft = migrations[f].drainsLeft
          /\ x.flushesLeft = migrations[f].flushesLeft /\ x.stalledLeft = migrations[f].stalledLeft
        BY <2>2 DEF Migration
    <2>4. migrations' = [migrations EXCEPT ![f] = x]
        BY <2>1
    <2> HIDE DEF x
    <2>5. Changing(f, x)
        BY <2>4, ChangingIs
    <2> QED
        BY <1>3, <2>1, <2>3, <2>5
<1>9. ASSUME NEW f \in copies, CopyCompleted(f) PROVE Waiting'
    <2>1. f \in Migrating /\ migrations[f] \in Migration
        BY DEF IInv, Flushes, Tables, TableTypes
    <2>2. CASE remaps' = remaps \cup {f} /\ migrations' = [migrations EXCEPT ![f].state = "FLUSH_AFTER"]
        <3> DEFINE x == [migrations[f] EXCEPT !.state = "FLUSH_AFTER"]
        <3>1. migrations' = [migrations EXCEPT ![f] = x]
            BY <2>2
        <3> HIDE DEF x
        <3>2. Changing(f, x)
            BY <2>1, <3>1, ChangingIs
        <3> QED
            BY <1>4, <2>2, <3>2
    <2>3. CASE /\ UNCHANGED remaps
               /\ migrations' = [migrations EXCEPT ![f].state = "FLUSH_AFTER", ![f].drainsLeft = @ + Cardinality(Cpus)]
        <3> DEFINE x == [migrations[f] EXCEPT !.state = "FLUSH_AFTER", !.drainsLeft = @ + Cardinality(Cpus)]
        <3>1. migrations' = [migrations EXCEPT ![f] = x]
            BY <2>1, <2>3 DEF Migrating
        <3>2. Cardinality(Cpus) \in Nat /\ Cardinality(Cpus) > 0
            BY PageMigrationAssumption, FS_CardinalityType, FS_EmptySet
        <3>3. x.drainsLeft = migrations[f].drainsLeft + Cardinality(Cpus)
            BY <2>1 DEF Migration
        <3>4. x.drainsLeft > 0
            BY <2>1, <3>2, <3>3 DEF Migration
        <3> HIDE DEF x
        <3>5. Changing(f, x)
            BY <2>1, <3>1, ChangingIs
        <3> QED
            BY <1>4, <2>3, <3>4, <3>5
    <2> QED
        BY <1>9, <2>2, <2>3 DEF CopyCompleted
<1>10. ASSUME NEW f \in copies, RollbackCompleted(f) PROVE Waiting'
    <2>1. migrations' = Without(migrations, {f}) /\ UNCHANGED remaps
        BY <1>10 DEF RollbackCompleted, drainVars
    <2>2. Migrating' \subseteq Migrating /\ \A g \in Migrating' : migrations'[g] = migrations[g]
        BY <2>1 DEF Without, Migrating
    <2> QED
        BY <2>1, <2>2, WaitingStays
<1>11. ASSUME NEW d \in drains, DrainCompleted(d[1], d[2]) PROVE Waiting'
    <2> DEFINE f == d[2]
               m == [migrations[f] EXCEPT !.drainsLeft = @ - 1]
               x == IF m.drainsLeft = 0 THEN Flushing(m) ELSE m
    <2>1. f \in Migrating /\ migrations[f] \in Migration
        BY DEF IInv, Flushes, References, Tables, TableTypes
    <2>2. migrations' = [migrations EXCEPT ![f] = x] /\ UNCHANGED remaps
        BY <1>11 DEF DrainCompleted
    <2>3. Flushing(m).flushesLeft = migrations[f].flushesLeft + NumBlocks
        <3>1. m.flushesLeft = migrations[f].flushesLeft /\ DOMAIN m = DOMAIN migrations[f]
            BY <2>1 DEF Migration
        <3>2. Flushing(m) = [m EXCEPT !.flushesLeft = m.flushesLeft + NumBlocks]
            BY DEF Flushing
        <3> QED
            BY <2>1, <3>1, <3>2 DEF Migration
    <2>4. m.drainsLeft = 0 => ~IsFlushed(x)
        <3> SUFFICES ASSUME m.drainsLeft = 0 PROVE ~IsFlushed(x)
            OBVIOUS
        <3>1. x = Flushing(m)
            OBVIOUS
        <3>2. migrations[f].flushesLeft \in Nat
            BY <2>1 DEF Migration
        <3> HIDE DEF x, m
        <3> QED
            BY <1>5, <2>3, <3>1, <3>2 DEF IsFlushed
    <2>5. m.drainsLeft # 0 => x.drainsLeft # 0
        OBVIOUS
    <2> HIDE DEF x, f, m
    <2>6. Changing(f, x)
        BY <2>1, <2>2, ChangingIs
    <2>7. x.drainsLeft \in Nat
        <3>1. migrations'[f] = x /\ f \in Migrating'
            BY <2>1, <2>6 DEF Changing
        <3> QED
            BY <1>0, <3>1 DEF Migration
    <2> QED
        BY <1>4, <2>2, <2>4, <2>5, <2>6, <2>7
<1>12. ASSUME NEW i \in DOMAIN flushQueue, NEW dirty \in BOOLEAN, FlushCompleted(i, dirty) PROVE Waiting'
    <2>1. PICK F, m : Ending(F, m, "none")
        BY <1>12, FlushCompletedKeeps
    <2>2. UNCHANGED remaps
        BY <1>12 DEF FlushCompleted, drainVars
    <2> QED
        BY <2>1, <2>2, EndingKeepsWaiting
<1>13. ASSUME NEW f \in remaps, RemapCompleted(f) PROVE Waiting'
    <2>1. Ending({f}, migrations, "none") /\ remaps' = remaps \ {f}
        BY <1>13, RemapCompletedKeeps DEF RemapCompleted
    <2> QED
        BY <2>1, EndingKeepsWaiting
<1>14. ASSUME NEW n \in 0 .. Len(stalledRequests), UnstallEvent(n) PROVE Waiting'
    <2>1. PICK F, m : Ending(F, m, "UNSTALL")
        BY <1>14, UnstallEventKeeps
    <2>2. UNCHANGED remaps
        BY <1>14 DEF UnstallEvent, drainVars
    <2> QED
        BY <2>1, <2>2, EndingKeepsWaiting
<1>15. CASE \/ \E v \in Pages : Allocate(v)
            \/ \E c \in Cpus, v \in Pages : StallCpu(c, v)
            \/ FinishCores \/ MemoryUnstalls
            \/ UNCHANGED vars
    <2>1. UNCHANGED <<migrations, remaps>>
        BY <1>15 DEF Allocate, StallCpu, FinishCores, MemoryUnstalls, vars, drainVars
    <2> QED
        BY <1>1, <2>1
<1> QED
    BY <1>6, <1>7, <1>8, <1>9, <1>10, <1>11, <1>12, <1>13, <1>14, <1>15 DEF Next, Reaction

\* Where the memory is to write what it has refused, and that it will be asked.
Directed(m, s) == \A i \in DOMAIN s :
    s[i].to = IF m[s[i].page].state = "FLUSH_BEFORE" THEN s[i].page ELSE m[s[i].page].dest
OneWakeup ==
    events["UNSTALL"] + (IF registered THEN 1 ELSE 0) = IF stalledRequests = <<>> THEN 0 ELSE 1
Writebacks == Directed(migrations, stalledRequests) /\ OneWakeup

\* A writeback in s keeps the flush of its page from its end.
LEMMA StalledIsNotFlushed ==
    ASSUME NEW s \in Seq(StalledEntries), NEW i \in DOMAIN s, NEW x, x.stalledLeft = Count(s, s[i].page)
    PROVE  ~IsFlushed(x)
<1> DEFINE f == s[i].page
           P == {j \in DOMAIN s : s[j].page = f}
<1>1. IsFiniteSet(P)
    BY StalledFinite
<1>2. P # {}
    OBVIOUS
<1>3. Cardinality(P) # 0
    <2> HIDE DEF P
    <2> QED
        BY <1>1, <1>2, FS_EmptySet
<1> QED
    BY <1>3 DEF Count, IsFlushed

\* The page of a refused writeback is being flushed.
LEMMA StalledIsFlushing ==
    ASSUME IInv, NEW i \in DOMAIN stalledRequests
    PROVE  stalledRequests[i].page \in Migrating /\ migrations[stalledRequests[i].page].state # "COPY"
<1>1. stalledRequests \in Seq(StalledEntries) /\ stalledRequests[i].page \in Migrating
    BY DEF IInv, Flushes, FlushTypes, References
<1>2. migrations[stalledRequests[i].page].stalledLeft = Count(stalledRequests, stalledRequests[i].page)
    BY <1>1 DEF IInv, Flushes, Counts, Migrating
<1>3. ~IsFlushed(migrations[stalledRequests[i].page])
    BY <1>1, <1>2, StalledIsNotFlushed
<1> QED
    BY <1>1, <1>3 DEF IInv, Flushes, InTurn, Migrating

\* Migrations that are not copied keep their state and their place.
LEMMA WritebacksStay ==
    ASSUME IInv, Writebacks, UNCHANGED <<stalledRequests, registered>>, events'["UNSTALL"] = events["UNSTALL"],
           \A f \in Migrating : migrations[f].state # "COPY" =>
               migrations'[f].state = migrations[f].state /\ migrations'[f].dest = migrations[f].dest
    PROVE  Writebacks'
<1>1. Directed(migrations', stalledRequests')
    BY StalledIsFlushing DEF Directed, Writebacks
<1> QED
    BY <1>1 DEF Directed, Writebacks, OneWakeup

\* The end of a flush leaves the writebacks of others where they were.
LEMMA EndingKeepsDirected ==
    ASSUME IInv, NEW F, NEW m, NEW kind, Ending(F, m, kind), Directed(migrations, stalledRequests'),
           stalledRequests' \in Seq(StalledEntries),
           \A i \in DOMAIN stalledRequests' : stalledRequests'[i].page \in Migrating
    PROVE  Directed(migrations', stalledRequests')
<1>1. /\ Recounted(m) /\ Counts(m, flushQueue', stalledRequests', drains')
      /\ \A f \in F : IsFlushed(m[f])
    BY DEF Ending
<1> SUFFICES ASSUME NEW i \in DOMAIN stalledRequests'
             PROVE  stalledRequests'[i].to =
                        IF migrations'[stalledRequests'[i].page].state = "FLUSH_BEFORE" THEN stalledRequests'[i].page
                        ELSE migrations'[stalledRequests'[i].page].dest
    BY DEF Directed
<1> DEFINE f == stalledRequests'[i].page
<1>2. f \in Migrating /\ m[f].stalledLeft = Count(stalledRequests', f)
    BY <1>1 DEF Recounted, Counts
<1>3. ~IsFlushed(m[f])
    BY <1>2, StalledIsNotFlushed
<1>4. f \in Migrating \ F
    BY <1>1, <1>2, <1>3
<1>5. f \in Migrating' /\ Remaining(F, m, f)
    BY <1>4, AfterEnding
<1>6. migrations'[f].state = migrations[f].state /\ migrations'[f].dest = migrations[f].dest
    BY <1>5, AfterEndingFields
<1> QED
    BY <1>6 DEF Directed

\* Other than in the UNSTALL event, nothing becomes of those events.
LEMMA EndingCallsNobody ==
    ASSUME IInv, NEW F, NEW m, Ending(F, m, "none"), events["UNSTALL"] \in Nat
    PROVE  events'["UNSTALL"] = events["UNSTALL"]
<1> DEFINE kind == "none"
<1>1. kind # "UNSTALL"
    OBVIOUS
<1>2. Ending(F, m, kind)
    OBVIOUS
<1> HIDE DEF kind
<1>3. events'["UNSTALL"] = events["UNSTALL"] - IF kind = "UNSTALL" THEN 1 ELSE 0
    <2>1. EndingEffect(F, m, kind)
        BY <1>2, EndingDoes
    <2> QED
        BY <2>1 DEF EndingEffect
<1>4. events'["UNSTALL"] = events["UNSTALL"] - 0
    BY <1>1, <1>3
<1> QED
    BY <1>4

\* A block that was dirty leaves a writeback to where the block will be looked for.
LEMMA FlushCompletedDirects ==
    ASSUME IInv, Writebacks, NEW i \in DOMAIN flushQueue, NEW dirty \in BOOLEAN, FlushCompleted(i, dirty)
    PROVE  Writebacks'
<1> DEFINE f == flushQueue[i].frame
           e == [page |-> f, to |-> WritebackFrame(f)]
<1>1. PICK F, m : Ending(F, m, "none")
    BY FlushCompletedKeeps
<1>2. events'["UNSTALL"] = events["UNSTALL"] /\ events["UNSTALL"] \in Nat
    <2>1. events["UNSTALL"] \in Nat
        BY DEF IInv, Tables, TableTypes, Kinds
    <2> QED
        BY <1>1, <2>1, EndingCallsNobody
<1>3. stalledRequests \in Seq(StalledEntries) /\ \A j \in DOMAIN stalledRequests : stalledRequests[j].page \in Migrating
    BY DEF IInv, Flushes, FlushTypes, References
<1>4. \/ UNCHANGED <<stalledRequests, registered>>
      \/ stalledRequests' = Append(stalledRequests, e) /\ registered' = (registered \/ stalledRequests = <<>>)
    BY DEF FlushCompleted
<1>5. /\ f \in Migrating /\ e \in StalledEntries /\ e.page = f
      /\ e.to = IF migrations[f].state = "FLUSH_BEFORE" THEN f ELSE migrations[f].dest
    BY DEF IInv, Flushes, References, Tables, TableTypes, StalledEntries, WritebackFrame, Migration
<1> HIDE DEF e, f
<1>6. CASE UNCHANGED <<stalledRequests, registered>>
    <2>1. Directed(migrations, stalledRequests') /\ stalledRequests' \in Seq(StalledEntries)
          /\ \A j \in DOMAIN stalledRequests' : stalledRequests'[j].page \in Migrating
        BY <1>3, <1>6 DEF Writebacks
    <2>2. Directed(migrations', stalledRequests')
        BY <1>1, <2>1, EndingKeepsDirected
    <2> QED
        BY <1>2, <1>6, <2>2 DEF Directed, Writebacks, OneWakeup
<1>7. CASE stalledRequests' = Append(stalledRequests, e) /\ registered' = (registered \/ stalledRequests = <<>>)
    <2> DEFINE r == Append(stalledRequests, e)
    <2>1. /\ r \in Seq(StalledEntries) /\ Len(stalledRequests) \in Nat /\ Len(r) = Len(stalledRequests) + 1
          /\ DOMAIN stalledRequests = 1 .. Len(stalledRequests) /\ DOMAIN r = 1 .. Len(r)
          /\ \A j \in 1 .. Len(stalledRequests) : r[j] = stalledRequests[j]
          /\ r[Len(r)] = e
        BY <1>3, <1>5, AppendProperties, LenProperties
    <2> HIDE DEF r
    <2>2. ASSUME NEW j \in DOMAIN r
          PROVE  /\ r[j].page \in Migrating
                 /\ r[j].to = IF migrations[r[j].page].state = "FLUSH_BEFORE" THEN r[j].page
                              ELSE migrations[r[j].page].dest
        <3>1. CASE j \in 1 .. Len(stalledRequests)
            BY <1>3, <2>1, <3>1 DEF Writebacks, Directed
        <3>2. CASE j = Len(r)
            BY <1>5, <2>1, <3>2
        <3> QED
            BY <2>1, <3>1, <3>2
    <2>3. stalledRequests' = r
        BY <1>7 DEF r
    <2>4. Directed(migrations, stalledRequests')
        BY <2>2, <2>3 DEF Directed
    <2>5. Directed(migrations', stalledRequests')
        BY <1>1, <2>1, <2>2, <2>3, <2>4, EndingKeepsDirected
    <2>6. stalledRequests' # <<>>
        BY <2>1, <2>3, EmptySeq
    <2>7. OneWakeup'
        <3>1. CASE stalledRequests = <<>>
            <4>0. registered'
                <5>1. registered' = (registered \/ TRUE)
                    BY <1>7, <3>1
                <5> QED
                    BY <5>1, Zenon
            <4>1. registered' /\ events["UNSTALL"] = 0
                BY <1>2, <3>1, <4>0 DEF Writebacks, OneWakeup
            <4> QED
                BY <1>2, <2>6, <4>1 DEF OneWakeup
        <3>2. CASE stalledRequests # <<>>
            <4>1. registered' <=> registered
                <5>1. registered' = (registered \/ FALSE)
                    BY <1>7, <3>2
                <5> QED
                    BY <5>1, Zenon
            <4> QED
                BY <1>2, <2>6, <3>2, <4>1 DEF Writebacks, OneWakeup
        <3> QED
            BY <3>1, <3>2
    <2> QED
        BY <2>5, <2>7 DEF Directed, Writebacks
<1> QED
    BY <1>4, <1>6, <1>7

\* How many are left when n are taken of L.
LEMMA RestOf ==
    ASSUME NEW L \in Nat, NEW n \in 0 .. L, NEW x, x = IF n + 1 <= L THEN L - (n + 1) + 1 ELSE 0
    PROVE  x = L - n /\ (n < L <=> x # 0)
    OBVIOUS

\* The memory takes writebacks; it is registered with again for the others.
LEMMA UnstallEventDirects ==
    ASSUME IInv, Writebacks, NEW n \in 0 .. Len(stalledRequests), UnstallEvent(n)
    PROVE  Writebacks'
<1> DEFINE A == {e \in StalledEntries :
                     /\ e.page \in Migrating
                     /\ e.to = IF migrations[e.page].state = "FLUSH_BEFORE" THEN e.page ELSE migrations[e.page].dest}
           r == SubSeq(stalledRequests, n + 1, Len(stalledRequests))
<1>1. PICK F, m : Ending(F, m, "UNSTALL")
    BY UnstallEventKeeps
<1>2. events'["UNSTALL"] = events["UNSTALL"] - 1 /\ events["UNSTALL"] \in Nat /\ events["UNSTALL"] > 0
    <2>1. events["UNSTALL"] \in Nat /\ events["UNSTALL"] > 0
        BY DEF IInv, Tables, TableTypes, Kinds, UnstallEvent
    <2>2. events'["UNSTALL"] = events["UNSTALL"] - IF "UNSTALL" = "UNSTALL" THEN 1 ELSE 0
        <3>1. EndingEffect(F, m, "UNSTALL")
            BY <1>1, EndingDoes
        <3> QED
            BY <3>1 DEF EndingEffect
    <2> QED
        BY <2>1, <2>2
<1>3. /\ stalledRequests \in Seq(StalledEntries) /\ Len(stalledRequests) \in Nat
      /\ DOMAIN stalledRequests = 1 .. Len(stalledRequests)
      /\ \A j \in DOMAIN stalledRequests : stalledRequests[j] \in StalledEntries
                                           /\ stalledRequests[j].page \in Migrating
    <2>1. stalledRequests \in Seq(StalledEntries)
        BY DEF IInv, Flushes, FlushTypes
    <2> QED
        BY <2>1, LenProperties, ElementOfSeq DEF IInv, Flushes, References
<1>4. stalledRequests' = r /\ registered' = (registered \/ n < Len(stalledRequests))
    BY DEF UnstallEvent
<1>5. stalledRequests \in Seq(A)
    <2>1. \A j \in 1 .. Len(stalledRequests) : stalledRequests[j] \in A
        BY <1>3 DEF Writebacks, Directed
    <2>2. stalledRequests = [j \in 1 .. Len(stalledRequests) |-> stalledRequests[j]]
        BY <1>3
    <2> HIDE DEF A
    <2> QED
        BY <1>3, <2>1, <2>2, IsASeq
<1>6. r \in Seq(A)
    <2> HIDE DEF A
    <2> QED
        BY <1>5, PlacesSplit
<1>7. \A j \in DOMAIN r : r[j] \in A
    <2> HIDE DEF A, r
    <2> QED
        BY <1>6, LenProperties, ElementOfSeq
<1>8. r \in Seq(StalledEntries)
    BY <1>3, PlacesSplit
<1>9. n < Len(stalledRequests) <=> Len(r) # 0
    <2>1. Len(r) = IF n + 1 <= Len(stalledRequests) THEN Len(stalledRequests) - (n + 1) + 1 ELSE 0
        BY <1>3, SubSeqProperties
    <2>2. Len(stalledRequests) \in Nat
        BY <1>3
    <2> DEFINE L == Len(stalledRequests)
               x == Len(r)
    <2>3. L \in Nat /\ n \in 0 .. L /\ x = IF n + 1 <= L THEN L - (n + 1) + 1 ELSE 0
        BY <2>1, <2>2
    <2>4. n < L <=> x # 0
        <3> HIDE DEF L, x
        <3> QED
            BY <2>3, RestOf
    <2> QED
        BY <2>4
<1>10. r = <<>> <=> Len(r) = 0
    <2> HIDE DEF r
    <2> QED
        BY <1>8, EmptySeq
<1> HIDE DEF r
<1>11. Directed(migrations', stalledRequests')
    <2>1. Directed(migrations, stalledRequests')
        BY <1>4, <1>7 DEF Directed
    <2>2. stalledRequests' \in Seq(StalledEntries)
          /\ \A j \in DOMAIN stalledRequests' : stalledRequests'[j].page \in Migrating
        BY <1>4, <1>7, <1>8
    <2> QED
        BY <1>1, <2>1, <2>2, EndingKeepsDirected
<1>12. OneWakeup'
    <2>1. events["UNSTALL"] = 1 /\ ~registered
        BY <1>2 DEF Writebacks, OneWakeup
    <2>2. registered' <=> n < Len(stalledRequests)
        <3>1. registered' <=> registered \/ n < Len(stalledRequests)
            BY <1>4, Zenon
        <3> QED
            BY <2>1, <3>1
    <2>3. n < Len(stalledRequests) <=> stalledRequests' # <<>>
        <3>1. stalledRequests' = r
            BY <1>4
        <3> QED
            BY <1>9, <1>10, <3>1
    <2> QED
        BY <1>2, <2>1, <2>2, <2>3 DEF OneWakeup
<1> QED
    BY <1>11, <1>12 DEF Directed, Writebacks

\* Every step keeps the refused writebacks going where their pages will be looked for.
LEMMA WritebacksKept == IInv /\ Writebacks /\ [Next]_vars => Writebacks'
<1> SUFFICES ASSUME IInv, Writebacks, [Next]_vars PROVE Writebacks'
    OBVIOUS
<1>1. events \in [Kinds -> Nat]
    BY DEF IInv, Tables, TableTypes
<1>2. TakeEvent("DEMOTE") \/ TakeEvent("COPY_PAGE") \/ AddEvent("DEMOTE") => events'["UNSTALL"] = events["UNSTALL"]
    BY <1>1 DEF TakeEvent, AddEvent, Kinds
<1>3. ASSUME NEW f \in PcmFrames, MigrateOnDemand(f) PROVE Writebacks'
    <2>1. PICK v \in Pages, dest \in Frames : Starting(f, NewMigration(v, dest, "COPY"))
        BY <1>3, OnDemandIs
    <2>2. UNCHANGED <<stalledRequests, registered, events>>
        BY <1>3 DEF MigrateOnDemand, flushVars
    <2> QED
        BY <2>1, <2>2, WritebacksStay DEF Starting
<1>4. CASE DemoteEvent
    <2>0. UNCHANGED <<stalledRequests, registered>> /\ events'["UNSTALL"] = events["UNSTALL"]
        BY <1>2, <1>4 DEF DemoteEvent
    <2>1. ASSUME NEW v \in Pages, Demote(v) PROVE Writebacks'
        <3>1. PICK f \in DramFrames, dest \in Frames :
                  \/ Starting(f, Flushing(NewMigration(v, dest, "FLUSH_BEFORE")))
                  \/ Starting(f, NewMigration(v, dest, "COPY"))
            BY <2>1, DemoteIs
        <3> QED
            BY <2>0, <3>1, WritebacksStay DEF Starting
    <2>2. ASSUME NEW v \in Pages, RollbackPromotion(v) PROVE Writebacks'
        <3>1. migrations' = [migrations EXCEPT ![pages[v].frame].rolledBack = TRUE]
            BY <2>2 DEF RollbackPromotion
        <3>2. ASSUME NEW g \in Migrating
              PROVE  migrations'[g].state = migrations[g].state /\ migrations'[g].dest = migrations[g].dest
            <4>1. migrations[g] \in Migration
                BY DEF IInv, Tables, TableTypes
            <4>2. migrations'[g] = migrations[g] \/ migrations'[g] = [migrations[g] EXCEPT !.rolledBack = TRUE]
                BY <3>1 DEF Migrating
            <4> QED
                BY <4>1, <4>2 DEF Migration
        <3> QED
            BY <2>0, <3>2, WritebacksStay
    <2>3. CASE UNCHANGED migrations
        BY <2>0, <2>3, WritebacksStay
    <2> QED
        BY <1>4, <2>1, <2>2, <2>3 DEF DemoteEvent
<1>5. CASE CopyPageEvent
    <2>1. PICK f \in Migrating : migrations' = [migrations EXCEPT ![f].needsCopying = FALSE]
                                 /\ UNCHANGED <<stalledRequests, registered>> /\ TakeEvent("COPY_PAGE")
        BY <1>5 DEF CopyPageEvent, flushVars
    <2>2. ASSUME NEW g \in Migrating
          PROVE  migrations'[g].state = migrations[g].state /\ migrations'[g].dest = migrations[g].dest
        <3>1. migrations[g] \in Migration
            BY DEF IInv, Tables, TableTypes
        <3>2. migrations'[g] = migrations[g] \/ migrations'[g] = [migrations[g] EXCEPT !.needsCopying = FALSE]
            BY <2>1 DEF Migrating
        <3> QED
            BY <3>1, <3>2 DEF Migration
    <2> QED
        BY <1>2, <2>1, <2>2, WritebacksStay
<1>6. ASSUME NEW f \in copies, CopyCompleted(f) PROVE Writebacks'
    <2>1. migrations[f].state = "COPY" /\ UNCHANGED <<stalledRequests, registered, events>>
        BY <1>6 DEF CopyCompleted, flushVars
    <2>2. \A g \in Migrating : g # f => migrations'[g] = migrations[g]
        BY <1>6 DEF CopyCompleted, Migrating
    <2> QED
        BY <2>1, <2>2, WritebacksStay
<1>7. ASSUME NEW f \in copies, RollbackCompleted(f) PROVE Writebacks'
    <2>1. /\ migrations[f].state = "COPY" /\ UNCHANGED <<stalledRequests, registered>>
          /\ AddEvent("DEMOTE") /\ migrations' = Without(migrations, {f})
        BY <1>7 DEF RollbackCompleted, flushVars
    <2>2. \A g \in Migrating : g # f => migrations'[g] = migrations[g]
        BY <2>1 DEF Without, Migrating
    <2> QED
        BY <1>2, <2>1, <2>2, WritebacksStay
<1>8. ASSUME NEW d \in drains, DrainCompleted(d[1], d[2]) PROVE Writebacks'
    <2> DEFINE f == d[2]
               m == [migrations[f] EXCEPT !.drainsLeft = @ - 1]
               x == IF m.drainsLeft = 0 THEN Flushing(m) ELSE m
    <2>1. f \in Migrating /\ migrations[f] \in Migration
        BY DEF IInv, Flushes, References, Tables, TableTypes
    <2>2. migrations' = [migrations EXCEPT ![f] = x] /\ UNCHANGED <<stalledRequests, registered, events>>
        BY <1>8 DEF DrainCompleted
    <2>3. /\ m.state = migrations[f].state /\ m.dest = migrations[f].dest
          /\ Flushing(m).state = m.state /\ Flushing(m).dest = m.dest
        BY <2>1 DEF Migration, Flushing
    <2>4. x.state = migrations[f].state /\ x.dest = migrations[f].dest
        BY <2>3
    <2> HIDE DEF x, f
    <2>5. Changing(f, x)
        BY <2>1, <2>2, ChangingIs
    <2> QED
        BY <2>2, <2>4, <2>5, WritebacksStay DEF Changing
<1>9. ASSUME NEW f \in remaps, RemapCompleted(f) PROVE Writebacks'
    <2>1. Ending({f}, migrations, "none") /\ UNCHANGED <<stalledRequests, registered>>
        BY <1>9, RemapCompletedKeeps DEF RemapCompleted, flushVars
    <2>2. events'["UNSTALL"] = events["UNSTALL"]
        <3>1. events["UNSTALL"] \in Nat
            BY <1>1 DEF Kinds
        <3> QED
            BY <2>1, <3>1, EndingCallsNobody
    <2>3. stalledRequests' \in Seq(StalledEntries)
          /\ \A i \in DOMAIN stalledRequests' : stalledRequests'[i].page \in Migrating
        BY <2>1 DEF IInv, Flushes, FlushTypes, References
    <2>4. Directed(migrations, stalledRequests')
        BY <2>1 DEF Writebacks
    <2>5. Directed(migrations', stalledRequests')
        BY <2>1, <2>3, <2>4, EndingKeepsDirected
    <2> QED
        BY <2>1, <2>2, <2>5 DEF Directed, Writebacks, OneWakeup
<1>10. CASE MemoryUnstalls
    <2>1. registered /\ ~registered' /\ UNCHANGED <<stalledRequests, migrations>> /\ AddEvent("UNSTALL")
        BY <1>10 DEF MemoryUnstalls
    <2>2. events'["UNSTALL"] = events["UNSTALL"] + 1 /\ events["UNSTALL"] \in Nat
        BY <1>1, <2>1 DEF AddEvent, Kinds
    <2> QED
        BY <2>1, <2>2 DEF Directed, Writebacks, OneWakeup
<1>11. CASE \/ \E v \in Pages : Allocate(v)
            \/ \E c \in Cpus, v \in Pages : StallCpu(c, v)
            \/ FinishCores
            \/ UNCHANGED vars
    <2>1. UNCHANGED <<migrations, stalledRequests, registered, events>>
        BY <1>11 DEF Allocate, StallCpu, FinishCores, vars, flushVars
    <2> QED
        BY <2>1, WritebacksStay
<1> QED
    BY <1>3, <1>4, <1>5, <1>6, <1>7, <1>8, <1>9, <1>10, <1>11, FlushCompletedDirects, UnstallEventDirects
    DEF Next, Reaction

-----------------------------------------------------------------------------
(* The theorem *)

\* The inductive invariant.
Agreeing == IInv /\ Started /\ Waiting /\ Filled /\ Writebacks

\* Nothing is migrating at first, and the first demotion is due.
LEMMA InitAgrees == Init => Agreeing
<1> SUFFICES ASSUME Init PROVE Agreeing
    OBVIOUS
<1>1. Migrating = {} /\ Awaited = {} /\ Demotions = {}
    BY DEF Init, Migrating, Awaited, Demotions
<1>2. events["COPY_PAGE"] = 0 /\ events["DEMOTE"] = 1 /\ events["UNSTALL"] = 0
    BY DEF Init, Kinds
<1>3. Cardinality({}) = 0
    BY FS_EmptySet
<1>4. Started
    <2>1. Copying
        BY <1>1 DEF Copying
    <2>2. CopiesDue
        BY <1>1, <1>2, <1>3 DEF CopiesDue
    <2>3. OneAtATime
        BY <1>1, <1>2 DEF OneAtATime, Init
    <2> QED
        BY <2>1, <2>2, <2>3 DEF Started
<1>5. Waiting
    BY <1>1 DEF Waiting
<1>6. Filled
    <2>1. flushQueue = <<>> /\ Len(flushQueue) = 0 /\ Sent(flushQueue) = {}
        BY DEF Init, Sent
    <2>2. MaxFlushQueueSize \in Nat /\ MaxFlushQueueSize > 0
        BY PageMigrationAssumption
    <2> QED
        BY <1>3, <2>1, <2>2 DEF Filled, Least
<1>7. Writebacks
    <2>1. stalledRequests = <<>> /\ ~registered
        BY DEF Init
    <2> QED
        BY <1>2, <2>1 DEF Writebacks, Directed, OneWakeup
<1> QED
    BY <1>4, <1>5, <1>6, <1>7, InitIsGood DEF Agreeing

\* Every step keeps the invariant, each part by its own lemma.
LEMMA AgreeingKept == Agreeing /\ [Next]_vars => Agreeing'
BY NextKeeps, StartedKept, WaitingKept, FilledKept, WritebacksKept DEF Agreeing

\* The parts of TablesAgree, from those of the invariant: first the migrations.
LEMMA MigrationsDoAgree == IInv /\ Started => MigrationsAgree
<1> SUFFICES ASSUME IInv, Started PROVE MigrationsAgree
    OBVIOUS
<1>1. migrationTableSize = Cardinality(Migrating)
    BY DEF IInv, Tables, Sized
<1>2. \A f \in Migrating : f \in MappedFrames /\ physicalPages[f] = migrations[f].virtualPage
    BY DEF IInv, Tables, Sourced, EachFrameOnce
<1>3. \A f \in Migrating : InDram(f) # InDram(migrations[f].dest)
    BY DEF IInv, Tables, Sourced
<1>4. \A v \in Mapped : pages[v].isMigrating <=> pages[v].frame \in Migrating
    BY DEF IInv, Tables, Flagged
<1>5. \A v \in Mapped : pages[v].stallOnAccess <=>
          pages[v].isMigrating /\ migrations[pages[v].frame].state # "COPY"
    BY DEF IInv, Tables, Flagged
<1>6. copies = {f \in Migrating : migrations[f].state # "FLUSH_BEFORE" /\ ~migrations[f].needsCopying}
    <2>1. copies \subseteq Migrating
        BY DEF IInv, Flushes
    <2> QED
        BY <2>1 DEF Started, Copying
<1> QED
    BY <1>1, <1>2, <1>3, <1>4, <1>5, <1>6 DEF MigrationsAgree

\* The one demotion, and the events.
LEMMA OneDemotionIsDue == Started => OneDemotion
<1> SUFFICES ASSUME Started PROVE OneDemotion
    OBVIOUS
<1>1. Cardinality(Demotions) = IF demoting THEN 1 ELSE 0
    <2>1. CASE demoting
        <3>1. PICK f : Demotions = {f}
            BY <2>1 DEF Started, OneAtATime
        <3> QED
            BY <2>1, <3>1, FS_Singleton
    <2>2. CASE ~demoting
        <3>1. Demotions = {}
            BY <2>2 DEF Started, OneAtATime
        <3> QED
            BY <2>2, <3>1, FS_EmptySet
    <2> QED
        BY <2>1, <2>2
<1>2. IF demoting THEN events["DEMOTE"] = 0
      ELSE events["DEMOTE"] = 1 \/ (events["DEMOTE"] = 0 /\ coresFinished)
    BY DEF Started, OneAtATime
<1>3. events["COPY_PAGE"] = Cardinality(Awaited)
    BY DEF Started, CopiesDue
<1> QED
    BY <1>1, <1>2, <1>3 DEF OneDemotion, Demotions, Awaited

\* The flush queue, and what each flush waits for.
LEMMA FlushesDoAgree == IInv /\ Waiting /\ Filled => FlushesAgree
<1> SUFFICES ASSUME IInv, Waiting, Filled PROVE FlushesAgree
    OBVIOUS
<1>1. Cardinality(Sent(flushQueue)) =
          IF Len(flushQueue) < MaxFlushQueueSize THEN Len(flushQueue) ELSE MaxFlushQueueSize
    BY DEF Filled, Least
<1>2. ASSUME NEW f \in Migrating
      PROVE  /\ migrations[f].flushesLeft = Cardinality({i \in DOMAIN flushQueue : flushQueue[i].frame = f})
             /\ migrations[f].stalledLeft = Count(stalledRequests, f)
             /\ migrations[f].drainsLeft = Cardinality({c \in Cpus : <<c, f>> \in drains})
    BY DEF IInv, Flushes, Counts, FlushesOf, Drainers, Migrating
<1>3. \A f \in Migrating : migrations[f].state # "COPY" /\ f \notin remaps =>
          migrations[f].drainsLeft > 0 \/ ~IsFlushed(migrations[f])
    BY DEF Waiting
<1>4. \A i \in DOMAIN flushQueue : flushQueue[i].frame \in Migrating
    BY DEF IInv, Flushes, References
<1> QED
    BY <1>1, <1>2, <1>3, <1>4 DEF FlushesAgree

\* The refused writebacks, and the wakeup.
LEMMA WritebacksDoWait == IInv /\ Writebacks => WritebacksWait
<1> SUFFICES ASSUME IInv, Writebacks PROVE WritebacksWait
    OBVIOUS
<1>1. ASSUME NEW i \in DOMAIN stalledRequests
      PROVE  /\ stalledRequests[i].page \in Migrating
             /\ LET m == migrations[stalledRequests[i].page] IN
                IF m.state = "FLUSH_BEFORE" THEN stalledRequests[i].to = pages[m.virtualPage].frame
                ELSE m.state = "FLUSH_AFTER" /\ stalledRequests[i].to = m.dest
    <2> DEFINE f == stalledRequests[i].page
    <2>1. f \in Migrating /\ migrations[f].state # "COPY"
        BY StalledIsFlushing
    <2>2. migrations[f] \in Migration /\ pages[migrations[f].virtualPage].frame = f
        BY <2>1, MigratingPage DEF IInv
    <2>3. migrations[f].state = "FLUSH_BEFORE" \/ migrations[f].state = "FLUSH_AFTER"
        BY <2>1, <2>2 DEF Migration
    <2>4. stalledRequests[i].to = IF migrations[f].state = "FLUSH_BEFORE" THEN f ELSE migrations[f].dest
        BY DEF Writebacks, Directed
    <2> QED
        BY <2>1, <2>2, <2>3, <2>4
<1>2. events["UNSTALL"] + (IF registered THEN 1 ELSE 0) = IF stalledRequests = <<>> THEN 0 ELSE 1
    BY DEF Writebacks, OneWakeup
<1> QED
    BY <1>1, <1>2 DEF WritebacksWait

\* In every behaviour, for every number of frames, pages, cores and blocks, each
\* flush policy and bound of the flush queue, what the manager, the memory, the
\* cache and the cores know of the migrations agrees: no step of one (the end of a
\* copy, a drain, a flush, a writeback, an event) is lost or counted twice, so
\* each has what will take it on.
THEOREM TablesAlwaysAgree == Spec => []TablesAgree
<1>1. Agreeing => TablesAgree
    BY MigrationsDoAgree, OneDemotionIsDue, FlushesDoAgree, WritebacksDoWait DEF Agreeing, TablesAgree
<1> QED
    BY <1>1, InitAgrees, AgreeingKept, PTL DEF Spec
=============================================================================
