--------------------------- MODULE CacheModelProofs ---------------------------
(***************************************************************************)
(* The tags of a cache and its remap tables (CacheModel) keep the tables   *)
(* in agreement, TablesAgree, and implement CacheContents, for all pages,  *)
(* offsets, ways and indices.                                              *)
(*                                                                         *)
(* The proofs are about three things a state has: the sets, what they hold *)
(* by address and offset (Holding), and the blocks held by page            *)
(* (BlocksIn).  Each change of a set is described by what it does to       *)
(* Holding, each change of a table by what it needs of Holding to stay     *)
(* right, and each action then by what becomes of BlocksIn, which is the   *)
(* refinement mapping (ContentsAre).                                       *)
(***************************************************************************)
EXTENDS CacheModel, FiniteSetTheorems, SequenceTheorems, TLAPS

-----------------------------------------------------------------------------
(* The invariant *)

Addresses == [page : Pages, marked : BOOLEAN]
Lines == [tag : Addresses, dirty : BOOLEAN]
Line(tag, d) == [tag |-> tag, dirty |-> d]

\* No two lines of a set have one tag.
Distinct(q) == \A i, j \in DOMAIN q : q[i].tag = q[j].tag => i = j

\* A set is no larger than it may be, and a block is in the set of its address.
Sound(st) ==
    /\ st \in [SetIndices -> Seq(Lines)]
    /\ \A s \in SetIndices :
           /\ Len(st[s]) <= Ways /\ Distinct(st[s])
           /\ \A l \in Range(st[s]) : Index[l.tag.page] = s[1]

\* The blocks that the sets hold, by address and offset, with their dirty mark.
Holding(st) ==
    {x \in Addresses \X Offsets \X BOOLEAN : Line(x[1], x[3]) \in Range(st[SetOf(x[1], x[2])])}
OffsIn(H, tag) == {o \in Offsets : \E d \in BOOLEAN : <<tag, o, d>> \in H}

\* The entry of a page names a marked page, which names it, and counts its
\* blocks; the page has no others.
EntryRight(rt, inv, H, p) ==
    /\ rt[p].addr.marked /\ inv[rt[p].addr] = p
    /\ rt[p].count = Cardinality(OffsIn(H, rt[p].addr)) /\ rt[p].count > 0
    /\ OffsIn(H, Plain(p)) = {}

\* The two tables are right about the blocks held.
Books(rt, inv, H) ==
    /\ rt \in [DOMAIN rt -> [addr : Addresses, count : Nat]] /\ DOMAIN rt \subseteq Pages
    /\ inv \in [DOMAIN inv -> Pages]
    /\ DOMAIN inv = {rt[p].addr : p \in DOMAIN rt}
    /\ \A p \in DOMAIN rt : EntryRight(rt, inv, H, p)
    /\ \A tag \in Addresses : tag.marked /\ OffsIn(H, tag) # {} => tag \in DOMAIN inv

IInv ==
    /\ failed = FALSE
    /\ Sound(sets)
    /\ Books(remapTable, invRemapTable, Holding(sets))

-----------------------------------------------------------------------------
(* Sets of lines *)

\* A line that comes to be the most recently used one.
LEMMA Appending ==
    ASSUME NEW q \in Seq(Lines), Distinct(q), NEW l \in Lines,
           \A i \in DOMAIN q : q[i].tag # l.tag
    PROVE  /\ Append(q, l) \in Seq(Lines) /\ Distinct(Append(q, l))
           /\ Len(Append(q, l)) = Len(q) + 1
           /\ Range(Append(q, l)) = Range(q) \cup {l}
<1> DEFINE r == Append(q, l)
<1>1. /\ r \in Seq(Lines) /\ Len(r) = Len(q) + 1 /\ Len(q) \in Nat
      /\ r[Len(q) + 1] = l /\ \A i \in 1 .. Len(q) : r[i] = q[i]
    BY AppendProperties
<1>2. DOMAIN q = 1 .. Len(q) /\ DOMAIN r = 1 .. (Len(q) + 1)
    BY <1>1
<1> HIDE DEF r
<1>3. Distinct(r)
    <2> SUFFICES ASSUME NEW i \in DOMAIN r, NEW j \in DOMAIN r, r[i].tag = r[j].tag
                 PROVE  i = j
        BY DEF Distinct
    <2>1. CASE i = Len(q) + 1 /\ j = Len(q) + 1
        BY <2>1
    <2>2. CASE i \in 1 .. Len(q) /\ j \in 1 .. Len(q)
        BY <1>1, <1>2, <2>2 DEF Distinct
    <2>3. CASE i = Len(q) + 1 /\ j \in 1 .. Len(q)
        BY <1>1, <1>2, <2>3
    <2>4. CASE i \in 1 .. Len(q) /\ j = Len(q) + 1
        BY <1>1, <1>2, <2>4
    <2> QED
        BY <1>1, <1>2, <2>1, <2>2, <2>3, <2>4
<1>4. ASSUME NEW x
      PROVE  x \in Range(r) <=> x \in Range(q) \cup {l}
    <2>1. x \in Range(r) <=> \E i \in 1 .. (Len(q) + 1) : x = r[i]
        BY <1>2 DEF Range
    <2>2. x \in Range(q) <=> \E i \in 1 .. Len(q) : x = q[i]
        BY <1>2 DEF Range
    <2>3. ASSUME NEW i \in 1 .. (Len(q) + 1) PROVE i \in 1 .. Len(q) \/ i = Len(q) + 1
        BY <1>1
    <2>4. 1 .. Len(q) \subseteq 1 .. (Len(q) + 1) /\ Len(q) + 1 \in 1 .. (Len(q) + 1)
        BY <1>1
    <2> QED
        BY <1>1, <2>1, <2>2, <2>3, <2>4
<1> QED
    BY <1>1, <1>3, <1>4 DEF r

\* The line at a position is removed.
LEMMA Leaving ==
    ASSUME NEW q \in Seq(Lines), Distinct(q), NEW k \in DOMAIN q
    PROVE  /\ RemoveAt(q, k) \in Seq(Lines) /\ Distinct(RemoveAt(q, k))
           /\ Len(RemoveAt(q, k)) = Len(q) - 1
           /\ Range(RemoveAt(q, k)) = {l \in Range(q) : l.tag # q[k].tag}
<1> DEFINE r == RemoveAt(q, k)
           n == Len(q)
<1>1. n \in Nat /\ DOMAIN q = 1 .. n /\ k \in 1 .. n
    OBVIOUS
<1>2. /\ r \in Seq(Lines) /\ Len(r) = n - 1
      /\ \A i \in 1 .. (n - 1) : r[i] = IF i < k THEN q[i] ELSE q[i + 1]
    <2> DEFINE a == SubSeq(q, 1, k - 1)
               b == SubSeq(q, k + 1, n)
    <2>1. a \in Seq(Lines) /\ Len(a) = k - 1 /\ \A i \in 1 .. (k - 1) : a[i] = q[i]
        BY <1>1, SubSeqProperties
    <2>2. b \in Seq(Lines) /\ Len(b) = n - k /\ \A i \in 1 .. (n - k) : b[i] = q[k + i]
        BY <1>1
    <2>3. r = a \o b
        BY DEF RemoveAt
    <2> HIDE DEF a, b, r, n
    <2>4. /\ r \in Seq(Lines) /\ Len(r) = Len(a) + Len(b)
          /\ \A i \in 1 .. (Len(a) + Len(b)) : r[i] = IF i <= Len(a) THEN a[i] ELSE b[i - Len(a)]
        BY <2>1, <2>2, <2>3, ConcatProperties
    <2>5. ASSUME NEW i \in 1 .. (n - 1)
          PROVE  r[i] = IF i < k THEN q[i] ELSE q[i + 1]
        <3>1. CASE i < k
            <4>1. i \in 1 .. (k - 1) /\ i <= Len(a) /\ i \in 1 .. (Len(a) + Len(b))
                BY <1>1, <2>1, <2>2, <3>1
            <4> QED
                BY <2>1, <2>4, <3>1, <4>1
        <3>2. CASE ~(i < k)
            <4>1. i - (k - 1) \in 1 .. (n - k) /\ ~(i <= Len(a)) /\ i \in 1 .. (Len(a) + Len(b))
                BY <1>1, <2>1, <2>2, <3>2
            <4>2. r[i] = b[i - (k - 1)]
                BY <2>1, <2>4, <4>1
            <4>3. k + (i - (k - 1)) = i + 1
                BY <1>1
            <4> QED
                BY <2>2, <3>2, <4>1, <4>2, <4>3
        <3> QED
            BY <3>1, <3>2
    <2> QED
        BY <1>1, <2>1, <2>2, <2>4, <2>5
<1>3. DOMAIN r = 1 .. (n - 1)
    BY <1>2
<1> HIDE DEF r, n
<1> DEFINE From(i) == IF i < k THEN i ELSE i + 1
<1>4. \A i \in 1 .. (n - 1) : From(i) \in 1 .. n /\ From(i) # k /\ r[i] = q[From(i)]
    BY <1>1, <1>2
<1>5. \A i, j \in 1 .. (n - 1) : From(i) = From(j) => i = j
    BY <1>1
<1>6. ASSUME NEW m \in 1 .. n, m # k PROVE \E i \in 1 .. (n - 1) : From(i) = m
    <2>1. CASE m < k
        <3>1. m \in 1 .. (n - 1) /\ From(m) = m
            BY <1>1, <2>1
        <3> QED
            BY <3>1
    <2>2. CASE ~(m < k)
        <3>1. m - 1 \in 1 .. (n - 1) /\ From(m - 1) = m
            BY <1>1, <1>6, <2>2
        <3> QED
            BY <3>1
    <2> QED
        BY <2>1, <2>2
<1> HIDE DEF From
<1>7. Distinct(r)
    BY <1>1, <1>3, <1>4, <1>5 DEF Distinct
<1>8. ASSUME NEW x
      PROVE  x \in Range(r) <=> (x \in Range(q) /\ x.tag # q[k].tag)
    <2>1. x \in Range(r) <=> \E i \in 1 .. (n - 1) : x = r[i]
        BY <1>3 DEF Range
    <2>2. x \in Range(q) <=> \E i \in 1 .. n : x = q[i]
        BY <1>1 DEF Range
    <2>3. \A i \in 1 .. n : i # k => q[i].tag # q[k].tag
        BY <1>1 DEF Distinct
    <2> QED
        BY <1>4, <1>6, <2>1, <2>2, <2>3
<1> QED
    BY <1>2, <1>7, <1>8 DEF r, n

\* Lines that are changed where they are.
LEMMA Changing ==
    ASSUME NEW q \in Seq(Lines), NEW r \in [DOMAIN q -> Lines]
    PROVE  r \in Seq(Lines) /\ Len(r) = Len(q) /\ DOMAIN r = DOMAIN q
<1>1. Len(q) \in Nat /\ DOMAIN q = 1 .. Len(q)
    OBVIOUS
<1> QED
    BY <1>1

\* Lines of one tag get another that no line has.
LEMMA Renaming ==
    ASSUME NEW q \in Seq(Lines), Distinct(q), NEW from, NEW to \in Addresses,
           \A i \in DOMAIN q : q[i].tag # to
    PROVE  LET r == [i \in DOMAIN q |-> IF q[i].tag = from THEN [q[i] EXCEPT !.tag = to] ELSE q[i]]
           IN /\ r \in Seq(Lines) /\ Distinct(r) /\ Len(r) = Len(q)
              /\ \A u \in Addresses, d \in BOOLEAN :
                    Line(u, d) \in Range(r) <=>
                        \/ u = to /\ from \in Addresses /\ Line(from, d) \in Range(q)
                        \/ u # from /\ Line(u, d) \in Range(q)
<1> DEFINE r == [i \in DOMAIN q |-> IF q[i].tag = from THEN [q[i] EXCEPT !.tag = to] ELSE q[i]]
<1>1. \A i \in DOMAIN q : q[i] \in Lines
    OBVIOUS
<1>2. \A i \in DOMAIN q : r[i] = IF q[i].tag = from THEN Line(to, q[i].dirty) ELSE q[i]
    BY <1>1 DEF Line, Lines
<1>3. r \in [DOMAIN q -> Lines]
    BY <1>1, <1>2 DEF Line, Lines
<1>4. DOMAIN r = DOMAIN q
    OBVIOUS
<1> HIDE DEF r
<1>5. r \in Seq(Lines) /\ Len(r) = Len(q)
    BY <1>3, Changing
<1>6. \A i \in DOMAIN q : r[i].tag = IF q[i].tag = from THEN to ELSE q[i].tag
    <2>1. \A d : Line(to, d).tag = to
        BY DEF Line
    <2> QED
        BY <1>2, <2>1
<1>7. Distinct(r)
    BY <1>4, <1>6 DEF Distinct
<1>8. ASSUME NEW u \in Addresses, NEW d \in BOOLEAN
      PROVE  Line(u, d) \in Range(r) <=>
                        \/ u = to /\ from \in Addresses /\ Line(from, d) \in Range(q)
                        \/ u # from /\ Line(u, d) \in Range(q)
    <2>1. Line(u, d) \in Range(r) <=> \E i \in DOMAIN q : Line(u, d) = r[i]
        BY <1>4 DEF Range
    <2>2. Line(u, d) \in Range(q) <=> \E i \in DOMAIN q : Line(u, d) = q[i]
        BY DEF Range
    <2>3. Line(from, d) \in Range(q) <=> \E i \in DOMAIN q : Line(from, d) = q[i]
        BY DEF Range
    <2>4. \A i \in DOMAIN q : Line(u, d) = q[i] <=> q[i].tag = u /\ q[i].dirty = d
        BY <1>1 DEF Line, Lines
    <2>5. \A i \in DOMAIN q : Line(from, d) = q[i] <=> q[i].tag = from /\ q[i].dirty = d
        BY <1>1 DEF Line, Lines
    <2>6. \A i \in DOMAIN q : Line(u, d) = Line(to, q[i].dirty) <=> u = to /\ d = q[i].dirty
        BY DEF Line
    <2>7. \A i \in DOMAIN q : q[i].tag \in Addresses
        BY <1>1 DEF Lines
    <2>8. ASSUME NEW i \in DOMAIN q, Line(u, d) = r[i]
          PROVE  \/ u = to /\ from \in Addresses /\ Line(from, d) \in Range(q)
                 \/ u # from /\ Line(u, d) \in Range(q)
        <3>1. CASE q[i].tag = from
            BY <1>2, <2>3, <2>5, <2>6, <2>7, <2>8, <3>1
        <3>2. CASE q[i].tag # from
            BY <1>2, <2>2, <2>4, <2>8, <3>2
        <3> QED
            BY <3>1, <3>2
    <2>9. ASSUME u = to, Line(from, d) \in Range(q)
          PROVE  Line(u, d) \in Range(r)
        BY <1>2, <2>1, <2>3, <2>5, <2>6, <2>9
    <2>10. ASSUME u # from, Line(u, d) \in Range(q)
           PROVE  Line(u, d) \in Range(r)
        BY <1>2, <2>1, <2>2, <2>4, <2>10
    <2> QED
        BY <2>1, <2>8, <2>9, <2>10
<1> QED
    BY <1>5, <1>7, <1>8 DEF r

\* A line with another mark.
LEMMA LineMarked ==
    ASSUME NEW l \in Lines, NEW d
    PROVE  [l EXCEPT !.dirty = d] = Line(l.tag, d)
<1> DEFINE a == l.tag
           b == l.dirty
<1>1. l = [tag |-> a, dirty |-> b]
    BY DEF Lines
<1>2. [[tag |-> a, dirty |-> b] EXCEPT !.dirty = d] = Line(a, d)
    BY DEF Line
<1> HIDE DEF a, b
<1>3. [l EXCEPT !.dirty = d] = Line(a, d)
    BY <1>1, <1>2
<1> QED
    BY <1>3 DEF a

\* A line of a tag becomes dirty.
Dirtied(q, tag) ==
    [i \in DOMAIN q |-> IF q[i].tag = tag THEN [q[i] EXCEPT !.dirty = TRUE] ELSE q[i]]

\* Then the tags are what they were, and the line of that one is dirty.
LEMMA Soiling ==
    ASSUME NEW q \in Seq(Lines), Distinct(q), NEW tag
    PROVE  /\ Dirtied(q, tag) \in Seq(Lines) /\ Distinct(Dirtied(q, tag))
           /\ Len(Dirtied(q, tag)) = Len(q)
           /\ \A u \in Addresses, d \in BOOLEAN :
                  Line(u, d) \in Range(Dirtied(q, tag)) <=>
                      IF u = tag THEN d = TRUE /\ \E e \in BOOLEAN : Line(u, e) \in Range(q)
                      ELSE Line(u, d) \in Range(q)
<1> USE DEF Dirtied
<1> DEFINE r == Dirtied(q, tag)
<1>1. \A i \in DOMAIN q : q[i] \in Lines
    OBVIOUS
<1>2. \A i \in DOMAIN q : r[i] = IF q[i].tag = tag THEN Line(tag, TRUE) ELSE q[i]
    <2>1. \A l \in Lines : [l EXCEPT !.dirty = TRUE] = Line(l.tag, TRUE)
        BY Zenon, LineMarked
    <2> QED
        BY <1>1, <2>1
<1>3. r \in [DOMAIN q -> Lines]
    <2>1. \A i \in DOMAIN q : Line(q[i].tag, TRUE) \in Lines
        BY <1>1 DEF Line, Lines
    <2>2. \A i \in DOMAIN q : r[i] \in Lines
        <3> HIDE DEF r
        <3> QED
            BY <1>1, <1>2, <2>1
    <2> QED
        BY <2>2
<1>4. DOMAIN r = DOMAIN q
    OBVIOUS
<1> HIDE DEF r
<1>5. r \in Seq(Lines) /\ Len(r) = Len(q)
    BY <1>3, Changing
<1>6. \A i \in DOMAIN q : r[i].tag = q[i].tag
    BY <1>2 DEF Line
<1>7. Distinct(r)
    BY <1>4, <1>6 DEF Distinct
<1>8. ASSUME NEW u \in Addresses, NEW d \in BOOLEAN
      PROVE  Line(u, d) \in Range(r) <=>
                        IF u = tag THEN d = TRUE /\ \E e \in BOOLEAN : Line(u, e) \in Range(q)
                        ELSE Line(u, d) \in Range(q)
    <2>1. Line(u, d) \in Range(r) <=> \E i \in DOMAIN q : Line(u, d) = r[i]
        BY <1>4 DEF Range
    <2>2. \A e : Line(u, e) \in Range(q) <=> \E i \in DOMAIN q : Line(u, e) = q[i]
        BY DEF Range
    <2>3. \A e : \A i \in DOMAIN q : Line(u, e) = q[i] <=> q[i].tag = u /\ q[i].dirty = e
        BY <1>1 DEF Line, Lines
    <2>4. \A i \in DOMAIN q : Line(u, d) = Line(tag, TRUE) <=> u = tag /\ d = TRUE
        BY DEF Line
    <2>5. \A i \in DOMAIN q : q[i].dirty \in BOOLEAN
        BY <1>1 DEF Lines
    <2>6. CASE u = tag
        <3>1. \A i \in DOMAIN q : Line(u, d) = r[i] <=> q[i].tag = tag /\ d = TRUE
            <4>1. \A i \in DOMAIN q : r[i].tag = q[i].tag
                BY <1>6
            <4>2. Line(u, d).tag = u
                BY DEF Line
            <4> QED
                BY <1>2, <2>4, <2>6, <4>1, <4>2
        <3>2. (\E e \in BOOLEAN : Line(u, e) \in Range(q)) <=> \E i \in DOMAIN q : q[i].tag = u
            BY <2>2, <2>3, <2>5
        <3> QED
            BY <2>1, <2>6, <3>1, <3>2
    <2>7. CASE u # tag
        <3>1. \A i \in DOMAIN q : Line(u, d) = r[i] <=> Line(u, d) = q[i]
            BY <1>2, <2>3, <2>4, <2>7
        <3> QED
            BY <2>1, <2>2, <2>7, <3>1
    <2> QED
        BY <2>6, <2>7
<1> QED
    BY <1>5, <1>7, <1>8 DEF r

-----------------------------------------------------------------------------
(* What the sets hold *)

\* A block is held in the set of its address and offset.
LEMMA HeldThere ==
    ASSUME NEW st, NEW u \in Addresses, NEW o \in Offsets, NEW d \in BOOLEAN
    PROVE  <<u, o, d>> \in Holding(st) <=> Line(u, d) \in Range(st[SetOf(u, o)])
BY DEF Holding

\* An address and an offset have a set, and a set has one offset.
LEMMA SetOfAddress ==
    ASSUME NEW u \in Addresses, NEW o \in Offsets
    PROVE  /\ SetOf(u, o) \in SetIndices
           /\ SetOf(u, o)[1] = Index[u.page] /\ SetOf(u, o)[2] = o
           /\ \A v \in Addresses, n \in Offsets :
                  SetOf(u, o) = SetOf(v, n) <=> Index[u.page] = Index[v.page] /\ o = n
BY DEF SetOf, SetIndices, Addresses

\* A line is in the set of its address.
LEMMA LineIsPlaced ==
    ASSUME NEW st, Sound(st), NEW s \in SetIndices, NEW l \in Range(st[s])
    PROVE  /\ s[2] \in Offsets /\ l \in Lines /\ l.tag \in Addresses /\ l.dirty \in BOOLEAN
           /\ s = SetOf(l.tag, s[2]) /\ l = Line(l.tag, l.dirty)
           /\ <<l.tag, s[2], l.dirty>> \in Holding(st)
<1>1. st[s] \in Seq(Lines) /\ Index[l.tag.page] = s[1]
    BY DEF Sound
<1>2. l \in Lines
    BY <1>1 DEF Range
<1>3. /\ l.tag \in Addresses /\ l.dirty \in BOOLEAN
      /\ l = Line(l.tag, l.dirty)
    BY <1>2 DEF Lines, Line
<1>4. s = <<s[1], s[2]>> /\ s[2] \in Offsets
    BY DEF SetIndices
<1>5. s = SetOf(l.tag, s[2])
    BY <1>1, <1>4 DEF SetOf
<1> QED
    BY <1>2, <1>3, <1>4, <1>5, HeldThere

\* A set gets other lines.
LEMMA Replacing ==
    ASSUME NEW st, Sound(st), NEW s \in SetIndices, NEW q \in Seq(Lines),
           Distinct(q), Len(q) <= Ways, \A l \in Range(q) : Index[l.tag.page] = s[1]
    PROVE  /\ Sound([st EXCEPT ![s] = q])
           /\ \A u \in Addresses, o \in Offsets, d \in BOOLEAN :
                 <<u, o, d>> \in Holding([st EXCEPT ![s] = q]) <=>
                     IF SetOf(u, o) = s THEN Line(u, d) \in Range(q) ELSE <<u, o, d>> \in Holding(st)
<1> DEFINE st2 == [st EXCEPT ![s] = q]
<1>1. st \in [SetIndices -> Seq(Lines)]
    BY DEF Sound
<1>2. /\ st2 \in [SetIndices -> Seq(Lines)]
      /\ \A x \in SetIndices : st2[x] = IF x = s THEN q ELSE st[x]
    BY <1>1
<1> HIDE DEF st2
<1>3. ASSUME NEW x \in SetIndices
      PROVE  /\ Len(st2[x]) <= Ways /\ Distinct(st2[x])
             /\ \A l \in Range(st2[x]) : Index[l.tag.page] = x[1]
    <2>1. CASE x = s
        BY <1>2, <2>1
    <2>2. CASE x # s
        BY <1>2, <2>2 DEF Sound
    <2> QED
        BY <2>1, <2>2
<1>4. Sound(st2)
    BY <1>2, <1>3 DEF Sound
<1>5. ASSUME NEW u \in Addresses, NEW o \in Offsets, NEW d \in BOOLEAN
      PROVE  <<u, o, d>> \in Holding(st2) <=>
                 IF SetOf(u, o) = s THEN Line(u, d) \in Range(q) ELSE <<u, o, d>> \in Holding(st)
    BY <1>2, HeldThere, SetOfAddress
<1> QED
    BY <1>4, <1>5 DEF st2

\* What is held of a block that is not held.
Missing(H, u, o) == \A d \in BOOLEAN : <<u, o, d>> \notin H

\* The sets with one more line.
Grown(st, u, o, d) == [st EXCEPT ![SetOf(u, o)] = Append(st[SetOf(u, o)], Line(u, d))]

\* A block comes to a set that has room for it.
LEMMA Adding ==
    ASSUME NEW st, Sound(st), NEW u \in Addresses, NEW o \in Offsets, NEW d \in BOOLEAN,
           Missing(Holding(st), u, o), Len(st[SetOf(u, o)]) + 1 <= Ways
    PROVE  /\ Sound(Grown(st, u, o, d))
           /\ \A v \in Addresses, n \in Offsets, e \in BOOLEAN :
                 <<v, n, e>> \in Holding(Grown(st, u, o, d)) <=>
                     IF v = u /\ n = o THEN e = d ELSE <<v, n, e>> \in Holding(st)
<1> DEFINE s == SetOf(u, o)
           q == st[s]
           r == Append(q, Line(u, d))
           st2 == [st EXCEPT ![s] = r]
<1>1. /\ s \in SetIndices /\ s[1] = Index[u.page]
      /\ \A v \in Addresses, n \in Offsets : SetOf(v, n) = s /\ n # o => FALSE
    BY SetOfAddress
<1>2. q \in Seq(Lines) /\ Distinct(q) /\ \A l \in Range(q) : Index[l.tag.page] = s[1]
    BY <1>1 DEF Sound
<1>3. Line(u, d) \in Lines /\ Line(u, d).tag = u
    BY DEF Line, Lines
<1>4. ASSUME NEW i \in DOMAIN q, q[i].tag = u PROVE FALSE
    <2>1. q[i] \in Range(q) /\ q[i] \in Lines
        BY <1>2 DEF Range
    <2>2. q[i] = Line(u, q[i].dirty) /\ q[i].dirty \in BOOLEAN
        BY <1>4, <2>1 DEF Line, Lines
    <2> HIDE DEF q
    <2> QED
        BY <2>1, <2>2, HeldThere DEF Missing, q
<1> HIDE DEF s, q
<1>5. r \in Seq(Lines) /\ Distinct(r) /\ Len(r) = Len(q) + 1 /\ Range(r) = Range(q) \cup {Line(u, d)}
    BY <1>2, <1>3, <1>4, Appending
<1>6. \A l \in Range(r) : Index[l.tag.page] = s[1]
    BY <1>1, <1>2, <1>3, <1>5
<1>7. Len(r) <= Ways
    BY <1>5 DEF q, s
<1> HIDE DEF r
<1>8. /\ Sound(st2)
      /\ \A v \in Addresses, n \in Offsets, e \in BOOLEAN :
            <<v, n, e>> \in Holding(st2) <=>
                IF SetOf(v, n) = s THEN Line(v, e) \in Range(r) ELSE <<v, n, e>> \in Holding(st)
    BY <1>1, <1>5, <1>6, <1>7, Replacing
<1> HIDE DEF st2
<1>9. ASSUME NEW v \in Addresses, NEW n \in Offsets, NEW e \in BOOLEAN
      PROVE  <<v, n, e>> \in Holding(st2) <=>
                 IF v = u /\ n = o THEN e = d ELSE <<v, n, e>> \in Holding(st)
    <2>1. Line(v, e) = Line(u, d) <=> v = u /\ e = d
        BY DEF Line
    <2>2. SetOf(v, n) = s => (Line(v, e) \in Range(q) <=> <<v, n, e>> \in Holding(st))
        BY HeldThere DEF q
    <2>3. CASE v = u /\ n = o
        <3>1. SetOf(v, n) = s
            BY <2>3 DEF s
        <3>2. Line(v, e) \notin Range(q)
            BY <2>2, <2>3, <3>1 DEF Missing
        <3> QED
            BY <1>5, <1>8, <2>1, <2>3, <3>1, <3>2
    <2>4. CASE ~(v = u /\ n = o)
        <3>1. CASE SetOf(v, n) = s
            <4>1. v # u
                BY <1>1, <2>4, <3>1
            <4>2. Line(v, e) \in Range(r) <=> Line(v, e) \in Range(q)
                BY <1>5, <2>1, <4>1
            <4> QED
                BY <1>8, <2>2, <2>4, <3>1, <4>2
        <3>2. CASE SetOf(v, n) # s
            BY <1>8, <2>4, <3>2
        <3> QED
            BY <3>1, <3>2
    <2> QED
        BY <2>3, <2>4
<1>10. st2 = Grown(st, u, o, d)
    BY DEF st2, r, q, s, Grown
<1> QED
    BY <1>8, <1>9, <1>10

\* A block leaves its set.
LEMMA Removing ==
    ASSUME NEW st, Sound(st), NEW s \in SetIndices, NEW k \in DOMAIN st[s]
    PROVE  LET st2 == [st EXCEPT ![s] = RemoveAt(st[s], k)]
           IN /\ Sound(st2) /\ Len(st2[s]) = Len(st[s]) - 1
              /\ \A v \in Addresses, n \in Offsets, e \in BOOLEAN :
                    <<v, n, e>> \in Holding(st2) <=>
                        <<v, n, e>> \in Holding(st) /\ ~(v = st[s][k].tag /\ n = s[2])
<1> DEFINE q == st[s]
           r == RemoveAt(q, k)
           st2 == [st EXCEPT ![s] = r]
<1>1. /\ q \in Seq(Lines) /\ Distinct(q) /\ Len(q) <= Ways
      /\ \A l \in Range(q) : Index[l.tag.page] = s[1]
      /\ st \in [SetIndices -> Seq(Lines)]
    BY DEF Sound
<1>2. k \in DOMAIN q
    OBVIOUS
<1>3. q[k] \in Range(q)
    BY DEF Range
<1>4. s = SetOf(q[k].tag, s[2]) /\ s[2] \in Offsets /\ q[k].tag \in Addresses
    BY <1>3, LineIsPlaced
<1> HIDE DEF q
<1>5. /\ r \in Seq(Lines) /\ Distinct(r) /\ Len(r) = Len(q) - 1
      /\ Range(r) = {l \in Range(q) : l.tag # q[k].tag}
    BY <1>1, <1>2, Leaving
<1>6. st2[s] = r
    BY <1>1
<1>7. Ways \in Nat
    BY CacheModelAssumption
<1>8. Len(q) \in Nat
    BY <1>1
<1> HIDE DEF r
<1>9. Len(r) <= Ways /\ \A l \in Range(r) : Index[l.tag.page] = s[1]
    BY <1>1, <1>5, <1>7, <1>8
<1>10. /\ Sound(st2)
       /\ \A v \in Addresses, n \in Offsets, e \in BOOLEAN :
            <<v, n, e>> \in Holding(st2) <=>
                IF SetOf(v, n) = s THEN Line(v, e) \in Range(r) ELSE <<v, n, e>> \in Holding(st)
    BY <1>5, <1>9, Replacing
<1> HIDE DEF st2
<1>11. ASSUME NEW v \in Addresses, NEW n \in Offsets, NEW e \in BOOLEAN
       PROVE  <<v, n, e>> \in Holding(st2) <=>
                  <<v, n, e>> \in Holding(st) /\ ~(v = q[k].tag /\ n = s[2])
    <2>1. Line(v, e).tag = v
        BY DEF Line
    <2>2. CASE SetOf(v, n) = s
        <3>1. n = s[2]
            BY <2>2, SetOfAddress
        <3>2. Line(v, e) \in Range(q) <=> <<v, n, e>> \in Holding(st)
            BY <2>2, HeldThere DEF q
        <3> QED
            BY <1>5, <1>10, <2>1, <2>2, <3>1, <3>2
    <2>3. CASE SetOf(v, n) # s
        BY <1>4, <1>10, <2>3
    <2> QED
        BY <2>2, <2>3
<1> QED
    BY <1>5, <1>6, <1>10, <1>11 DEF st2, r, q

\* A block that is held becomes dirty.
LEMMA Dirtying ==
    ASSUME NEW st, Sound(st), NEW u \in Addresses, NEW o \in Offsets
    PROVE  LET s == SetOf(u, o)
               st2 == [st EXCEPT ![s] = Dirtied(st[s], u)]
           IN /\ Sound(st2)
              /\ \A v \in Addresses, n \in Offsets, e \in BOOLEAN :
                    <<v, n, e>> \in Holding(st2) <=>
                        IF v = u /\ n = o THEN e = TRUE /\ ~Missing(Holding(st), u, o)
                        ELSE <<v, n, e>> \in Holding(st)
<1> DEFINE s == SetOf(u, o)
           q == st[s]
           r == Dirtied(q, u)
           st2 == [st EXCEPT ![s] = r]
<1>1. /\ s \in SetIndices /\ s[1] = Index[u.page]
      /\ \A v \in Addresses, n \in Offsets : SetOf(v, n) = s => n = o
      /\ SetOf(u, o) = s
    BY SetOfAddress
<1>2. /\ q \in Seq(Lines) /\ Distinct(q) /\ Len(q) <= Ways
      /\ \A l \in Range(q) : Index[l.tag.page] = s[1]
    BY <1>1 DEF Sound
<1>3. \A v \in Addresses, e \in BOOLEAN : SetOf(v, o) = s => (Line(v, e) \in Range(q) <=> <<v, o, e>> \in Holding(st))
    BY HeldThere
<1> HIDE DEF s, q
<1>4. /\ r \in Seq(Lines) /\ Distinct(r) /\ Len(r) = Len(q)
      /\ \A v \in Addresses, d \in BOOLEAN :
            Line(v, d) \in Range(r) <=>
                IF v = u THEN d = TRUE /\ \E e \in BOOLEAN : Line(v, e) \in Range(q)
                ELSE Line(v, d) \in Range(q)
    BY <1>2, Soiling
<1>5. s \in SetIndices
    BY <1>1
<1>6. r \in Seq(Lines) /\ Distinct(r) /\ Len(r) <= Ways
    BY <1>2, <1>4
<1> HIDE DEF r
<1>7. ASSUME NEW l \in Range(r) PROVE Index[l.tag.page] = s[1]
    <2>1. l \in Lines
        BY <1>4 DEF Range
    <2>2. l.tag \in Addresses /\ l.dirty \in BOOLEAN /\ l = Line(l.tag, l.dirty)
        BY <2>1 DEF Lines, Line
    <2>3. PICK e \in BOOLEAN : Line(l.tag, e) \in Range(q)
        BY <1>4, <2>2
    <2>4. Line(l.tag, e).tag = l.tag
        BY DEF Line
    <2> QED
        BY <1>2, <2>3, <2>4
<1> HIDE DEF st2
<1>8. /\ Sound(st2)
      /\ \A v \in Addresses, n \in Offsets, e \in BOOLEAN :
            <<v, n, e>> \in Holding(st2) <=>
                IF SetOf(v, n) = s THEN Line(v, e) \in Range(r) ELSE <<v, n, e>> \in Holding(st)
    BY <1>5, <1>6, <1>7, Replacing DEF st2
<1>9. ASSUME NEW v \in Addresses, NEW n \in Offsets, NEW e \in BOOLEAN
      PROVE  <<v, n, e>> \in Holding(st2) <=>
                        IF v = u /\ n = o THEN e = TRUE /\ ~Missing(Holding(st), u, o)
                        ELSE <<v, n, e>> \in Holding(st)
    <2>1. CASE v = u /\ n = o
        <3>1. (\E d \in BOOLEAN : Line(u, d) \in Range(q)) <=> ~Missing(Holding(st), u, o)
            BY <1>1, <1>3 DEF Missing
        <3> QED
            BY <1>1, <1>4, <1>8, <2>1, <3>1
    <2>2. CASE ~(v = u /\ n = o)
        <3>1. CASE SetOf(v, n) = s
            BY <1>1, <1>3, <1>4, <1>8, <2>2, <3>1
        <3>2. CASE SetOf(v, n) # s
            BY <1>8, <2>2, <3>2
        <3> QED
            BY <3>1, <3>2
    <2> QED
        BY <2>1, <2>2
<1> QED
    BY <1>8, <1>9 DEF st2, r, q, s

\* The blocks of an address get another one of the same index.
LEMMA Retagging ==
    ASSUME NEW st, Sound(st), NEW from \in Addresses, NEW to \in Addresses,
           Index[from.page] = Index[to.page], \A o \in Offsets : Missing(Holding(st), to, o)
    PROVE  LET st2 == [s \in SetIndices |-> [i \in DOMAIN st[s] |->
                          IF st[s][i].tag = from THEN [st[s][i] EXCEPT !.tag = to] ELSE st[s][i]]]
           IN /\ Sound(st2)
              /\ \A v \in Addresses, n \in Offsets, e \in BOOLEAN :
                    <<v, n, e>> \in Holding(st2) <=>
                        \/ v = to /\ <<from, n, e>> \in Holding(st)
                        \/ v # from /\ <<v, n, e>> \in Holding(st)
<1> DEFINE R(q) == [i \in DOMAIN q |-> IF q[i].tag = from THEN [q[i] EXCEPT !.tag = to] ELSE q[i]]
           st2 == [s \in SetIndices |-> R(st[s])]
<1>1. ASSUME NEW s \in SetIndices
      PROVE  /\ R(st[s]) \in Seq(Lines) /\ Distinct(R(st[s])) /\ Len(R(st[s])) = Len(st[s])
             /\ \A u \in Addresses, d \in BOOLEAN :
                    Line(u, d) \in Range(R(st[s])) <=>
                        \/ u = to /\ from \in Addresses /\ Line(from, d) \in Range(st[s])
                        \/ u # from /\ Line(u, d) \in Range(st[s])
    <2> DEFINE q == st[s]
    <2>1. q \in Seq(Lines) /\ Distinct(q)
        BY DEF Sound
    <2>2. ASSUME NEW i \in DOMAIN q, q[i].tag = to PROVE FALSE
        <3>1. q[i] \in Range(q)
            BY DEF Range
        <3>2. s[2] \in Offsets /\ q[i].dirty \in BOOLEAN /\ <<q[i].tag, s[2], q[i].dirty>> \in Holding(st)
            BY <3>1, LineIsPlaced
        <3> QED
            BY <2>2, <3>2 DEF Missing
    <2> HIDE DEF q
    <2>3. /\ R(q) \in Seq(Lines) /\ Distinct(R(q)) /\ Len(R(q)) = Len(q)
          /\ \A u \in Addresses, d \in BOOLEAN :
                    Line(u, d) \in Range(R(q)) <=>
                        \/ u = to /\ from \in Addresses /\ Line(from, d) \in Range(q)
                        \/ u # from /\ Line(u, d) \in Range(q)
        BY <2>1, <2>2, Renaming
    <2> HIDE DEF R
    <2> QED
        BY <2>3 DEF q
<1>2. \A s \in SetIndices : st2[s] = R(st[s])
    OBVIOUS
<1>3. st2 \in [SetIndices -> Seq(Lines)]
    <2> HIDE DEF R
    <2> QED
        BY <1>1
<1> HIDE DEF R, st2
<1>4. ASSUME NEW s \in SetIndices, NEW l \in Range(st2[s])
      PROVE  Index[l.tag.page] = s[1]
    <2>1. st2[s] \in Seq(Lines)
        BY <1>3
    <2>2. l \in Lines
        BY <2>1 DEF Range
    <2>3. l.tag \in Addresses /\ l.dirty \in BOOLEAN /\ l = Line(l.tag, l.dirty)
        BY <2>2 DEF Lines, Line
    <2>4. \/ l.tag = to /\ Line(from, l.dirty) \in Range(st[s])
          \/ Line(l.tag, l.dirty) \in Range(st[s])
        BY <1>1, <1>2, <2>3
    <2>5. \A u : Line(u, l.dirty).tag = u
        BY DEF Line
    <2>6. \A x \in Range(st[s]) : Index[x.tag.page] = s[1]
        BY DEF Sound
    <2>7. CASE l.tag = to /\ Line(from, l.dirty) \in Range(st[s])
        <3>1. Index[Line(from, l.dirty).tag.page] = s[1]
            BY <2>6, <2>7
        <3>2. Line(from, l.dirty).tag = from
            BY <2>5
        <3> QED
            BY <2>7, <3>1, <3>2
    <2>8. CASE Line(l.tag, l.dirty) \in Range(st[s])
        BY <2>3, <2>6, <2>8
    <2> QED
        BY <2>4, <2>7, <2>8
<1>5. Sound(st2)
    <2>1. ASSUME NEW s \in SetIndices PROVE Len(st2[s]) <= Ways /\ Distinct(st2[s])
        <3>1. Len(st[s]) <= Ways
            BY DEF Sound
        <3> QED
            BY <1>1, <1>2, <3>1
    <2> QED
        BY <1>3, <1>4, <2>1 DEF Sound
<1>6. ASSUME NEW v \in Addresses, NEW n \in Offsets, NEW e \in BOOLEAN
      PROVE  <<v, n, e>> \in Holding(st2) <=>
                 \/ v = to /\ <<from, n, e>> \in Holding(st)
                 \/ v # from /\ <<v, n, e>> \in Holding(st)
    <2> DEFINE s == SetOf(v, n)
    <2>1. s \in SetIndices
        BY SetOfAddress
    <2>2. <<v, n, e>> \in Holding(st2) <=> Line(v, e) \in Range(st2[s])
        BY HeldThere
    <2>3. <<v, n, e>> \in Holding(st) <=> Line(v, e) \in Range(st[s])
        BY HeldThere
    <2>4. v = to => SetOf(from, n) = s
        BY SetOfAddress
    <2>5. <<from, n, e>> \in Holding(st) <=> Line(from, e) \in Range(st[SetOf(from, n)])
        BY HeldThere
    <2> HIDE DEF s
    <2> QED
        BY <1>1, <1>2, <2>1, <2>2, <2>3, <2>4, <2>5
<1> QED
    BY <1>5, <1>6 DEF st2, R

-----------------------------------------------------------------------------
(* The tables *)

\* The offsets of an address are finitely many.
LEMMA OffsFinite ==
    ASSUME NEW H, NEW u
    PROVE  /\ IsFiniteSet(OffsIn(H, u)) /\ Cardinality(OffsIn(H, u)) \in Nat
           /\ Cardinality(OffsIn(H, u)) = 0 <=> OffsIn(H, u) = {}
           /\ OffsIn(H, u) \subseteq Offsets
           /\ \A o \in Offsets : o \in OffsIn(H, u) <=> ~Missing(H, u, o)
<1>1. OffsIn(H, u) \subseteq Offsets /\ \A o \in Offsets : o \in OffsIn(H, u) <=> ~Missing(H, u, o)
    BY DEF OffsIn, Missing
<1>2. IsFiniteSet(OffsIn(H, u))
    BY <1>1, CacheModelAssumption, FS_Subset
<1> QED
    BY <1>1, <1>2, FS_CardinalityType, FS_EmptySet

\* The addresses of a page, plain and marked.
LEMMA PageAddresses ==
    ASSUME NEW p \in Pages
    PROVE  /\ Plain(p) \in Addresses /\ ~Plain(p).marked /\ Plain(p).page = p
           /\ Marked(p) \in Addresses /\ Marked(p).marked /\ Marked(p).page = p
           /\ \A r : Plain(p) = Plain(r) => p = r
           /\ \A u \in Addresses : ~u.marked /\ u.page = p => u = Plain(p)
BY DEF Plain, Marked, Addresses

\* Addresses have a page.
LEMMA AddressHasPage ==
    ASSUME NEW u \in Addresses
    PROVE  u.page \in Pages /\ u.marked \in BOOLEAN
BY DEF Addresses

\* What the tables say of a page, and of a marked page.
LEMMA BooksSay ==
    ASSUME NEW rt, NEW inv, NEW H, Books(rt, inv, H)
    PROVE  /\ \A p \in DOMAIN rt :
                  /\ p \in Pages /\ rt[p].addr \in Addresses /\ rt[p].count \in Nat \ {0}
                  /\ rt[p].addr.marked /\ rt[p].addr \in DOMAIN inv /\ inv[rt[p].addr] = p
                  /\ rt[p].addr # Plain(p)
                  /\ rt[p] = [addr |-> rt[p].addr, count |-> rt[p].count]
           /\ \A u \in DOMAIN inv :
                  /\ u \in Addresses /\ u.marked /\ inv[u] \in DOMAIN rt /\ rt[inv[u]].addr = u
           /\ \A p, r \in DOMAIN rt : rt[p].addr = rt[r].addr => p = r
<1>1. ASSUME NEW p \in DOMAIN rt
      PROVE  /\ p \in Pages /\ rt[p].addr \in Addresses /\ rt[p].count \in Nat
             /\ rt[p] = [addr |-> rt[p].addr, count |-> rt[p].count]
    BY DEF Books
<1>2. ASSUME NEW p \in DOMAIN rt
      PROVE  rt[p].addr.marked /\ inv[rt[p].addr] = p /\ rt[p].count > 0
    BY DEF Books, EntryRight
<1>3. DOMAIN inv = {rt[p].addr : p \in DOMAIN rt}
    BY DEF Books
<1>4. ASSUME NEW p \in DOMAIN rt PROVE rt[p].addr # Plain(p)
    BY <1>1, <1>2, PageAddresses
<1>5. ASSUME NEW p \in DOMAIN rt PROVE rt[p].count \in Nat \ {0}
    BY <1>1, <1>2
<1>6. ASSUME NEW u \in DOMAIN inv
      PROVE  /\ u \in Addresses /\ u.marked /\ inv[u] \in DOMAIN rt /\ rt[inv[u]].addr = u
    <2>1. PICK p \in DOMAIN rt : u = rt[p].addr
        BY <1>3
    <2> QED
        BY <1>1, <1>2, <2>1
<1>7. \A p, r \in DOMAIN rt : rt[p].addr = rt[r].addr => p = r
    BY <1>2
<1>8. \A p \in DOMAIN rt : rt[p].addr \in DOMAIN inv
    BY <1>3
<1>9. \A p \in DOMAIN rt : inv[rt[p].addr] = p
    BY <1>2
<1>10. \A p \in DOMAIN rt : rt[p].addr.marked
    BY <1>2
<1> QED
    BY <1>1, <1>4, <1>5, <1>6, <1>7, <1>8, <1>9, <1>10

\* An entry is right as long as its blocks and its page's are the same.
LEMMA EntryKept ==
    ASSUME NEW rt, NEW inv, NEW H, NEW rt2, NEW inv2, NEW G, NEW p,
           EntryRight(rt, inv, H, p), rt2[p] = rt[p], inv2[rt[p].addr] = inv[rt[p].addr],
           OffsIn(G, rt[p].addr) = OffsIn(H, rt[p].addr), OffsIn(G, Plain(p)) = OffsIn(H, Plain(p))
    PROVE  EntryRight(rt2, inv2, G, p)
BY DEF EntryRight

\* The tables are right as long as every address has the same blocks.
LEMMA BooksKept ==
    ASSUME NEW rt, NEW inv, NEW H, NEW G, Books(rt, inv, H),
           \A u \in Addresses : OffsIn(G, u) = OffsIn(H, u)
    PROVE  Books(rt, inv, G)
<1>1. ASSUME NEW p \in DOMAIN rt PROVE EntryRight(rt, inv, G, p)
    <2>1. EntryRight(rt, inv, H, p)
        BY DEF Books
    <2>2. rt[p].addr \in Addresses /\ Plain(p) \in Addresses
        BY BooksSay, PageAddresses
    <2> QED
        BY <2>1, <2>2, EntryKept
<1> QED
    BY <1>1 DEF Books

\* The address of a page, by the remap table.
ActualIn(rt, p) == IF p \in DOMAIN rt THEN rt[p].addr ELSE Plain(p)

\* It is the address of that page only.
LEMMA ActualOfPage ==
    ASSUME NEW rt, NEW inv, NEW H, Books(rt, inv, H), NEW p \in Pages
    PROVE  /\ ActualIn(rt, p) \in Addresses
           /\ \A r \in Pages : ActualIn(rt, p) = ActualIn(rt, r) => p = r
           /\ \A r \in DOMAIN rt : ActualIn(rt, p) # Plain(r)
           /\ \A r \in DOMAIN rt : ActualIn(rt, p) = rt[r].addr => p = r
           /\ p \in DOMAIN rt => ActualIn(rt, p) = rt[p].addr
           /\ p \notin DOMAIN rt => ActualIn(rt, p) = Plain(p)
<1>1. CASE p \in DOMAIN rt
    BY <1>1, BooksSay, PageAddresses DEF ActualIn
<1>2. CASE p \notin DOMAIN rt
    BY <1>2, BooksSay, PageAddresses DEF ActualIn
<1> QED
    BY <1>1, <1>2

CountedIn(rt, p) == IF p \in DOMAIN rt THEN [rt EXCEPT ![p].count = @ + 1] ELSE rt

\* A block that comes to be held is counted.
LEMMA BooksAdd ==
    ASSUME NEW rt, NEW inv, NEW H, NEW G, Books(rt, inv, H), NEW p \in Pages, NEW o \in Offsets,
           Missing(H, ActualIn(rt, p), o),
           OffsIn(G, ActualIn(rt, p)) = OffsIn(H, ActualIn(rt, p)) \cup {o},
           \A u \in Addresses : u # ActualIn(rt, p) => OffsIn(G, u) = OffsIn(H, u)
    PROVE  Books(CountedIn(rt, p), inv, G)
<1> DEFINE t == ActualIn(rt, p)
           rt2 == CountedIn(rt, p)
<1>1. /\ t \in Addresses
      /\ \A r \in DOMAIN rt : t # Plain(r)
      /\ \A r \in DOMAIN rt : t = rt[r].addr => p = r
      /\ p \in DOMAIN rt => t = rt[p].addr
      /\ p \notin DOMAIN rt => t = Plain(p)
    BY ActualOfPage
<1>2. DOMAIN rt2 = DOMAIN rt /\ \A r \in DOMAIN rt : rt2[r].addr = rt[r].addr /\ (r # p => rt2[r] = rt[r])
    BY DEF Books, CountedIn
<1>3. /\ rt2 \in [DOMAIN rt2 -> [addr : Addresses, count : Nat]]
      /\ p \in DOMAIN rt => rt2[p].count = rt[p].count + 1
    BY <1>2 DEF Books, CountedIn
<1>4. Cardinality(OffsIn(G, t)) = Cardinality(OffsIn(H, t)) + 1
    <2>1. IsFiniteSet(OffsIn(H, t)) /\ o \notin OffsIn(H, t)
        BY OffsFinite
    <2> QED
        BY <2>1, FS_AddElement
<1>5. /\ OffsIn(G, t) = OffsIn(H, t) \cup {o}
      /\ \A u \in Addresses : u # t => OffsIn(G, u) = OffsIn(H, u)
    OBVIOUS
<1> HIDE DEF t, rt2
<1>6. ASSUME NEW r \in DOMAIN rt PROVE EntryRight(rt2, inv, G, r)
    <2>1. EntryRight(rt, inv, H, r)
        BY DEF Books
    <2>2. rt[r].addr \in Addresses /\ Plain(r) \in Addresses /\ rt[r].count \in Nat
        BY BooksSay, PageAddresses
    <2>3. OffsIn(G, Plain(r)) = OffsIn(H, Plain(r))
        BY <1>1, <1>5, <2>2
    <2>4. CASE r = p
        <3>1. rt2[r].count = Cardinality(OffsIn(G, rt2[r].addr))
            BY <1>1, <1>2, <1>3, <1>4, <2>1, <2>4 DEF EntryRight
        <3>2. rt2[r].count > 0
            BY <1>3, <2>2, <2>4
        <3>3. rt2[r].addr = rt[r].addr
            BY <1>2
        <3> QED
            BY <2>1, <2>3, <3>1, <3>2, <3>3 DEF EntryRight
    <2>5. CASE r # p
        <3>1. OffsIn(G, rt[r].addr) = OffsIn(H, rt[r].addr)
            BY <1>1, <1>5, <2>2, <2>5
        <3>2. rt2[r] = rt[r]
            BY <1>2, <2>5
        <3> QED
            BY <2>1, <2>3, <3>1, <3>2, EntryKept
    <2> QED
        BY <2>4, <2>5
<1>7. ASSUME NEW u \in Addresses, u.marked, OffsIn(G, u) # {} PROVE u \in DOMAIN inv
    <2>1. CASE u = t
        <3>1. p \in DOMAIN rt
            BY <1>1, <1>7, <2>1, PageAddresses
        <3> QED
            BY <1>1, <2>1, <3>1, BooksSay
    <2>2. CASE u # t
        BY <1>5, <1>7, <2>2 DEF Books
    <2> QED
        BY <2>1, <2>2
<1>8. {rt2[r].addr : r \in DOMAIN rt2} = {rt[r].addr : r \in DOMAIN rt}
    BY <1>2
<1> QED
    BY <1>2, <1>3, <1>6, <1>7, <1>8 DEF Books, rt2

\* The tables without a block of a marked page.
UncountedIn(rt, v, w) == IF rt[w].count > 1 THEN [rt EXCEPT ![w].count = @ - 1] ELSE Without(rt, w)

\* A block that is held no longer is not counted, and the last one of a marked page
\* takes the entries along.
LEMMA BooksDrop ==
    ASSUME NEW rt, NEW inv, NEW H, NEW G, Books(rt, inv, H), NEW v \in Addresses, NEW o \in OffsIn(H, v),
           OffsIn(G, v) = OffsIn(H, v) \ {o},
           \A u \in Addresses : u # v => OffsIn(G, u) = OffsIn(H, u)
    PROVE  /\ ~v.marked => Books(rt, inv, G)
           /\ v.marked =>
                 LET w == inv[v]
                     rt2 == UncountedIn(rt, v, w)
                 IN Books(rt2, IF w \notin DOMAIN rt2 THEN Without(inv, v) ELSE inv, G)
<1>1. ASSUME NEW r \in DOMAIN rt
      PROVE  OffsIn(G, Plain(r)) = {}
    <2>1. OffsIn(H, Plain(r)) = {} /\ Plain(r) \in Addresses
        BY BooksSay, PageAddresses DEF Books, EntryRight
    <2> QED
        BY <2>1
<1>2. ASSUME ~v.marked PROVE Books(rt, inv, G)
    <2>1. ASSUME NEW r \in DOMAIN rt PROVE EntryRight(rt, inv, G, r)
        <3>1. EntryRight(rt, inv, H, r) /\ rt[r].addr \in Addresses /\ rt[r].addr # v
            <4>1. EntryRight(rt, inv, H, r)
                BY DEF Books
            <4>2. rt[r].addr.marked
                BY <4>1 DEF EntryRight
            <4>3. rt[r].addr \in Addresses
                BY BooksSay
            <4> QED
                BY <1>2, <4>1, <4>2, <4>3
        <3>2. OffsIn(H, Plain(r)) = {}
            BY <3>1 DEF EntryRight
        <3> QED
            BY <1>1, <3>1, <3>2, EntryKept
    <2>2. ASSUME NEW u \in Addresses, u.marked, OffsIn(G, u) # {} PROVE u \in DOMAIN inv
        BY <1>2, <2>2 DEF Books
    <2> QED
        BY <2>1, <2>2 DEF Books
<1>3. ASSUME v.marked
      PROVE  LET w == inv[v]
                 rt2 == UncountedIn(rt, v, w)
             IN Books(rt2, IF w \notin DOMAIN rt2 THEN Without(inv, v) ELSE inv, G)
    <2> DEFINE w == inv[v]
               rt2 == UncountedIn(rt, v, w)
               inv2 == IF w \notin DOMAIN rt2 THEN Without(inv, v) ELSE inv
               n == Cardinality(OffsIn(H, v))
    <2>1. v \in DOMAIN inv
        BY <1>3 DEF Books
    <2>2. w \in DOMAIN rt /\ rt[w].addr = v /\ rt[w].count = n /\ inv[v] = w
        BY <2>1, BooksSay DEF Books, EntryRight
    <2>3. /\ \A r \in DOMAIN rt : rt[r].addr \in Addresses /\ rt[r].count \in Nat \ {0}
          /\ \A r \in DOMAIN rt : rt[r].addr = v => r = w
          /\ \A u \in DOMAIN inv : inv[u] = w => u = v
          /\ \A r \in DOMAIN rt : inv[rt[r].addr] = r
        BY <2>2, BooksSay
    <2>4. Cardinality(OffsIn(G, v)) = n - 1
        <3>1. IsFiniteSet(OffsIn(H, v))
            BY OffsFinite
        <3>2. Cardinality(OffsIn(H, v) \ {o}) = Cardinality(OffsIn(H, v)) - 1
            BY <3>1, FS_RemoveElement
        <3> QED
            BY <3>2
    <2> HIDE DEF w, n
    <2>5. ASSUME NEW r \in DOMAIN rt, r # w, NEW rtx, rtx[r] = rt[r], NEW ix, ix[rt[r].addr] = inv[rt[r].addr]
          PROVE  EntryRight(rtx, ix, G, r)
        <3>1. EntryRight(rt, inv, H, r) /\ rt[r].addr \in Addresses /\ rt[r].addr # v
            BY <2>3, <2>5 DEF Books
        <3>2. OffsIn(H, Plain(r)) = {}
            BY <3>1 DEF EntryRight
        <3>3. OffsIn(G, Plain(r)) = OffsIn(H, Plain(r)) /\ OffsIn(G, rt[r].addr) = OffsIn(H, rt[r].addr)
            BY <1>1, <3>1, <3>2
        <3> QED
            BY <2>5, <3>1, <3>3, EntryKept
    <2>6. CASE rt[w].count > 1
        <3>1. rt2 = [rt EXCEPT ![w].count = @ - 1]
            BY <2>6 DEF UncountedIn
        <3>2. /\ DOMAIN rt2 = DOMAIN rt
              /\ \A r \in DOMAIN rt : rt2[r].addr = rt[r].addr /\ (r # w => rt2[r] = rt[r])
              /\ rt2[w].count = rt[w].count - 1
            BY <2>2, <3>1 DEF Books
        <3>3. rt2 \in [DOMAIN rt2 -> [addr : Addresses, count : Nat]]
            BY <2>2, <2>3, <2>6, <3>1, <3>2 DEF Books
        <3> HIDE DEF rt2
        <3>4. inv2 = inv
            BY <2>2, <3>2
        <3>5. EntryRight(rt2, inv, G, w)
            <4>1. rt2[w].addr = v /\ v.marked /\ inv[v] = w
                BY <1>3, <2>2, <3>2
            <4>2. rt2[w].count = Cardinality(OffsIn(G, v))
                BY <2>2, <2>4, <3>2
            <4>3. rt2[w].count > 0
                BY <2>2, <2>3, <2>6, <3>2
            <4>4. OffsIn(G, Plain(w)) = {}
                BY <1>1, <2>2
            <4> QED
                BY <4>1, <4>2, <4>3, <4>4 DEF EntryRight
        <3>6. ASSUME NEW r \in DOMAIN rt PROVE EntryRight(rt2, inv, G, r)
            BY <2>5, <3>2, <3>5
        <3>7. ASSUME NEW u \in Addresses, u.marked, OffsIn(G, u) # {} PROVE u \in DOMAIN inv
            BY <2>1, <3>7 DEF Books
        <3>8. {rt2[r].addr : r \in DOMAIN rt2} = {rt[r].addr : r \in DOMAIN rt}
            BY <3>2
        <3>9. Books(rt2, inv, G)
            BY <3>2, <3>3, <3>6, <3>7, <3>8 DEF Books
        <3> QED
            BY <3>4, <3>9 DEF rt2, w
    <2>7. CASE ~(rt[w].count > 1)
        <3>1. rt2 = Without(rt, w) /\ n = 1
            BY <2>2, <2>3, <2>7 DEF UncountedIn
        <3>2. /\ DOMAIN rt2 = DOMAIN rt \ {w}
              /\ \A r \in DOMAIN rt2 : rt2[r] = rt[r]
              /\ rt2 \in [DOMAIN rt2 -> [addr : Addresses, count : Nat]]
            BY <3>1 DEF Without, Books
        <3> HIDE DEF rt2
        <3>3. inv2 = Without(inv, v)
            BY <3>2
        <3>4. /\ DOMAIN inv2 = DOMAIN inv \ {v}
              /\ \A u \in DOMAIN inv2 : inv2[u] = inv[u]
              /\ inv2 \in [DOMAIN inv2 -> Pages]
            BY <3>3 DEF Without, Books
        <3> HIDE DEF inv2
        <3>5. ASSUME NEW r \in DOMAIN rt2 PROVE EntryRight(rt2, inv2, G, r)
            <4>1. r \in DOMAIN rt /\ r # w /\ rt2[r] = rt[r]
                BY <3>2
            <4>2. rt[r].addr \in DOMAIN inv2
                BY <2>3, <3>4, <4>1, BooksSay
            <4> QED
                BY <2>5, <3>4, <4>1, <4>2
        <3>6. OffsIn(G, v) = {}
            <4>1. Cardinality(OffsIn(G, v)) = 0
                BY <2>4, <3>1
            <4>2. Cardinality(OffsIn(G, v)) = 0 <=> OffsIn(G, v) = {}
                BY OffsFinite
            <4> QED
                BY <4>1, <4>2
        <3>7. ASSUME NEW u \in Addresses, u.marked, OffsIn(G, u) # {} PROVE u \in DOMAIN inv2
            BY <3>4, <3>6, <3>7 DEF Books
        <3>8. DOMAIN inv2 = {rt2[r].addr : r \in DOMAIN rt2}
            <4>1. DOMAIN inv = {rt[r].addr : r \in DOMAIN rt}
                BY DEF Books
            <4> QED
                BY <2>2, <2>3, <3>2, <3>4, <4>1
        <3>9. Books(rt2, inv2, G)
            <4>1. DOMAIN rt2 \subseteq Pages
                BY <3>2 DEF Books
            <4> QED
                BY <3>2, <3>4, <3>5, <3>7, <3>8, <4>1 DEF Books
        <3> QED
            BY <3>9 DEF inv2, rt2, w
    <2> QED
        BY <2>6, <2>7
<1> QED
    BY <1>2, <1>3

-----------------------------------------------------------------------------
(* The tables after a remap *)

\* What is held once the blocks of an address have another one.
Moved(H, G, from, to) ==
    /\ OffsIn(G, to) = OffsIn(H, from) /\ OffsIn(G, from) = {}
    /\ \A u \in Addresses : u # to /\ u # from => OffsIn(G, u) = OffsIn(H, u)

\* A page with its own address moves to a frame of the same index.
LEMMA BooksPlainToPlain ==
    ASSUME NEW rt, NEW inv, NEW H, NEW G, Books(rt, inv, H), NEW p \in Pages, NEW q \in Pages,
           p \notin DOMAIN rt, q \notin DOMAIN rt, Moved(H, G, Plain(p), Plain(q))
    PROVE  Books(rt, inv, G)
<1>1. ASSUME NEW r \in DOMAIN rt PROVE EntryRight(rt, inv, G, r)
    <2>1. EntryRight(rt, inv, H, r)
        BY DEF Books
    <2>2. rt[r].addr \in Addresses /\ Plain(r) \in Addresses /\ rt[r].addr.marked /\ r # p /\ r # q
        BY BooksSay, PageAddresses
    <2>3. Plain(r) # Plain(p) /\ Plain(r) # Plain(q) /\ rt[r].addr # Plain(p) /\ rt[r].addr # Plain(q)
        BY <2>2, PageAddresses
    <2>4. OffsIn(G, rt[r].addr) = OffsIn(H, rt[r].addr) /\ OffsIn(G, Plain(r)) = OffsIn(H, Plain(r))
        BY <2>2, <2>3 DEF Moved
    <2> QED
        BY <2>1, <2>4, EntryKept
<1>2. ASSUME NEW u \in Addresses, u.marked, OffsIn(G, u) # {} PROVE u \in DOMAIN inv
    <2>1. u # Plain(p) /\ u # Plain(q)
        BY <1>2, PageAddresses
    <2> QED
        BY <1>2, <2>1 DEF Moved, Books
<1> QED
    BY <1>1, <1>2 DEF Books

\* It moves to a frame of another index, and becomes a marked one.
LEMMA BooksPlainToMarked ==
    ASSUME NEW rt, NEW inv, NEW H, NEW G, Books(rt, inv, H), NEW p \in Pages, NEW q \in Pages, p # q,
           p \notin DOMAIN rt, q \notin DOMAIN rt, Marked(p) \notin DOMAIN inv,
           OffsIn(H, Plain(q)) = {}, OffsIn(H, Plain(p)) # {}, Moved(H, G, Plain(p), Marked(p))
    PROVE  Books(With(rt, q, [addr |-> Marked(p), count |-> Cardinality(OffsIn(H, Plain(p)))]),
                 With(inv, Marked(p), q), G)
<1> DEFINE n == Cardinality(OffsIn(H, Plain(p)))
           e == [addr |-> Marked(p), count |-> n]
           rt2 == With(rt, q, e)
           inv2 == With(inv, Marked(p), q)
<1>1. n \in Nat /\ n > 0
    <2>1. n \in Nat /\ n # 0
        BY OffsFinite
    <2> QED
        BY <2>1
<1>2. /\ Marked(p) \in Addresses /\ Marked(p).marked /\ Marked(p) # Plain(p) /\ Plain(p) \in Addresses
      /\ Plain(q) \in Addresses /\ Marked(p) # Plain(q) /\ Plain(p) # Plain(q)
    BY PageAddresses
<1>3. OffsIn(G, Marked(p)) = OffsIn(H, Plain(p)) /\ OffsIn(G, Plain(p)) = {} /\ OffsIn(G, Plain(q)) = {}
    BY <1>2 DEF Moved
<1>4. e.addr = Marked(p) /\ e.count = n /\ e \in [addr : Addresses, count : Nat]
    BY <1>1, <1>2
<1> HIDE DEF e
<1>5. /\ DOMAIN rt2 = DOMAIN rt \cup {q} /\ rt2[q] = e
      /\ \A r \in DOMAIN rt : rt2[r] = rt[r]
      /\ DOMAIN inv2 = DOMAIN inv \cup {Marked(p)} /\ inv2[Marked(p)] = q
      /\ \A u \in DOMAIN inv : inv2[u] = inv[u]
    BY DEF With
<1>6. rt2 \in [DOMAIN rt2 -> [addr : Addresses, count : Nat]] /\ DOMAIN rt2 \subseteq Pages
    BY <1>4, <1>5 DEF With, Books
<1>7. inv2 \in [DOMAIN inv2 -> Pages]
    BY <1>5 DEF With, Books
<1> HIDE DEF rt2, inv2, n
<1>8. ASSUME NEW r \in DOMAIN rt PROVE EntryRight(rt2, inv2, G, r)
    <2>1. EntryRight(rt, inv, H, r)
        BY DEF Books
    <2>2. rt[r].addr \in Addresses /\ rt[r].addr \in DOMAIN inv /\ Plain(r) \in Addresses /\ rt[r].addr.marked
        BY BooksSay, PageAddresses
    <2>3. Plain(r) # Plain(p) /\ Plain(r) # Marked(p) /\ rt[r].addr # Plain(p) /\ rt[r].addr # Marked(p)
        <3>1. r \in Pages /\ r # p
            BY BooksSay
        <3>2. Plain(r) # Plain(p) /\ ~Plain(r).marked /\ ~Plain(p).marked
            BY <3>1, PageAddresses
        <3> QED
            BY <1>2, <2>2, <3>2
    <2>4. OffsIn(G, rt[r].addr) = OffsIn(H, rt[r].addr) /\ OffsIn(G, Plain(r)) = OffsIn(H, Plain(r))
        BY <2>2, <2>3 DEF Moved
    <2>5. rt2[r] = rt[r] /\ inv2[rt[r].addr] = inv[rt[r].addr]
        BY <1>5, <2>2
    <2> QED
        BY <2>1, <2>4, <2>5, EntryKept
<1>9. EntryRight(rt2, inv2, G, q)
    BY <1>1, <1>2, <1>3, <1>4, <1>5 DEF EntryRight, n
<1>10. ASSUME NEW u \in Addresses, u.marked, OffsIn(G, u) # {} PROVE u \in DOMAIN inv2
    <2>1. u # Plain(p)
        BY <1>10, PageAddresses
    <2> QED
        BY <1>5, <1>10, <2>1 DEF Moved, Books
<1>11. DOMAIN inv2 = {rt2[r].addr : r \in DOMAIN rt2}
    <2>1. DOMAIN inv = {rt[r].addr : r \in DOMAIN rt}
        BY DEF Books
    <2> QED
        BY <1>4, <1>5, <2>1
<1>12. Books(rt2, inv2, G)
    BY <1>5, <1>6, <1>7, <1>8, <1>9, <1>10, <1>11 DEF Books
<1> QED
    BY <1>12 DEF rt2, inv2, e, n

\* A page with marked blocks moves to a frame of their index: they get its address.
LEMMA BooksMarkedToPlain ==
    ASSUME NEW rt, NEW inv, NEW H, NEW G, Books(rt, inv, H), NEW p \in DOMAIN rt, NEW q \in Pages,
           q \notin DOMAIN rt, Moved(H, G, rt[p].addr, Plain(q))
    PROVE  Books(Without(rt, p), Without(inv, rt[p].addr), G)
<1> DEFINE t == rt[p].addr
           rt2 == Without(rt, p)
           inv2 == Without(inv, t)
<1>1. /\ t \in Addresses /\ t.marked /\ t \in DOMAIN inv /\ p \in Pages
      /\ \A r \in DOMAIN rt : rt[r].addr = t => r = p
    BY BooksSay
<1>2. /\ DOMAIN rt2 = DOMAIN rt \ {p} /\ \A r \in DOMAIN rt2 : rt2[r] = rt[r]
      /\ DOMAIN inv2 = DOMAIN inv \ {t} /\ \A u \in DOMAIN inv2 : inv2[u] = inv[u]
    BY DEF Without
<1>3. rt2 \in [DOMAIN rt2 -> [addr : Addresses, count : Nat]] /\ DOMAIN rt2 \subseteq Pages
    BY <1>2 DEF Without, Books
<1>4. inv2 \in [DOMAIN inv2 -> Pages]
    BY <1>2 DEF Without, Books
<1>5. OffsIn(G, t) = {} /\ \A u \in Addresses : u # Plain(q) /\ u # t => OffsIn(G, u) = OffsIn(H, u)
    BY DEF Moved
<1> HIDE DEF rt2, inv2, t
<1>6. ASSUME NEW r \in DOMAIN rt2 PROVE EntryRight(rt2, inv2, G, r)
    <2>1. r \in DOMAIN rt /\ r # p /\ rt2[r] = rt[r] /\ r # q
        BY <1>2
    <2>2. /\ rt[r].addr \in Addresses /\ rt[r].addr \in DOMAIN inv /\ rt[r].addr.marked
          /\ rt[r].addr # t /\ Plain(r) \in Addresses /\ Plain(r) # t
          /\ Plain(r) # Plain(q) /\ rt[r].addr # Plain(q)
        BY <1>1, <2>1, BooksSay, PageAddresses
    <2>3. OffsIn(G, rt[r].addr) = OffsIn(H, rt[r].addr) /\ OffsIn(G, Plain(r)) = OffsIn(H, Plain(r))
        BY <1>5, <2>2
    <2>4. EntryRight(rt, inv, H, r)
        BY <2>1 DEF Books
    <2>5. inv2[rt[r].addr] = inv[rt[r].addr]
        BY <1>2, <2>2
    <2> QED
        BY <2>1, <2>3, <2>4, <2>5, EntryKept
<1>7. ASSUME NEW u \in Addresses, u.marked, OffsIn(G, u) # {} PROVE u \in DOMAIN inv2
    <2>1. u # Plain(q) /\ u # t
        BY <1>5, <1>7, PageAddresses
    <2>2. OffsIn(H, u) # {}
        BY <1>5, <1>7, <2>1
    <2>3. u \in DOMAIN inv
        BY <1>7, <2>2 DEF Books
    <2> QED
        BY <1>2, <2>1, <2>3
<1>8. DOMAIN inv2 = {rt2[r].addr : r \in DOMAIN rt2}
    <2>1. DOMAIN inv = {rt[r].addr : r \in DOMAIN rt}
        BY DEF Books
    <2> QED
        BY <1>1, <1>2, <2>1 DEF t
<1>9. Books(rt2, inv2, G)
    BY <1>3, <1>4, <1>6, <1>7, <1>8 DEF Books
<1> QED
    BY <1>9 DEF rt2, inv2, t

\* It moves to a frame of another index: they stay where they are, under the new page.
LEMMA BooksMarkedToMarked ==
    ASSUME NEW rt, NEW inv, NEW H, Books(rt, inv, H), NEW p \in DOMAIN rt, NEW q \in Pages,
           q \notin DOMAIN rt, OffsIn(H, Plain(q)) = {}
    PROVE  Books(With(Without(rt, p), q, [addr |-> rt[p].addr, count |-> Cardinality(OffsIn(H, rt[p].addr))]),
                 [inv EXCEPT ![rt[p].addr] = q], H)
<1> DEFINE t == rt[p].addr
           n == Cardinality(OffsIn(H, t))
           e == [addr |-> t, count |-> n]
           rt1 == Without(rt, p)
           rt2 == With(rt1, q, e)
           inv2 == [inv EXCEPT ![t] = q]
<1>1. /\ t \in Addresses /\ t.marked /\ t \in DOMAIN inv /\ p \in Pages
      /\ \A r \in DOMAIN rt : rt[r].addr = t => r = p
    BY BooksSay
<1>2. n \in Nat /\ n > 0
    <2>1. rt[p].count = n
        BY DEF Books, EntryRight
    <2>2. rt[p].count \in Nat \ {0}
        BY BooksSay
    <2> QED
        BY <2>1, <2>2
<1>3. e.addr = t /\ e.count = n /\ e \in [addr : Addresses, count : Nat]
    BY <1>1, <1>2
<1> HIDE DEF e
<1>4. DOMAIN rt1 = DOMAIN rt \ {p} /\ \A r \in DOMAIN rt1 : rt1[r] = rt[r]
    BY DEF Without
<1> HIDE DEF rt1
<1>5. /\ DOMAIN rt2 = (DOMAIN rt \ {p}) \cup {q} /\ rt2[q] = e
      /\ \A r \in DOMAIN rt \ {p} : rt2[r] = rt[r]
    BY <1>4 DEF With
<1>6. rt2 \in [DOMAIN rt2 -> [addr : Addresses, count : Nat]] /\ DOMAIN rt2 \subseteq Pages
    <2>1. ASSUME NEW r \in DOMAIN rt2 PROVE rt2[r] \in [addr : Addresses, count : Nat]
        BY <1>3, <1>5 DEF Books
    <2>2. rt2 = [r \in DOMAIN rt2 |-> rt2[r]]
        BY DEF With
    <2>3. DOMAIN rt2 \subseteq Pages
        BY <1>5 DEF Books
    <2> QED
        BY <2>1, <2>2, <2>3
<1>7. /\ inv2 \in [DOMAIN inv2 -> Pages] /\ DOMAIN inv2 = DOMAIN inv /\ inv2[t] = q
      /\ \A u \in DOMAIN inv : u # t => inv2[u] = inv[u]
    BY <1>1 DEF Books
<1> HIDE DEF rt2, inv2, n, t
<1>8. ASSUME NEW r \in DOMAIN rt2, r # q PROVE EntryRight(rt2, inv2, H, r)
    <2>1. r \in DOMAIN rt /\ r # p /\ rt2[r] = rt[r]
        BY <1>5, <1>8
    <2>2. rt[r].addr \in DOMAIN inv /\ rt[r].addr # t
        BY <1>1, <2>1, BooksSay
    <2>3. EntryRight(rt, inv, H, r)
        BY <2>1 DEF Books
    <2>4. inv2[rt[r].addr] = inv[rt[r].addr]
        BY <1>7, <2>2
    <2> QED
        BY <2>1, <2>3, <2>4, EntryKept
<1>9. EntryRight(rt2, inv2, H, q)
    BY <1>1, <1>2, <1>3, <1>5, <1>7 DEF EntryRight, n
<1>10. DOMAIN inv2 = {rt2[r].addr : r \in DOMAIN rt2}
    <2>1. DOMAIN inv = {rt[r].addr : r \in DOMAIN rt}
        BY DEF Books
    <2> QED
        BY <1>1, <1>3, <1>5, <1>7, <2>1 DEF t
<1>11. Books(rt2, inv2, H)
    BY <1>6, <1>7, <1>8, <1>9, <1>10 DEF Books
<1> QED
    BY <1>11 DEF rt2, inv2, e, n, t, rt1

-----------------------------------------------------------------------------
(* The contents *)

\* The page an address is of, by the inverse table.
NameIn(inv, u) == IF u.marked THEN inv[u] ELSE u.page

\* The page that an address is the actual one of, and the other way round.
LEMMA Names ==
    ASSUME NEW rt, NEW inv, NEW H, Books(rt, inv, H)
    PROVE  /\ \A p \in Pages : NameIn(inv, ActualIn(rt, p)) = p
           /\ \A u \in Addresses : OffsIn(H, u) # {} =>
                 NameIn(inv, u) \in Pages /\ ActualIn(rt, NameIn(inv, u)) = u
<1>1. ASSUME NEW p \in Pages PROVE NameIn(inv, ActualIn(rt, p)) = p
    <2>1. CASE p \in DOMAIN rt
        BY <2>1, BooksSay DEF NameIn, ActualIn
    <2>2. CASE p \notin DOMAIN rt
        BY <2>2, PageAddresses DEF NameIn, ActualIn
    <2> QED
        BY <2>1, <2>2
<1>2. ASSUME NEW u \in Addresses, OffsIn(H, u) # {}
      PROVE  NameIn(inv, u) \in Pages /\ ActualIn(rt, NameIn(inv, u)) = u
    <2>1. CASE u.marked
        <3>1. u \in DOMAIN inv
            BY <1>2, <2>1 DEF Books
        <3>2. inv[u] \in DOMAIN rt /\ rt[inv[u]].addr = u /\ inv[u] \in Pages
            BY <3>1, BooksSay
        <3> QED
            BY <2>1, <3>2 DEF NameIn, ActualIn
    <2>2. CASE ~u.marked
        <3>1. u.page \in Pages /\ u = Plain(u.page) /\ NameIn(inv, u) = u.page
            BY <2>2, AddressHasPage, PageAddresses DEF NameIn
        <3>2. ASSUME u.page \in DOMAIN rt PROVE FALSE
            BY <1>2, <3>1, <3>2 DEF Books, EntryRight
        <3> QED
            BY <3>1, <3>2 DEF ActualIn
    <2> QED
        BY <2>1, <2>2
<1> QED
    BY <1>1, <1>2

Block(p, o, d) == [block |-> <<p, o>>, dirty |-> d]
AllBlocks == [block : Pages \X Offsets, dirty : BOOLEAN]

\* The blocks held, under the pages they are of: by the lines of the sets, as the
\* refinement mapping has it, and by the pages.
ContentsIn(st, inv) ==
    UNION {{[block |-> <<NameIn(inv, l.tag), s[2]>>, dirty |-> l.dirty] : l \in Range(st[s])} :
           s \in SetIndices}
BlocksIn(rt, H) == {x \in AllBlocks : <<ActualIn(rt, x.block[1]), x.block[2], x.dirty>> \in H}

\* A block is known by its page, its offset and its mark.
LEMMA BlockParts ==
    /\ \A x \in AllBlocks :
          /\ x.block[1] \in Pages /\ x.block[2] \in Offsets /\ x.dirty \in BOOLEAN
          /\ x = Block(x.block[1], x.block[2], x.dirty)
    /\ \A p \in Pages, o \in Offsets, d \in BOOLEAN :
          /\ Block(p, o, d) \in AllBlocks
          /\ Block(p, o, d).block = <<p, o>> /\ Block(p, o, d).dirty = d
          /\ Block(p, o, d).block[1] = p /\ Block(p, o, d).block[2] = o
    /\ \A p, o, d, q, n, e : Block(p, o, d) = Block(q, n, e) <=> p = q /\ o = n /\ d = e
BY DEF AllBlocks, Block

\* A block is among them if it is held under its page's address.
LEMMA InBlocks ==
    ASSUME NEW rt, NEW H
    PROVE  /\ BlocksIn(rt, H) \subseteq AllBlocks
           /\ \A p \in Pages, o \in Offsets, d \in BOOLEAN :
                 Block(p, o, d) \in BlocksIn(rt, H) <=> <<ActualIn(rt, p), o, d>> \in H
BY BlockParts DEF BlocksIn

\* The two are the same.
LEMMA ContentsAre ==
    ASSUME NEW st, NEW rt, NEW inv, Sound(st), Books(rt, inv, Holding(st))
    PROVE  ContentsIn(st, inv) = BlocksIn(rt, Holding(st))
<1> DEFINE H == Holding(st)
<1>1. ASSUME NEW s \in SetIndices, NEW l \in Range(st[s])
      PROVE  [block |-> <<NameIn(inv, l.tag), s[2]>>, dirty |-> l.dirty] \in BlocksIn(rt, H)
    <2>1. s[2] \in Offsets /\ l.tag \in Addresses /\ l.dirty \in BOOLEAN /\ <<l.tag, s[2], l.dirty>> \in H
        BY LineIsPlaced
    <2> HIDE DEF H
    <2>2. OffsIn(H, l.tag) # {}
        BY <2>1 DEF OffsIn
    <2>3. NameIn(inv, l.tag) \in Pages /\ ActualIn(rt, NameIn(inv, l.tag)) = l.tag
        BY <2>1, <2>2, Names DEF H
    <2>4. Block(NameIn(inv, l.tag), s[2], l.dirty) \in BlocksIn(rt, H)
        BY <2>1, <2>3, InBlocks
    <2> QED
        BY <2>4 DEF Block
<1>2. ASSUME NEW x \in BlocksIn(rt, H) PROVE x \in ContentsIn(st, inv)
    <2> DEFINE p == x.block[1]
               o == x.block[2]
               d == x.dirty
               u == ActualIn(rt, p)
               s == SetOf(u, o)
               l == Line(u, d)
    <2>1. p \in Pages /\ o \in Offsets /\ d \in BOOLEAN /\ x = Block(p, o, d)
        BY BlockParts, InBlocks
    <2>2. <<u, o, d>> \in H /\ u \in Addresses
        BY <2>1, InBlocks, ActualOfPage
    <2>3. s \in SetIndices /\ s[2] = o /\ l \in Range(st[s])
        BY <2>1, <2>2, SetOfAddress, HeldThere
    <2>4. NameIn(inv, u) = p
        BY <2>1, Names
    <2> HIDE DEF s, u, p, o, d
    <2>5. l.tag = u /\ l.dirty = d
        BY DEF Line
    <2>6. x = [block |-> <<NameIn(inv, l.tag), s[2]>>, dirty |-> l.dirty]
        BY <2>1, <2>3, <2>4, <2>5 DEF Block
    <2> HIDE DEF l
    <2>7. x \in {[block |-> <<NameIn(inv, m.tag), s[2]>>, dirty |-> m.dirty] : m \in Range(st[s])}
        BY <2>3, <2>6
    <2> QED
        BY <2>3, <2>7 DEF ContentsIn
<1>3. ASSUME NEW x \in ContentsIn(st, inv) PROVE x \in BlocksIn(rt, H)
    BY <1>1 DEF ContentsIn
<1> QED
    BY <1>2, <1>3 DEF H

\* A block has one dirty mark.
LEMMA OneMark ==
    ASSUME NEW st, Sound(st), NEW u \in Addresses, NEW o \in Offsets, NEW d \in BOOLEAN, NEW e \in BOOLEAN,
           <<u, o, d>> \in Holding(st), <<u, o, e>> \in Holding(st)
    PROVE  d = e
<1>1. SetOf(u, o) \in SetIndices
    BY SetOfAddress
<1> DEFINE q == st[SetOf(u, o)]
<1>2. Line(u, d) \in Range(q) /\ Line(u, e) \in Range(q)
    BY HeldThere
<1>3. Distinct(q)
    BY <1>1 DEF Sound
<1> HIDE DEF q
<1>4. PICK i \in DOMAIN q : q[i] = Line(u, d)
    BY <1>2 DEF Range
<1>5. PICK j \in DOMAIN q : q[j] = Line(u, e)
    BY <1>2 DEF Range
<1>6. q[i].tag = u /\ q[j].tag = u
    BY <1>4, <1>5 DEF Line
<1>7. i = j
    BY <1>3, <1>6 DEF Distinct
<1> QED
    BY <1>4, <1>5, <1>7 DEF Line

-----------------------------------------------------------------------------
(* The operators of the model, by the tables and what is held *)

\* Where a block is looked for, whether it is there, and how many of a page are.
LEMMA OfState ==
    /\ \A p : Actual(p) = ActualIn(remapTable, p)
    /\ \A p : Counted(p) = CountedIn(remapTable, p)
    /\ \A u, rt : UncountedAddr(u, rt) = UncountedIn(rt, u, invRemapTable[u])
    /\ \A u : VictimPage(u) = NameIn(invRemapTable, u)
    /\ contentsOf = ContentsIn(sets, invRemapTable)
    /\ contentsOf' = ContentsIn(sets', invRemapTable')
<1>1. \A u : VictimPage(u) = NameIn(invRemapTable, u)
    BY DEF VictimPage, NameIn
<1>2. /\ contentsOf = ContentsIn(sets, invRemapTable)
      /\ contentsOf' = ContentsIn(sets', invRemapTable')
    BY DEF contentsOf, ContentsIn, VictimPage, NameIn
<1>3. \A p : Actual(p) = ActualIn(remapTable, p)
    BY DEF Actual, ActualIn
<1>4. \A p : Counted(p) = CountedIn(remapTable, p)
    BY DEF Counted, CountedIn
<1>5. \A u, rt : UncountedAddr(u, rt) = UncountedIn(rt, u, invRemapTable[u])
    BY DEF UncountedAddr, UncountedIn
<1> QED
    BY <1>1, <1>2, <1>3, <1>4, <1>5

\* A block is found where it is looked for if it is held.
LEMMA FoundIfHeld ==
    ASSUME Sound(sets), NEW u \in Addresses
    PROVE  /\ \A o \in Offsets : u \in Tags(SetOf(u, o)) <=> ~Missing(Holding(sets), u, o)
           /\ Offs(u) = OffsIn(Holding(sets), u)
<1>1. ASSUME NEW o \in Offsets
      PROVE  u \in Tags(SetOf(u, o)) <=> ~Missing(Holding(sets), u, o)
    <2> DEFINE s == SetOf(u, o)
    <2>1. s \in SetIndices
        BY SetOfAddress
    <2>2. u \in Tags(s) <=> \E i \in DOMAIN sets[s] : sets[s][i].tag = u
        BY DEF Tags
    <2>3. \A d \in BOOLEAN : <<u, o, d>> \in Holding(sets) <=> Line(u, d) \in Range(sets[s])
        BY HeldThere
    <2>4. \A d \in BOOLEAN : Line(u, d) \in Range(sets[s]) <=> \E i \in DOMAIN sets[s] : Line(u, d) = sets[s][i]
        BY DEF Range
    <2>5. \A i \in DOMAIN sets[s] : sets[s][i] \in Lines
        BY <2>1 DEF Sound
    <2>6. \A i \in DOMAIN sets[s] :
             /\ sets[s][i].dirty \in BOOLEAN
             /\ sets[s][i].tag = u => sets[s][i] = Line(u, sets[s][i].dirty)
        BY <2>5 DEF Line, Lines
    <2>7. \A d : Line(u, d).tag = u
        BY DEF Line
    <2> HIDE DEF s
    <2>8. ASSUME u \in Tags(s) PROVE ~Missing(Holding(sets), u, o)
        <3>1. PICK i \in DOMAIN sets[s] : sets[s][i].tag = u
            BY <2>2, <2>8
        <3>2. sets[s][i].dirty \in BOOLEAN /\ sets[s][i] = Line(u, sets[s][i].dirty)
            BY <2>6, <3>1
        <3>3. <<u, o, sets[s][i].dirty>> \in Holding(sets)
            BY <2>3, <2>4, <3>2
        <3> QED
            BY <3>2, <3>3 DEF Missing
    <2>9. ASSUME ~Missing(Holding(sets), u, o) PROVE u \in Tags(s)
        <3>1. PICK d \in BOOLEAN : <<u, o, d>> \in Holding(sets)
            BY <2>9 DEF Missing
        <3>2. PICK i \in DOMAIN sets[s] : Line(u, d) = sets[s][i]
            BY <2>3, <2>4, <3>1
        <3> QED
            BY <2>2, <2>7, <3>2
    <2> QED
        BY <2>8, <2>9 DEF s
<1> QED
    BY <1>1, OffsFinite DEF Offs

-----------------------------------------------------------------------------
(* Accesses *)

\* What a step is to show of the tables and the contents after it, given what is
\* held then.
After(H) == /\ failed' = FALSE /\ Sound(sets') /\ H = Holding(sets')
            /\ Books(remapTable', invRemapTable', H)

\* The invariant of the next state, and the contents there.
LEMMA StepTaken ==
    ASSUME NEW H, After(H)
    PROVE  IInv' /\ contentsOf' = BlocksIn(remapTable', H)
<1>1. contentsOf' = BlocksIn(remapTable', H)
    BY OfState, ContentsAre DEF After
<1>2. failed' = FALSE /\ Sound(sets') /\ Books(remapTable', invRemapTable', Holding(sets'))
    BY DEF After
<1> QED
    BY <1>1, <1>2 DEF IInv

\* The contents of this state.
LEMMA StepBegun ==
    ASSUME IInv
    PROVE  contentsOf = BlocksIn(remapTable, Holding(sets))
BY OfState, ContentsAre DEF IInv

\* Contents that differ by a block with another mark, and perhaps one that is gone.
Accessed(C, gone, p, o, d) ==
    (C \ ({l \in C : l.block = <<p, o>>} \cup gone)) \cup {[block |-> <<p, o>>, dirty |-> d]}
Differ(C, D, gone, p, o, d) ==
    \A q \in Pages, n \in Offsets, e \in BOOLEAN :
        Block(q, n, e) \in D <=> IF q = p /\ n = o THEN e = d
                                 ELSE Block(q, n, e) \in C /\ Block(q, n, e) \notin gone

\* They are those that the abstract access leaves.
LEMMA AccessOfContents ==
    ASSUME NEW C \in SUBSET AllBlocks, NEW D \in SUBSET AllBlocks, NEW gone \in SUBSET C,
           NEW p \in Pages, NEW o \in Offsets, NEW d \in BOOLEAN,
           Differ(C, D, gone, p, o, d)
    PROVE  D = Accessed(C, gone, p, o, d)
<1> USE DEF Differ
<1> DEFINE E == (C \ ({l \in C : l.block = <<p, o>>} \cup gone)) \cup {Block(p, o, d)}
<1>1. ASSUME NEW x \in AllBlocks PROVE x \in D <=> x \in E
    <2>1. PICK q \in Pages, n \in Offsets, e \in BOOLEAN : x = Block(q, n, e)
        BY BlockParts
    <2>2. x.block = <<q, n>>
        BY <2>1, BlockParts
    <2>3. x = Block(p, o, d) <=> q = p /\ n = o /\ e = d
        BY <2>1, BlockParts
    <2>4. CASE q = p /\ n = o
        BY <2>1, <2>2, <2>3, <2>4
    <2>5. CASE ~(q = p /\ n = o)
        <3>1. x.block # <<p, o>>
            BY <2>2, <2>5
        <3> QED
            BY <2>1, <2>3, <2>5, <3>1
    <2> QED
        BY <2>4, <2>5
<1>2. E \subseteq AllBlocks
    BY BlockParts
<1>3. D = E
    <2> HIDE DEF E
    <2> QED
        BY <1>1, <1>2
<1> QED
    BY <1>3 DEF Block, Accessed

\* An access of a block that is held.
LEMMA HitStep ==
    ASSUME IInv, NEW p \in Pages, NEW o \in Offsets, NEW read \in BOOLEAN, Hit(p, o, read)
    PROVE  IInv' /\ Contents!Access(<<p, o>>, read)
<1> DEFINE t == Actual(p)
           s == SetOf(t, o)
           k == At(t, s)
           d == (~read \/ IsDirty(t, s))
           r == RemoveAt(sets[s], k)
           st == [sets EXCEPT ![s] = r]
           H == Holding(sets)
           G == Holding(sets')
<1>1. /\ Sound(sets) /\ Books(remapTable, invRemapTable, H) /\ failed = FALSE
      /\ t = ActualIn(remapTable, p)
    BY OfState DEF IInv
<1>2. t \in Addresses /\ \A q \in Pages : ActualIn(remapTable, q) = t => p = q
    BY <1>1, ActualOfPage
<1>3. s \in SetIndices /\ s[2] = o /\ s = SetOf(t, o)
    BY <1>2, SetOfAddress
<1>4. /\ t \in Tags(s)
      /\ sets' = [sets EXCEPT ![s] = Append(r, Line(t, d))]
      /\ evicted' = {} /\ remapTable' = remapTable /\ invRemapTable' = invRemapTable /\ failed' = failed
    BY DEF Hit, Line
<1>5. k \in DOMAIN sets[s] /\ sets[s][k].tag = t
    BY <1>4 DEF Tags, At
<1>6. d \in BOOLEAN /\ (IsDirty(t, s) <=> <<t, o, TRUE>> \in H)
    BY <1>2, <1>3, HeldThere DEF IsDirty, Line
<1>7. ~Missing(H, t, o)
    BY <1>1, <1>2, <1>4, FoundIfHeld
<1> HIDE DEF t, s, k, d, H, G
<1>8. /\ Sound(st) /\ Len(st[s]) = Len(sets[s]) - 1
      /\ \A v \in Addresses, n \in Offsets, e \in BOOLEAN :
            <<v, n, e>> \in Holding(st) <=> <<v, n, e>> \in H /\ ~(v = t /\ n = o)
    <2>1. Sound(sets) /\ s \in SetIndices /\ k \in DOMAIN sets[s]
        BY <1>1, <1>3, <1>5
    <2>2. /\ Sound(st) /\ Len(st[s]) = Len(sets[s]) - 1
          /\ \A v \in Addresses, n \in Offsets, e \in BOOLEAN :
                <<v, n, e>> \in Holding(st) <=>
                    <<v, n, e>> \in Holding(sets) /\ ~(v = sets[s][k].tag /\ n = s[2])
        BY <2>1, Removing
    <2> HIDE DEF st
    <2> QED
        BY <1>3, <1>5, <2>2 DEF H
<1>9. /\ sets[s] \in Seq(Lines) /\ Len(sets[s]) <= Ways /\ sets \in [SetIndices -> Seq(Lines)]
    BY <1>1, <1>3 DEF Sound
<1>10. Len(st[s]) + 1 <= Ways
    BY <1>8, <1>9, CacheModelAssumption
<1>11. Missing(Holding(st), t, o)
    BY <1>2, <1>8 DEF Missing
<1>12. st[s] = r /\ sets' = [st EXCEPT ![s] = Append(st[s], Line(t, d))]
    <2> HIDE DEF r
    <2> QED
        BY <1>3, <1>4, <1>9
<1> HIDE DEF st
<1>13. /\ Sound(sets')
       /\ \A v \in Addresses, n \in Offsets, e \in BOOLEAN :
            <<v, n, e>> \in G <=> IF v = t /\ n = o THEN e = d ELSE <<v, n, e>> \in Holding(st)
    <2>1. Sound(st) /\ t \in Addresses /\ d \in BOOLEAN /\ Missing(Holding(st), t, o)
        BY <1>2, <1>6, <1>8, <1>11
    <2>2. /\ Len(st[SetOf(t, o)]) + 1 <= Ways
          /\ sets' = [st EXCEPT ![SetOf(t, o)] = Append(st[SetOf(t, o)], Line(t, d))]
        BY <1>3, <1>10, <1>12
    <2> QED
        <3>1. sets' = Grown(st, t, o, d)
            BY <2>2 DEF Grown
        <3>2. /\ Sound(Grown(st, t, o, d))
              /\ \A v \in Addresses, n \in Offsets, e \in BOOLEAN :
                    <<v, n, e>> \in Holding(Grown(st, t, o, d)) <=>
                        IF v = t /\ n = o THEN e = d ELSE <<v, n, e>> \in Holding(st)
            BY <2>1, <2>2, Adding
        <3> QED
            BY <3>1, <3>2 DEF G
<1>14. ASSUME NEW v \in Addresses, NEW n \in Offsets, NEW e \in BOOLEAN
       PROVE  <<v, n, e>> \in G <=> IF v = t /\ n = o THEN e = d ELSE <<v, n, e>> \in H
    BY <1>8, <1>13
<1>15. ASSUME NEW v \in Addresses PROVE OffsIn(G, v) = OffsIn(H, v)
    <2>1. ASSUME NEW n \in Offsets PROVE n \in OffsIn(G, v) <=> n \in OffsIn(H, v)
        <3>1. CASE v = t /\ n = o
            BY <1>6, <1>7, <1>14, <3>1 DEF OffsIn, Missing
        <3>2. CASE ~(v = t /\ n = o)
            BY <1>14, <3>2 DEF OffsIn
        <3> QED
            BY <3>1, <3>2
    <2> QED
        BY <2>1, OffsFinite
<1>16. After(G)
    <2>1. Books(remapTable, invRemapTable, G)
        BY <1>1, <1>15, BooksKept
    <2> QED
        BY <1>1, <1>4, <1>13, <2>1 DEF After, G
<1> DEFINE C == BlocksIn(remapTable, H)
           D == BlocksIn(remapTable, G)
<1>17. IInv' /\ contentsOf' = D /\ contentsOf = C
    BY <1>4, <1>16, StepTaken, StepBegun DEF H
<1>18. C \subseteq AllBlocks /\ D \subseteq AllBlocks
    BY InBlocks
<1>19. ASSUME NEW q \in Pages, NEW n \in Offsets, NEW e \in BOOLEAN
       PROVE  Block(q, n, e) \in D <=> IF q = p /\ n = o THEN e = d
                                       ELSE Block(q, n, e) \in C /\ Block(q, n, e) \notin {}
    <2>1. ActualIn(remapTable, q) \in Addresses
        BY <1>1, ActualOfPage
    <2>2. Block(q, n, e) \in D <=> <<ActualIn(remapTable, q), n, e>> \in G
        BY InBlocks
    <2>3. Block(q, n, e) \in C <=> <<ActualIn(remapTable, q), n, e>> \in H
        BY InBlocks
    <2>4. ActualIn(remapTable, q) = t <=> q = p
        BY <1>1, <1>2
    <2> QED
        BY <1>14, <2>1, <2>2, <2>3, <2>4
<1>20. Block(p, o, TRUE) \in C <=> <<t, o, TRUE>> \in H
    BY <1>1, InBlocks
<1> DEFINE gone == {}
<1> HIDE DEF C, D, gone
<1>21. D = Accessed(C, {}, p, o, d)
    <2>1. gone \in SUBSET C /\ \A x : x \notin gone
        BY DEF gone
    <2>2. Differ(C, D, gone, p, o, d)
        BY <1>19, <2>1 DEF Differ
    <2>3. C \in SUBSET AllBlocks /\ D \in SUBSET AllBlocks /\ gone \in SUBSET C /\ d \in BOOLEAN
        BY <1>6, <1>18, <2>1
    <2>4. D = Accessed(C, gone, p, o, d)
        BY <2>2, <2>3, AccessOfContents
    <2> QED
        BY <2>4 DEF gone
<1>22. d = (~read \/ Contents!Dirty(<<p, o>>))
    BY <1>6, <1>17, <1>20 DEF d, Contents!Dirty, Block
<1>23. Contents!Access(<<p, o>>, read)
    <2>1. /\ {} \in SUBSET (contentsOf \ Contents!Of(<<p, o>>))
          /\ contentsOf' = (contentsOf \ (Contents!Of(<<p, o>>) \cup {}))
                               \cup {[block |-> <<p, o>>, dirty |-> ~read \/ Contents!Dirty(<<p, o>>)]}
        BY <1>17, <1>21, <1>22 DEF Contents!Of, Accessed
    <2> QED
        BY <1>4, <2>1 DEF Contents!Access
<1> QED
    BY <1>17, <1>23

\* Counting a block leaves the addresses of the pages alone.
LEMMA CountedActual ==
    ASSUME NEW rt, NEW inv, NEW H, Books(rt, inv, H), NEW p \in Pages, NEW q \in Pages
    PROVE  ActualIn(CountedIn(rt, p), q) = ActualIn(rt, q)
<1>1. \A r \in DOMAIN rt : rt[r] \in [addr : Addresses, count : Nat]
    BY DEF Books
<1>2. rt \in [DOMAIN rt -> [addr : Addresses, count : Nat]]
    BY DEF Books
<1>3. DOMAIN CountedIn(rt, p) = DOMAIN rt /\ \A r \in DOMAIN rt : CountedIn(rt, p)[r].addr = rt[r].addr
    BY <1>1, <1>2 DEF CountedIn
<1> QED
    BY <1>3 DEF ActualIn

\* An access of a block that is not held, in a set with room for it.
LEMMA MissStep ==
    ASSUME IInv, NEW p \in Pages, NEW o \in Offsets, NEW read \in BOOLEAN,
           MissWithoutEviction(p, o, read)
    PROVE  IInv' /\ Contents!Access(<<p, o>>, read)
<1> DEFINE t == Actual(p)
           s == SetOf(t, o)
           d == ~read
           H == Holding(sets)
           G == Holding(sets')
<1>1. /\ Sound(sets) /\ Books(remapTable, invRemapTable, H) /\ failed = FALSE
      /\ t = ActualIn(remapTable, p)
    BY OfState DEF IInv
<1>2. t \in Addresses /\ \A q \in Pages : ActualIn(remapTable, q) = t => p = q
    BY <1>1, ActualOfPage
<1>3. s \in SetIndices /\ s[2] = o /\ s = SetOf(t, o)
    BY <1>2, SetOfAddress
<1>4. /\ t \notin Tags(s) /\ Len(sets[s]) < Ways
      /\ sets' = [sets EXCEPT ![s] = Append(sets[s], Line(t, d))]
      /\ remapTable' = CountedIn(remapTable, p)
      /\ evicted' = {} /\ invRemapTable' = invRemapTable /\ failed' = failed
    BY OfState DEF MissWithoutEviction, Line
<1>5. d \in BOOLEAN /\ Missing(H, t, o)
    BY <1>1, <1>2, <1>4, FoundIfHeld
<1>6. Len(sets[s]) + 1 <= Ways
    <2>1. sets[s] \in Seq(Lines)
        BY <1>1, <1>3 DEF Sound
    <2> QED
        BY <1>4, <2>1, CacheModelAssumption
<1> HIDE DEF t, s, H, G, d
<1>7. /\ Sound(sets')
      /\ \A v \in Addresses, n \in Offsets, e \in BOOLEAN :
            <<v, n, e>> \in G <=> IF v = t /\ n = o THEN e = d ELSE <<v, n, e>> \in H
    <2>1. Sound(sets) /\ t \in Addresses /\ d \in BOOLEAN /\ Missing(Holding(sets), t, o)
        BY <1>1, <1>2, <1>5 DEF H
    <2>2. /\ Len(sets[SetOf(t, o)]) + 1 <= Ways
          /\ sets' = [sets EXCEPT ![SetOf(t, o)] = Append(sets[SetOf(t, o)], Line(t, d))]
        BY <1>3, <1>4, <1>6
    <2> QED
        <3>1. sets' = Grown(sets, t, o, d)
            BY <2>2 DEF Grown
        <3>2. /\ Sound(Grown(sets, t, o, d))
              /\ \A v \in Addresses, n \in Offsets, e \in BOOLEAN :
                    <<v, n, e>> \in Holding(Grown(sets, t, o, d)) <=>
                        IF v = t /\ n = o THEN e = d ELSE <<v, n, e>> \in Holding(sets)
            BY <2>1, <2>2, Adding
        <3> QED
            BY <3>1, <3>2 DEF G, H
<1>8. OffsIn(G, t) = OffsIn(H, t) \cup {o}
    <2>1. ASSUME NEW n \in Offsets PROVE n \in OffsIn(G, t) <=> n \in OffsIn(H, t) \cup {o}
        BY <1>2, <1>5, <1>7 DEF OffsIn
    <2> QED
        BY <2>1, OffsFinite
<1>9. ASSUME NEW v \in Addresses, v # t PROVE OffsIn(G, v) = OffsIn(H, v)
    BY <1>7, <1>9 DEF OffsIn
<1>10. Books(CountedIn(remapTable, p), invRemapTable, G)
    BY <1>1, <1>5, <1>8, <1>9, BooksAdd
<1>11. After(G)
    BY <1>1, <1>4, <1>7, <1>10 DEF After, G
<1> DEFINE C == BlocksIn(remapTable, H)
           D == BlocksIn(remapTable', G)
           gone == {}
<1>12. IInv' /\ contentsOf' = D /\ contentsOf = C
    BY <1>11, StepTaken, StepBegun DEF H
<1>13. C \in SUBSET AllBlocks /\ D \in SUBSET AllBlocks
    BY InBlocks
<1>14. gone \in SUBSET C /\ \A x : x \notin gone
    OBVIOUS
<1>15. ASSUME NEW q \in Pages, NEW n \in Offsets, NEW e \in BOOLEAN
       PROVE  /\ Block(q, n, e) \in D <=> <<ActualIn(remapTable, q), n, e>> \in G
              /\ Block(q, n, e) \in C <=> <<ActualIn(remapTable, q), n, e>> \in H
              /\ ActualIn(remapTable, q) \in Addresses
              /\ ActualIn(remapTable, q) = t <=> q = p
    <2>1. ActualIn(remapTable', q) = ActualIn(remapTable, q)
        BY <1>1, <1>4, CountedActual
    <2>2. ActualIn(remapTable, q) \in Addresses
        BY <1>1, ActualOfPage
    <2> QED
        BY <1>1, <1>2, <2>1, <2>2, InBlocks
<1> HIDE DEF C, D, gone
<1>16. Differ(C, D, gone, p, o, d)
    BY <1>7, <1>14, <1>15 DEF Differ
<1>17. D = Accessed(C, gone, p, o, d)
    BY <1>5, <1>13, <1>14, <1>16, AccessOfContents
<1>18. ~Contents!Dirty(<<p, o>>)
    BY <1>5, <1>12, <1>15 DEF Contents!Dirty, Block, Missing
<1>19. d = (~read \/ Contents!Dirty(<<p, o>>))
    BY <1>18 DEF d
<1>20. Contents!Access(<<p, o>>, read)
    <2>1. /\ {} \in SUBSET (contentsOf \ Contents!Of(<<p, o>>))
          /\ contentsOf' = (contentsOf \ (Contents!Of(<<p, o>>) \cup {}))
                               \cup {[block |-> <<p, o>>, dirty |-> ~read \/ Contents!Dirty(<<p, o>>)]}
        BY <1>12, <1>17, <1>19 DEF Contents!Of, Accessed, gone
    <2> QED
        BY <1>4, <2>1 DEF Contents!Access
<1> QED
    BY <1>12, <1>20

\* The least recently used line is the first one.
LEMMA HeadLeaves ==
    ASSUME NEW q \in Seq(Lines), Len(q) > 0
    PROVE  /\ 1 \in DOMAIN q /\ Head(q) = q[1] /\ Tail(q) = RemoveAt(q, 1)
<1>1. Len(q) \in Nat /\ 1 \in DOMAIN q /\ q # <<>> /\ Head(q) = q[1]
    OBVIOUS
<1>2. SubSeq(q, 1, 1 - 1) = <<>> /\ SubSeq(q, 2, Len(q)) = Tail(q)
    BY <1>1
<1>3. SubSeq(q, 1, 1 - 1) \o SubSeq(q, 1 + 1, Len(q)) = Tail(q)
    <2>1. Tail(q) \in Seq(Lines)
        BY <1>1
    <2>2. <<>> \o Tail(q) = Tail(q)
        BY <2>1
    <2>3. 1 + 1 = 2
        OBVIOUS
    <2> QED
        BY <1>2, <2>2, <2>3
<1> QED
    BY <1>1, <1>3 DEF RemoveAt

\* After a victim has gone, the addresses of the pages are what they were, except that a
\* page that has lost its last marked block has its own, which holds nothing.
LEMMA ActualAfterDrop ==
    ASSUME NEW rt, NEW inv, NEW H, Books(rt, inv, H), NEW v \in Addresses,
           v.marked => v \in DOMAIN inv, NEW q \in Pages
    PROVE  LET left == IF v.marked THEN UncountedIn(rt, v, inv[v]) ELSE rt
           IN \/ ActualIn(left, q) = ActualIn(rt, q)
              \/ /\ v.marked /\ inv[v] \notin DOMAIN left
                 /\ ActualIn(rt, q) = v /\ ActualIn(left, q) = Plain(q) /\ q \in DOMAIN rt
<1> DEFINE left == IF v.marked THEN UncountedIn(rt, v, inv[v]) ELSE rt
           w == inv[v]
<1>1. CASE ~v.marked
    BY <1>1
<1>2. CASE v.marked
    <2>1. w \in DOMAIN rt /\ rt[w].addr = v
        BY <1>2, BooksSay
    <2>2. \A r \in DOMAIN rt : rt[r] \in [addr : Addresses, count : Nat]
        BY DEF Books
    <2>3. rt \in [DOMAIN rt -> [addr : Addresses, count : Nat]]
        BY DEF Books
    <2> HIDE DEF w
    <2>4. CASE rt[w].count > 1
        <3>1. left = [rt EXCEPT ![w].count = @ - 1]
            BY <1>2, <2>4 DEF UncountedIn, w
        <3>2. DOMAIN left = DOMAIN rt /\ \A r \in DOMAIN rt : left[r].addr = rt[r].addr
            BY <2>2, <2>3, <3>1
        <3> QED
            BY <3>2 DEF ActualIn
    <2>5. CASE ~(rt[w].count > 1)
        <3>1. left = Without(rt, w)
            BY <1>2, <2>5 DEF UncountedIn, w
        <3>2. DOMAIN left = DOMAIN rt \ {w} /\ \A r \in DOMAIN left : left[r] = rt[r]
            BY <3>1 DEF Without
        <3> HIDE DEF left
        <3>3. CASE q = w
            BY <1>2, <2>1, <3>2, <3>3 DEF ActualIn, left, w
        <3>4. CASE q # w
            BY <3>2, <3>4 DEF ActualIn, left
        <3> QED
            BY <3>3, <3>4
    <2> QED
        BY <2>4, <2>5
<1> QED
    BY <1>1, <1>2

\* An access of a block that is not held, in a full set.
LEMMA EvictionStep ==
    ASSUME IInv, NEW p \in Pages, NEW o \in Offsets, NEW read \in BOOLEAN,
           MissWithEviction(p, o, read)
    PROVE  IInv' /\ Contents!Access(<<p, o>>, read)
<1> DEFINE t == Actual(p)
           s == SetOf(t, o)
           d == ~read
           H == Holding(sets)
           G == Holding(sets')
           victim == Head(sets[s])
           v == victim.tag
           vd == victim.dirty
           r == RemoveAt(sets[s], 1)
           st == [sets EXCEPT ![s] = r]
           counted == CountedIn(remapTable, p)
           left == IF v.marked THEN UncountedIn(counted, v, invRemapTable[v]) ELSE counted
           inv2 == IF v.marked /\ invRemapTable[v] \notin DOMAIN left
                   THEN Without(invRemapTable, v) ELSE invRemapTable
           victimBlock == Block(NameIn(invRemapTable, v), o, vd)
<1>1. /\ Sound(sets) /\ Books(remapTable, invRemapTable, H) /\ failed = FALSE
      /\ t = ActualIn(remapTable, p)
    BY OfState DEF IInv
<1>2. t \in Addresses /\ \A q \in Pages : ActualIn(remapTable, q) = t => p = q
    BY <1>1, ActualOfPage
<1>3. s \in SetIndices /\ s[2] = o /\ s = SetOf(t, o)
    BY <1>2, SetOfAddress
<1>4. /\ sets[s] \in Seq(Lines) /\ Len(sets[s]) \in Nat
      /\ sets \in [SetIndices -> Seq(Lines)]
    BY <1>1, <1>3 DEF Sound
<1>5. t \notin Tags(s) /\ Len(sets[s]) = Ways
    BY DEF MissWithEviction
<1>6. Len(sets[s]) > 0
    BY <1>4, <1>5, CacheModelAssumption
<1>7. 1 \in DOMAIN sets[s] /\ victim = sets[s][1] /\ Tail(sets[s]) = r
    BY <1>4, <1>6, HeadLeaves
<1>8. /\ sets' = [sets EXCEPT ![s] = Append(r, Line(t, d))]
      /\ failed' = failed
    BY <1>7 DEF MissWithEviction, Line
<1>9. remapTable' = left
    BY OfState DEF MissWithEviction
<1>10. invRemapTable' = inv2
    <2>1. v.marked => VictimPage(v) = invRemapTable[v]
        BY DEF VictimPage
    <2>2. invRemapTable' = IF v.marked /\ VictimPage(v) \notin DOMAIN left
                           THEN Without(invRemapTable, v) ELSE invRemapTable
        BY OfState DEF MissWithEviction
    <2> HIDE DEF left, v
    <2> QED
        BY <2>1, <2>2
<1>11. evicted' = {victimBlock}
    BY OfState DEF MissWithEviction, Block
<1>12. d \in BOOLEAN /\ Missing(H, t, o)
    BY <1>1, <1>2, <1>5, FoundIfHeld
<1>13. /\ v \in Addresses /\ vd \in BOOLEAN /\ <<v, o, vd>> \in H
    <2>1. victim \in Range(sets[s])
        BY <1>7 DEF Range
    <2> HIDE DEF s, victim
    <2> QED
        BY <1>1, <1>3, <2>1, LineIsPlaced
<1> HIDE DEF H, G, victim, t, s, v, vd, d
<1>14. v # t
    BY <1>12, <1>13 DEF Missing
<1>15. /\ Sound(st) /\ Len(st[s]) = Len(sets[s]) - 1
       /\ \A u \in Addresses, n \in Offsets, e \in BOOLEAN :
            <<u, n, e>> \in Holding(st) <=> <<u, n, e>> \in H /\ ~(u = v /\ n = o)
    <2>1. Sound(sets) /\ s \in SetIndices /\ 1 \in DOMAIN sets[s]
        BY <1>1, <1>3, <1>7
    <2>2. /\ Sound(st) /\ Len(st[s]) = Len(sets[s]) - 1
          /\ \A u \in Addresses, n \in Offsets, e \in BOOLEAN :
                <<u, n, e>> \in Holding(st) <=>
                    <<u, n, e>> \in Holding(sets) /\ ~(u = sets[s][1].tag /\ n = s[2])
        BY <2>1, Removing
    <2> HIDE DEF st
    <2> QED
        BY <1>3, <1>7, <2>2 DEF H, v
<1>16. st[s] = r /\ sets' = [st EXCEPT ![s] = Append(st[s], Line(t, d))]
    <2> HIDE DEF r
    <2> QED
        BY <1>3, <1>4, <1>8
<1> HIDE DEF st, r
<1>17. Len(st[s]) + 1 <= Ways /\ Missing(Holding(st), t, o)
    <2>1. Missing(Holding(st), t, o)
        BY <1>2, <1>12, <1>15 DEF Missing
    <2> QED
        BY <1>4, <1>5, <1>15, <2>1, CacheModelAssumption
<1>18. /\ Sound(sets')
       /\ \A u \in Addresses, n \in Offsets, e \in BOOLEAN :
            <<u, n, e>> \in G <=> IF u = t /\ n = o THEN e = d ELSE <<u, n, e>> \in Holding(st)
    <2>1. Sound(st) /\ t \in Addresses /\ d \in BOOLEAN /\ Missing(Holding(st), t, o)
        BY <1>2, <1>12, <1>15, <1>17
    <2>2. /\ Len(st[SetOf(t, o)]) + 1 <= Ways
          /\ sets' = [st EXCEPT ![SetOf(t, o)] = Append(st[SetOf(t, o)], Line(t, d))]
        BY <1>3, <1>16, <1>17
    <2> QED
        <3>1. sets' = Grown(st, t, o, d)
            BY <2>2 DEF Grown
        <3>2. /\ Sound(Grown(st, t, o, d))
              /\ \A u \in Addresses, n \in Offsets, e \in BOOLEAN :
                    <<u, n, e>> \in Holding(Grown(st, t, o, d)) <=>
                        IF u = t /\ n = o THEN e = d ELSE <<u, n, e>> \in Holding(st)
            BY <2>1, <2>2, Adding
        <3> QED
            BY <3>1, <3>2 DEF G
<1>19. ASSUME NEW u \in Addresses, NEW n \in Offsets, NEW e \in BOOLEAN
       PROVE  <<u, n, e>> \in G <=> IF u = t /\ n = o THEN e = d
                                    ELSE <<u, n, e>> \in H /\ ~(u = v /\ n = o)
    BY <1>15, <1>18
<1> DEFINE K == H \cup {<<t, o, d>>}
<1>20. ASSUME NEW u \in Addresses, NEW n \in Offsets, NEW e \in BOOLEAN
       PROVE  <<u, n, e>> \in K <=> \/ u = t /\ n = o /\ e = d
                                    \/ <<u, n, e>> \in H
    OBVIOUS
<1> HIDE DEF K
<1>21. OffsIn(K, t) = OffsIn(H, t) \cup {o}
    <2>1. ASSUME NEW n \in Offsets PROVE n \in OffsIn(K, t) <=> n \in OffsIn(H, t) \cup {o}
        BY <1>2, <1>12, <1>20 DEF OffsIn
    <2> QED
        BY <2>1, OffsFinite
<1>22. ASSUME NEW u \in Addresses, u # t PROVE OffsIn(K, u) = OffsIn(H, u)
    BY <1>20, <1>22 DEF OffsIn
<1>23. Books(counted, invRemapTable, K)
    BY <1>1, <1>12, <1>21, <1>22, BooksAdd
<1>24. OffsIn(G, v) = OffsIn(K, v) \ {o} /\ o \in OffsIn(K, v)
    <2>1. ASSUME NEW n \in Offsets PROVE n \in OffsIn(G, v) <=> n \in OffsIn(K, v) \ {o}
        BY <1>13, <1>14, <1>19, <1>20 DEF OffsIn
    <2>2. o \in OffsIn(K, v)
        BY <1>13, <1>20 DEF OffsIn
    <2> QED
        BY <2>1, <2>2, OffsFinite
<1>25. ASSUME NEW u \in Addresses, u # v PROVE OffsIn(G, u) = OffsIn(K, u)
    <2>1. ASSUME NEW n \in Offsets, NEW e \in BOOLEAN
          PROVE  <<u, n, e>> \in G <=> <<u, n, e>> \in K
        <3>1. CASE u = t /\ n = o
            <4>1. <<u, n, e>> \notin H
                BY <1>12, <3>1 DEF Missing
            <4> QED
                BY <1>19, <1>20, <3>1, <4>1
        <3>2. CASE ~(u = t /\ n = o)
            BY <1>19, <1>20, <1>25, <3>2
        <3> QED
            BY <3>1, <3>2
    <2> QED
        BY <2>1 DEF OffsIn
<1> HIDE DEF counted
<1>26. Books(left, inv2, G)
    <2>1. /\ ~v.marked => Books(counted, invRemapTable, G)
          /\ v.marked =>
                 LET w == invRemapTable[v]
                     rt2 == UncountedIn(counted, v, w)
                 IN Books(rt2, IF w \notin DOMAIN rt2 THEN Without(invRemapTable, v) ELSE invRemapTable, G)
        BY <1>13, <1>23, <1>24, <1>25, BooksDrop
    <2>2. CASE ~v.marked
        BY <2>1, <2>2
    <2>3. CASE v.marked
        BY <2>1, <2>3
    <2> QED
        BY <2>2, <2>3
<1>27. After(G)
    BY <1>1, <1>8, <1>9, <1>10, <1>18, <1>26 DEF After, G
<1>28. v.marked => v \in DOMAIN invRemapTable
    <2>1. OffsIn(H, v) # {}
        BY <1>13 DEF OffsIn
    <2> QED
        BY <1>1, <1>13, <2>1 DEF Books
<1> DEFINE C == BlocksIn(remapTable, H)
           D == BlocksIn(remapTable', G)
           gone == {victimBlock}
<1>29. IInv' /\ contentsOf' = D /\ contentsOf = C
    BY <1>27, StepTaken, StepBegun DEF H
<1>30. C \in SUBSET AllBlocks /\ D \in SUBSET AllBlocks
    BY InBlocks
<1>31. NameIn(invRemapTable, v) \in Pages /\ ActualIn(remapTable, NameIn(invRemapTable, v)) = v
    <2>1. OffsIn(H, v) # {}
        BY <1>13 DEF OffsIn
    <2> QED
        BY <1>1, <1>13, <2>1, Names
<1>32. victimBlock \in C
    BY <1>13, <1>31, InBlocks
<1>33. ASSUME NEW q \in Pages, NEW n \in Offsets, NEW e \in BOOLEAN
       PROVE  /\ Block(q, n, e) \in C <=> <<ActualIn(remapTable, q), n, e>> \in H
              /\ Block(q, n, e) \in D <=> <<ActualIn(left, q), n, e>> \in G
              /\ ActualIn(remapTable, q) \in Addresses /\ ActualIn(left, q) \in Addresses
              /\ ActualIn(remapTable, q) = t <=> q = p
    <2>1. ActualIn(remapTable, q) \in Addresses
        BY <1>1, ActualOfPage
    <2>2. ActualIn(left, q) \in Addresses
        BY <1>26, ActualOfPage
    <2> QED
        BY <1>1, <1>2, <1>9, <2>1, <2>2, InBlocks
<1>34. ASSUME NEW q \in Pages, NEW n \in Offsets, NEW e \in BOOLEAN
       PROVE  <<ActualIn(left, q), n, e>> \in G <=> <<ActualIn(remapTable, q), n, e>> \in G
    <2>1. ActualIn(counted, q) = ActualIn(remapTable, q)
        BY <1>1, CountedActual DEF counted
    <2>2. \/ ActualIn(left, q) = ActualIn(counted, q)
          \/ /\ v.marked /\ invRemapTable[v] \notin DOMAIN left
             /\ ActualIn(counted, q) = v /\ ActualIn(left, q) = Plain(q) /\ q \in DOMAIN counted
        BY <1>13, <1>23, <1>28, ActualAfterDrop
    <2> HIDE DEF left
    <2>3. CASE ActualIn(left, q) = ActualIn(counted, q)
        BY <2>1, <2>3
    <2>4. CASE /\ v.marked /\ invRemapTable[v] \notin DOMAIN left
               /\ ActualIn(counted, q) = v /\ ActualIn(left, q) = Plain(q) /\ q \in DOMAIN counted
        <3>1. v \notin DOMAIN inv2
            BY <2>4 DEF Without
        <3>2. OffsIn(G, v) = {}
            BY <1>13, <1>26, <2>4, <3>1 DEF Books
        <3>3. OffsIn(K, Plain(q)) = {}
            BY <1>23, <2>4 DEF Books, EntryRight
        <3>4. Plain(q) # v /\ Plain(q) \in Addresses
            BY <2>4, PageAddresses
        <3>5. OffsIn(G, Plain(q)) = {}
            BY <1>25, <3>3, <3>4
        <3> QED
            BY <2>1, <2>4, <3>2, <3>5 DEF OffsIn
    <2> QED
        BY <2>2, <2>3, <2>4
<1>35. ASSUME NEW q \in Pages, NEW n \in Offsets, NEW e \in BOOLEAN, Block(q, n, e) \in C
       PROVE  Block(q, n, e) \in gone <=> ActualIn(remapTable, q) = v /\ n = o
    <2>1. Block(q, n, e) \in gone <=> q = NameIn(invRemapTable, v) /\ n = o /\ e = vd
        BY BlockParts
    <2>2. ActualIn(remapTable, q) = v <=> q = NameIn(invRemapTable, v)
        BY <1>1, <1>31, ActualOfPage
    <2>3. ASSUME ActualIn(remapTable, q) = v, n = o PROVE e = vd
        <3>1. <<v, o, e>> \in H
            BY <1>33, <1>35, <2>3
        <3> QED
            BY <1>1, <1>13, <3>1, OneMark DEF H
    <2> QED
        BY <2>1, <2>2, <2>3
<1> HIDE DEF victimBlock, left, inv2, C, D
<1>36. gone \in SUBSET C
    BY <1>32
<1> HIDE DEF gone
<1>37. Differ(C, D, gone, p, o, d)
    <2>1. ASSUME NEW q \in Pages, NEW n \in Offsets, NEW e \in BOOLEAN
          PROVE  Block(q, n, e) \in D <=> IF q = p /\ n = o THEN e = d
                                 ELSE Block(q, n, e) \in C /\ Block(q, n, e) \notin gone
        <3> DEFINE u == ActualIn(remapTable, q)
        <3>1. /\ u \in Addresses /\ (u = t <=> q = p)
              /\ Block(q, n, e) \in C <=> <<u, n, e>> \in H
              /\ Block(q, n, e) \in D <=> <<u, n, e>> \in G
            BY <1>33, <1>34
        <3>2. <<u, n, e>> \in G <=> IF u = t /\ n = o THEN e = d
                                    ELSE <<u, n, e>> \in H /\ ~(u = v /\ n = o)
            BY <1>19, <3>1
        <3>3. Block(q, n, e) \in C => (Block(q, n, e) \in gone <=> u = v /\ n = o)
            BY <1>35
        <3> HIDE DEF u
        <3> QED
            BY <3>1, <3>2, <3>3
    <2> QED
        BY <2>1 DEF Differ
<1>38. D = Accessed(C, gone, p, o, d)
    BY <1>12, <1>30, <1>36, <1>37, AccessOfContents
<1>39. Contents!Of(<<p, o>>) = {}
    <2>1. ASSUME NEW x \in C, x.block = <<p, o>> PROVE FALSE
        <3>1. x \in AllBlocks
            BY <1>30
        <3>2. x.dirty \in BOOLEAN /\ x = Block(p, o, x.dirty)
            BY <2>1, <3>1, BlockParts
        <3>3. <<t, o, x.dirty>> \in H
            BY <1>1, <1>33, <2>1, <3>2
        <3> QED
            BY <1>12, <3>2, <3>3 DEF Missing
    <2> QED
        BY <1>29, <2>1 DEF Contents!Of
<1>40. ~Contents!Dirty(<<p, o>>)
    BY <1>39 DEF Contents!Dirty, Contents!Of
<1>41. d = (~read \/ Contents!Dirty(<<p, o>>))
    BY <1>40 DEF d
<1>42. Contents!Access(<<p, o>>, read)
    <2>1. /\ gone \in SUBSET (contentsOf \ Contents!Of(<<p, o>>))
          /\ contentsOf' = (contentsOf \ (Contents!Of(<<p, o>>) \cup gone))
                               \cup {[block |-> <<p, o>>, dirty |-> ~read \/ Contents!Dirty(<<p, o>>)]}
        <3>1. gone \in SUBSET (contentsOf \ Contents!Of(<<p, o>>))
            BY <1>29, <1>36, <1>39
        <3>2. contentsOf' = (contentsOf \ (Contents!Of(<<p, o>>) \cup gone))
                               \cup {[block |-> <<p, o>>, dirty |-> d]}
            BY <1>29, <1>38 DEF Contents!Of, Accessed
        <3> QED
            BY <1>41, <3>1, <3>2
    <2>2. evicted' = gone /\ victimBlock \in gone /\ gone = {victimBlock}
        BY <1>11 DEF gone
    <2> QED
        BY <1>39, <2>1, <2>2 DEF Contents!Access
<1> QED
    BY <1>29, <1>42

-----------------------------------------------------------------------------
(* Flushes, and blocks made dirty *)

\* A flush of a block, whether it is held or not.
LEMMA FlushStep ==
    ASSUME IInv, NEW p \in Pages, NEW o \in Offsets, Flush(p, o)
    PROVE  IInv' /\ Contents!Flush(<<p, o>>)
<1> DEFINE t == Plain(p)
           s == SetOf(t, o)
           k == At(t, s)
           H == Holding(sets)
           G == Holding(sets')
<1>1. /\ Sound(sets) /\ Books(remapTable, invRemapTable, H) /\ failed = FALSE
      /\ p \notin DOMAIN remapTable
    BY DEF IInv, Flush
<1>2. /\ t \in Addresses /\ ~t.marked /\ t = ActualIn(remapTable, p)
      /\ \A q \in Pages : ActualIn(remapTable, q) = t => p = q
    BY <1>1, ActualOfPage, PageAddresses
<1>3. s \in SetIndices /\ s[2] = o
    BY <1>2, SetOfAddress
<1>4. /\ IF t \in Tags(s) THEN sets' = [sets EXCEPT ![s] = RemoveAt(sets[s], k)] ELSE sets' = sets
      /\ evicted' = {} /\ remapTable' = remapTable /\ invRemapTable' = invRemapTable /\ failed' = failed
    BY DEF Flush
<1>5. t \in Tags(s) => k \in DOMAIN sets[s] /\ sets[s][k].tag = t
    BY DEF Tags, At
<1>6. t \in Tags(s) <=> ~Missing(H, t, o)
    BY <1>1, <1>2, FoundIfHeld
<1> HIDE DEF t, s, k, H, G
<1>7. /\ Sound(sets')
      /\ \A v \in Addresses, n \in Offsets, e \in BOOLEAN :
            <<v, n, e>> \in G <=> <<v, n, e>> \in H /\ ~(v = t /\ n = o)
    <2>1. CASE t \in Tags(s)
        <3>1. Sound(sets) /\ s \in SetIndices /\ k \in DOMAIN sets[s]
            BY <1>1, <1>3, <1>5, <2>1
        <3>2. /\ Sound([sets EXCEPT ![s] = RemoveAt(sets[s], k)])
              /\ \A v \in Addresses, n \in Offsets, e \in BOOLEAN :
                    <<v, n, e>> \in Holding([sets EXCEPT ![s] = RemoveAt(sets[s], k)]) <=>
                        <<v, n, e>> \in Holding(sets) /\ ~(v = sets[s][k].tag /\ n = s[2])
            BY <3>1, Removing
        <3>3. sets' = [sets EXCEPT ![s] = RemoveAt(sets[s], k)] /\ sets[s][k].tag = t
            BY <1>4, <1>5, <2>1
        <3> QED
            BY <1>3, <3>2, <3>3 DEF H, G
    <2>2. CASE t \notin Tags(s)
        <3>1. sets' = sets /\ G = H
            BY <1>4, <2>2 DEF G, H
        <3>2. Missing(H, t, o)
            BY <1>6, <2>2
        <3> QED
            BY <1>1, <3>1, <3>2 DEF Missing
    <2> QED
        BY <2>1, <2>2
<1>8. ASSUME NEW v \in Addresses, v # t PROVE OffsIn(G, v) = OffsIn(H, v)
    BY <1>7, <1>8 DEF OffsIn
<1>9. Books(remapTable, invRemapTable, G)
    <2>1. ASSUME NEW n \in Offsets PROVE n \in OffsIn(G, t) <=> n \in OffsIn(H, t) \ {o}
        BY <1>2, <1>7 DEF OffsIn
    <2>2. OffsIn(G, t) = OffsIn(H, t) \ {o}
        BY <2>1, OffsFinite
    <2>3. CASE o \in OffsIn(H, t)
        BY <1>1, <1>2, <1>8, <2>2, <2>3, BooksDrop
    <2>4. CASE o \notin OffsIn(H, t)
        <3>1. OffsIn(G, t) = OffsIn(H, t)
            BY <2>2, <2>4
        <3> QED
            BY <1>1, <1>8, <3>1, BooksKept
    <2> QED
        BY <2>3, <2>4
<1>10. After(G)
    BY <1>1, <1>4, <1>7, <1>9 DEF After, G
<1> DEFINE C == BlocksIn(remapTable, H)
           D == BlocksIn(remapTable, G)
<1>11. IInv' /\ contentsOf' = D /\ contentsOf = C
    BY <1>4, <1>10, StepTaken, StepBegun DEF H
<1>12. C \subseteq AllBlocks /\ D \subseteq AllBlocks
    BY InBlocks
<1>13. ASSUME NEW q \in Pages, NEW n \in Offsets, NEW e \in BOOLEAN
       PROVE  Block(q, n, e) \in D <=> Block(q, n, e) \in C /\ ~(q = p /\ n = o)
    <2>1. ActualIn(remapTable, q) \in Addresses
        BY <1>1, ActualOfPage
    <2>2. Block(q, n, e) \in D <=> <<ActualIn(remapTable, q), n, e>> \in G
        BY InBlocks
    <2>3. Block(q, n, e) \in C <=> <<ActualIn(remapTable, q), n, e>> \in H
        BY InBlocks
    <2>4. ActualIn(remapTable, q) = t <=> q = p
        BY <1>2
    <2> QED
        BY <1>7, <2>1, <2>2, <2>3, <2>4
<1> HIDE DEF C, D
<1>14. ASSUME NEW x \in AllBlocks PROVE x \in D <=> x \in C /\ x.block # <<p, o>>
    <2>1. PICK q \in Pages, n \in Offsets, e \in BOOLEAN : x = Block(q, n, e)
        BY BlockParts
    <2>2. x.block = <<q, n>>
        BY <2>1, BlockParts
    <2> QED
        BY <1>13, <2>1, <2>2
<1>15. D = C \ {l \in C : l.block = <<p, o>>}
    BY <1>12, <1>14
<1>16. Contents!Flush(<<p, o>>)
    BY <1>4, <1>11, <1>15 DEF Contents!Flush, Contents!Of
<1> QED
    BY <1>11, <1>16

\* A block with another mark.
LEMMA BlockMarked ==
    ASSUME NEW l \in AllBlocks, NEW d
    PROVE  [l EXCEPT !.dirty = d] = [block |-> l.block, dirty |-> d]
<1> DEFINE a == l.block
           b == l.dirty
<1>1. l = [block |-> a, dirty |-> b]
    BY DEF AllBlocks
<1>2. [[block |-> a, dirty |-> b] EXCEPT !.dirty = d] = [block |-> a, dirty |-> d]
    OBVIOUS
<1> HIDE DEF a, b
<1>3. [l EXCEPT !.dirty = d] = [block |-> a, dirty |-> d]
    BY <1>1, <1>2
<1> QED
    BY <1>3 DEF a

\* A block is made dirty, if it is held.
LEMMA MakeDirtyStep ==
    ASSUME IInv, NEW p \in Pages, NEW o \in Offsets, MakeDirty(p, o)
    PROVE  IInv' /\ Contents!MakeDirty(<<p, o>>)
<1> DEFINE t == Actual(p)
           s == SetOf(t, o)
           H == Holding(sets)
           G == Holding(sets')
<1>1. /\ Sound(sets) /\ Books(remapTable, invRemapTable, H) /\ failed = FALSE
      /\ t = ActualIn(remapTable, p)
    BY OfState DEF IInv
<1>2. t \in Addresses /\ \A q \in Pages : ActualIn(remapTable, q) = t => p = q
    BY <1>1, ActualOfPage
<1>3. s \in SetIndices
    BY <1>2, SetOfAddress
<1>4. /\ sets' = [sets EXCEPT ![s] = Dirtied(sets[s], t)]
      /\ evicted' = {} /\ remapTable' = remapTable /\ invRemapTable' = invRemapTable /\ failed' = failed
    <2>1. sets' = [sets EXCEPT ![s] = Dirtied(sets[s], t)]
        BY DEF MakeDirty, Dirtied
    <2>2. evicted' = {} /\ remapTable' = remapTable /\ invRemapTable' = invRemapTable /\ failed' = failed
        BY DEF MakeDirty
    <2> QED
        BY <2>1, <2>2
<1> HIDE DEF t, H, G
<1>5. /\ Sound(sets')
      /\ \A v \in Addresses, n \in Offsets, e \in BOOLEAN :
            <<v, n, e>> \in G <=> IF v = t /\ n = o THEN e = TRUE /\ ~Missing(H, t, o)
                                  ELSE <<v, n, e>> \in H
    <2>1. Sound(sets) /\ t \in Addresses
        BY <1>1, <1>2
    <2>2. /\ Sound([sets EXCEPT ![s] = Dirtied(sets[s], t)])
          /\ \A v \in Addresses, n \in Offsets, e \in BOOLEAN :
                <<v, n, e>> \in Holding([sets EXCEPT ![s] = Dirtied(sets[s], t)]) <=>
                    IF v = t /\ n = o THEN e = TRUE /\ ~Missing(Holding(sets), t, o)
                    ELSE <<v, n, e>> \in Holding(sets)
        BY <2>1, Dirtying
    <2> HIDE DEF s
    <2> QED
        BY <1>4, <2>2 DEF H, G
<1> HIDE DEF s
<1>6. ASSUME NEW v \in Addresses PROVE OffsIn(G, v) = OffsIn(H, v)
    <2>1. ASSUME NEW n \in Offsets PROVE n \in OffsIn(G, v) <=> n \in OffsIn(H, v)
        <3>1. CASE v = t /\ n = o
            BY <1>5, <3>1 DEF OffsIn, Missing
        <3>2. CASE ~(v = t /\ n = o)
            BY <1>5, <3>2 DEF OffsIn
        <3> QED
            BY <3>1, <3>2
    <2> QED
        BY <2>1, OffsFinite
<1>7. After(G)
    <2>1. Books(remapTable, invRemapTable, G)
        BY <1>1, <1>6, BooksKept
    <2> QED
        BY <1>1, <1>4, <1>5, <2>1 DEF After, G
<1> DEFINE C == BlocksIn(remapTable, H)
           D == BlocksIn(remapTable, G)
           E == {IF l.block = <<p, o>> THEN [l EXCEPT !.dirty = TRUE] ELSE l : l \in C}
<1>8. IInv' /\ contentsOf' = D /\ contentsOf = C
    BY <1>4, <1>7, StepTaken, StepBegun DEF H
<1>9. C \subseteq AllBlocks /\ D \subseteq AllBlocks
    BY InBlocks
<1>10. ASSUME NEW q \in Pages, NEW n \in Offsets, NEW e \in BOOLEAN
       PROVE  Block(q, n, e) \in D <=>
                  IF q = p /\ n = o THEN e = TRUE /\ \E f \in BOOLEAN : Block(q, n, f) \in C
                  ELSE Block(q, n, e) \in C
    <2>1. ActualIn(remapTable, q) \in Addresses
        BY <1>1, ActualOfPage
    <2>2. Block(q, n, e) \in D <=> <<ActualIn(remapTable, q), n, e>> \in G
        BY InBlocks
    <2>3. \A f \in BOOLEAN : Block(q, n, f) \in C <=> <<ActualIn(remapTable, q), n, f>> \in H
        BY InBlocks
    <2>4. ActualIn(remapTable, q) = t <=> q = p
        BY <1>1, <1>2
    <2> HIDE DEF C, D
    <2>5. CASE q = p /\ n = o
        <3>1. (\E f \in BOOLEAN : Block(q, n, f) \in C) <=> ~Missing(H, t, o)
            BY <2>3, <2>4, <2>5 DEF Missing
        <3> QED
            BY <1>5, <2>1, <2>2, <2>4, <2>5, <3>1
    <2>6. CASE ~(q = p /\ n = o)
        BY <1>5, <2>1, <2>2, <2>3, <2>4, <2>6
    <2> QED
        BY <2>5, <2>6
<1> HIDE DEF C, D
<1>11. \A l \in C : (IF l.block = <<p, o>> THEN [l EXCEPT !.dirty = TRUE] ELSE l) =
                        (IF l.block = <<p, o>> THEN Block(p, o, TRUE) ELSE l)
    <2>1. ASSUME NEW l \in C, l.block = <<p, o>> PROVE [l EXCEPT !.dirty = TRUE] = Block(p, o, TRUE)
        <3>1. l \in AllBlocks
            BY <1>9
        <3>2. [l EXCEPT !.dirty = TRUE] = [block |-> l.block, dirty |-> TRUE]
            BY <3>1, Zenon, BlockMarked
        <3> QED
            BY <2>1, <3>2 DEF Block
    <2> QED
        BY <2>1
<1>12. E = {IF l.block = <<p, o>> THEN Block(p, o, TRUE) ELSE l : l \in C}
    BY <1>11
<1> HIDE DEF E
<1>13. E \subseteq AllBlocks
    <2>1. Block(p, o, TRUE) \in AllBlocks
        BY BlockParts
    <2> QED
        BY <1>9, <1>12, <2>1
<1>14. ASSUME NEW x \in AllBlocks PROVE x \in D <=> x \in E
    <2>1. PICK q \in Pages, n \in Offsets, e \in BOOLEAN : x = Block(q, n, e)
        BY BlockParts
    <2>2. x.block = <<q, n>>
        BY <2>1, BlockParts
    <2>3. CASE q = p /\ n = o
        <3>1. (\E f \in BOOLEAN : Block(p, o, f) \in C) <=> \E l \in C : l.block = <<p, o>>
            <4>1. ASSUME NEW l \in C, l.block = <<p, o>> PROVE \E f \in BOOLEAN : Block(p, o, f) \in C
                <5>1. l \in AllBlocks
                    BY <1>9
                <5>2. l.dirty \in BOOLEAN /\ l = Block(p, o, l.dirty)
                    BY <4>1, <5>1, BlockParts
                <5> QED
                    BY <5>2
            <4>2. ASSUME NEW f \in BOOLEAN, Block(p, o, f) \in C PROVE \E l \in C : l.block = <<p, o>>
                BY <4>2, BlockParts
            <4> QED
                BY <4>1, <4>2
        <3>2. x = Block(p, o, TRUE) <=> e = TRUE
            BY <2>1, <2>3, BlockParts
        <3>3. x \in E <=> \E l \in C : l.block = <<p, o>> /\ x = Block(p, o, TRUE)
            <4>1. x.block = <<p, o>>
                BY <2>2, <2>3
            <4> QED
                BY <1>12, <4>1
        <3> QED
            BY <1>10, <2>1, <2>3, <3>1, <3>2, <3>3
    <2>4. CASE ~(q = p /\ n = o)
        <3>1. x.block # <<p, o>> /\ Block(p, o, TRUE).block = <<p, o>>
            <4>1. Block(p, o, TRUE).block = <<p, o>>
                BY DEF Block
            <4>2. <<q, n>> # <<p, o>>
                BY <2>4
            <4> QED
                BY <2>2, <4>1, <4>2
        <3>2. x \in E <=> x \in C
            BY <1>12, <3>1
        <3> QED
            BY <1>10, <2>1, <2>4, <3>2
    <2> QED
        BY <2>3, <2>4
<1>15. D = E
    BY <1>9, <1>13, <1>14
<1>16. Contents!MakeDirty(<<p, o>>)
    BY <1>4, <1>8, <1>15 DEF Contents!MakeDirty, E
<1> QED
    BY <1>8, <1>16

-----------------------------------------------------------------------------
(* Remaps *)

\* The blocks of an address, after they have got another one.
LEMMA MovedIfRetagged ==
    ASSUME NEW H, NEW G, NEW from \in Addresses, NEW to \in Addresses, from # to,
           OffsIn(H, to) = {},
           \A v \in Addresses, n \in Offsets, e \in BOOLEAN :
              <<v, n, e>> \in G <=> \/ v = to /\ <<from, n, e>> \in H
                                    \/ v # from /\ <<v, n, e>> \in H
    PROVE  Moved(H, G, from, to)
<1>1. \A n \in Offsets, e \in BOOLEAN : <<to, n, e>> \notin H
    BY DEF OffsIn
<1>2. ASSUME NEW n \in Offsets
      PROVE  /\ n \in OffsIn(G, to) <=> n \in OffsIn(H, from)
             /\ n \notin OffsIn(G, from)
    BY <1>1 DEF OffsIn
<1>3. ASSUME NEW u \in Addresses, u # to, u # from
      PROVE  OffsIn(G, u) = OffsIn(H, u)
    BY <1>3 DEF OffsIn
<1>4. OffsIn(G, to) = OffsIn(H, from) /\ OffsIn(G, from) = {}
    BY <1>2, OffsFinite
<1> QED
    BY <1>3, <1>4 DEF Moved

\* What is held once a page's blocks are another page's.
PageMoved(H, G, rt, rt2, p, q) ==
    \A x \in Pages, n \in Offsets, e \in BOOLEAN :
        <<ActualIn(rt2, x), n, e>> \in G <=>
            IF x = q THEN <<ActualIn(rt, p), n, e>> \in H
            ELSE x # p /\ <<ActualIn(rt, x), n, e>> \in H

\* A block of another page.
LEMMA BlockRenamed ==
    ASSUME NEW l \in AllBlocks, NEW q
    PROVE  [l EXCEPT !.block = <<q, l.block[2]>>] = Block(q, l.block[2], l.dirty)
<1> DEFINE a == l.block
           b == l.dirty
           c == <<q, a[2]>>
<1>1. l = [block |-> a, dirty |-> b]
    BY DEF AllBlocks
<1>2. [[block |-> a, dirty |-> b] EXCEPT !.block = c] = [block |-> c, dirty |-> b]
    OBVIOUS
<1> HIDE DEF a, b
<1>3. [l EXCEPT !.block = c] = [block |-> c, dirty |-> b]
    BY <1>1, <1>2
<1> QED
    BY <1>3 DEF Block, a, b

\* Then the contents are what a remap leaves.
LEMMA RemapOfContents ==
    ASSUME IInv, NEW p \in Pages, NEW q \in Pages, p # q, evicted' = {}, NEW G, After(G),
           OffsIn(Holding(sets), ActualIn(remapTable, q)) = {},
           PageMoved(Holding(sets), G, remapTable, remapTable', p, q)
    PROVE  IInv' /\ Contents!Remap(p, q)
<1> DEFINE H == Holding(sets)
           C == BlocksIn(remapTable, H)
           D == BlocksIn(remapTable', G)
           E == {IF l.block[1] = p THEN [l EXCEPT !.block = <<q, @[2]>>] ELSE l : l \in C}
<1>1. IInv' /\ contentsOf' = D /\ contentsOf = C
    BY StepTaken, StepBegun
<1>2. C \subseteq AllBlocks /\ D \subseteq AllBlocks
    BY InBlocks
<1>3. ASSUME NEW x \in Pages, NEW n \in Offsets, NEW e \in BOOLEAN
      PROVE  /\ Block(x, n, e) \in D <=> IF x = q THEN Block(p, n, e) \in C
                                        ELSE x # p /\ Block(x, n, e) \in C
             /\ Block(q, n, e) \notin C
    <2>1. <<ActualIn(remapTable, q), n, e>> \notin H
        BY DEF OffsIn
    <2>2. /\ Block(x, n, e) \in D <=> <<ActualIn(remapTable', x), n, e>> \in G
          /\ Block(x, n, e) \in C <=> <<ActualIn(remapTable, x), n, e>> \in H
          /\ Block(p, n, e) \in C <=> <<ActualIn(remapTable, p), n, e>> \in H
          /\ Block(q, n, e) \in C <=> <<ActualIn(remapTable, q), n, e>> \in H
        BY InBlocks
    <2> HIDE DEF C, D, H
    <2> QED
        BY <2>1, <2>2 DEF PageMoved, H
<1> HIDE DEF C, D
<1>4. E = {IF l.block[1] = p THEN Block(q, l.block[2], l.dirty) ELSE l : l \in C}
    <2>1. \A l \in C : [l EXCEPT !.block = <<q, l.block[2]>>] = Block(q, l.block[2], l.dirty)
        BY <1>2, BlockRenamed
    <2>2. \A l \in C : (IF l.block[1] = p THEN [l EXCEPT !.block = <<q, @[2]>>] ELSE l) =
                           (IF l.block[1] = p THEN Block(q, l.block[2], l.dirty) ELSE l)
        BY <2>1
    <2> QED
        BY <2>2
<1> HIDE DEF E
<1>5. E \subseteq AllBlocks
    <2>1. \A l \in C : l \in AllBlocks /\ Block(q, l.block[2], l.dirty) \in AllBlocks
        BY <1>2, BlockParts
    <2> QED
        BY <1>4, <2>1
<1>6. ASSUME NEW x \in AllBlocks PROVE x \in D <=> x \in E
    <2>1. PICK y \in Pages, n \in Offsets, e \in BOOLEAN : x = Block(y, n, e)
        BY BlockParts
    <2>2. \A l \in C : /\ l.block[1] \in Pages /\ l.block[2] \in Offsets /\ l.dirty \in BOOLEAN
                       /\ l = Block(l.block[1], l.block[2], l.dirty)
        BY <1>2, BlockParts
    <2>3. x.block[1] = y
        BY <2>1, BlockParts
    <2>4. x \in E <=> \/ \E l \in C : l.block[1] = p /\ x = Block(q, l.block[2], l.dirty)
                      \/ \E l \in C : l.block[1] # p /\ x = l
        BY <1>4
    <2>5. (\E l \in C : l.block[1] # p /\ x = l) <=> x \in C /\ y # p
        BY <2>3
    <2>6. (\E l \in C : l.block[1] = p /\ x = Block(q, l.block[2], l.dirty))
              <=> y = q /\ Block(p, n, e) \in C
        <3>1. ASSUME NEW l \in C, l.block[1] = p, x = Block(q, l.block[2], l.dirty)
              PROVE  y = q /\ Block(p, n, e) \in C
            <4>1. q = y /\ l.block[2] = n /\ l.dirty = e
                <5>1. Block(y, n, e) = Block(q, l.block[2], l.dirty)
                    BY <2>1, <3>1
                <5> QED
                    BY <5>1 DEF Block
            <4> QED
                BY <2>2, <3>1, <4>1
        <3>2. ASSUME y = q, Block(p, n, e) \in C
              PROVE  \E l \in C : l.block[1] = p /\ x = Block(q, l.block[2], l.dirty)
            <4>1. /\ Block(p, n, e).block[1] = p /\ Block(p, n, e).block[2] = n
                  /\ Block(p, n, e).dirty = e
                BY BlockParts
            <4> QED
                BY <2>1, <3>2, <4>1
        <3> QED
            BY <3>1, <3>2
    <2>7. /\ Block(y, n, e) \in D <=> IF y = q THEN Block(p, n, e) \in C
                                      ELSE y # p /\ Block(y, n, e) \in C
          /\ Block(q, n, e) \notin C
        BY <1>3
    <2> QED
        BY <2>1, <2>4, <2>5, <2>6, <2>7
<1>7. D = E
    BY <1>2, <1>5, <1>6
<1>8. Contents!Remap(p, q)
    BY <1>1, <1>7 DEF Contents!Remap, E
<1> QED
    BY <1>1, <1>8

\* What a remap finds: nothing of the frame is held, and it has no entry.
LEMMA RemapFinds ==
    ASSUME IInv, NEW p \in Pages, NEW q \in Pages, Remap(p, q)
    PROVE  /\ p # q /\ q \notin DOMAIN remapTable /\ evicted' = {}
           /\ OffsIn(Holding(sets), Plain(q)) = {}
           /\ ActualIn(remapTable, q) = Plain(q)
           /\ ~Reuse /\ p \notin DOMAIN remapTable => Marked(p) \notin DOMAIN invRemapTable
           /\ RemapPlain(p, q) \/ RemapMarked(p, q)
<1>1. /\ p # q /\ q \notin DOMAIN remapTable /\ evicted' = {} /\ HeldOf(q) = {}
      /\ ~Reuse /\ p \notin DOMAIN remapTable => Marked(p) \notin DOMAIN invRemapTable
      /\ RemapPlain(p, q) \/ RemapMarked(p, q)
    BY DEF Remap
<1>2. ActualIn(remapTable, q) = Plain(q)
    BY <1>1 DEF ActualIn
<1>3. Offs(Plain(q)) = {}
    BY <1>1, <1>2, OfState DEF HeldOf
<1>4. Sound(sets) /\ Plain(q) \in Addresses
    BY PageAddresses DEF IInv
<1>5. OffsIn(Holding(sets), Plain(q)) = {}
    BY <1>3, <1>4, FoundIfHeld
<1> QED
    BY <1>1, <1>2, <1>5

\* The blocks of an address are in no set of another index, and get another address.
LEMMA RetaggedSets ==
    ASSUME Sound(sets), NEW from \in Addresses, NEW to \in Addresses, from # to,
           Index[from.page] = Index[to.page], OffsIn(Holding(sets), to) = {}, sets' = Retagged(from, to)
    PROVE  /\ Sound(sets') /\ Moved(Holding(sets), Holding(sets'), from, to)
           /\ \A v \in Addresses, n \in Offsets, e \in BOOLEAN :
                 <<v, n, e>> \in Holding(sets') <=>
                     \/ v = to /\ <<from, n, e>> \in Holding(sets)
                     \/ v # from /\ <<v, n, e>> \in Holding(sets)
<1> DEFINE st2 == [s \in SetIndices |-> [i \in DOMAIN sets[s] |->
                      IF sets[s][i].tag = from THEN [sets[s][i] EXCEPT !.tag = to] ELSE sets[s][i]]]
<1>1. \A o \in Offsets : Missing(Holding(sets), to, o)
    BY OffsFinite
<1>2. /\ Sound(st2)
      /\ \A v \in Addresses, n \in Offsets, e \in BOOLEAN :
            <<v, n, e>> \in Holding(st2) <=>
                \/ v = to /\ <<from, n, e>> \in Holding(sets)
                \/ v # from /\ <<v, n, e>> \in Holding(sets)
    BY <1>1, Retagging
<1>3. sets' = st2
    BY DEF Retagged
<1> HIDE DEF st2
<1>4. /\ Sound(sets')
      /\ \A v \in Addresses, n \in Offsets, e \in BOOLEAN :
            <<v, n, e>> \in Holding(sets') <=>
                \/ v = to /\ <<from, n, e>> \in Holding(sets)
                \/ v # from /\ <<v, n, e>> \in Holding(sets)
    BY <1>2, <1>3
<1>5. Moved(Holding(sets), Holding(sets'), from, to)
    BY <1>4, MovedIfRetagged
<1> QED
    BY <1>4, <1>5

\* An address of which nothing is held.
LEMMA HoldsNothing ==
    ASSUME NEW H, NEW u, OffsIn(H, u) = {}
    PROVE  \A n \in Offsets, e \in BOOLEAN : <<u, n, e>> \notin H
BY DEF OffsIn

\* A page with its own address is moved.
LEMMA RemapPlainStep ==
    ASSUME IInv, ~Reuse, NEW p \in Pages, NEW q \in Pages, Remap(p, q), RemapPlain(p, q)
    PROVE  IInv' /\ Contents!Remap(p, q)
<1> DEFINE H == Holding(sets)
           G == Holding(sets')
           rt == remapTable
           n0 == Cardinality(OffsIn(H, Plain(p)))
<1>1. Sound(sets) /\ Books(rt, invRemapTable, H) /\ failed = FALSE
    BY DEF IInv
<1>2. /\ p # q /\ q \notin DOMAIN rt /\ evicted' = {} /\ p \notin DOMAIN rt
      /\ OffsIn(H, Plain(q)) = {} /\ ActualIn(rt, q) = Plain(q) /\ ActualIn(rt, p) = Plain(p)
      /\ Marked(p) \notin DOMAIN invRemapTable
    BY RemapFinds DEF RemapPlain, ActualIn
<1>3. /\ Plain(p) \in Addresses /\ Plain(q) \in Addresses /\ Marked(p) \in Addresses
      /\ Plain(p) # Plain(q) /\ Marked(p) # Plain(p) /\ Marked(p) # Plain(q)
      /\ Plain(p).page = p /\ Plain(q).page = q /\ Marked(p).page = p /\ Marked(p).marked
    BY <1>2, PageAddresses
<1>4. /\ failed' = failed
      /\ IF Index[p] = Index[q]
         THEN sets' = Retagged(Plain(p), Plain(q)) /\ remapTable' = rt /\ invRemapTable' = invRemapTable
         ELSE /\ sets' = Retagged(Plain(p), Marked(p))
              /\ IF Cardinality(Offs(Plain(p))) > 0 THEN Mark(p, q, Cardinality(Offs(Plain(p))))
                 ELSE remapTable' = rt /\ invRemapTable' = invRemapTable
    BY DEF RemapPlain
<1>5. Offs(Plain(p)) = OffsIn(H, Plain(p))
    BY <1>1, <1>3, FoundIfHeld
<1>6. OffsIn(H, Marked(p)) = {}
    BY <1>1, <1>2, <1>3 DEF Books
<1>7. ASSUME NEW x \in Pages
      PROVE  /\ ActualIn(rt, x) \in Addresses /\ ActualIn(rt, x) # Marked(p)
             /\ ActualIn(rt, x) = Plain(q) <=> x = q
             /\ ActualIn(rt, x) = Plain(p) <=> x = p
    <2>1. ActualIn(rt, x) \in Addresses
        BY <1>1, ActualOfPage
    <2>2. (ActualIn(rt, x) = ActualIn(rt, q) <=> x = q) /\ (ActualIn(rt, x) = ActualIn(rt, p) <=> x = p)
        BY <1>1, ActualOfPage
    <2>3. ActualIn(rt, x) # Marked(p)
        <3>1. CASE x \in DOMAIN rt
            BY <1>1, <1>2, <3>1, BooksSay DEF ActualIn
        <3>2. CASE x \notin DOMAIN rt
            <4>1. ~Plain(x).marked
                BY PageAddresses
            <4> QED
                BY <1>3, <3>2, <4>1 DEF ActualIn
        <3> QED
            BY <3>1, <3>2
    <2> QED
        BY <1>2, <2>1, <2>2, <2>3
<1> HIDE DEF H, G, rt
<1>8. CASE Index[p] = Index[q]
    <2>1. sets' = Retagged(Plain(p), Plain(q)) /\ remapTable' = rt /\ invRemapTable' = invRemapTable
        BY <1>4, <1>8
    <2>2. /\ Sound(sets') /\ Moved(H, G, Plain(p), Plain(q))
          /\ \A v \in Addresses, n \in Offsets, e \in BOOLEAN :
                 <<v, n, e>> \in G <=> \/ v = Plain(q) /\ <<Plain(p), n, e>> \in H
                                       \/ v # Plain(p) /\ <<v, n, e>> \in H
        BY <1>1, <1>2, <1>3, <1>8, <2>1, RetaggedSets DEF H, G
    <2>3. Books(rt, invRemapTable, G)
        BY <1>1, <1>2, <2>2, BooksPlainToPlain
    <2>4. After(G)
        BY <1>1, <1>4, <2>1, <2>2, <2>3 DEF After, G
    <2>5. PageMoved(H, G, rt, remapTable', p, q)
        <3>1. \A n \in Offsets, e \in BOOLEAN : <<Plain(q), n, e>> \notin H
            BY <1>2, HoldsNothing
        <3> QED
            BY <1>2, <1>3, <1>7, <2>1, <2>2, <3>1 DEF PageMoved
    <2> QED
        BY <1>2, <2>4, <2>5, RemapOfContents DEF H, rt
<1>9. CASE Index[p] # Index[q] /\ ~(n0 > 0)
    <2>1. sets' = Retagged(Plain(p), Marked(p)) /\ remapTable' = rt /\ invRemapTable' = invRemapTable
        BY <1>4, <1>5, <1>9
    <2>2. /\ Sound(sets')
          /\ \A v \in Addresses, n \in Offsets, e \in BOOLEAN :
                 <<v, n, e>> \in G <=> \/ v = Marked(p) /\ <<Plain(p), n, e>> \in H
                                       \/ v # Plain(p) /\ <<v, n, e>> \in H
        BY <1>1, <1>3, <1>6, <2>1, RetaggedSets DEF H, G
    <2>3. OffsIn(H, Plain(p)) = {}
        <3>1. n0 \in Nat /\ (n0 = 0 <=> OffsIn(H, Plain(p)) = {})
            BY OffsFinite
        <3> QED
            BY <1>9, <3>1
    <2>4. \A n \in Offsets, e \in BOOLEAN : <<Plain(q), n, e>> \notin H /\ <<Plain(p), n, e>> \notin H
        BY <1>2, <2>3, HoldsNothing
    <2>5. \A v \in Addresses, n \in Offsets, e \in BOOLEAN : <<v, n, e>> \in G <=> <<v, n, e>> \in H
        BY <2>2, <2>4
    <2>6. \A v \in Addresses : OffsIn(G, v) = OffsIn(H, v)
        BY <2>5 DEF OffsIn
    <2>7. Books(rt, invRemapTable, G)
        BY <1>1, <2>6, BooksKept
    <2>8. After(G)
        BY <1>1, <1>4, <2>1, <2>2, <2>7 DEF After, G
    <2>9. PageMoved(H, G, rt, remapTable', p, q)
        BY <1>2, <1>3, <1>7, <2>1, <2>4, <2>5 DEF PageMoved
    <2> QED
        BY <1>2, <2>8, <2>9, RemapOfContents DEF H, rt
<1>10. CASE Index[p] # Index[q] /\ n0 > 0
    <2>1. /\ sets' = Retagged(Plain(p), Marked(p))
          /\ remapTable' = With(rt, q, [addr |-> Marked(p), count |-> n0])
          /\ invRemapTable' = With(invRemapTable, Marked(p), q)
        BY <1>2, <1>4, <1>5, <1>10 DEF Mark, rt
    <2>2. /\ Sound(sets') /\ Moved(H, G, Plain(p), Marked(p))
          /\ \A v \in Addresses, n \in Offsets, e \in BOOLEAN :
                 <<v, n, e>> \in G <=> \/ v = Marked(p) /\ <<Plain(p), n, e>> \in H
                                       \/ v # Plain(p) /\ <<v, n, e>> \in H
        BY <1>1, <1>3, <1>6, <2>1, RetaggedSets DEF H, G
    <2>3. OffsIn(H, Plain(p)) # {}
        <3>1. n0 \in Nat /\ (n0 = 0 <=> OffsIn(H, Plain(p)) = {})
            BY OffsFinite
        <3> QED
            BY <1>10, <3>1
    <2>4. Books(remapTable', invRemapTable', G)
        BY <1>1, <1>2, <2>1, <2>2, <2>3, BooksPlainToMarked
    <2>5. After(G)
        BY <1>1, <1>4, <2>2, <2>4 DEF After, G
    <2>6. \A n \in Offsets, e \in BOOLEAN : <<Marked(p), n, e>> \notin H
        BY <1>6, HoldsNothing
    <2>7. ActualIn(remapTable', q) = Marked(p)
        BY <2>1 DEF ActualIn, With
    <2>8. ASSUME NEW x \in Pages, x # q PROVE ActualIn(remapTable', x) = ActualIn(rt, x)
        BY <2>1, <2>8 DEF ActualIn, With
    <2>9. PageMoved(H, G, rt, remapTable', p, q)
        BY <1>2, <1>3, <1>7, <2>2, <2>6, <2>7, <2>8 DEF PageMoved
    <2> QED
        BY <1>2, <2>5, <2>9, RemapOfContents DEF H, rt
<1> QED
    BY <1>8, <1>9, <1>10

\* A page with marked blocks is moved.
LEMMA RemapMarkedStep ==
    ASSUME IInv, NEW p \in Pages, NEW q \in Pages, Remap(p, q), RemapMarked(p, q)
    PROVE  IInv' /\ Contents!Remap(p, q)
<1> DEFINE H == Holding(sets)
           G == Holding(sets')
           rt == remapTable
           tag == rt[p].addr
           n0 == Cardinality(OffsIn(H, tag))
<1>1. Sound(sets) /\ Books(rt, invRemapTable, H) /\ failed = FALSE
    BY DEF IInv
<1>2. /\ p # q /\ q \notin DOMAIN rt /\ evicted' = {} /\ p \in DOMAIN rt
      /\ OffsIn(H, Plain(q)) = {} /\ ActualIn(rt, q) = Plain(q) /\ ActualIn(rt, p) = tag
    BY RemapFinds DEF RemapMarked, ActualIn
<1>3. /\ tag \in Addresses /\ tag.marked /\ tag \in DOMAIN invRemapTable
      /\ rt[p].count = n0 /\ OffsIn(H, Plain(p)) = {}
    BY <1>1, <1>2, BooksSay DEF Books, EntryRight
<1>4. /\ Plain(p) \in Addresses /\ Plain(q) \in Addresses /\ Plain(p) # Plain(q)
      /\ Plain(q).page = q /\ tag # Plain(p) /\ tag # Plain(q)
    BY <1>2, <1>3, PageAddresses
<1>5. Cardinality(Offs(tag)) = n0
    BY <1>1, <1>3, FoundIfHeld
<1>6. failed' = FALSE
    <2>1. failed' = (failed \/ Cardinality(Offs(tag)) # rt[p].count \/ tag \notin DOMAIN invRemapTable)
        BY DEF RemapMarked
    <2>2. ~(failed \/ Cardinality(Offs(tag)) # rt[p].count \/ tag \notin DOMAIN invRemapTable)
        BY <1>1, <1>3, <1>5
    <2> QED
        BY <2>1, <2>2
<1>7. ASSUME NEW x \in Pages
      PROVE  /\ ActualIn(rt, x) \in Addresses
             /\ ActualIn(rt, x) = Plain(q) <=> x = q
             /\ ActualIn(rt, x) = tag <=> x = p
    <2>1. ActualIn(rt, x) \in Addresses
        BY <1>1, ActualOfPage
    <2>2. (ActualIn(rt, x) = ActualIn(rt, q) <=> x = q) /\ (ActualIn(rt, x) = ActualIn(rt, p) <=> x = p)
        BY <1>1, ActualOfPage
    <2> QED
        BY <1>2, <2>1, <2>2
<1>8. \A n \in Offsets, e \in BOOLEAN : <<Plain(q), n, e>> \notin H /\ <<Plain(p), n, e>> \notin H
    BY <1>2, <1>3, HoldsNothing
<1>9. CASE Index[tag.page] = Index[q]
    <2>1. /\ sets' = Retagged(tag, Plain(q)) /\ remapTable' = Without(rt, p)
          /\ invRemapTable' = Without(invRemapTable, tag)
        BY <1>9 DEF RemapMarked
    <2> HIDE DEF H, G, rt, tag, n0
    <2>2. /\ Sound(sets') /\ Moved(H, G, tag, Plain(q))
          /\ \A v \in Addresses, n \in Offsets, e \in BOOLEAN :
                 <<v, n, e>> \in G <=> \/ v = Plain(q) /\ <<tag, n, e>> \in H
                                       \/ v # tag /\ <<v, n, e>> \in H
        BY <1>1, <1>2, <1>3, <1>4, <1>9, <2>1, RetaggedSets DEF H, G
    <2>3. Books(remapTable', invRemapTable', G)
        BY <1>1, <1>2, <2>1, <2>2, BooksMarkedToPlain DEF tag
    <2>4. After(G)
        BY <1>6, <2>2, <2>3 DEF After, G
    <2>5. /\ ActualIn(remapTable', q) = Plain(q) /\ ActualIn(remapTable', p) = Plain(p)
        BY <1>2, <2>1 DEF ActualIn, Without
    <2>6. ASSUME NEW x \in Pages, x # p PROVE ActualIn(remapTable', x) = ActualIn(rt, x)
        BY <2>1, <2>6 DEF ActualIn, Without
    <2>7. PageMoved(H, G, rt, remapTable', p, q)
        <3> SUFFICES ASSUME NEW x \in Pages, NEW n \in Offsets, NEW e \in BOOLEAN
                     PROVE  <<ActualIn(remapTable', x), n, e>> \in G <=>
                                IF x = q THEN <<ActualIn(rt, p), n, e>> \in H
                                ELSE x # p /\ <<ActualIn(rt, x), n, e>> \in H
            BY DEF PageMoved
        <3>1. CASE x = q
            BY <1>2, <1>4, <1>8, <2>2, <2>5, <3>1
        <3>2. CASE x = p
            BY <1>2, <1>4, <1>8, <2>2, <2>5, <3>2
        <3>3. CASE x # p /\ x # q
            BY <1>7, <2>2, <2>6, <3>3
        <3> QED
            BY <3>1, <3>2, <3>3
    <2> QED
        BY <1>2, <2>4, <2>7, RemapOfContents DEF H, rt
<1>10. CASE Index[tag.page] # Index[q]
    <2>1. /\ sets' = sets /\ remapTable' = With(Without(rt, p), q, [addr |-> tag, count |-> n0])
          /\ invRemapTable' = [invRemapTable EXCEPT ![tag] = q]
        BY <1>5, <1>10 DEF RemapMarked
    <2>2. G = H
        BY <2>1
    <2> HIDE DEF H, G, rt
    <2>3. Books(remapTable', invRemapTable', H)
        BY <1>1, <1>2, <2>1, BooksMarkedToMarked
    <2> HIDE DEF tag, n0
    <2>4. After(G)
        <3>1. Sound(sets')
            BY <1>1, <2>1
        <3> QED
            BY <1>6, <2>2, <2>3, <3>1 DEF After, G
    <2>5. ActualIn(remapTable', q) = tag /\ ActualIn(remapTable', p) = Plain(p)
        BY <1>2, <2>1 DEF ActualIn, With, Without
    <2>6. ASSUME NEW x \in Pages, x # p, x # q PROVE ActualIn(remapTable', x) = ActualIn(rt, x)
        BY <2>1, <2>6 DEF ActualIn, With, Without
    <2>7. PageMoved(H, G, rt, remapTable', p, q)
        BY <1>2, <1>8, <2>2, <2>5, <2>6 DEF PageMoved
    <2> QED
        BY <1>2, <2>4, <2>7, RemapOfContents DEF H, rt
<1> QED
    BY <1>9, <1>10

-----------------------------------------------------------------------------
(* The theorems *)

\* The invariant says what TablesAgree does.
LEMMA InvariantAgrees ==
    ASSUME IInv
    PROVE  TablesAgree
<1>1. Sound(sets) /\ Books(remapTable, invRemapTable, Holding(sets)) /\ failed = FALSE
    BY DEF IInv
<1>2. ASSUME NEW p \in DOMAIN remapTable
      PROVE  /\ remapTable[p].addr.marked /\ invRemapTable[remapTable[p].addr] = p
             /\ remapTable[p].count = Cardinality(Offs(remapTable[p].addr)) /\ remapTable[p].count > 0
             /\ Offs(Plain(p)) = {}
    <2>1. EntryRight(remapTable, invRemapTable, Holding(sets), p)
        BY <1>1 DEF Books
    <2>2. remapTable[p].addr \in Addresses /\ p \in Pages
        BY <1>1, BooksSay
    <2>3. Plain(p) \in Addresses
        BY <2>2, PageAddresses
    <2>4. Offs(remapTable[p].addr) = OffsIn(Holding(sets), remapTable[p].addr)
        BY <1>1, <2>2, FoundIfHeld
    <2>5. Offs(Plain(p)) = OffsIn(Holding(sets), Plain(p))
        BY <1>1, <2>3, FoundIfHeld
    <2> QED
        BY <2>1, <2>4, <2>5 DEF EntryRight
<1>3. ASSUME NEW s \in SetIndices
      PROVE  /\ Len(sets[s]) <= Ways /\ Cardinality(Tags(s)) = Len(sets[s])
             /\ \A tag \in Tags(s) : tag.marked => tag \in DOMAIN invRemapTable
    <2> DEFINE q == sets[s]
               f == [i \in DOMAIN q |-> q[i].tag]
    <2>1. q \in Seq(Lines) /\ Len(q) <= Ways /\ Distinct(q)
        BY <1>1 DEF Sound
    <2>2. Len(q) \in Nat /\ DOMAIN q = 1 .. Len(q)
        BY <2>1
    <2>3. f \in Bijection(1 .. Len(q), Tags(s))
        <3>1. f \in [1 .. Len(q) -> Tags(s)]
            BY <2>2 DEF Tags
        <3>2. \A i, j \in 1 .. Len(q) : f[i] = f[j] => i = j
            BY <2>1, <2>2 DEF Distinct
        <3>3. \A u \in Tags(s) : \E i \in 1 .. Len(q) : f[i] = u
            BY <2>2 DEF Tags
        <3> QED
            BY <3>1, <3>2, <3>3 DEF Bijection, Injection, IsInjective, Surjection
    <2>4. /\ IsFiniteSet(1 .. Len(q)) /\ Cardinality(1 .. Len(q)) = Len(q)
        BY <2>2, FS_Interval
    <2>5. Cardinality(1 .. Len(q)) = Cardinality(Tags(s))
        <3>1. ExistsBijection(1 .. Len(q), Tags(s))
            BY <2>3 DEF ExistsBijection
        <3> QED
            BY <2>4, <3>1, FS_Bijection
    <2>6. ASSUME NEW u \in Tags(s), u.marked PROVE u \in DOMAIN invRemapTable
        <3>1. PICK i \in DOMAIN q : u = q[i].tag
            BY DEF Tags
        <3>2. q[i] \in Range(q)
            BY DEF Range
        <3>3. s[2] \in Offsets /\ u \in Addresses /\ q[i].dirty \in BOOLEAN /\ <<u, s[2], q[i].dirty>> \in Holding(sets)
            BY <1>1, <3>1, <3>2, LineIsPlaced
        <3>4. OffsIn(Holding(sets), u) # {}
            BY <3>3 DEF OffsIn
        <3> QED
            BY <1>1, <2>6, <3>3, <3>4 DEF Books
    <2> QED
        BY <2>1, <2>4, <2>5, <2>6
<1>4. DOMAIN invRemapTable = {remapTable[p].addr : p \in DOMAIN remapTable}
    BY <1>1 DEF Books
<1> QED
    BY <1>1, <1>2, <1>3, <1>4 DEF TablesAgree

\* The sets are empty and so are the tables.
LEMMA InitStep ==
    ASSUME Init
    PROVE  IInv /\ Contents!Init
<1>1. /\ sets = [s \in SetIndices |-> <<>>] /\ remapTable = <<>> /\ invRemapTable = <<>>
      /\ failed = FALSE /\ evicted = {}
    BY DEF Init
<1>2. DOMAIN remapTable = {} /\ DOMAIN invRemapTable = {}
    BY <1>1
<1>3. ASSUME NEW s \in SetIndices PROVE sets[s] = <<>> /\ Range(sets[s]) = {}
    BY <1>1 DEF Range
<1>4. Sound(sets)
    <2>1. sets \in [SetIndices -> Seq(Lines)]
        BY <1>1
    <2>2. ASSUME NEW s \in SetIndices PROVE Len(sets[s]) <= Ways /\ Distinct(sets[s])
        BY <1>3, CacheModelAssumption DEF Distinct
    <2> QED
        BY <1>3, <2>1, <2>2 DEF Sound
<1>5. ASSUME NEW u \in Addresses PROVE OffsIn(Holding(sets), u) = {}
    <2>1. ASSUME NEW o \in Offsets, NEW d \in BOOLEAN PROVE <<u, o, d>> \notin Holding(sets)
        BY <1>3, HeldThere, SetOfAddress
    <2> QED
        BY <2>1 DEF OffsIn
<1>6. Books(remapTable, invRemapTable, Holding(sets))
    <2>1. remapTable \in [DOMAIN remapTable -> [addr : Addresses, count : Nat]]
        BY <1>1
    <2>2. invRemapTable \in [DOMAIN invRemapTable -> Pages]
        BY <1>1
    <2> QED
        BY <1>2, <1>5, <2>1, <2>2 DEF Books
<1>7. contentsOf = {}
    <2>1. \A s \in SetIndices : {[block |-> <<VictimPage(l.tag), s[2]>>, dirty |-> l.dirty] : l \in Range(sets[s])} = {}
        BY <1>3
    <2> QED
        BY <2>1 DEF contentsOf
<1> QED
    BY <1>1, <1>4, <1>6, <1>7 DEF IInv, Contents!Init

\* Every step keeps the invariant and is one of the abstract cache.
LEMMA NextStep ==
    ASSUME IInv, ~Reuse, Next
    PROVE  IInv' /\ Contents!Next
<1>1. ASSUME NEW p \in Pages, NEW o \in Offsets PROVE <<p, o>> \in Contents!Blocks
    BY DEF Contents!Blocks
<1>2. ASSUME NEW p \in Pages, NEW o \in Offsets, NEW read \in BOOLEAN, Access(p, o, read)
      PROVE  IInv' /\ Contents!Next
    <2>1. IInv' /\ Contents!Access(<<p, o>>, read)
        BY <1>2, HitStep, MissStep, EvictionStep DEF Access
    <2> QED
        BY <1>1, <2>1 DEF Contents!Next
<1>3. ASSUME NEW p \in Pages, NEW o \in Offsets, Flush(p, o)
      PROVE  IInv' /\ Contents!Next
    <2>1. IInv' /\ Contents!Flush(<<p, o>>)
        BY <1>3, FlushStep
    <2> QED
        BY <1>1, <2>1 DEF Contents!Next
<1>4. ASSUME NEW p \in Pages, NEW o \in Offsets, MakeDirty(p, o)
      PROVE  IInv' /\ Contents!Next
    <2>1. IInv' /\ Contents!MakeDirty(<<p, o>>)
        BY <1>4, MakeDirtyStep
    <2> QED
        BY <1>1, <2>1 DEF Contents!Next
<1>5. ASSUME NEW p \in Pages, NEW q \in Pages, Remap(p, q)
      PROVE  IInv' /\ Contents!Next
    <2>1. IInv' /\ Contents!Remap(p, q) /\ p # q
        BY <1>5, RemapFinds, RemapPlainStep, RemapMarkedStep
    <2> QED
        BY <2>1 DEF Contents!Next
<1> QED
    BY <1>2, <1>3, <1>4, <1>5 DEF Next

\* A step that changes nothing.
LEMMA StutterStep ==
    ASSUME IInv, UNCHANGED vars
    PROVE  IInv' /\ UNCHANGED <<contentsOf, evicted>>
<1>1. sets' = sets /\ remapTable' = remapTable /\ invRemapTable' = invRemapTable /\ failed' = failed
      /\ evicted' = evicted
    BY DEF vars
<1>2. contentsOf' = contentsOf
    BY <1>1, OfState
<1>3. IInv'
    BY <1>1 DEF IInv
<1> QED
    BY <1>1, <1>2, <1>3

\* Provided no frame is remapped while its old blocks are marked by its address, the
\* sets are sound and the tables right about them in every state.
THEOREM Invariance ==
    ASSUME ~Reuse
    PROVE  Spec => []IInv
<1>1. Init => IInv
    BY InitStep
<1>2. IInv /\ [Next]_vars => IInv'
    BY NextStep, StutterStep
<1> QED
    BY <1>1, <1>2, PTL DEF Spec

\* Under the same proviso, for all pages, offsets, ways and indices: the two remap
\* tables of CacheModel are inverses, an entry counts the blocks of its marked page,
\* and every marked block can be named, so that the assertions of access and remap hold.
THEOREM TablesAlwaysAgree ==
    ASSUME ~Reuse
    PROVE  Spec => []TablesAgree
<1>1. IInv => TablesAgree
    BY InvariantAgrees
<1> QED
    BY <1>1, Invariance, PTL

\* Under the same proviso, for all pages, offsets, ways and indices: the sets and the
\* tables together are a cache of the blocks' own addresses.
THEOREM CacheImplementsContents ==
    ASSUME ~Reuse
    PROVE  Spec => ImplementsContents
<1>1. Init => Contents!Init
    BY InitStep
<1>2. IInv /\ [Next]_vars => [Contents!Next]_<<contentsOf, evicted>>
    BY NextStep, StutterStep
<1> QED
    BY <1>1, <1>2, Invariance, PTL DEF Spec, ImplementsContents, Contents!Spec
=============================================================================
