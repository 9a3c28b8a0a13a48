-------------------------- MODULE MultiQueueProofs --------------------------
(***************************************************************************)
(* Proofs about MultiQueue, for any pages, queues, shares and settings:    *)
(* the policy's books agree with the manager's, and it keeps to what       *)
(* Placement promises.  Of each list PagesOf says what is in it, Distinct  *)
(* that nothing is twice, Marking that the pages in D migrate.             *)
(***************************************************************************)
EXTENDS MultiQueue, TLAPS, SequenceTheorems, FiniteSetTheorems, WellFoundedInduction

\* The policy has pages for every process that has some (MCPolicyIndex shows what
\* becomes of others), and a share if it places pages in DRAM first.
Configured ==
    /\ \A p \in Pages : HasPages(p[1])
    /\ "DRAM_FIRST" \in Allocs => DramPages > 0

ListEntry == [page : Pages, exp : Nat, count : Nat, demoted : BOOLEAN, migrating : BOOLEAN]
Policy == [place : UNION {[S -> Places] : S \in SUBSET Pages}, lists : [Places -> Seq(ListEntry)],
           time : Nat, failed : {""}]

PagesOf(list) == {list[i].page : i \in DOMAIN list}
Distinct(list) == \A i, j \in DOMAIN list : list[i].page = list[j].page => i = j
Marking(list, D) == \A i \in DOMAIN list : list[i].migrating <=> list[i].page \in D

\* The books are right when the pages in D migrate.
Books(w, D) ==
    /\ w \in Policy
    /\ \A k \in Places : /\ Distinct(w.lists[k]) /\ Marking(w.lists[k], D)
                         /\ PagesOf(w.lists[k]) = {p \in DOMAIN w.place : w.place[p] = k}
    /\ D \subseteq DOMAIN w.place

Typed ==
    /\ alloc \in Allocs /\ flags \in FlagSets
    /\ left \in Int /\ full \in BOOLEAN /\ frames \in Int /\ moves \in Nat
    /\ moving \in [DOMAIN moving -> BOOLEAN] /\ IsFiniteSet(DOMAIN moving)

Freeing == {p \in DOMAIN moving : moving[p]}

\* Until DRAM is full nothing has ever left it.
FirstFill ==
    alloc = "DRAM_FIRST" /\ ~full => Pcm = {} /\ moving = [p \in {} |-> FALSE] /\ left > 0

IInv ==
    /\ Typed
    /\ Books(policy, DOMAIN moving)
    /\ left = frames + Cardinality(Freeing) /\ frames >= 0
    /\ FirstFill

-----------------------------------------------------------------------------
(* Lists *)

LEMMA MinNat ==
    ASSUME NEW S \in SUBSET Nat, S # {}
    PROVE  \E x \in S : \A y \in S : x <= y
<1>1. PICK x \in S : \A y \in S : ~ (<<y, x>> \in OpToRel(<, Nat))
    BY NatLessThanWellFounded, WFMin
<1>2. ASSUME NEW y \in S, ~(x <= y) PROVE FALSE
    <2>1. <<y, x>> \in OpToRel(<, Nat)
        BY <1>2 DEF OpToRel
    <2> QED
        BY <1>1, <2>1
<1> QED
    BY <1>1, <1>2

\* The first entry that a test takes.
LEMMA FirstIs ==
    ASSUME NEW I \in SUBSET Nat, I # {}
    PROVE  Min(I) \in I /\ \A i \in I : Min(I) <= i
<1>1. \E x \in I : \A y \in I : x <= y
    BY MinNat
<1> QED
    BY <1>1 DEF Min

LEMMA IndexIs ==
    ASSUME NEW list \in Seq(ListEntry), NEW p
    PROVE  /\ p \in PagesOf(list) =>
                 /\ Index(list, p) \in DOMAIN list /\ Index(list, p) # 0
                 /\ list[Index(list, p)].page = p
           /\ p \notin PagesOf(list) => Index(list, p) = 0
<1> DEFINE I == {i \in 1 .. Len(list) : list[i].page = p}
<1>1. Index(list, p) = IF I # {} THEN Min(I) ELSE 0
    BY DEF Index, SelectInSeq
<1>2. I \in SUBSET Nat /\ DOMAIN list = 1 .. Len(list)
    OBVIOUS
<1>3. I # {} <=> p \in PagesOf(list)
    BY <1>2 DEF PagesOf
<1>4. I # {} => Min(I) \in I
    BY <1>2, FirstIs
<1>5. I # {} => Min(I) # 0
    BY <1>2, <1>4
<1> QED
    BY <1>1, <1>2, <1>3, <1>4, <1>5

\* An entry at a position is removed.
LEMMA Removing ==
    ASSUME NEW q \in Seq(ListEntry), NEW k \in DOMAIN q
    PROVE  /\ RemoveAt(q, k) \in Seq(ListEntry)
           /\ DOMAIN RemoveAt(q, k) = 1 .. (Len(q) - 1)
           /\ \A i \in 1 .. (Len(q) - 1) : RemoveAt(q, k)[i] = IF i < k THEN q[i] ELSE q[i + 1]
<1> DEFINE n == Len(q)
           a == SubSeq(q, 1, k - 1)
           b == SubSeq(q, k + 1, n)
           r == RemoveAt(q, k)
<1>1. n \in Nat /\ DOMAIN q = 1 .. n /\ k \in 1 .. n
    OBVIOUS
<1>2. a \in Seq(ListEntry) /\ Len(a) = k - 1 /\ \A i \in 1 .. (k - 1) : a[i] = q[i]
    BY <1>1, SubSeqProperties
<1>3. b \in Seq(ListEntry) /\ Len(b) = n - k /\ \A i \in 1 .. (n - k) : b[i] = q[k + i]
    <2>1. k + 1 \in 1 .. n + 1 /\ n \in k .. n /\ n - (k + 1) + 1 = n - k
        BY <1>1
    <2>2. /\ b \in Seq(ListEntry)
          /\ Len(b) = IF k + 1 <= n THEN n - (k + 1) + 1 ELSE 0
          /\ \A i \in 1 .. Len(b) : b[i] = q[(k + 1) + i - 1]
        BY <1>1, SubSeqProperties
    <2>3. Len(b) = n - k
        BY <1>1, <2>1, <2>2
    <2>4. \A i \in 1 .. (n - k) : (k + 1) + i - 1 = k + i
        BY <1>1
    <2> QED
        BY <2>2, <2>3, <2>4
<1>4. r = a \o b
    BY DEF RemoveAt
<1> HIDE DEF a, b, r, n
<1>5. /\ r \in Seq(ListEntry) /\ Len(r) = Len(a) + Len(b)
      /\ \A i \in 1 .. (Len(a) + Len(b)) : r[i] = IF i <= Len(a) THEN a[i] ELSE b[i - Len(a)]
    BY <1>2, <1>3, <1>4, ConcatProperties
<1>6. Len(r) = n - 1 /\ DOMAIN r = 1 .. (n - 1)
    BY <1>1, <1>2, <1>3, <1>5, LenProperties
<1>7. ASSUME NEW i \in 1 .. (n - 1)
      PROVE  r[i] = IF i < k THEN q[i] ELSE q[i + 1]
    <2>1. CASE i < k
        <3>1. i \in 1 .. (k - 1) /\ i <= Len(a) /\ i \in 1 .. (Len(a) + Len(b))
            BY <1>1, <1>2, <1>3, <2>1
        <3> QED
            BY <1>2, <1>5, <2>1, <3>1
    <2>2. CASE ~(i < k)
        <3>1. i - (k - 1) \in 1 .. (n - k) /\ ~(i <= Len(a)) /\ i \in 1 .. (Len(a) + Len(b))
            BY <1>1, <1>2, <1>3, <2>2
        <3>2. r[i] = b[i - (k - 1)]
            BY <1>2, <1>5, <3>1
        <3>3. k + (i - (k - 1)) = i + 1
            BY <1>1
        <3> QED
            BY <1>3, <2>2, <3>1, <3>2, <3>3
    <2> QED
        BY <2>1, <2>2
<1> QED
    BY <1>5, <1>6, <1>7 DEF n, r

\* A page leaves a list.
LEMMA OffIs ==
    ASSUME NEW q \in Seq(ListEntry), Distinct(q), NEW p \in PagesOf(q)
    PROVE  /\ Off(q, p) \in Seq(ListEntry) /\ Distinct(Off(q, p))
           /\ PagesOf(Off(q, p)) = PagesOf(q) \ {p}
           /\ \A D, E : Marking(q, D) /\ D \ {p} = E \ {p} => Marking(Off(q, p), E)
<1> DEFINE k == Index(q, p)
           r == Off(q, p)
           n == Len(q)
<1>1. k \in DOMAIN q /\ k # 0 /\ q[k].page = p /\ n \in Nat /\ DOMAIN q = 1 .. n
    BY IndexIs
<1>2. r = RemoveAt(q, k)
    BY <1>1 DEF Off
<1> HIDE DEF k, r, n
<1>3. /\ r \in Seq(ListEntry) /\ DOMAIN r = 1 .. (n - 1)
      /\ \A i \in 1 .. (n - 1) : r[i] = IF i < k THEN q[i] ELSE q[i + 1]
    BY <1>1, <1>2, Removing DEF n
<1> DEFINE From(i) == IF i < k THEN i ELSE i + 1
<1>4. \A i \in 1 .. (n - 1) : From(i) \in 1 .. n /\ From(i) # k /\ r[i] = q[From(i)]
    BY <1>1, <1>3
<1>5. \A i, j \in 1 .. (n - 1) : From(i) = From(j) => i = j
    BY <1>1
<1>6. \A m \in 1 .. n : m # k => \E i \in 1 .. (n - 1) : From(i) = m
    <2> SUFFICES ASSUME NEW m \in 1 .. n, m # k PROVE \E i \in 1 .. (n - 1) : From(i) = m
        OBVIOUS
    <2>1. CASE m < k
        <3>1. m \in 1 .. (n - 1) /\ From(m) = m
            BY <1>1, <2>1
        <3> QED
            BY <3>1
    <2>2. CASE ~(m < k)
        <3>1. m - 1 \in 1 .. (n - 1) /\ From(m - 1) = m
            BY <1>1, <2>2
        <3> QED
            BY <3>1
    <2> QED
        BY <2>1, <2>2
<1> HIDE DEF From
<1>7. \A m \in 1 .. n : q[m].page = p => m = k
    BY <1>1 DEF Distinct
<1>8. Distinct(r)
    BY <1>1, <1>3, <1>4, <1>5 DEF Distinct
<1>9. PagesOf(r) = PagesOf(q) \ {p}
    <2>1. \A x \in PagesOf(r) : x \in PagesOf(q) /\ x # p
        BY <1>1, <1>3, <1>4, <1>7 DEF PagesOf
    <2>2. \A x \in PagesOf(q) : x # p => x \in PagesOf(r)
        <3> SUFFICES ASSUME NEW m \in 1 .. n, q[m].page # p PROVE q[m].page \in PagesOf(r)
            BY <1>1 DEF PagesOf
        <3>1. PICK i \in 1 .. (n - 1) : From(i) = m
            BY <1>1, <1>6
        <3> QED
            BY <1>3, <1>4, <3>1 DEF PagesOf
    <2> QED
        BY <2>1, <2>2
<1>10. ASSUME NEW D, NEW E, Marking(q, D), D \ {p} = E \ {p} PROVE Marking(r, E)
    <2> SUFFICES ASSUME NEW i \in 1 .. (n - 1) PROVE r[i].migrating <=> r[i].page \in E
        BY <1>3 DEF Marking
    <2>1. From(i) \in 1 .. n /\ r[i] = q[From(i)] /\ q[From(i)].page # p
        BY <1>4, <1>7
    <2>2. q[From(i)].migrating <=> q[From(i)].page \in D
        BY <1>1, <1>10, <2>1 DEF Marking
    <2> QED
        BY <1>10, <2>1, <2>2
<1> QED
    BY <1>3, <1>8, <1>9, <1>10 DEF r

\* A page enters a list.
LEMMA AppendIs ==
    ASSUME NEW q \in Seq(ListEntry), Distinct(q), NEW e \in ListEntry, e.page \notin PagesOf(q)
    PROVE  /\ Append(q, e) \in Seq(ListEntry) /\ Distinct(Append(q, e))
           /\ PagesOf(Append(q, e)) = PagesOf(q) \cup {e.page}
           /\ \A D : Marking(q, D) /\ (e.migrating <=> e.page \in D) => Marking(Append(q, e), D)
<1> DEFINE r == Append(q, e)
           n == Len(q)
<1>1. /\ n \in Nat /\ DOMAIN q = 1 .. n
      /\ r \in Seq(ListEntry) /\ DOMAIN r = 1 .. (n + 1)
      /\ \A i \in 1 .. n : r[i] = q[i]
      /\ r[n + 1] = e
    BY AppendProperties
<1> HIDE DEF r, n
<1>2. \A i \in 1 .. (n + 1) : i \in 1 .. n \/ i = n + 1
    BY <1>1
<1>3. 1 .. n \subseteq 1 .. (n + 1) /\ n + 1 \in 1 .. (n + 1)
    BY <1>1
<1>4. \A i \in 1 .. n : q[i].page # e.page
    BY <1>1 DEF PagesOf
<1>5. Distinct(r)
    BY <1>1, <1>2, <1>4 DEF Distinct
<1>6. PagesOf(r) = PagesOf(q) \cup {e.page}
    <2>1. \A x \in PagesOf(r) : x \in PagesOf(q) \cup {e.page}
        BY <1>1, <1>2 DEF PagesOf
    <2>2. \A x \in PagesOf(q) \cup {e.page} : x \in PagesOf(r)
        BY <1>1, <1>3 DEF PagesOf
    <2> QED
        BY <2>1, <2>2
<1>7. \A D : Marking(q, D) /\ (e.migrating <=> e.page \in D) => Marking(r, D)
    BY <1>1, <1>2 DEF Marking
<1> QED
    BY <1>1, <1>5, <1>6, <1>7 DEF r

-----------------------------------------------------------------------------
(* Queues and counts *)

LEMMA PowerIs == \A n \in Nat : 2 ^ n \in Nat \ {0}
<1> SUFFICES ASSUME NEW n \in Nat PROVE 2 ^ n \in Nat \ {0}
    OBVIOUS
<1>1. IsFiniteSet(1 .. n) /\ Cardinality(1 .. n) = n
    BY FS_Interval
<1>2. IsFiniteSet(SUBSET (1 .. n)) /\ Cardinality(SUBSET (1 .. n)) = 2 ^ n
    BY <1>1, FS_SUBSET
<1>3. Cardinality(SUBSET (1 .. n)) \in Nat
    BY <1>2, FS_CardinalityType
<1>4. Cardinality(SUBSET (1 .. n)) # 0
    BY <1>2, FS_EmptySet
<1> QED
    BY <1>2, <1>3, <1>4

LEMMA QuotientIs == \A m \in Nat, n \in Nat \ {0} : m \div n \in Nat
    OBVIOUS

LEMMA QueuesAre ==
    /\ \A n \in Nat : QueueOf(n) \in Queues
    /\ \A q \in Queues : <<"DRAM", q>> \in Places /\ <<"PCM", q>> \in Places
    /\ Victims \in Places /\ History \in Places
    /\ Victims[1] = "DRAM" /\ History[1] = "PCM" /\ History # Victims
    /\ \A k \in Places : k[1] \in Types /\ (k[2] \in Queues \/ k[2] = -1 \/ k[2] = -2)
    /\ \A k \in Places : k = Victims \/ k = History \/ (k[2] \in Queues /\ k = <<k[1], k[2]>>)
<1>1. 0 \in Queues /\ -1 \notin Queues /\ -2 \notin Queues
    BY QueuesAssumption DEF Queues
<1>2. ASSUME NEW n \in Nat PROVE QueueOf(n) \in Queues
    <2> DEFINE fits == {q \in 0 .. NumQueues - 2 : n < Threshold(q)}
    <2>1. CASE fits = {}
        BY <1>1, <2>1 DEF QueueOf
    <2>2. CASE fits # {}
        <3>1. \E q \in fits : \A r \in fits : q <= r
            <4>1. fits \in SUBSET Nat
                BY QueuesAssumption
            <4> HIDE DEF fits
            <4> QED
                BY <2>2, <4>1, MinNat
        <3>2. QueueOf(n) = CHOOSE q \in fits : \A r \in fits : q <= r
            BY <2>2 DEF QueueOf
        <3>3. QueueOf(n) \in fits
            <4> HIDE DEF fits
            <4> QED
                BY <3>1, <3>2
        <3> QED
            BY <3>3, QueuesAssumption DEF Queues
    <2> QED
        BY <2>1, <2>2
<1>3. \A k \in Places : k \in Types \X Queues \/ k = Victims \/ k = History
    BY DEF Places
<1> QED
    BY <1>1, <1>2, <1>3 DEF Places, Types, Victims, History

LEMMA EntriesAre ==
    /\ \A e \in ListEntry : /\ e.page \in Pages /\ e.exp \in Nat /\ e.count \in Nat
                            /\ e.demoted \in BOOLEAN /\ e.migrating \in BOOLEAN
    BY DEF ListEntry

LEMMA AgedIs ==
    ASSUME NEW e, e.count \in Nat, e.exp \in Nat, NEW t \in Nat
    PROVE  Aged(e, t) \in Nat
<1>1. CASE t < e.exp
    BY <1>1 DEF Aged
<1>2. CASE ~(t < e.exp)
    <2>1. t - e.exp \in Nat /\ Lifetime \in Nat \ {0}
        BY <1>2, QueuesAssumption
    <2>2. (t - e.exp) \div Lifetime \in Nat
        BY <2>1, QuotientIs
    <2>3. 2 ^ ((t - e.exp) \div Lifetime) \in Nat \ {0}
        BY <2>2, PowerIs
    <2>4. Aged(e, t) = e.count \div (2 ^ ((t - e.exp) \div Lifetime))
        BY <1>2 DEF Aged
    <2> QED
        BY <2>3, <2>4, QuotientIs
<1> QED
    BY <1>1, <1>2

-----------------------------------------------------------------------------
(* The books *)

LEMMA PolicyIs ==
    ASSUME NEW w \in Policy
    PROVE  /\ w.place \in [DOMAIN w.place -> Places] /\ DOMAIN w.place \subseteq Pages
           /\ w.lists \in [Places -> Seq(ListEntry)] /\ w.time \in Nat /\ w.failed = ""
           /\ w = [place |-> w.place, lists |-> w.lists, time |-> w.time, failed |-> w.failed]
    BY DEF Policy

\* What time it is and when an entry made now expires.
LEMMA TimeIs ==
    ASSUME NEW w, NEW D, Books(w, D)
    PROVE  w.time \in Nat /\ w.time + Lifetime \in Nat /\ w.failed = ""
<1>1. w.time \in Nat /\ w.failed = ""
    BY PolicyIs DEF Books
<1>2. \A t \in Nat : t + Lifetime \in Nat
    BY QueuesAssumption
<1> QED
    BY <1>1, <1>2, Zenon

\* The entry of a page.
LEMMA EntryOfIs ==
    ASSUME NEW w, NEW D, Books(w, D), NEW p \in DOMAIN w.place
    PROVE  /\ p \in Pages /\ w.place[p] \in Places
           /\ p \in PagesOf(w.lists[w.place[p]])
           /\ EntryOf(w, p) \in ListEntry /\ EntryOf(w, p).page = p
           /\ EntryOf(w, p).migrating <=> p \in D
<1>1. w \in Policy
    BY DEF Books
<1>2. /\ p \in Pages /\ w.place[p] \in Places
      /\ w.lists[w.place[p]] \in Seq(ListEntry)
    BY <1>1, PolicyIs
<1> DEFINE list == w.lists[w.place[p]]
<1>3. p \in PagesOf(list) /\ Marking(list, D)
    BY <1>2 DEF Books
<1>4. EntryOf(w, p) = list[Index(list, p)]
    BY DEF EntryOf
<1> HIDE DEF list
<1>5. Index(list, p) \in DOMAIN list /\ list[Index(list, p)].page = p
    BY <1>2, <1>3, IndexIs DEF list
<1>6. list[Index(list, p)] \in ListEntry
    BY <1>2, <1>5, ElementOfSeq DEF list
<1> QED
    BY <1>2, <1>3, <1>4, <1>5, <1>6 DEF Marking, list

\* What is in a list is a page with this place.
LEMMA ListedIs ==
    ASSUME NEW w, NEW D, Books(w, D), NEW k \in Places, NEW i \in DOMAIN w.lists[k]
    PROVE  LET e == w.lists[k][i] IN
           /\ e \in ListEntry /\ e.page \in DOMAIN w.place /\ w.place[e.page] = k
           /\ e.migrating <=> e.page \in D
<1>1. w.lists[k] \in Seq(ListEntry)
    BY PolicyIs DEF Books
<1>2. w.lists[k][i] \in ListEntry
    BY <1>1, ElementOfSeq
<1>3. w.lists[k][i].page \in PagesOf(w.lists[k])
    BY DEF PagesOf
<1> QED
    BY <1>2, <1>3 DEF Books, Marking

\* A page gets another entry at the end of a list.
LEMMA MoveIs ==
    ASSUME NEW w, NEW D, Books(w, D), NEW p \in DOMAIN w.place, NEW k \in Places,
           NEW e \in ListEntry, e.page = p,
           NEW E, D \ {p} = E \ {p}, e.migrating <=> p \in E
    PROVE  /\ Books(Move(w, p, k, e), E)
           /\ Move(w, p, k, e).place = [w.place EXCEPT ![p] = k]
           /\ Move(w, p, k, e).time = w.time
<1> DEFINE v == Move(w, p, k, e)
           old == w.place[p]
           lists1 == [w.lists EXCEPT ![old] = Off(@, p)]
           lists2 == [lists1 EXCEPT ![k] = Append(@, e)]
<1>1. /\ w \in Policy
      /\ w.place \in [DOMAIN w.place -> Places] /\ DOMAIN w.place \subseteq Pages
      /\ w.lists \in [Places -> Seq(ListEntry)] /\ w.time \in Nat /\ w.failed = ""
      /\ w = [place |-> w.place, lists |-> w.lists, time |-> w.time, failed |-> w.failed]
    BY PolicyIs DEF Books
<1>2. /\ \A l \in Places : Distinct(w.lists[l]) /\ Marking(w.lists[l], D)
      /\ \A l \in Places : PagesOf(w.lists[l]) = {q \in DOMAIN w.place : w.place[q] = l}
      /\ D \subseteq DOMAIN w.place
    BY DEF Books
<1>3. old \in Places /\ w.lists[old] \in Seq(ListEntry) /\ p \in PagesOf(w.lists[old])
    BY <1>1, <1>2
<1>4. v = [place |-> [w.place EXCEPT ![p] = k], lists |-> lists2, time |-> w.time, failed |-> ""]
    <2>1. v = [w EXCEPT !.lists = lists2, !.place[p] = k]
        BY DEF Move
    <2> HIDE DEF v, lists2
    <2> QED
        BY <1>1, <2>1
<1> HIDE DEF v
<1>5. /\ Off(w.lists[old], p) \in Seq(ListEntry) /\ Distinct(Off(w.lists[old], p))
      /\ PagesOf(Off(w.lists[old], p)) = PagesOf(w.lists[old]) \ {p}
      /\ Marking(Off(w.lists[old], p), E)
    BY <1>2, <1>3, OffIs
<1>6. /\ lists1 \in [Places -> Seq(ListEntry)]
      /\ lists1[old] = Off(w.lists[old], p)
      /\ \A l \in Places : l # old => lists1[l] = w.lists[l]
    BY <1>1, <1>3, <1>5
<1> HIDE DEF lists1
<1>7. /\ \A l \in Places : Distinct(lists1[l])
      /\ \A l \in Places : PagesOf(lists1[l]) = {q \in DOMAIN w.place : w.place[q] = l} \ {p}
    <2>1. \A l \in Places : Distinct(lists1[l])
        BY <1>2, <1>5, <1>6
    <2>2. ASSUME NEW l \in Places PROVE PagesOf(lists1[l]) = {q \in DOMAIN w.place : w.place[q] = l} \ {p}
        <3>1. CASE l = old
            BY <1>2, <1>5, <1>6, <3>1
        <3>2. CASE l # old
            <4>1. p \notin {q \in DOMAIN w.place : w.place[q] = l}
                BY <3>2
            <4> QED
                BY <1>2, <1>6, <3>2, <4>1
        <3> QED
            BY <3>1, <3>2
    <2> QED
        BY <2>1, <2>2
<1>8. \A l \in Places : Marking(lists1[l], E)
    <2> SUFFICES ASSUME NEW l \in Places, l # old PROVE Marking(w.lists[l], E)
        BY <1>5, <1>6
    <2>1. p \notin PagesOf(w.lists[l])
        BY <1>2
    <2>2. \A i \in DOMAIN w.lists[l] : w.lists[l][i].page # p
        BY <2>1 DEF PagesOf
    <2> QED
        BY <1>2, <2>2 DEF Marking
<1>9. /\ Append(lists1[k], e) \in Seq(ListEntry) /\ Distinct(Append(lists1[k], e))
      /\ PagesOf(Append(lists1[k], e)) = PagesOf(lists1[k]) \cup {p}
      /\ Marking(Append(lists1[k], e), E)
    <2>1. lists1[k] \in Seq(ListEntry) /\ Distinct(lists1[k]) /\ p \notin PagesOf(lists1[k])
        BY <1>6, <1>7
    <2> QED
        BY <1>8, <2>1, AppendIs
<1>10. /\ lists2 \in [Places -> Seq(ListEntry)]
       /\ lists2[k] = Append(lists1[k], e)
       /\ \A l \in Places : l # k => lists2[l] = lists1[l]
    BY <1>6, <1>9
<1> HIDE DEF lists2
<1> DEFINE place2 == [w.place EXCEPT ![p] = k]
<1>11. /\ place2 \in [DOMAIN w.place -> Places] /\ DOMAIN place2 = DOMAIN w.place
       /\ place2[p] = k /\ \A q \in DOMAIN w.place : q # p => place2[q] = w.place[q]
    BY <1>1
<1>12. v = [place |-> place2, lists |-> lists2, time |-> w.time, failed |-> ""]
    BY <1>4
<1> HIDE DEF place2
<1>13. v \in Policy
    <2>1. DOMAIN w.place \in SUBSET Pages /\ place2 \in [DOMAIN w.place -> Places]
        BY <1>1, <1>11
    <2>2. place2 \in UNION {[S -> Places] : S \in SUBSET Pages}
        BY <2>1
    <2> QED
        BY <1>1, <1>10, <1>12, <2>2 DEF Policy
<1>14. \A l \in Places : Distinct(lists2[l]) /\ Marking(lists2[l], E)
    BY <1>7, <1>8, <1>9, <1>10
<1>15. \A l \in Places : PagesOf(lists2[l]) = {q \in DOMAIN place2 : place2[q] = l}
    <2> SUFFICES ASSUME NEW l \in Places
                 PROVE  PagesOf(lists2[l]) = {q \in DOMAIN place2 : place2[q] = l}
        OBVIOUS
    <2>1. \A q : q \in PagesOf(lists1[l]) <=> q \in DOMAIN w.place /\ w.place[q] = l /\ q # p
        BY <1>7
    <2>2. \A q : q \in PagesOf(lists2[l]) <=> q \in PagesOf(lists1[l]) \/ (q = p /\ l = k)
        BY <1>9, <1>10
    <2>3. \A q : q \in PagesOf(lists2[l]) <=> q \in DOMAIN place2 /\ place2[q] = l
        BY <1>11, <2>1, <2>2
    <2> QED
        BY <2>3
<1>16. E \subseteq DOMAIN place2
    BY <1>2, <1>11
<1>17. Books(v, E)
    BY <1>12, <1>13, <1>14, <1>15, <1>16 DEF Books
<1>18. v.place = place2 /\ v.time = w.time
    BY <1>12
<1> QED
    BY <1>17, <1>18 DEF v, place2

-----------------------------------------------------------------------------
(* Reports *)

\* The books are kept, and so is every page's memory.
Kept(w, v, D) ==
    /\ Books(v, D) /\ DOMAIN v.place = DOMAIN w.place /\ v.time = w.time
    /\ \A p \in DOMAIN w.place : v.place[p][1] = w.place[p][1]

LEMMA KeptIs ==
    ASSUME NEW w, NEW D, Books(w, D)
    PROVE  /\ Kept(w, w, D)
           /\ \A v, u : Kept(w, v, D) /\ Kept(v, u, D) => Kept(w, u, D)
    BY DEF Kept

\* A page stays in its memory.
LEMMA MoveKeeps ==
    ASSUME NEW w, NEW D, Books(w, D), NEW p \in DOMAIN w.place,
           NEW k \in Places, k[1] = w.place[p][1],
           NEW e \in ListEntry, e.page = p, e.migrating <=> p \in D
    PROVE  Kept(w, Move(w, p, k, e), D)
<1>1. D \ {p} = D \ {p}
    OBVIOUS
<1>2. /\ Books(Move(w, p, k, e), D)
      /\ Move(w, p, k, e).place = [w.place EXCEPT ![p] = k]
      /\ Move(w, p, k, e).time = w.time
    BY <1>1, MoveIs
<1> DEFINE v == Move(w, p, k, e)
<1> HIDE DEF v
<1>3. /\ DOMAIN v.place = DOMAIN w.place
      /\ \A q \in DOMAIN w.place : v.place[q] = IF q = p THEN k ELSE w.place[q]
    BY <1>2 DEF v
<1> QED
    BY <1>2, <1>3 DEF Kept, v

\* A reported page stays in its memory.
LEMMA CountKeeps ==
    ASSUME NEW w, NEW D, Books(w, D), NEW p \in DOMAIN w.place, NEW n \in Nat
    PROVE  Kept(w, Count(w, [page |-> p, reads |-> n]), D)
<1> DEFINE report == [page |-> p, reads |-> n]
           entry == EntryOf(w, p)
           queue == w.place[p][2]
           count == IF queue < 0 THEN Remembered(entry, queue, n, w.time) ELSE entry.count + n
           k == <<w.place[p][1], QueueOf(count)>>
           exp == w.time + Lifetime
           e == Entry(p, exp, count, FALSE, entry.migrating)
<1>1. Count(w, report) = Move(w, p, k, e)
    BY DEF Count
<1>2. /\ entry \in ListEntry /\ (entry.migrating <=> p \in D)
      /\ p \in Pages /\ w.place[p] \in Places
    BY EntryOfIs
<1>3. w.time \in Nat /\ exp \in Nat
    BY TimeIs
<1>4. /\ entry.count \in Nat /\ entry.exp \in Nat /\ entry.migrating \in BOOLEAN
      /\ entry.count + n \in Nat
    <2> HIDE DEF entry
    <2>1. entry.count \in Nat /\ entry.exp \in Nat /\ entry.migrating \in BOOLEAN
        BY <1>2, EntriesAre
    <2> QED
        BY <2>1
<1> HIDE DEF entry, queue
<1>5. count \in Nat
    <2>1. Remembered(entry, queue, n, w.time) \in Nat
        <3>1. CASE queue = -2 /\ ~flags.history
            BY <3>1 DEF Remembered
        <3>2. CASE ~(queue = -2 /\ ~flags.history) /\ flags.aging
            <4> DEFINE later == [entry EXCEPT !.count = @ + n]
            <4>1. later.count = entry.count + n /\ later.exp = entry.exp
                BY <1>2 DEF ListEntry
            <4>2. Remembered(entry, queue, n, w.time) = Aged(later, w.time)
                BY <3>2 DEF Remembered
            <4> HIDE DEF later
            <4> QED
                BY <1>3, <1>4, <4>1, <4>2, AgedIs
        <3>3. CASE ~(queue = -2 /\ ~flags.history) /\ ~flags.aging
            BY <1>4, <3>3 DEF Remembered
        <3> QED
            BY <3>1, <3>2, <3>3
    <2> QED
        BY <1>4, <2>1
<1> HIDE DEF count, exp
<1>6. k \in Places /\ k[1] = w.place[p][1]
    BY <1>2, <1>5, QueuesAre DEF Places
<1>7. e \in ListEntry /\ e.page = p /\ (e.migrating <=> p \in D)
    <2>1. e \in ListEntry /\ e.page = p /\ e.migrating = entry.migrating
        <3>1. p \in Pages /\ exp \in Nat /\ count \in Nat /\ entry.migrating \in BOOLEAN
            BY <1>2, <1>3, <1>4, <1>5
        <3> QED
            BY <3>1 DEF Entry, ListEntry
    <2> QED
        BY <1>2, <2>1
<1> HIDE DEF k, e
<1> QED
    BY <1>1, <1>2, <1>6, <1>7, MoveKeeps

\* A page that expires stays in its memory.
LEMMA ExpireKeeps ==
    ASSUME Configured, NEW w, NEW D, Books(w, D), NEW k \in Types \X Queues
    PROVE  Kept(w, Expire(w, k), D)
<1> DEFINE first == Head(w.lists[k])
           type == k[1]
           count == IF flags.aging THEN first.count \div 2 ELSE first.count
           out == k[2] = 0 \/ (flags.second /\ first.demoted)
           to == IF out THEN Aside(type) ELSE <<type, k[2] - 1>>
           exp == w.time + Lifetime
           e == Entry(first.page, exp, count, ~out, first.migrating)
<1>1. k \in Places /\ type \in Types /\ k[2] \in Queues /\ k = <<type, k[2]>>
    BY DEF Places
<1>2. /\ w.lists[k] \in Seq(ListEntry) /\ w.time \in Nat /\ exp \in Nat
      /\ w.failed = ""
    BY <1>1, TimeIs, PolicyIs DEF Books
<1>3. CASE w.lists[k] = <<>> \/ w.time <= first.exp
    <2>1. Expire(w, k) = w
        BY <1>3 DEF Expire
    <2> QED
        BY <2>1, KeptIs
<1>4. CASE w.lists[k] # <<>> /\ ~(w.time <= first.exp)
    <2>1. 1 \in DOMAIN w.lists[k] /\ first = w.lists[k][1]
        <3> DEFINE l == w.lists[k]
        <3> HIDE DEF l
        <3>1. l \in Seq(ListEntry) /\ l # <<>>
            BY <1>2, <1>4 DEF l
        <3>2. 1 \in DOMAIN l /\ Head(l) = l[1]
            BY <3>1
        <3> QED
            BY <3>2 DEF l
    <2>2. /\ first \in ListEntry /\ first.page \in DOMAIN w.place
          /\ w.place[first.page] = k /\ (first.migrating <=> first.page \in D)
        BY <1>1, <2>1, ListedIs
    <2>3. first.page \in Pages /\ HasPages(first.page[1])
        BY <2>2, EntriesAre DEF Configured
    <2>4. Expire(w, k) = Move(w, first.page, to, e)
        BY <1>2, <1>4, <2>3 DEF Expire
    <2> HIDE DEF first
    <2>5. first.count \in Nat /\ first.migrating \in BOOLEAN
        BY <2>2, EntriesAre
    <2>6. count \in Nat
        BY <2>5, QuotientIs
    <2>7. out \in BOOLEAN
        BY DEF out
    <2>8. to \in Places /\ to[1] = type
        <3>1. CASE out
            BY <1>1, <3>1, QueuesAre DEF Aside, Types
        <3>2. CASE ~out
            <4>1. k[2] - 1 \in Queues
                BY <1>1, <3>2, QueuesAssumption DEF Queues
            <4> QED
                BY <1>1, <3>2, <4>1 DEF Places
        <3> QED
            BY <3>1, <3>2
    <2> HIDE DEF count, out, to, exp
    <2>9. e \in ListEntry /\ e.page = first.page /\ (e.migrating <=> first.page \in D)
        <3>1. (~out) \in BOOLEAN
            BY <2>7
        <3> QED
            <4>1. e \in ListEntry /\ e.page = first.page /\ e.migrating = first.migrating
                <5>1. /\ first.page \in Pages /\ exp \in Nat /\ count \in Nat
                      /\ first.migrating \in BOOLEAN
                    BY <1>2, <2>3, <2>5, <2>6
                <5> QED
                    BY <3>1, <5>1 DEF Entry, ListEntry
            <4> QED
                BY <2>2, <4>1
    <2> HIDE DEF e
    <2>10. to[1] = w.place[first.page][1]
        BY <2>2, <2>8
    <2> QED
        BY <2>2, <2>4, <2>8, <2>9, <2>10, MoveKeeps
<1> QED
    BY <1>3, <1>4

LEMMA AllQueuesAre ==
    /\ Len(AllQueues) \in Nat
    /\ \A i \in 1 .. Len(AllQueues) : AllQueues[i] \in Types \X Queues
<1>1. NumQueues \in Nat /\ 2 * NumQueues \in Nat
    BY QueuesAssumption
<1>2. Len(AllQueues) = 2 * NumQueues
    BY <1>1 DEF AllQueues
<1>3. ASSUME NEW i \in 1 .. 2 * NumQueues PROVE AllQueues[i] \in Types \X Queues
    <2>1. CASE i <= NumQueues
        <3>1. AllQueues[i] = <<"DRAM", i - 1>> /\ i - 1 \in Queues
            BY <1>1, <2>1 DEF AllQueues, Queues
        <3> QED
            BY <3>1 DEF Types
    <2>2. CASE ~(i <= NumQueues)
        <3>1. AllQueues[i] = <<"PCM", i - NumQueues - 1>> /\ i - NumQueues - 1 \in Queues
            BY <1>1, <2>2 DEF AllQueues, Queues
        <3> QED
            BY <3>1 DEF Types
    <2> QED
        BY <2>1, <2>2
<1> QED
    BY <1>1, <1>2, <1>3

\* The queues are gone through one after the other: there is a function that does.
Through(n, w, report, f) ==
    [i \in 0 .. n |-> IF i = 0 THEN Count(w, report) ELSE Expire(f[i - 1], AllQueues[i])]

LEMMA ThroughExists ==
    ASSUME NEW w, NEW report, NEW N \in Nat
    PROVE  \E f : f = Through(N, w, report, f)
<1> DEFINE bad == {n \in 0 .. N : ~\E f : f = Through(n, w, report, f)}
<1>1. SUFFICES ASSUME bad # {} PROVE FALSE
    <2>1. N \in 0 .. N
        OBVIOUS
    <2> QED
        BY <2>1
<1>2. PICK n \in bad : \A m \in bad : n <= m
    <2>1. bad \in SUBSET Nat
        OBVIOUS
    <2> HIDE DEF bad
    <2> QED
        BY <1>1, <2>1, MinNat
<1>3. n \in 0 .. N /\ ~\E f : f = Through(n, w, report, f)
    OBVIOUS
<1>4. CASE n = 0
    <2> DEFINE f == [i \in 0 .. 0 |-> Count(w, report)]
    <2>1. f = Through(0, w, report, f)
        <3>1. \A i \in 0 .. 0 : i = 0
            OBVIOUS
        <3> QED
            BY <3>1 DEF Through
    <2> QED
        BY <1>3, <1>4, <2>1
<1>5. CASE n # 0
    <2> DEFINE m == n - 1
    <2>1. m \in 0 .. N /\ ~(n <= m) /\ n \in Nat /\ m \in Nat /\ n = m + 1
        BY <1>3, <1>5
    <2>2. \E f : f = Through(m, w, report, f)
        BY <1>2, <2>1
    <2>3. PICK f : f = Through(m, w, report, f)
        BY <2>2
    <2> DEFINE g == [i \in 0 .. n |-> IF i = n THEN Expire(f[m], AllQueues[n]) ELSE f[i]]
    <2> HIDE DEF m
    <2>4. ASSUME NEW i \in 0 .. n
          PROVE  g[i] = IF i = 0 THEN Count(w, report) ELSE Expire(g[i - 1], AllQueues[i])
        <3>1. i - 1 # n /\ (i # 0 => i - 1 \in 0 .. n)
            BY <2>1
        <3>2. CASE i = n
            <4>1. i # 0 /\ i - 1 = m
                BY <1>5, <2>1, <3>2
            <4>2. g[i] = Expire(f[m], AllQueues[i]) /\ g[i - 1] = f[m]
                BY <3>1, <3>2, <4>1
            <4> QED
                BY <4>1, <4>2
        <3>3. CASE i # n
            <4>1. i \in 0 .. m
                BY <2>1, <3>3
            <4>2. f[i] = IF i = 0 THEN Count(w, report) ELSE Expire(f[i - 1], AllQueues[i])
                BY <2>3, <4>1 DEF Through
            <4>3. g[i] = f[i] /\ (i # 0 => g[i - 1] = f[i - 1])
                BY <3>1, <3>3
            <4> QED
                BY <4>2, <4>3
        <3> QED
            BY <3>2, <3>3
    <2>5. g = [i \in 0 .. n |-> g[i]]
        OBVIOUS
    <2> HIDE DEF g
    <2>6. g = Through(n, w, report, g)
        BY <2>4, <2>5 DEF Through
    <2> QED
        BY <1>3, <2>6
<1> QED
    BY <1>4, <1>5

\* Whatever a report moves stays in its memory.
LEMMA ReportKeeps ==
    ASSUME Configured, NEW w, NEW D, Books(w, D), NEW p \in DOMAIN w.place, NEW n \in Nat
    PROVE  Kept(w, Report(w, [page |-> p, reads |-> n]), D)
<1> DEFINE report == [page |-> p, reads |-> n]
           N == Len(AllQueues)
<1>1. N \in Nat /\ \A i \in 1 .. N : AllQueues[i] \in Types \X Queues
    BY AllQueuesAre
<1>2. \E f : f = Through(N, w, report, f)
    BY <1>1, ThroughExists
<1> DEFINE after[i \in 0 .. Len(AllQueues)] ==
               IF i = 0 THEN Count(w, report) ELSE Expire(after[i - 1], AllQueues[i])
<1>3. after = Through(N, w, report, after)
    BY <1>2 DEF Through
<1>4. Report(w, report) = after[N]
    BY DEF Report
<1>5. Kept(w, Count(w, report), D)
    BY CountKeeps
<1> HIDE DEF after, report, N
<1>6. /\ after[0] = Count(w, report)
      /\ \A i \in 1 .. N : after[i] = Expire(after[i - 1], AllQueues[i])
    BY <1>1, <1>3 DEF Through
<1> DEFINE bad == {i \in 0 .. N : ~Kept(w, after[i], D)}
<1>7. ASSUME bad # {} PROVE FALSE
    <2>1. PICK i \in bad : \A j \in bad : i <= j
        <3>1. bad \in SUBSET Nat
            BY <1>1
        <3> HIDE DEF bad
        <3> QED
            BY <1>7, <3>1, MinNat
    <2>2. i # 0
        BY <1>5, <1>6
    <2>3. i \in 1 .. N /\ i - 1 \in 0 .. N /\ ~(i <= i - 1)
        BY <1>1, <2>2
    <2>4. Kept(w, after[i - 1], D)
        BY <2>1, <2>3
    <2>5. Books(after[i - 1], D) /\ AllQueues[i] \in Types \X Queues
        BY <1>1, <2>3, <2>4 DEF Kept
    <2>6. Kept(after[i - 1], after[i], D)
        BY <1>6, <2>3, <2>5, ExpireKeeps
    <2>7. Kept(w, after[i], D)
        BY <2>4, <2>6, KeptIs
    <2> QED
        BY <2>7
<1>8. Kept(w, after[N], D)
    <2>1. N \in 0 .. N
        BY <1>1
    <2> QED
        BY <1>7, <2>1
<1> QED
    BY <1>4, <1>8 DEF report

-----------------------------------------------------------------------------
(* Pages that come, and migrations that end *)

\* A page that is in no list is appended to one.
LEMMA AddIs ==
    ASSUME NEW w, NEW D, Books(w, D), NEW p \in Pages, p \notin DOMAIN w.place, NEW k \in Places,
           NEW e \in ListEntry, e.page = p, ~e.migrating
    PROVE  Books(Add(w, p, k, e), D) /\ Add(w, p, k, e).place = With(w.place, p, k)
<1> DEFINE place2 == With(w.place, p, k)
           lists2 == [w.lists EXCEPT ![k] = Append(@, e)]
           v == Add(w, p, k, e)
<1>1. /\ w \in Policy
      /\ w.place \in [DOMAIN w.place -> Places] /\ DOMAIN w.place \subseteq Pages
      /\ w.lists \in [Places -> Seq(ListEntry)] /\ w.time \in Nat /\ w.failed = ""
      /\ w = [place |-> w.place, lists |-> w.lists, time |-> w.time, failed |-> w.failed]
    BY PolicyIs DEF Books
<1>2. /\ \A l \in Places : Distinct(w.lists[l]) /\ Marking(w.lists[l], D)
      /\ \A l \in Places : PagesOf(w.lists[l]) = {q \in DOMAIN w.place : w.place[q] = l}
      /\ D \subseteq DOMAIN w.place
    BY DEF Books
<1>3. v = [place |-> place2, lists |-> lists2, time |-> w.time, failed |-> ""]
    <2>1. v = [w EXCEPT !.place = place2, !.lists = lists2]
        BY DEF Add
    <2> HIDE DEF v, place2, lists2
    <2> QED
        BY <1>1, <2>1
<1> HIDE DEF v
<1>4. /\ DOMAIN place2 = DOMAIN w.place \cup {p} /\ place2[p] = k
      /\ \A q \in DOMAIN w.place : q # p /\ place2[q] = w.place[q]
      /\ place2 \in [DOMAIN w.place \cup {p} -> Places]
    BY <1>1 DEF With
<1> HIDE DEF place2
<1>5. /\ Append(w.lists[k], e) \in Seq(ListEntry) /\ Distinct(Append(w.lists[k], e))
      /\ PagesOf(Append(w.lists[k], e)) = PagesOf(w.lists[k]) \cup {p}
      /\ Marking(Append(w.lists[k], e), D)
    <2>1. w.lists[k] \in Seq(ListEntry) /\ Distinct(w.lists[k]) /\ p \notin PagesOf(w.lists[k])
        BY <1>1, <1>2
    <2>2. e.migrating <=> e.page \in D
        BY <1>2
    <2> QED
        BY <1>2, <2>1, <2>2, AppendIs
<1>6. /\ lists2 \in [Places -> Seq(ListEntry)] /\ lists2[k] = Append(w.lists[k], e)
      /\ \A l \in Places : l # k => lists2[l] = w.lists[l]
    BY <1>1, <1>5
<1> HIDE DEF lists2
<1>7. v \in Policy
    <2>1. DOMAIN w.place \cup {p} \in SUBSET Pages
        BY <1>1
    <2>2. place2 \in UNION {[S -> Places] : S \in SUBSET Pages}
        BY <1>4, <2>1
    <2> QED
        BY <1>1, <1>3, <1>6, <2>2 DEF Policy
<1>8. \A l \in Places : Distinct(lists2[l]) /\ Marking(lists2[l], D)
    BY <1>2, <1>5, <1>6
<1>9. ASSUME NEW l \in Places PROVE PagesOf(lists2[l]) = {q \in DOMAIN place2 : place2[q] = l}
    <2>1. \A q : q \in PagesOf(w.lists[l]) <=> q \in DOMAIN w.place /\ w.place[q] = l
        BY <1>2
    <2>2. \A q : q \in PagesOf(lists2[l]) <=> q \in PagesOf(w.lists[l]) \/ (q = p /\ l = k)
        BY <1>5, <1>6
    <2>3. \A q : q \in PagesOf(lists2[l]) <=> q \in DOMAIN place2 /\ place2[q] = l
        BY <1>4, <2>1, <2>2
    <2> QED
        BY <2>3
<1>10. D \subseteq DOMAIN place2
    BY <1>2, <1>4
<1>11. Books(v, D) /\ v.place = place2
    <2>1. v.place = place2 /\ v.lists = lists2
        BY <1>3
    <2> QED
        BY <1>7, <1>8, <1>9, <1>10, <2>1 DEF Books
<1> QED
    BY <1>11 DEF v, place2

\* A page is no longer marked.
LEMMA SettleIs ==
    ASSUME NEW w, NEW D, Books(w, D), NEW p \in DOMAIN w.place
    PROVE  Books(Settle(w, p), D \ {p}) /\ Settle(w, p).place = w.place
<1> DEFINE k == w.place[p]
           list == w.lists[k]
           list2 == Settled(list, p)
           lists2 == [w.lists EXCEPT ![k] = list2]
           v == Settle(w, p)
<1>1. /\ w \in Policy
      /\ w.place \in [DOMAIN w.place -> Places] /\ DOMAIN w.place \subseteq Pages
      /\ w.lists \in [Places -> Seq(ListEntry)] /\ w.time \in Nat /\ w.failed = ""
      /\ w = [place |-> w.place, lists |-> w.lists, time |-> w.time, failed |-> w.failed]
    BY PolicyIs DEF Books
<1>2. /\ \A l \in Places : Distinct(w.lists[l]) /\ Marking(w.lists[l], D)
      /\ \A l \in Places : PagesOf(w.lists[l]) = {q \in DOMAIN w.place : w.place[q] = l}
      /\ D \subseteq DOMAIN w.place
    BY DEF Books
<1>3. k \in Places /\ list \in Seq(ListEntry) /\ Distinct(list) /\ Marking(list, D)
    BY <1>1, <1>2
<1>4. v = [place |-> w.place, lists |-> lists2, time |-> w.time, failed |-> ""]
    <2>1. v = [w EXCEPT !.lists = lists2]
        BY DEF Settle
    <2> HIDE DEF v, lists2
    <2> QED
        BY <1>1, <2>1
<1> HIDE DEF v, k, list
<1>5. /\ DOMAIN list2 = DOMAIN list /\ list2 \in Seq(ListEntry)
      /\ \A i \in DOMAIN list : list2[i].page = list[i].page
      /\ \A i \in DOMAIN list : list2[i].migrating = (list[i].migrating /\ list[i].page # p)
    <2>1. \A i \in DOMAIN list : list[i] \in ListEntry
        BY <1>3, ElementOfSeq
    <2>2. \A i \in DOMAIN list : list2[i] = [list[i] EXCEPT !.migrating = @ /\ list[i].page # p]
        BY DEF Settled
    <2>3. ASSUME NEW i \in DOMAIN list
          PROVE  /\ list2[i] \in ListEntry /\ list2[i].page = list[i].page
                 /\ list2[i].migrating = (list[i].migrating /\ list[i].page # p)
        <3> DEFINE was == list[i]
                   mark == was.migrating /\ was.page # p
        <3>1. was \in ListEntry /\ mark \in BOOLEAN
            BY <2>1
        <3>2. list2[i] = [was EXCEPT !.migrating = mark]
            BY <2>2
        <3> HIDE DEF was, mark
        <3>3. /\ list2[i] \in ListEntry /\ list2[i].page = was.page
              /\ list2[i].migrating = mark
            BY <3>1, <3>2 DEF ListEntry
        <3> QED
            BY <3>3 DEF was, mark
    <2>4. list2 = [i \in DOMAIN list |-> list2[i]]
        BY DEF Settled
    <2>5. DOMAIN list = 1 .. Len(list) /\ Len(list) \in Nat
        BY <1>3
    <2> HIDE DEF list2
    <2>6. list2 \in [1 .. Len(list) -> ListEntry]
        BY <2>3, <2>4, <2>5
    <2> QED
        BY <2>3, <2>4, <2>5, <2>6, SeqDef
<1> HIDE DEF list2
<1>6. /\ Distinct(list2) /\ Marking(list2, D \ {p}) /\ PagesOf(list2) = PagesOf(list)
    <2>0. DOMAIN list2 = DOMAIN list /\ \A i \in DOMAIN list : list2[i].page = list[i].page
        BY <1>5
    <2>1. Distinct(list2)
        <3>1. \A i, j \in DOMAIN list : list[i].page = list[j].page => i = j
            BY <1>3 DEF Distinct
        <3> QED
            BY <2>0, <3>1 DEF Distinct
    <2>2. Marking(list2, D \ {p})
        <3>1. \A i \in DOMAIN list : list[i].migrating <=> list[i].page \in D
            BY <1>3 DEF Marking
        <3>2. \A i \in DOMAIN list : list2[i].migrating <=> list[i].migrating /\ list[i].page # p
            BY <1>5
        <3>3. \A i \in DOMAIN list : list2[i].migrating <=> list2[i].page \in D \ {p}
            BY <2>0, <3>1, <3>2
        <3> QED
            BY <2>0, <3>3 DEF Marking
    <2>3. PagesOf(list2) = PagesOf(list)
        BY <2>0 DEF PagesOf
    <2> QED
        BY <2>1, <2>2, <2>3
<1>7. /\ lists2 \in [Places -> Seq(ListEntry)] /\ lists2[k] = list2
      /\ \A l \in Places : l # k => lists2[l] = w.lists[l]
    BY <1>1, <1>3, <1>5
<1> HIDE DEF lists2
<1>8. v \in Policy
    BY <1>1, <1>4, <1>7 DEF Policy
<1>9. ASSUME NEW l \in Places
      PROVE  /\ Distinct(lists2[l]) /\ Marking(lists2[l], D \ {p})
             /\ PagesOf(lists2[l]) = {q \in DOMAIN w.place : w.place[q] = l}
    <2>1. CASE l = k
        BY <1>2, <1>6, <1>7, <2>1 DEF list
    <2>2. CASE l # k
        <3>1. p \notin PagesOf(w.lists[l])
            BY <1>2, <2>2 DEF k
        <3>2. \A i \in DOMAIN w.lists[l] : w.lists[l][i].page # p
            BY <3>1 DEF PagesOf
        <3>3. Marking(w.lists[l], D \ {p})
            BY <1>2, <3>2 DEF Marking
        <3> QED
            BY <1>2, <1>7, <2>2, <3>3
    <2> QED
        BY <2>1, <2>2
<1>10. Books(v, D \ {p}) /\ v.place = w.place
    <2>1. v.place = w.place /\ v.lists = lists2
        BY <1>4
    <2> QED
        BY <1>2, <1>8, <1>9, <2>1 DEF Books
<1> QED
    BY <1>10 DEF v

-----------------------------------------------------------------------------
(* The pages of a memory *)

\* The pages stay in their memories.
LEMMA InSame ==
    ASSUME NEW f, NEW g, DOMAIN g = DOMAIN f, \A q \in DOMAIN f : g[q][1] = f[q][1], NEW type
    PROVE  In(type, g) = In(type, f)
    BY DEF In

\* A page comes.
LEMMA InWith ==
    ASSUME NEW f, NEW p, p \notin DOMAIN f, NEW k, NEW type
    PROVE  In(type, With(f, p, k)) = IF k[1] = type THEN In(type, f) \cup {p} ELSE In(type, f)
<1> DEFINE g == With(f, p, k)
<1>1. DOMAIN g = DOMAIN f \cup {p} /\ g[p] = k /\ \A q \in DOMAIN f : g[q] = f[q]
    BY DEF With
<1> HIDE DEF g
<1>2. \A q : q \in In(type, g) <=> q \in In(type, f) \/ (q = p /\ k[1] = type)
    BY <1>1 DEF In
<1>3. CASE k[1] = type
    <2>1. \A q : q \in In(type, g) <=> q \in In(type, f) \cup {p}
        BY <1>2, <1>3
    <2>2. In(type, g) = In(type, f) \cup {p}
        BY <2>1
    <2> QED
        BY <1>3, <2>2 DEF g
<1>4. CASE k[1] # type
    <2>1. \A q : q \in In(type, g) <=> q \in In(type, f)
        BY <1>2, <1>4
    <2>2. In(type, g) = In(type, f)
        BY <2>1
    <2> QED
        BY <1>4, <2>2 DEF g
<1> QED
    BY <1>3, <1>4

\* A page gets another place.
LEMMA InExcept ==
    ASSUME NEW f, NEW p, p \in DOMAIN f, NEW k, NEW type
    PROVE  In(type, [f EXCEPT ![p] = k]) = IF k[1] = type THEN In(type, f) \cup {p} ELSE In(type, f) \ {p}
<1> DEFINE g == [f EXCEPT ![p] = k]
<1>1. DOMAIN g = DOMAIN f /\ g[p] = k /\ \A q \in DOMAIN f : q # p => g[q] = f[q]
    OBVIOUS
<1> HIDE DEF g
<1>2. \A q : q \in In(type, g) <=> (q \in In(type, f) /\ q # p) \/ (q = p /\ k[1] = type)
    BY <1>1 DEF In
<1>3. CASE k[1] = type
    <2>1. \A q : q \in In(type, g) <=> q \in In(type, f) \cup {p}
        BY <1>2, <1>3
    <2>2. In(type, g) = In(type, f) \cup {p}
        BY <2>1
    <2> QED
        BY <1>3, <2>2 DEF g
<1>4. CASE k[1] # type
    <2>1. \A q : q \in In(type, g) <=> q \in In(type, f) \ {p}
        BY <1>2, <1>4
    <2>2. In(type, g) = In(type, f) \ {p}
        BY <2>1
    <2> QED
        BY <1>4, <2>2 DEF g
<1> QED
    BY <1>3, <1>4

\* What the invariant says of a page.
LEMMA PageIs ==
    ASSUME IInv, NEW p \in DOMAIN policy.place
    PROVE  /\ p \in Pages /\ policy.place[p] \in Places
           /\ (p \in Dram <=> policy.place[p][1] = "DRAM") /\ (p \in Pcm <=> policy.place[p][1] = "PCM")
<1>1. p \in Pages /\ policy.place[p] \in Places
    BY EntryOfIs DEF IInv
<1> QED
    BY <1>1 DEF Dram, Pcm, In

\* Of a page in moving, whether it frees its frame counts.
LEMMA FreeingFinite ==
    ASSUME Typed
    PROVE  IsFiniteSet(Freeing) /\ Cardinality(Freeing) \in Nat
<1>1. Freeing \subseteq DOMAIN moving
    BY DEF Freeing
<1> QED
    BY <1>1, FS_Subset, FS_CardinalityType DEF Typed

\* The manager knows of one more migration.
LEMMA MovingMore ==
    ASSUME Typed, NEW p, NEW frees \in BOOLEAN, moving' = With(moving, p, frees),
           p \in DOMAIN moving => ~moving[p]
    PROVE  /\ moving' \in [DOMAIN moving' -> BOOLEAN] /\ IsFiniteSet(DOMAIN moving')
           /\ DOMAIN moving' = DOMAIN moving \cup {p}
           /\ Cardinality(Freeing') = Cardinality(Freeing) + IF frees THEN 1 ELSE 0
<1>1. moving \in [DOMAIN moving -> BOOLEAN] /\ IsFiniteSet(DOMAIN moving)
    BY DEF Typed
<1>2. DOMAIN moving' = DOMAIN moving \cup {p} /\ moving' \in [DOMAIN moving' -> BOOLEAN]
    BY <1>1 DEF With
<1>3. IsFiniteSet(DOMAIN moving')
    BY <1>1, <1>2, FS_AddElement
<1>4. \A q \in DOMAIN moving' : moving'[q] <=> IF q = p THEN frees ELSE moving[q]
    BY <1>1 DEF With
<1>5. Freeing' = {q \in DOMAIN moving' : moving'[q]} /\ p \notin Freeing
    BY DEF Freeing
<1>6. CASE frees
    <2>1. Freeing' = Freeing \cup {p}
        BY <1>2, <1>4, <1>5, <1>6 DEF Freeing
    <2> QED
        BY <1>2, <1>3, <1>5, <1>6, <2>1, FreeingFinite, FS_AddElement
<1>7. CASE ~frees
    <2>1. Freeing' = Freeing
        BY <1>2, <1>4, <1>5, <1>7 DEF Freeing
    <2> QED
        BY <1>2, <1>3, <1>7, <2>1, FreeingFinite
<1> QED
    BY <1>6, <1>7

-----------------------------------------------------------------------------
(* The actions keep the invariant and do what a placement does *)

LEMMA AllocateKeeps ==
    ASSUME IInv, NEW p \in Pages, Allocate(p)
    PROVE  IInv' /\ (P!AllocateDram(p) \/ P!AllocatePcm(p))
<1> DEFINE place == IF TypeFor = "DRAM" THEN <<"DRAM", 0>> ELSE History
           exp == IF TypeFor = "DRAM" THEN policy.time + Lifetime ELSE 0
           e == Entry(p, exp, 0, FALSE, FALSE)
           n == IF TypeFor = "DRAM" THEN 1 ELSE 0
<1>1. TypeFor \in {"DRAM", "PCM"} /\ (TypeFor = "DRAM" <=> alloc = "DRAM_FIRST" /\ ~full)
    BY DEF TypeFor
<1>2. /\ Typed /\ Books(policy, DOMAIN moving) /\ left = frames + Cardinality(Freeing) /\ frames >= 0
      /\ FirstFill /\ left \in Int /\ frames \in Int
    BY DEF IInv, Typed
<1>3. TypeFor = "DRAM" => left > 0 /\ frames > 0 /\ Pcm = {} /\ moving = [q \in {} |-> FALSE]
    <2> SUFFICES ASSUME TypeFor = "DRAM"
                 PROVE  left > 0 /\ frames > 0 /\ Pcm = {} /\ moving = [q \in {} |-> FALSE]
        OBVIOUS
    <2>1. Pcm = {} /\ moving = [q \in {} |-> FALSE] /\ left > 0
        BY <1>1, <1>2 DEF FirstFill
    <2>2. Freeing = {}
        BY <2>1 DEF Freeing
    <2>3. Cardinality(Freeing) = 0
        BY <2>2, FS_EmptySet
    <2> QED
        BY <1>2, <2>1, <2>3
<1>4. policy' = Add(policy, p, place, e)
    BY <1>3 DEF Allocate
<1>5. /\ p \notin DOMAIN policy.place
      /\ left' = left - n /\ frames' = frames - n /\ full' = FullAfter(n)
      /\ UNCHANGED <<alloc, flags, moving, moves>>
    BY DEF Allocate
<1>6. place \in Places /\ place[1] = TypeFor
    <2>1. 0 \in Queues
        BY QueuesAssumption DEF Queues
    <2> QED
        BY <1>1, <2>1, QueuesAre DEF Types
<1>7. e \in ListEntry /\ e.page = p /\ ~e.migrating
    <2>1. exp \in Nat
        BY <1>2, TimeIs
    <2> HIDE DEF exp
    <2> QED
        BY <2>1 DEF Entry, ListEntry
<1> HIDE DEF e, place
<1>8. Books(policy', DOMAIN moving) /\ policy'.place = With(policy.place, p, place)
    BY <1>2, <1>4, <1>5, <1>6, <1>7, AddIs
<1>10. Books(policy', DOMAIN moving')
    BY <1>5, <1>8
<1>11. /\ Dram' = IF TypeFor = "DRAM" THEN Dram \cup {p} ELSE Dram
       /\ Pcm' = IF TypeFor = "DRAM" THEN Pcm ELSE Pcm \cup {p}
    <2>0. p \notin DOMAIN policy.place /\ policy'.place = With(policy.place, p, place)
        BY <1>5, <1>8
    <2>1. \A type : In(type, policy'.place) = IF place[1] = type THEN In(type, policy.place) \cup {p}
                                                                ELSE In(type, policy.place)
        BY <2>0, InWith
    <2>2. Dram' = In("DRAM", policy'.place) /\ Pcm' = In("PCM", policy'.place)
        BY DEF Dram, Pcm
    <2> QED
        BY <1>1, <1>6, <2>1, <2>2 DEF Dram, Pcm
<1>12. p \notin Dram \cup Pcm
    BY <1>5 DEF Dram, Pcm, In
<1>13. Freeing' = Freeing
    BY <1>5 DEF Freeing
<1>14. left' = frames' + Cardinality(Freeing') /\ frames' >= 0 /\ left' \in Int /\ frames' \in Int
    <2>1. Cardinality(Freeing) \in Int
        BY <1>2, FreeingFinite
    <2> QED
        BY <1>2, <1>3, <1>5, <1>13, <2>1
<1>15. Typed'
    BY <1>2, <1>5, <1>14 DEF Typed, FullAfter
<1>16. FirstFill'
    <2> SUFFICES ASSUME alloc' = "DRAM_FIRST", ~full'
                 PROVE  Pcm' = {} /\ moving' = [q \in {} |-> FALSE] /\ left' > 0
        BY DEF FirstFill
    <2>1. ~full /\ ~(n = 1 /\ left = 1)
        BY <1>5 DEF FullAfter
    <2>2. TypeFor = "DRAM" /\ left # 1
        BY <1>1, <1>5, <2>1
    <2> QED
        BY <1>2, <1>3, <1>5, <1>11, <2>2
<1>17. P!AllocateDram(p) \/ P!AllocatePcm(p)
    BY <1>1, <1>2, <1>3, <1>5, <1>11, <1>12 DEF P!AllocateDram, P!AllocatePcm
<1> QED
    BY <1>10, <1>14, <1>15, <1>16, <1>17 DEF IInv

\* A page goes to the other memory, and its entry is marked.
LEMMA GoingKeeps ==
    ASSUME IInv, NEW p \in DOMAIN policy.place, NEW k \in Places,
           NEW e \in ListEntry, e.page = p, e.migrating,
           policy' = Move(policy, p, k, e),
           NEW frees \in BOOLEAN, moving' = With(moving, p, frees), p \in DOMAIN moving => ~moving[p]
    PROVE  /\ Books(policy', DOMAIN moving') /\ policy'.place = [policy.place EXCEPT ![p] = k]
           /\ moving' \in [DOMAIN moving' -> BOOLEAN] /\ IsFiniteSet(DOMAIN moving')
           /\ Cardinality(Freeing') = Cardinality(Freeing) + IF frees THEN 1 ELSE 0
<1>1. Typed /\ Books(policy, DOMAIN moving)
    BY DEF IInv
<1>2. /\ moving' \in [DOMAIN moving' -> BOOLEAN] /\ IsFiniteSet(DOMAIN moving')
      /\ DOMAIN moving' = DOMAIN moving \cup {p}
      /\ Cardinality(Freeing') = Cardinality(Freeing) + IF frees THEN 1 ELSE 0
    BY <1>1, MovingMore
<1>3. DOMAIN moving \ {p} = DOMAIN moving' \ {p} /\ p \in DOMAIN moving'
    BY <1>2
<1>4. e.migrating <=> p \in DOMAIN moving'
    BY <1>3
<1>5. /\ Books(Move(policy, p, k, e), DOMAIN moving')
      /\ Move(policy, p, k, e).place = [policy.place EXCEPT ![p] = k]
    BY <1>1, <1>3, <1>4, MoveIs
<1> QED
    BY <1>2, <1>5

\* What the two memories are after that.
LEMMA GoingPlaces ==
    ASSUME NEW p \in DOMAIN policy.place, NEW k, policy'.place = [policy.place EXCEPT ![p] = k]
    PROVE  /\ Dram' = IF k[1] = "DRAM" THEN Dram \cup {p} ELSE Dram \ {p}
           /\ Pcm' = IF k[1] = "PCM" THEN Pcm \cup {p} ELSE Pcm \ {p}
<1> DEFINE f == policy.place
           g == [f EXCEPT ![p] = k]
<1>0. policy'.place = g /\ p \in DOMAIN f
    OBVIOUS
<1>1. \A type : In(type, g) = IF k[1] = type THEN In(type, f) \cup {p} ELSE In(type, f) \ {p}
    <2> HIDE DEF f
    <2> QED
        BY <1>0, InExcept
<1> HIDE DEF g
<1>2. Dram' = In("DRAM", g) /\ Pcm' = In("PCM", g)
    BY <1>0 DEF Dram, Pcm
<1> QED
    BY <1>1, <1>2 DEF Dram, Pcm

LEMMA MigrateKeeps ==
    ASSUME IInv, NEW p \in Pages, Migrate(p)
    PROVE  IInv' /\ P!Promote(p)
<1> DEFINE was == EntryOf(policy, p)
           k == <<"DRAM", QueueOf(was.count)>>
           e == [was EXCEPT !.migrating = TRUE]
<1>1. /\ Typed /\ Books(policy, DOMAIN moving) /\ left = frames + Cardinality(Freeing) /\ frames >= 0
      /\ FirstFill /\ left \in Int /\ frames \in Int /\ moves \in Nat /\ Cardinality(Freeing) \in Int
    BY FreeingFinite DEF IInv, Typed
<1>2. /\ p \in Pcm /\ p \notin DOMAIN moving /\ frames > 0 /\ left > 0
      /\ left' = left - 1 /\ frames' = frames - 1
      /\ moving' = With(moving, p, FALSE) /\ moves' = moves + 1
      /\ UNCHANGED <<alloc, flags, full, tries>>
    BY DEF Migrate
<1>3. p \in DOMAIN policy.place
    BY <1>2 DEF Pcm, In
<1>4. was \in ListEntry /\ was.page = p /\ ~was.migrating
    BY <1>1, <1>2, <1>3, EntryOfIs
<1>5. policy' = Move(policy, p, k, e)
    BY <1>4 DEF Migrate
<1> HIDE DEF was
<1>6. k \in Places /\ k[1] = "DRAM"
    <2>1. was.count \in Nat
        BY <1>4, EntriesAre
    <2> QED
        BY <2>1, QueuesAre
<1>7. e \in ListEntry /\ e.page = p /\ e.migrating
    BY <1>4 DEF ListEntry
<1> HIDE DEF k, e
<1>8. /\ Books(policy', DOMAIN moving') /\ policy'.place = [policy.place EXCEPT ![p] = k]
      /\ moving' \in [DOMAIN moving' -> BOOLEAN] /\ IsFiniteSet(DOMAIN moving')
      /\ Cardinality(Freeing') = Cardinality(Freeing) + IF FALSE THEN 1 ELSE 0
    BY <1>2, <1>3, <1>5, <1>6, <1>7, GoingKeeps
<1>9. Dram' = Dram \cup {p} /\ Pcm' = Pcm \ {p}
    <2>1. policy'.place = [policy.place EXCEPT ![p] = k]
        BY <1>8
    <2> QED
        BY <1>3, <1>6, <2>1, GoingPlaces
<1>10. left' = frames' + Cardinality(Freeing') /\ frames' >= 0 /\ left' \in Int /\ frames' \in Int
    BY <1>1, <1>2, <1>8
<1>11. Typed'
    <2>1. moves' \in Nat
        BY <1>1, <1>2
    <2> QED
        BY <1>1, <1>2, <1>8, <1>10, <2>1 DEF Typed
<1>12. FirstFill'
    <2>1. ~(alloc = "DRAM_FIRST" /\ ~full)
        BY <1>1, <1>2 DEF FirstFill
    <2> QED
        BY <1>2, <2>1 DEF FirstFill
<1>13. P!Promote(p)
    BY <1>2, <1>9 DEF P!Promote
<1> QED
    BY <1>8, <1>10, <1>11, <1>12, <1>13 DEF IInv

LEMMA DoneKeeps ==
    ASSUME IInv, NEW p \in Pages, Done(p)
    PROVE  IInv' /\ UNCHANGED <<Dram, Pcm, left>>
<1>1. /\ Typed /\ Books(policy, DOMAIN moving) /\ left = frames + Cardinality(Freeing) /\ frames >= 0
      /\ FirstFill /\ left \in Int /\ frames \in Int /\ moves \in Nat /\ Cardinality(Freeing) \in Int
      /\ moving \in [DOMAIN moving -> BOOLEAN] /\ IsFiniteSet(DOMAIN moving)
    BY FreeingFinite DEF IInv, Typed
<1>2. /\ p \in DOMAIN moving
      /\ moving' = [q \in DOMAIN moving \ {p} |-> moving[q]]
      /\ frames' = IF moving[p] THEN frames + 1 ELSE frames
      /\ UNCHANGED <<alloc, flags, left, full, tries, moves>>
    BY DEF Done
<1>3. p \in DOMAIN policy.place
    BY <1>1, <1>2 DEF Books
<1>4. policy' = Settle(policy, p)
    <2>1. EntryOf(policy, p).migrating
        BY <1>1, <1>2, <1>3, EntryOfIs
    <2> QED
        BY <2>1 DEF Done
<1>5. DOMAIN moving' = DOMAIN moving \ {p} /\ \A q \in DOMAIN moving' : moving'[q] = moving[q]
    BY <1>2
<1>6. Books(policy', DOMAIN moving') /\ policy'.place = policy.place
    <2>1. Books(Settle(policy, p), DOMAIN moving \ {p}) /\ Settle(policy, p).place = policy.place
        BY <1>1, <1>3, SettleIs
    <2>2. DOMAIN moving' = DOMAIN moving \ {p}
        BY <1>5
    <2> QED
        BY <1>4, <2>1, <2>2
<1>7. /\ moving' \in [DOMAIN moving' -> BOOLEAN]
      /\ IsFiniteSet(DOMAIN moving')
    <2>1. IsFiniteSet(DOMAIN moving')
        BY <1>1, <1>5, FS_RemoveElement
    <2>2. moving' \in [DOMAIN moving \ {p} -> BOOLEAN]
        BY <1>1, <1>2
    <2> QED
        BY <1>5, <2>1, <2>2
<1>8. Cardinality(Freeing') = IF moving[p] THEN Cardinality(Freeing) - 1 ELSE Cardinality(Freeing)
    <2>1. Freeing' = {q \in DOMAIN moving' : moving'[q]}
        BY DEF Freeing
    <2>2. CASE moving[p]
        <3>1. p \in Freeing /\ Freeing' = Freeing \ {p}
            BY <1>2, <1>5, <2>1, <2>2 DEF Freeing
        <3> QED
            BY <1>1, <2>2, <3>1, FreeingFinite, FS_RemoveElement
    <2>3. CASE ~moving[p]
        <3>1. Freeing' = Freeing
            BY <1>2, <1>5, <2>1, <2>3 DEF Freeing
        <3> QED
            BY <2>3, <3>1
    <2> QED
        BY <2>2, <2>3
<1>9. left' = frames' + Cardinality(Freeing') /\ frames' >= 0 /\ left' \in Int /\ frames' \in Int
    <2>1. CASE moving[p]
        BY <1>1, <1>2, <1>8, <2>1
    <2>2. CASE ~moving[p]
        BY <1>1, <1>2, <1>8, <2>2
    <2> QED
        BY <2>1, <2>2
<1>10. Typed'
    BY <1>1, <1>2, <1>7, <1>9 DEF Typed
<1>11. FirstFill'
    <2>1. moving # [q \in {} |-> FALSE]
        BY <1>2
    <2>2. ~(alloc = "DRAM_FIRST" /\ ~full)
        BY <1>1, <2>1 DEF FirstFill
    <2> QED
        BY <1>2, <2>2 DEF FirstFill
<1>12. UNCHANGED <<Dram, Pcm, left>>
    BY <1>2, <1>6 DEF Dram, Pcm
<1> QED
    BY <1>6, <1>9, <1>10, <1>11, <1>12 DEF IInv

\* The time goes on.
LEMMA LaterIs ==
    ASSUME NEW w, NEW D, Books(w, D), NEW step \in Nat
    PROVE  /\ Books([w EXCEPT !.time = @ + step], D)
           /\ [w EXCEPT !.time = @ + step].place = w.place
<1> DEFINE later == w.time + step
           v == [w EXCEPT !.time = @ + step]
<1>1. /\ w \in Policy
      /\ w.time \in Nat /\ w.failed = ""
      /\ w = [place |-> w.place, lists |-> w.lists, time |-> w.time, failed |-> w.failed]
    BY PolicyIs DEF Books
<1>2. later \in Nat
    <2>1. \A t \in Nat : t + step \in Nat
        OBVIOUS
    <2> QED
        BY <1>1, <2>1, Zenon
<1>3. v = [w EXCEPT !.time = later]
    OBVIOUS
<1> HIDE DEF later
<1>4. v = [place |-> w.place, lists |-> w.lists, time |-> later, failed |-> ""]
    <2> HIDE DEF v
    <2> QED
        BY <1>1, <1>3
<1> HIDE DEF v
<1>5. v.place = w.place /\ v.lists = w.lists
    BY <1>4
<1>6. v \in Policy
    BY <1>1, <1>2, <1>4 DEF Policy
<1>7. Books(v, D) /\ v.place = w.place
    BY <1>5, <1>6 DEF Books
<1> QED
    BY <1>7 DEF v

LEMMA MonitorKeeps ==
    ASSUME Configured, IInv, Monitor
    PROVE  IInv' /\ UNCHANGED <<Dram, Pcm, left>>
<1>1. /\ Typed /\ Books(policy, DOMAIN moving) /\ left = frames + Cardinality(Freeing) /\ frames >= 0
      /\ FirstFill
    BY DEF IInv
<1>2. UNCHANGED <<alloc, flags, left, full, tries, moving, frames, moves>>
    BY DEF Monitor
<1>3. PICK step \in Steps, p \in DOMAIN policy.place, q \in DOMAIN policy.place,
           n \in Counts, m \in Counts :
              LET first == Report([policy EXCEPT !.time = @ + step], [page |-> p, reads |-> n])
              IN policy' = IF p = q THEN first ELSE Report(first, [page |-> q, reads |-> m])
    BY DEF Monitor
<1> DEFINE D == DOMAIN moving
           now == [policy EXCEPT !.time = @ + step]
           first == Report(now, [page |-> p, reads |-> n])
           second == Report(first, [page |-> q, reads |-> m])
<1>4. step \in Nat /\ n \in Nat /\ m \in Nat
    BY MultiQueueAssumption
<1>5. policy' = first \/ policy' = second
    BY <1>3
<1>6. Books(now, D) /\ now.place = policy.place
    BY <1>1, <1>4, LaterIs
<1> HIDE DEF now, D
<1>7. Kept(now, first, D)
    <2>1. p \in DOMAIN now.place
        BY <1>6
    <2> QED
        BY <1>4, <1>6, <2>1, ReportKeeps
<1> HIDE DEF first
<1>8. Kept(now, second, D)
    <2>1. Books(first, D) /\ q \in DOMAIN first.place
        BY <1>6, <1>7 DEF Kept
    <2>2. Kept(first, second, D)
        BY <1>4, <2>1, ReportKeeps
    <2> HIDE DEF second
    <2> QED
        BY <1>6, <1>7, <2>2, KeptIs
<1> HIDE DEF second
<1>9. Kept(now, policy', D)
    BY <1>5, <1>7, <1>8
<1>10. /\ Books(policy', D) /\ DOMAIN policy'.place = DOMAIN policy.place
       /\ \A x \in DOMAIN policy.place : policy'.place[x][1] = policy.place[x][1]
    BY <1>6, <1>9 DEF Kept
<1>11. Books(policy', DOMAIN moving')
    BY <1>2, <1>10 DEF D
<1>12. UNCHANGED <<Dram, Pcm, left>>
    <2>1. \A type : In(type, policy'.place) = In(type, policy.place)
        <3> DEFINE f == policy.place
                   g == policy'.place
        <3>1. DOMAIN g = DOMAIN f /\ \A x \in DOMAIN f : g[x][1] = f[x][1]
            BY <1>10
        <3> HIDE DEF f, g
        <3>2. \A type : In(type, g) = In(type, f)
            BY <3>1, InSame
        <3> QED
            BY <3>2 DEF f, g
    <2> QED
        BY <1>2, <2>1 DEF Dram, Pcm
<1>13. Typed' /\ Freeing' = Freeing
    BY <1>1, <1>2 DEF Typed, Freeing
<1>14. FirstFill'
    BY <1>1, <1>2, <1>12 DEF FirstFill
<1> QED
    BY <1>1, <1>2, <1>11, <1>12, <1>13, <1>14 DEF IInv

\* A candidate for demotion is in the list.
LEMMA CandidateIs ==
    ASSUME NEW k, policy.lists[k] \in Seq(ListEntry), Candidate(k) # 0
    PROVE  Candidate(k) \in DOMAIN policy.lists[k]
<1> DEFINE list == policy.lists[k]
           I == {i \in 1 .. Len(list) : flags.rollback \/ ~list[i].migrating}
<1>1. Candidate(k) = IF I # {} THEN Min(I) ELSE 0
    BY DEF Candidate, SelectInSeq
<1>2. I # {} => Min(I) \in I
    <2>1. I \in SUBSET Nat
        OBVIOUS
    <2> HIDE DEF I
    <2> QED
        BY <2>1, FirstIs
<1>3. I \subseteq DOMAIN list
    OBVIOUS
<1> QED
    BY <1>1, <1>2, <1>3

LEMMA DemoteKeeps ==
    ASSUME Configured, IInv, Demote
    PROVE  IInv' /\ \E p \in Pages : P!Demote(p)
<1>1. /\ Typed /\ Books(policy, DOMAIN moving) /\ left = frames + Cardinality(Freeing) /\ frames >= 0
      /\ FirstFill /\ left \in Int /\ frames \in Int /\ moves \in Nat /\ Cardinality(Freeing) \in Int
    BY FreeingFinite DEF IInv, Typed
<1>2. /\ \A q \in DOMAIN moving : ~moving[q]
      /\ moves' = moves + 1 /\ MayDemote
      /\ UNCHANGED <<alloc, flags, full, frames>>
    BY DEF Demote
<1>3. PICK place \in DemotablePlaces : DemoteFrom(place)
    BY DEF Demote
<1>4. /\ place = Victims \/ place \in {"DRAM"} \X (0 .. ThresholdQueue - 1)
      /\ Candidate(place) # 0
    BY DEF DemotablePlaces
<1>5. place = Victims \/ (place[2] \in Queues /\ place = <<"DRAM", place[2]>>)
    BY <1>4, QueuesAssumption DEF Queues
<1>6. place \in Places /\ place[1] = "DRAM"
    <2>1. CASE place = Victims
        BY <2>1, QueuesAre
    <2>2. CASE place[2] \in Queues /\ place = <<"DRAM", place[2]>>
        <3>1. \A q \in Queues : <<"DRAM", q>> \in Places /\ <<"DRAM", q>>[1] = "DRAM"
            BY QueuesAre
        <3> QED
            BY <2>2, <3>1
    <2> QED
        BY <1>5, <2>1, <2>2
<1> DEFINE i == Candidate(place)
           was == policy.lists[place][i]
           p == was.page
           k == IF place = Victims THEN History ELSE <<"PCM", place[2]>>
           e == IF place = Victims THEN Entry(p, 1, was.exp, was.count # 0, TRUE)
                ELSE [was EXCEPT !.migrating = TRUE]
<1>7. i \in DOMAIN policy.lists[place]
    <2>1. policy.lists[place] \in Seq(ListEntry)
        BY <1>1, <1>6, PolicyIs DEF Books
    <2> QED
        BY <1>4, <2>1, CandidateIs
<1>8. was \in ListEntry /\ p \in DOMAIN policy.place /\ policy.place[p] = place
    BY <1>1, <1>6, <1>7, ListedIs
<1>9. p \in Pages /\ HasPages(p[1])
    BY <1>8, EntriesAre DEF Configured
<1>10. policy' = Move(policy, p, k, e) /\ left' = left + 1 /\ moving' = With(moving, p, TRUE)
    BY <1>3, <1>9 DEF DemoteFrom, Demoted
<1> HIDE DEF i, was
<1>11. k \in Places /\ k[1] = "PCM"
    BY <1>5, QueuesAre
<1>12. e \in ListEntry /\ e.page = p /\ e.migrating
    <2>1. was.exp \in Nat /\ was.count \in Nat
        BY <1>8, EntriesAre
    <2>2. CASE place = Victims
        <3> DEFINE demoted == was.count # 0
        <3>1. demoted \in BOOLEAN /\ 1 \in Nat
            OBVIOUS
        <3>2. e = Entry(p, 1, was.exp, demoted, TRUE)
            BY <2>2
        <3> HIDE DEF demoted, e
        <3> QED
            BY <1>9, <2>1, <3>1, <3>2 DEF Entry, ListEntry
    <2>3. CASE place # Victims
        <3>1. e = [was EXCEPT !.migrating = TRUE]
            BY <2>3
        <3> HIDE DEF e
        <3> QED
            BY <1>8, <3>1 DEF ListEntry
    <2> QED
        BY <2>2, <2>3
<1> HIDE DEF p, k, e
<1>13. /\ Books(policy', DOMAIN moving') /\ policy'.place = [policy.place EXCEPT ![p] = k]
       /\ moving' \in [DOMAIN moving' -> BOOLEAN] /\ IsFiniteSet(DOMAIN moving')
       /\ Cardinality(Freeing') = Cardinality(Freeing) + IF TRUE THEN 1 ELSE 0
    BY <1>2, <1>8, <1>10, <1>11, <1>12, GoingKeeps
<1>14. Dram' = Dram \ {p} /\ Pcm' = Pcm \cup {p}
    <2>1. policy'.place = [policy.place EXCEPT ![p] = k]
        BY <1>13
    <2> QED
        BY <1>8, <1>11, <2>1, GoingPlaces
<1>15. p \in Dram
    BY <1>6, <1>8 DEF Dram, In
<1>16. left' = frames' + Cardinality(Freeing') /\ frames' >= 0 /\ left' \in Int /\ frames' \in Int
    BY <1>1, <1>2, <1>10, <1>13
<1>17. Typed'
    <2>1. moves' \in Nat
        BY <1>1, <1>2
    <2> QED
        BY <1>1, <1>2, <1>13, <1>16, <2>1 DEF Typed
<1>18. FirstFill'
    BY <1>2 DEF FirstFill, MayDemote
<1>19. P!Demote(p)
    BY <1>2, <1>10, <1>14, <1>15 DEF P!Demote, MayDemote
<1> QED
    BY <1>9, <1>13, <1>16, <1>17, <1>18, <1>19 DEF IInv

LEMMA InitIsGood ==
    ASSUME Configured
    PROVE  Init => IInv /\ P!Init
<1> SUFFICES ASSUME Init PROVE IInv /\ P!Init
    OBVIOUS
<1>1. /\ alloc \in Allocs /\ flags \in FlagSets
      /\ left = DramPages /\ full = FALSE
      /\ moving = [p \in {} |-> FALSE] /\ frames = DramPages /\ moves = 0
    BY DEF Init
<1>2. /\ policy.place = [p \in {} |-> History] /\ policy.lists = [k \in Places |-> <<>>]
      /\ policy.time = 0 /\ policy.failed = ""
      /\ policy = [place |-> policy.place, lists |-> policy.lists, time |-> policy.time,
                   failed |-> policy.failed]
    BY DEF Init
<1>3. DOMAIN policy.place = {} /\ \A k \in Places : policy.lists[k] = <<>>
    BY <1>2
<1>4. policy \in Policy
    <2>1. policy.place \in [{} -> Places] /\ {} \in SUBSET Pages
        BY <1>2
    <2>2. policy.place \in UNION {[S -> Places] : S \in SUBSET Pages}
        BY <2>1
    <2>3. policy.lists \in [Places -> Seq(ListEntry)]
        <3>1. <<>> \in Seq(ListEntry)
            OBVIOUS
        <3>2. [k \in Places |-> <<>>] \in [Places -> Seq(ListEntry)]
            BY <3>1, Zenon
        <3> QED
            BY <1>2, <3>2
    <2>4. policy.time \in Nat
        <3>1. policy.time = 0
            BY <1>2
        <3> QED
            BY <3>1
    <2>5. policy.failed \in {""}
        BY <1>2
    <2>6. policy = [place |-> policy.place, lists |-> policy.lists, time |-> policy.time,
                    failed |-> policy.failed]
        BY <1>2, Zenon
    <2> QED
        BY <2>2, <2>3, <2>4, <2>5, <2>6 DEF Policy
<1>5. DOMAIN moving = {} /\ Freeing = {}
    BY <1>1 DEF Freeing
<1>6. Books(policy, DOMAIN moving)
    <2>1. ASSUME NEW k \in Places
          PROVE  /\ Distinct(policy.lists[k]) /\ Marking(policy.lists[k], {})
                 /\ PagesOf(policy.lists[k]) = {p \in DOMAIN policy.place : policy.place[p] = k}
        <3>1. policy.lists[k] = <<>> /\ DOMAIN <<>> = {}
            BY <1>3
        <3> QED
            BY <1>3, <3>1 DEF Distinct, Marking, PagesOf
    <2> QED
        BY <1>4, <1>5, <2>1 DEF Books
<1>7. IsFiniteSet({}) /\ Cardinality({}) = 0
    BY FS_EmptySet
<1>8. Dram = {} /\ Pcm = {}
    BY <1>3 DEF Dram, Pcm, In
<1>9. DramPages \in Nat
    BY MultiQueueAssumption
<1>10. Typed
    <2>1. moving \in [{} -> BOOLEAN]
        BY <1>1
    <2>2. left \in Int /\ frames \in Int /\ moves \in Nat
        BY <1>1, <1>9
    <2>3. full \in BOOLEAN
        BY <1>1, Zenon
    <2> QED
        BY <1>1, <1>5, <1>7, <2>1, <2>2, <2>3 DEF Typed
<1>11. FirstFill
    BY <1>1, <1>8 DEF FirstFill, Configured
<1>12. left = frames + Cardinality(Freeing) /\ frames >= 0
    BY <1>1, <1>5, <1>7, <1>9
<1> QED
    BY <1>1, <1>6, <1>8, <1>10, <1>11, <1>12 DEF IInv, P!Init

LEMMA NextKeeps ==
    ASSUME Configured
    PROVE  IInv /\ [Next]_vars => IInv' /\ [P!Next]_(P!vars)
<1> SUFFICES ASSUME IInv, [Next]_vars PROVE IInv' /\ [P!Next]_(P!vars)
    OBVIOUS
<1>1. ASSUME NEW p \in Pages, Allocate(p) PROVE IInv' /\ P!Next
    BY <1>1, AllocateKeeps DEF P!Next
<1>2. ASSUME NEW p \in Pages, Migrate(p) PROVE IInv' /\ P!Next
    BY <1>2, MigrateKeeps DEF P!Next
<1>3. ASSUME NEW p \in Pages, Done(p) PROVE IInv' /\ UNCHANGED P!vars
    BY <1>3, DoneKeeps DEF P!vars
<1>4. ASSUME Monitor PROVE IInv' /\ UNCHANGED P!vars
    BY <1>4, MonitorKeeps DEF P!vars
<1>5. ASSUME Demote PROVE IInv' /\ P!Next
    BY <1>5, DemoteKeeps DEF P!Next
<1>6. ASSUME UNCHANGED <<alloc, flags, policy, left, full, moving, frames, moves>>
      PROVE  IInv' /\ UNCHANGED P!vars
    <2>1. Dram' = Dram /\ Pcm' = Pcm /\ Freeing' = Freeing
        BY <1>6 DEF Dram, Pcm, Freeing
    <2>2. Typed' /\ FirstFill'
        BY <1>6, <2>1 DEF IInv, Typed, FirstFill
    <2>3. Books(policy', DOMAIN moving')
        BY <1>6 DEF IInv
    <2>4. left' = frames' + Cardinality(Freeing') /\ frames' >= 0
        BY <1>6, <2>1 DEF IInv
    <2> QED
        BY <1>6, <2>1, <2>2, <2>3, <2>4 DEF IInv, P!vars
<1>7. CASE DemoteNone
    BY <1>6, <1>7 DEF DemoteNone
<1>8. CASE UNCHANGED vars
    BY <1>6, <1>8 DEF vars
<1> QED
    BY <1>1, <1>2, <1>3, <1>4, <1>5, <1>7, <1>8 DEF Next

-----------------------------------------------------------------------------
(* The theorems *)

\* The policy's lists agree with the pages' places and with the migrations under way.
LEMMA InvariantSays ==
    ASSUME IInv
    PROVE  BooksAgree
<1>1. Books(policy, DOMAIN moving)
    BY DEF IInv
<1>2. policy.failed = ""
    BY <1>1, TimeIs
<1>3. \A p \in DOMAIN policy.place : EntryOf(policy, p).migrating <=> p \in DOMAIN moving
    BY <1>1, EntryOfIs
<1>4. \A p \in DOMAIN policy.place :
          \E i \in DOMAIN policy.lists[policy.place[p]] : policy.lists[policy.place[p]][i].page = p
    BY <1>1, EntryOfIs DEF PagesOf
<1>5. DOMAIN policy.lists = Places
    BY <1>1, PolicyIs DEF Books
<1>6. ASSUME NEW k \in Places, NEW i \in DOMAIN policy.lists[k]
      PROVE  LET p == policy.lists[k][i].page IN
             /\ p \in DOMAIN policy.place /\ policy.place[p] = k
             /\ \A j \in DOMAIN policy.lists[k] : policy.lists[k][j].page = p => i = j
    <2>1. policy.lists[k][i].page \in DOMAIN policy.place /\ policy.place[policy.lists[k][i].page] = k
        BY <1>1, ListedIs
    <2>2. Distinct(policy.lists[k])
        BY <1>1 DEF Books
    <2> QED
        BY <2>1, <2>2 DEF Distinct
<1>7. OncePlaced(policy.place, policy.lists)
    BY <1>4, <1>5, <1>6 DEF OncePlaced
<1>8. PlacesAgree
    BY <1>2, <1>3, <1>7 DEF PlacesAgree
<1>9. FramesAgree
    <2>1. Cardinality(Freeing) \in Nat
        BY FreeingFinite DEF IInv
    <2> QED
        BY <2>1 DEF IInv, Typed, FirstFill, FramesAgree, Freeing
<1> QED
    BY <1>8, <1>9 DEF BooksAgree

\* Whatever is promoted, demoted, rolled back and reported, every page is in one
\* list of its memory, its entry is marked exactly while it migrates, and the frames
\* the policy has left are the manager's (allocate, migrate, done, monitor and
\* selectDemotionPage in Migration.cpp).
THEOREM BooksKept ==
    ASSUME Configured
    PROVE  Spec => []BooksAgree
<1>1. Spec => []IInv
    BY InitIsGood, NextKeeps, PTL DEF Spec
<1> QED
    BY <1>1, InvariantSays, PTL

\* The multi-queue policy does what a placement may do: a page comes once, goes to
\* DRAM only when a frame is left, and leaves it only when few are (Migration.cpp).
THEOREM MultiQueueImplementsPlacement ==
    ASSUME Configured
    PROVE  Spec => ImplementsPlacement
<1>1. Init => IInv /\ P!Init
    BY InitIsGood
<1>2. IInv /\ [Next]_vars => IInv' /\ [P!Next]_(P!vars)
    BY NextKeeps
<1> QED
    BY <1>1, <1>2, PTL DEF Spec, ImplementsPlacement, P!Spec

-----------------------------------------------------------------------------
(* What Placement promises, for the places of MultiQueue *)

\* The frames given out and the ones left are the share.
SharesAgree ==
    /\ IsFiniteSet(Dram)
    /\ left = DramPages - Cardinality(Dram)
    /\ left \in Nat

\* No page is in both memories, and those in DRAM are no more than the share.
Placed ==
    /\ Dram \subseteq Pages /\ Pcm \subseteq Pages
    /\ Dram \cap Pcm = {}

LEMMA CardinalityAdded ==
    ASSUME NEW S, IsFiniteSet(S), NEW x, x \notin S
    PROVE  IsFiniteSet(S \cup {x}) /\ Cardinality(S \cup {x}) = Cardinality(S) + 1
BY FS_AddElement

LEMMA CardinalityRemoved ==
    ASSUME NEW S, IsFiniteSet(S), NEW x, x \in S
    PROVE  IsFiniteSet(S \ {x}) /\ Cardinality(S \ {x}) = Cardinality(S) - 1
BY FS_RemoveElement

\* A page comes to DRAM, allocated or promoted: a frame was left for it.
LEMMA Enters ==
    ASSUME DramPages \in Nat, SharesAgree, NEW p, p \notin Dram, left > 0,
           Dram' = Dram \cup {p}, left' = left - 1
    PROVE  SharesAgree'
<1>1. IsFiniteSet(Dram') /\ Cardinality(Dram') = Cardinality(Dram) + 1
    BY CardinalityAdded DEF SharesAgree
<1>2. Cardinality(Dram) \in Nat
    BY FS_CardinalityType DEF SharesAgree
<1> QED
    BY <1>1, <1>2 DEF SharesAgree

\* A page leaves DRAM: its frame is left for another.
LEMMA Leaves ==
    ASSUME DramPages \in Nat, SharesAgree, NEW p, p \in Dram, Dram' = Dram \ {p}, left' = left + 1
    PROVE  SharesAgree'
<1>1. IsFiniteSet(Dram') /\ Cardinality(Dram') = Cardinality(Dram) - 1
    BY CardinalityRemoved DEF SharesAgree
<1>2. Cardinality(Dram) \in Nat
    BY FS_CardinalityType DEF SharesAgree
<1> QED
    BY <1>1, <1>2 DEF SharesAgree

LEMMA InitIsPlaced ==
    ASSUME DramPages \in Nat
    PROVE  P!Init => Placed /\ SharesAgree
<1>1. IsFiniteSet({}) /\ Cardinality({}) = 0
    BY FS_EmptySet
<1> QED
    BY <1>1 DEF P!Init, Placed, SharesAgree

LEMMA NextKeepsPlaced ==
    ASSUME DramPages \in Nat
    PROVE  Placed /\ SharesAgree /\ [P!Next]_(P!vars) => (Placed /\ SharesAgree)'
<1> SUFFICES ASSUME Placed /\ SharesAgree, [P!Next]_(P!vars) PROVE (Placed /\ SharesAgree)'
    OBVIOUS
<1>1. ASSUME NEW p \in Pages, P!AllocateDram(p) PROVE (Placed /\ SharesAgree)'
    <2>1. SharesAgree'
        BY <1>1, Enters DEF P!AllocateDram
    <2> QED
        BY <1>1, <2>1 DEF P!AllocateDram, Placed
<1>2. ASSUME NEW p \in Pages, P!AllocatePcm(p) PROVE (Placed /\ SharesAgree)'
    BY <1>2 DEF P!AllocatePcm, Placed, SharesAgree
<1>3. ASSUME NEW p \in Pages, P!Promote(p) PROVE (Placed /\ SharesAgree)'
    <2>1. SharesAgree'
        BY <1>3, Enters DEF P!Promote, Placed
    <2> QED
        BY <1>3, <2>1 DEF P!Promote, Placed
<1>4. ASSUME NEW p \in Pages, P!Demote(p) PROVE (Placed /\ SharesAgree)'
    <2>1. SharesAgree'
        BY <1>4, Leaves DEF P!Demote
    <2> QED
        BY <1>4, <2>1 DEF P!Demote, Placed
<1>5. CASE UNCHANGED P!vars
    BY <1>5 DEF P!vars, Placed, SharesAgree
<1> QED
    BY <1>1, <1>2, <1>3, <1>4, <1>5 DEF P!Next

\* However pages are allocated, promoted and demoted, each is in one memory, and
\* the frames of DRAM given out and left are the policy's share (dramPagesLeft in
\* Migration.cpp).
THEOREM PlacementKept ==
    ASSUME DramPages \in Nat
    PROVE  P!Spec => [](Placed /\ SharesAgree)
    BY InitIsPlaced, NextKeepsPlaced, PTL DEF P!Spec

\* So no page is in both memories, and the policy gives out exactly its share of
\* DRAM, however pages are promoted, demoted and rolled back (dramPagesLeft in
\* Migration.cpp).
THEOREM ShareKept ==
    ASSUME Configured
    PROVE  Spec => [](Placed /\ SharesAgree)
<1>1. Spec => P!Spec
    BY MultiQueueImplementsPlacement DEF ImplementsPlacement
<1>2. P!Spec => [](Placed /\ SharesAgree)
    BY MultiQueueAssumption, PlacementKept
<1> QED
    BY <1>1, <1>2, PTL
=============================================================================
