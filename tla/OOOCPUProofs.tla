---------------------------- MODULE OOOCPUProofs ----------------------------
(***************************************************************************)
(* Proofs about OOOCPU, for any trace, buffer, pages and quotas.  The      *)
(* parts of the PROCESS event are functions of a state of the core (a      *)
(* world).  First: no request for a page is stalled while the page is      *)
(* flushed; each part keeps Good, in which a drain counts exactly the      *)
(* stalled requests of its page and has an event once none is left.  Then: *)
(* every answer is waited for once, and the assertions hold; each part     *)
(* keeps Fine, in which a request that is sent, paused, still to be sent   *)
(* (X) or just answered (Y) is in one of those places, and the counts of   *)
(* its entry and the queue of loads say so.                                *)
(***************************************************************************)
EXTENDS OOOCPU, TLAPS, SequenceTheorems, FiniteSetTheorems, WellFoundedInduction

-----------------------------------------------------------------------------
(* Loops *)

LEMMA MinNat ==
    ASSUME NEW S \in SUBSET Nat, S # {}
    PROVE  \E x \in S : \A y \in S : x <= y
<1>1. PICK x \in S : \A y \in S : ~ (<<y, x>> \in OpToRel(<, Nat))
  BY NatLessThanWellFounded, WFMin
<1>2. ASSUME NEW y \in S, ~(x <= y) PROVE FALSE
  <2>1. <<y, x>> \in OpToRel(<, Nat)
    BY <1>2 DEF OpToRel
  <2> QED
    BY <1>1, <2>1
<1> QED
  BY <1>1, <1>2

\* What the steps of a loop lead to, one after the other.
LEMMA StepsReach ==
    ASSUME NEW N \in Nat, NEW T, NEW g, g[0] \in T[0],
           \A n \in 1 .. N : g[n - 1] \in T[n - 1] => g[n] \in T[n]
    PROVE  \A n \in 0 .. N : g[n] \in T[n]
<1> DEFINE bad == {n \in 0 .. N : g[n] \notin T[n]}
<1>1. SUFFICES ASSUME bad # {} PROVE FALSE
  OBVIOUS
<1>2. PICK n \in bad : \A m \in bad : n <= m
  <2>1. bad \in SUBSET Nat
    OBVIOUS
  <2> HIDE DEF bad
  <2> QED
    BY <1>1, <2>1, MinNat
<1>3. n # 0 /\ n \in 1 .. N /\ n - 1 \in 0 .. N /\ ~(n <= n - 1)
  OBVIOUS
<1>4. g[n - 1] \in T[n - 1]
  BY <1>2, <1>3
<1> QED
  BY <1>3, <1>4

\* A loop is a function of how far it has come.
Going(N, w, f, g) == [n \in 0 .. N |-> IF n = 0 THEN w ELSE f[<<n, g[n - 1]>>]]

LEMMA GoingExists ==
    ASSUME NEW N \in Nat, NEW w, NEW f
    PROVE  \E g : g = Going(N, w, f, g)
<1> DEFINE bad == {n \in 0 .. N : ~\E g : g = Going(n, w, f, g)}
<1>1. SUFFICES ASSUME bad # {} PROVE FALSE
  <2>1. N \in 0 .. N
    OBVIOUS
  <2> QED
    BY <2>1
<1>2. PICK n \in bad : \A m \in bad : n <= m
  <2>1. bad \in SUBSET Nat
    OBVIOUS
  <2> HIDE DEF bad
  <2> QED
    BY <1>1, <2>1, MinNat
<1>3. n \in 0 .. N /\ ~\E g : g = Going(n, w, f, g)
  OBVIOUS
<1>4. CASE n = 0
  <2> DEFINE g == [i \in 0 .. 0 |-> w]
  <2>1. g = Going(0, w, f, g)
    <3>1. \A i \in 0 .. 0 : i = 0
      OBVIOUS
    <3> QED
      BY <3>1 DEF Going
  <2> QED
    BY <1>3, <1>4, <2>1
<1>5. CASE n # 0
  <2> DEFINE m == n - 1
  <2>1. m \in 0 .. N /\ ~(n <= m) /\ n \in Nat /\ m \in Nat /\ n = m + 1
    BY <1>3, <1>5
  <2>2. \E g : g = Going(m, w, f, g)
    BY <1>2, <2>1
  <2>3. PICK h : h = Going(m, w, f, h)
    BY <2>2
  <2> DEFINE g == [i \in 0 .. n |-> IF i = n THEN f[<<n, h[m]>>] ELSE h[i]]
  <2> HIDE DEF m
  <2>4. ASSUME NEW i \in 0 .. n
        PROVE  g[i] = IF i = 0 THEN w ELSE f[<<i, g[i - 1]>>]
    <3>1. i - 1 # n /\ (i # 0 => i - 1 \in 0 .. n)
      BY <2>1
    <3>2. CASE i = n
      <4>1. i # 0 /\ i - 1 = m
        BY <1>5, <2>1, <3>2
      <4>2. g[i] = f[<<i, h[m]>>] /\ g[i - 1] = h[m]
        BY <3>1, <3>2, <4>1
      <4> QED
        BY <4>1, <4>2
    <3>3. CASE i # n
      <4>1. i \in 0 .. m
        BY <2>1, <3>3
      <4>2. h[i] = IF i = 0 THEN w ELSE f[<<i, h[i - 1]>>]
        BY <2>3, <4>1 DEF Going
      <4>3. g[i] = h[i] /\ (i # 0 => g[i - 1] = h[i - 1])
        BY <3>1, <3>3
      <4> QED
        BY <4>2, <4>3
    <3> QED
      BY <3>2, <3>3
  <2>5. g = [i \in 0 .. n |-> g[i]]
    OBVIOUS
  <2> HIDE DEF g
  <2>6. g = Going(n, w, f, g)
    BY <2>4, <2>5 DEF Going
  <2> QED
    BY <1>3, <2>6
<1> QED
  BY <1>4, <1>5

LEMMA GoingReaches ==
    ASSUME NEW N \in Nat, NEW T, NEW w \in T[0], NEW f,
           \A n \in 1 .. N : \A s \in T[n - 1] : f[<<n, s>>] \in T[n]
    PROVE  \E g : g = Going(N, w, f, g) /\ \A n \in 1 .. N : g[n - 1] \in T[n - 1]
<1>1. PICK g : g = Going(N, w, f, g)
  BY GoingExists
<1>2. g[0] = w /\ \A n \in 1 .. N : g[n] = f[<<n, g[n - 1]>>]
  BY <1>1 DEF Going
<1>3. \A n \in 0 .. N : g[n] \in T[n]
  BY <1>2, StepsReach
<1> QED
  BY <1>1, <1>3

-----------------------------------------------------------------------------
(* The core in the middle of an event *)

Reqs == {r \in [kind : CacheNames, g : DOMAIN Trace, i : Nat] : r.i \in DOMAIN Requests(r.kind, r.g)}

RobEntries ==
    [g : 0 .. Len(Trace), instrPause : SUBSET Nat, dataPause : SUBSET Nat, instrLeft : Int,
     dataLeft : Int, state : States]

Slots ==
    [scheduled : BOOLEAN, resumed : BOOLEAN, unstall : [CacheNames -> BOOLEAN],
     instr : Seq(Reqs), data : Seq(Reqs)]

Counts == [process : Nat, drain : Nat]
Drains == UNION {[D -> Int] : D \in SUBSET Pages}

Failures == {"", "resume", "drain", "processInstr", "processData", "commit", "scheduled",
             "lsq", "noDrain", "drainTwice"}

Cores ==
    [rob : [Entries -> RobEntries], head : Entries, tail : Entries, full : BOOLEAN,
     fetchEntry : Seq(Entries), read : 0 .. Len(Trace), lsq : SUBSET Reqs,
     instrPausers : Seq(Entries), dataPausers : Seq(Entries), stalled : [CacheNames -> Seq(Reqs)],
     drains : Drains, slots : [{0, 1} -> Slots], now : Counts, next : Counts,
     quota : [CacheNames -> Nat], commits : Nat, finished : Nat, failed : Failures]

Caches == [reads : SUBSET Reqs, unstall : SUBSET CacheNames]
Worlds == [cpu : Cores, atCache : Caches, waiting : SUBSET Pages]

\* What a step of an event may leave as it is.
DrainEvents(w) == w.cpu.now.drain + w.cpu.next.drain
Queues(w) == <<w.cpu.stalled, w.cpu.drains, DrainEvents(w)>>
Lists(w) == <<w.cpu.instrPausers, w.cpu.dataPausers>>
Ring(w) == <<w.cpu.head, w.cpu.tail, w.cpu.full, w.cpu.read>>
Buffer(w) == w.cpu.rob
Answers(w) == <<w.cpu.lsq, w.cpu.slots, w.atCache>>
Turn(w) == <<w.cpu.fetchEntry, w.cpu.failed>>
Clock(w) == <<w.cpu.now, w.cpu.next>>

USE DEF Worlds, Cores, Queues, DrainEvents, Lists, Ring, Buffer, Answers, Turn, Clock

WithStalled(w, k, v) == [w EXCEPT !.cpu.stalled[k] = v]

LEMMA SetStalled ==
    ASSUME NEW w \in Worlds, NEW k \in CacheNames, NEW v \in Seq(Reqs)
    PROVE  LET z == WithStalled(w, k, v) IN
           /\ z \in Worlds
           /\ Lists(z) = Lists(w) /\ Ring(z) = Ring(w) /\ Buffer(z) = Buffer(w)
           /\ Answers(z) = Answers(w) /\ Turn(z) = Turn(w) /\ Clock(z) = Clock(w)
           /\ z.cpu.stalled = [w.cpu.stalled EXCEPT ![k] = v]
           /\ z.cpu.drains = w.cpu.drains
    BY DEF WithStalled

LEMMA SetDrains ==
    ASSUME NEW w \in Worlds, NEW v \in Drains
    PROVE  LET z == [w EXCEPT !.cpu.drains = v] IN
           /\ z \in Worlds
           /\ Lists(z) = Lists(w) /\ Ring(z) = Ring(w) /\ Buffer(z) = Buffer(w)
           /\ Answers(z) = Answers(w) /\ Turn(z) = Turn(w) /\ Clock(z) = Clock(w)
           /\ z.cpu.drains = v
           /\ z.cpu.stalled = w.cpu.stalled
    OBVIOUS

LEMMA SetInstrPausers ==
    ASSUME NEW w \in Worlds, NEW v \in Seq(Entries)
    PROVE  LET z == [w EXCEPT !.cpu.instrPausers = v] IN
           /\ z \in Worlds
           /\ Queues(z) = Queues(w) /\ Ring(z) = Ring(w) /\ Buffer(z) = Buffer(w)
           /\ Answers(z) = Answers(w) /\ Turn(z) = Turn(w) /\ Clock(z) = Clock(w)
           /\ z.cpu.instrPausers = v
           /\ z.cpu.dataPausers = w.cpu.dataPausers
    OBVIOUS

LEMMA SetDataPausers ==
    ASSUME NEW w \in Worlds, NEW v \in Seq(Entries)
    PROVE  LET z == [w EXCEPT !.cpu.dataPausers = v] IN
           /\ z \in Worlds
           /\ Queues(z) = Queues(w) /\ Ring(z) = Ring(w) /\ Buffer(z) = Buffer(w)
           /\ Answers(z) = Answers(w) /\ Turn(z) = Turn(w) /\ Clock(z) = Clock(w)
           /\ z.cpu.dataPausers = v
           /\ z.cpu.instrPausers = w.cpu.instrPausers
    OBVIOUS

LEMMA SetHead ==
    ASSUME NEW w \in Worlds, NEW v \in Entries
    PROVE  LET z == [w EXCEPT !.cpu.head = v] IN
           /\ z \in Worlds
           /\ Queues(z) = Queues(w) /\ Lists(z) = Lists(w) /\ Buffer(z) = Buffer(w)
           /\ Answers(z) = Answers(w) /\ Turn(z) = Turn(w) /\ Clock(z) = Clock(w)
           /\ z.cpu.head = v
           /\ z.cpu.tail = w.cpu.tail /\ z.cpu.full = w.cpu.full /\ z.cpu.read = w.cpu.read
    OBVIOUS

LEMMA SetTail ==
    ASSUME NEW w \in Worlds, NEW v \in Entries
    PROVE  LET z == [w EXCEPT !.cpu.tail = v] IN
           /\ z \in Worlds
           /\ Queues(z) = Queues(w) /\ Lists(z) = Lists(w) /\ Buffer(z) = Buffer(w)
           /\ Answers(z) = Answers(w) /\ Turn(z) = Turn(w) /\ Clock(z) = Clock(w)
           /\ z.cpu.tail = v
           /\ z.cpu.head = w.cpu.head /\ z.cpu.full = w.cpu.full /\ z.cpu.read = w.cpu.read
    OBVIOUS

LEMMA SetFull ==
    ASSUME NEW w \in Worlds, NEW v \in BOOLEAN
    PROVE  LET z == [w EXCEPT !.cpu.full = v] IN
           /\ z \in Worlds
           /\ Queues(z) = Queues(w) /\ Lists(z) = Lists(w) /\ Buffer(z) = Buffer(w)
           /\ Answers(z) = Answers(w) /\ Turn(z) = Turn(w) /\ Clock(z) = Clock(w)
           /\ z.cpu.full = v
           /\ z.cpu.head = w.cpu.head /\ z.cpu.tail = w.cpu.tail /\ z.cpu.read = w.cpu.read
    OBVIOUS

LEMMA SetRead ==
    ASSUME NEW w \in Worlds, NEW v \in 0 .. Len(Trace)
    PROVE  LET z == [w EXCEPT !.cpu.read = v] IN
           /\ z \in Worlds
           /\ Queues(z) = Queues(w) /\ Lists(z) = Lists(w) /\ Buffer(z) = Buffer(w)
           /\ Answers(z) = Answers(w) /\ Turn(z) = Turn(w) /\ Clock(z) = Clock(w)
           /\ z.cpu.read = v
           /\ z.cpu.head = w.cpu.head /\ z.cpu.tail = w.cpu.tail /\ z.cpu.full = w.cpu.full
    OBVIOUS

WithEntry(w, e, v) == [w EXCEPT !.cpu.rob[e] = v]

LEMMA SetEntry ==
    ASSUME NEW w \in Worlds, NEW e \in Entries, NEW v \in RobEntries
    PROVE  LET z == WithEntry(w, e, v) IN
           /\ z \in Worlds
           /\ Queues(z) = Queues(w) /\ Lists(z) = Lists(w) /\ Ring(z) = Ring(w)
           /\ Answers(z) = Answers(w) /\ Turn(z) = Turn(w) /\ Clock(z) = Clock(w)
           /\ z.cpu.rob = [w.cpu.rob EXCEPT ![e] = v]
    BY DEF WithEntry

LEMMA SetLsq ==
    ASSUME NEW w \in Worlds, NEW v \in SUBSET Reqs
    PROVE  LET z == [w EXCEPT !.cpu.lsq = v] IN
           /\ z \in Worlds
           /\ Queues(z) = Queues(w) /\ Lists(z) = Lists(w) /\ Ring(z) = Ring(w)
           /\ Buffer(z) = Buffer(w) /\ Turn(z) = Turn(w) /\ Clock(z) = Clock(w)
           /\ z.cpu.lsq = v
           /\ z.cpu.slots = w.cpu.slots /\ z.atCache = w.atCache
    OBVIOUS

WithSlot(w, n, v) == [w EXCEPT !.cpu.slots[n] = v]

LEMMA SetSlot ==
    ASSUME NEW w \in Worlds, NEW n \in {0, 1}, NEW v \in Slots
    PROVE  LET z == WithSlot(w, n, v) IN
           /\ z \in Worlds
           /\ Queues(z) = Queues(w) /\ Lists(z) = Lists(w) /\ Ring(z) = Ring(w)
           /\ Buffer(z) = Buffer(w) /\ Turn(z) = Turn(w) /\ Clock(z) = Clock(w)
           /\ z.cpu.slots = [w.cpu.slots EXCEPT ![n] = v]
           /\ z.cpu.lsq = w.cpu.lsq /\ z.atCache = w.atCache
    BY DEF WithSlot

LEMMA SetReads ==
    ASSUME NEW w \in Worlds, NEW v \in SUBSET Reqs
    PROVE  LET z == [w EXCEPT !.atCache.reads = v] IN
           /\ z \in Worlds
           /\ Queues(z) = Queues(w) /\ Lists(z) = Lists(w) /\ Ring(z) = Ring(w)
           /\ Buffer(z) = Buffer(w) /\ Turn(z) = Turn(w) /\ Clock(z) = Clock(w)
           /\ z.atCache.reads = v
           /\ z.cpu.lsq = w.cpu.lsq /\ z.cpu.slots = w.cpu.slots /\ z.atCache.unstall = w.atCache.unstall
    BY DEF Caches

LEMMA SetUnstall ==
    ASSUME NEW w \in Worlds, NEW v \in SUBSET CacheNames
    PROVE  LET z == [w EXCEPT !.atCache.unstall = v] IN
           /\ z \in Worlds
           /\ Queues(z) = Queues(w) /\ Lists(z) = Lists(w) /\ Ring(z) = Ring(w)
           /\ Buffer(z) = Buffer(w) /\ Turn(z) = Turn(w) /\ Clock(z) = Clock(w)
           /\ z.atCache.unstall = v
           /\ z.cpu.lsq = w.cpu.lsq /\ z.cpu.slots = w.cpu.slots /\ z.atCache.reads = w.atCache.reads
    BY DEF Caches

LEMMA SetFetchEntry ==
    ASSUME NEW w \in Worlds, NEW v \in Seq(Entries)
    PROVE  LET z == [w EXCEPT !.cpu.fetchEntry = v] IN
           /\ z \in Worlds
           /\ Queues(z) = Queues(w) /\ Lists(z) = Lists(w) /\ Ring(z) = Ring(w)
           /\ Buffer(z) = Buffer(w) /\ Answers(z) = Answers(w) /\ Clock(z) = Clock(w)
           /\ z.cpu.fetchEntry = v
           /\ z.cpu.failed = w.cpu.failed
    OBVIOUS

LEMMA SetNow ==
    ASSUME NEW w \in Worlds, NEW v \in Counts
    PROVE  LET z == [w EXCEPT !.cpu.now = v] IN
           /\ z \in Worlds
           /\ v.drain = w.cpu.now.drain => Queues(z) = Queues(w)
           /\ Lists(z) = Lists(w) /\ Ring(z) = Ring(w)
           /\ Buffer(z) = Buffer(w) /\ Answers(z) = Answers(w) /\ Turn(z) = Turn(w)
           /\ z.cpu.now = v /\ z.cpu.stalled = w.cpu.stalled /\ z.cpu.drains = w.cpu.drains
           /\ z.cpu.next = w.cpu.next
    OBVIOUS

LEMMA SetNext ==
    ASSUME NEW w \in Worlds, NEW v \in Counts
    PROVE  LET z == [w EXCEPT !.cpu.next = v] IN
           /\ z \in Worlds
           /\ v.drain = w.cpu.next.drain => Queues(z) = Queues(w)
           /\ Lists(z) = Lists(w) /\ Ring(z) = Ring(w)
           /\ Buffer(z) = Buffer(w) /\ Answers(z) = Answers(w) /\ Turn(z) = Turn(w)
           /\ z.cpu.next = v /\ z.cpu.stalled = w.cpu.stalled /\ z.cpu.drains = w.cpu.drains
           /\ z.cpu.now = w.cpu.now
    OBVIOUS

LEMMA SetQuota ==
    ASSUME NEW w \in Worlds, NEW v \in [CacheNames -> Nat]
    PROVE  LET z == [w EXCEPT !.cpu.quota = v] IN
           /\ z \in Worlds
           /\ Queues(z) = Queues(w) /\ Lists(z) = Lists(w) /\ Ring(z) = Ring(w)
           /\ Buffer(z) = Buffer(w) /\ Answers(z) = Answers(w) /\ Turn(z) = Turn(w)
           /\ Clock(z) = Clock(w)
           /\ z.cpu.quota = v
    OBVIOUS

LEMMA SetCommits ==
    ASSUME NEW w \in Worlds, NEW v \in Nat
    PROVE  LET z == [w EXCEPT !.cpu.commits = v] IN
           /\ z \in Worlds
           /\ Queues(z) = Queues(w) /\ Lists(z) = Lists(w) /\ Ring(z) = Ring(w)
           /\ Buffer(z) = Buffer(w) /\ Answers(z) = Answers(w) /\ Turn(z) = Turn(w)
           /\ Clock(z) = Clock(w)
           /\ z.cpu.commits = v
    OBVIOUS

LEMMA SetFinished ==
    ASSUME NEW w \in Worlds, NEW v \in Nat
    PROVE  LET z == [w EXCEPT !.cpu.finished = v] IN
           /\ z \in Worlds
           /\ Queues(z) = Queues(w) /\ Lists(z) = Lists(w) /\ Ring(z) = Ring(w)
           /\ Buffer(z) = Buffer(w) /\ Answers(z) = Answers(w) /\ Turn(z) = Turn(w)
           /\ Clock(z) = Clock(w)
           /\ z.cpu.finished = v
    OBVIOUS

LEMMA SetFailed ==
    ASSUME NEW w \in Worlds, NEW v \in Failures
    PROVE  LET z == [w EXCEPT !.cpu.failed = v] IN
           /\ z \in Worlds
           /\ Queues(z) = Queues(w) /\ Lists(z) = Lists(w) /\ Ring(z) = Ring(w)
           /\ Buffer(z) = Buffer(w) /\ Answers(z) = Answers(w) /\ Clock(z) = Clock(w)
           /\ z.cpu.failed = v
           /\ z.cpu.fetchEntry = w.cpu.fetchEntry
    OBVIOUS

LEMMA SetWaiting ==
    ASSUME NEW w \in Worlds, NEW v \in SUBSET Pages
    PROVE  LET z == [w EXCEPT !.waiting = v] IN
           /\ z \in Worlds
           /\ Queues(z) = Queues(w) /\ Lists(z) = Lists(w) /\ Ring(z) = Ring(w)
           /\ Buffer(z) = Buffer(w) /\ Answers(z) = Answers(w) /\ Turn(z) = Turn(w)
           /\ Clock(z) = Clock(w)
           /\ z.waiting = v
    OBVIOUS

HIDE DEF Worlds, Cores, Queues, DrainEvents, Lists, Ring, Buffer, Answers, Turn, Clock

-----------------------------------------------------------------------------
(* The loops of an event: what each step keeps, the loop keeps *)

LEMMA UnstallOneTurns ==
    ASSUME NEW seq, Len(seq) \in Nat, NEW T, NEW w \in T[0],
           \A n \in 1 .. Len(seq) : \A s \in T[n - 1] : UnstallOne(s, seq[n]) \in T[n]
    PROVE  InTurn(UnstallOne, w, seq) \in T[Len(seq)]
<1> DEFINE N == Len(seq)
           G == UNION {T[n] : n \in 0 .. N}
           f == [x \in (1 .. N) \X G |-> UnstallOne(x[2], seq[x[1]])]
           after[n \in 0 .. Len(seq)] == IF n = 0 THEN w ELSE UnstallOne(after[n - 1], seq[n])
<1>1. InTurn(UnstallOne, w, seq) = after[N]
  BY DEF InTurn
<1>2. ASSUME NEW n \in 1 .. N, NEW s \in T[n - 1]
      PROVE  f[<<n, s>>] = UnstallOne(s, seq[n]) /\ f[<<n, s>>] \in T[n]
  <2>1. n - 1 \in 0 .. N
    OBVIOUS
  <2>2. s \in G
    BY <2>1
  <2> HIDE DEF G
  <2> QED
    BY <2>2
<1> HIDE DEF f
<1>3. PICK g : g = Going(N, w, f, g) /\ \A n \in 1 .. N : g[n - 1] \in T[n - 1]
  BY <1>2, GoingReaches
<1>4. g = [n \in 0 .. N |-> IF n = 0 THEN w ELSE UnstallOne(g[n - 1], seq[n])]
  BY <1>2, <1>3 DEF Going
<1>5. after = [n \in 0 .. N |-> IF n = 0 THEN w ELSE UnstallOne(after[n - 1], seq[n])]
  BY <1>4
<1> HIDE DEF after, G
<1>6. after[0] \in T[0] /\ \A n \in 1 .. N : after[n - 1] \in T[n - 1] => after[n] \in T[n]
  BY <1>5
<1>7. \A n \in 0 .. N : after[n] \in T[n]
  BY <1>6, StepsReach
<1> QED
  BY <1>1, <1>7

LEMMA UnstallOneLoop ==
    ASSUME NEW R, NEW seq \in Seq(R), NEW G, NEW w \in G,
           \A s \in G, r \in R : UnstallOne(s, r) \in G
    PROVE  InTurn(UnstallOne, w, seq) \in G
<1> DEFINE T == [n \in 0 .. Len(seq) |-> G]
<1>1. /\ Len(seq) \in Nat /\ \A n \in 0 .. Len(seq) : T[n] = G
      /\ \A n \in 1 .. Len(seq) : n - 1 \in 0 .. Len(seq) /\ seq[n] \in R
  BY LenProperties
<1> HIDE DEF T
<1>2. w \in T[0] /\ \A n \in 1 .. Len(seq) : \A s \in T[n - 1] : UnstallOne(s, seq[n]) \in T[n]
  BY <1>1
<1>3. InTurn(UnstallOne, w, seq) \in T[Len(seq)]
  BY <1>1, <1>2, UnstallOneTurns
<1> QED
  BY <1>1, <1>3

LEMMA RetryInstrTurns ==
    ASSUME NEW seq, Len(seq) \in Nat, NEW T, NEW w \in T[0],
           \A n \in 1 .. Len(seq) : \A s \in T[n - 1] : RetryInstr(s, seq[n]) \in T[n]
    PROVE  InTurn(RetryInstr, w, seq) \in T[Len(seq)]
<1> DEFINE N == Len(seq)
           G == UNION {T[n] : n \in 0 .. N}
           f == [x \in (1 .. N) \X G |-> RetryInstr(x[2], seq[x[1]])]
           after[n \in 0 .. Len(seq)] == IF n = 0 THEN w ELSE RetryInstr(after[n - 1], seq[n])
<1>1. InTurn(RetryInstr, w, seq) = after[N]
  BY DEF InTurn
<1>2. ASSUME NEW n \in 1 .. N, NEW s \in T[n - 1]
      PROVE  f[<<n, s>>] = RetryInstr(s, seq[n]) /\ f[<<n, s>>] \in T[n]
  <2>1. n - 1 \in 0 .. N
    OBVIOUS
  <2>2. s \in G
    BY <2>1
  <2> HIDE DEF G
  <2> QED
    BY <2>2
<1> HIDE DEF f
<1>3. PICK g : g = Going(N, w, f, g) /\ \A n \in 1 .. N : g[n - 1] \in T[n - 1]
  BY <1>2, GoingReaches
<1>4. g = [n \in 0 .. N |-> IF n = 0 THEN w ELSE RetryInstr(g[n - 1], seq[n])]
  BY <1>2, <1>3 DEF Going
<1>5. after = [n \in 0 .. N |-> IF n = 0 THEN w ELSE RetryInstr(after[n - 1], seq[n])]
  BY <1>4
<1> HIDE DEF after, G
<1>6. after[0] \in T[0] /\ \A n \in 1 .. N : after[n - 1] \in T[n - 1] => after[n] \in T[n]
  BY <1>5
<1>7. \A n \in 0 .. N : after[n] \in T[n]
  BY <1>6, StepsReach
<1> QED
  BY <1>1, <1>7

LEMMA RetryInstrLoop ==
    ASSUME NEW R, NEW seq \in Seq(R), NEW G, NEW w \in G,
           \A s \in G, r \in R : RetryInstr(s, r) \in G
    PROVE  InTurn(RetryInstr, w, seq) \in G
<1> DEFINE T == [n \in 0 .. Len(seq) |-> G]
<1>1. /\ Len(seq) \in Nat /\ \A n \in 0 .. Len(seq) : T[n] = G
      /\ \A n \in 1 .. Len(seq) : n - 1 \in 0 .. Len(seq) /\ seq[n] \in R
  BY LenProperties
<1> HIDE DEF T
<1>2. w \in T[0] /\ \A n \in 1 .. Len(seq) : \A s \in T[n - 1] : RetryInstr(s, seq[n]) \in T[n]
  BY <1>1
<1>3. InTurn(RetryInstr, w, seq) \in T[Len(seq)]
  BY <1>1, <1>2, RetryInstrTurns
<1> QED
  BY <1>1, <1>3

LEMMA RetryDataTurns ==
    ASSUME NEW seq, Len(seq) \in Nat, NEW T, NEW w \in T[0],
           \A n \in 1 .. Len(seq) : \A s \in T[n - 1] : RetryData(s, seq[n]) \in T[n]
    PROVE  InTurn(RetryData, w, seq) \in T[Len(seq)]
<1> DEFINE N == Len(seq)
           G == UNION {T[n] : n \in 0 .. N}
           f == [x \in (1 .. N) \X G |-> RetryData(x[2], seq[x[1]])]
           after[n \in 0 .. Len(seq)] == IF n = 0 THEN w ELSE RetryData(after[n - 1], seq[n])
<1>1. InTurn(RetryData, w, seq) = after[N]
  BY DEF InTurn
<1>2. ASSUME NEW n \in 1 .. N, NEW s \in T[n - 1]
      PROVE  f[<<n, s>>] = RetryData(s, seq[n]) /\ f[<<n, s>>] \in T[n]
  <2>1. n - 1 \in 0 .. N
    OBVIOUS
  <2>2. s \in G
    BY <2>1
  <2> HIDE DEF G
  <2> QED
    BY <2>2
<1> HIDE DEF f
<1>3. PICK g : g = Going(N, w, f, g) /\ \A n \in 1 .. N : g[n - 1] \in T[n - 1]
  BY <1>2, GoingReaches
<1>4. g = [n \in 0 .. N |-> IF n = 0 THEN w ELSE RetryData(g[n - 1], seq[n])]
  BY <1>2, <1>3 DEF Going
<1>5. after = [n \in 0 .. N |-> IF n = 0 THEN w ELSE RetryData(after[n - 1], seq[n])]
  BY <1>4
<1> HIDE DEF after, G
<1>6. after[0] \in T[0] /\ \A n \in 1 .. N : after[n - 1] \in T[n - 1] => after[n] \in T[n]
  BY <1>5
<1>7. \A n \in 0 .. N : after[n] \in T[n]
  BY <1>6, StepsReach
<1> QED
  BY <1>1, <1>7

LEMMA RetryDataLoop ==
    ASSUME NEW R, NEW seq \in Seq(R), NEW G, NEW w \in G,
           \A s \in G, r \in R : RetryData(s, r) \in G
    PROVE  InTurn(RetryData, w, seq) \in G
<1> DEFINE T == [n \in 0 .. Len(seq) |-> G]
<1>1. /\ Len(seq) \in Nat /\ \A n \in 0 .. Len(seq) : T[n] = G
      /\ \A n \in 1 .. Len(seq) : n - 1 \in 0 .. Len(seq) /\ seq[n] \in R
  BY LenProperties
<1> HIDE DEF T
<1>2. w \in T[0] /\ \A n \in 1 .. Len(seq) : \A s \in T[n - 1] : RetryData(s, seq[n]) \in T[n]
  BY <1>1
<1>3. InTurn(RetryData, w, seq) \in T[Len(seq)]
  BY <1>1, <1>2, RetryDataTurns
<1> QED
  BY <1>1, <1>3

LEMMA ResumeInstrTurns ==
    ASSUME NEW seq, Len(seq) \in Nat, NEW T, NEW w \in T[0],
           \A n \in 1 .. Len(seq) : \A s \in T[n - 1] : ResumeInstr(s, seq[n]) \in T[n]
    PROVE  InTurn(ResumeInstr, w, seq) \in T[Len(seq)]
<1> DEFINE N == Len(seq)
           G == UNION {T[n] : n \in 0 .. N}
           f == [x \in (1 .. N) \X G |-> ResumeInstr(x[2], seq[x[1]])]
           after[n \in 0 .. Len(seq)] == IF n = 0 THEN w ELSE ResumeInstr(after[n - 1], seq[n])
<1>1. InTurn(ResumeInstr, w, seq) = after[N]
  BY DEF InTurn
<1>2. ASSUME NEW n \in 1 .. N, NEW s \in T[n - 1]
      PROVE  f[<<n, s>>] = ResumeInstr(s, seq[n]) /\ f[<<n, s>>] \in T[n]
  <2>1. n - 1 \in 0 .. N
    OBVIOUS
  <2>2. s \in G
    BY <2>1
  <2> HIDE DEF G
  <2> QED
    BY <2>2
<1> HIDE DEF f
<1>3. PICK g : g = Going(N, w, f, g) /\ \A n \in 1 .. N : g[n - 1] \in T[n - 1]
  BY <1>2, GoingReaches
<1>4. g = [n \in 0 .. N |-> IF n = 0 THEN w ELSE ResumeInstr(g[n - 1], seq[n])]
  BY <1>2, <1>3 DEF Going
<1>5. after = [n \in 0 .. N |-> IF n = 0 THEN w ELSE ResumeInstr(after[n - 1], seq[n])]
  BY <1>4
<1> HIDE DEF after, G
<1>6. after[0] \in T[0] /\ \A n \in 1 .. N : after[n - 1] \in T[n - 1] => after[n] \in T[n]
  BY <1>5
<1>7. \A n \in 0 .. N : after[n] \in T[n]
  BY <1>6, StepsReach
<1> QED
  BY <1>1, <1>7

LEMMA ResumeInstrLoop ==
    ASSUME NEW R, NEW seq \in Seq(R), NEW G, NEW w \in G,
           \A s \in G, r \in R : ResumeInstr(s, r) \in G
    PROVE  InTurn(ResumeInstr, w, seq) \in G
<1> DEFINE T == [n \in 0 .. Len(seq) |-> G]
<1>1. /\ Len(seq) \in Nat /\ \A n \in 0 .. Len(seq) : T[n] = G
      /\ \A n \in 1 .. Len(seq) : n - 1 \in 0 .. Len(seq) /\ seq[n] \in R
  BY LenProperties
<1> HIDE DEF T
<1>2. w \in T[0] /\ \A n \in 1 .. Len(seq) : \A s \in T[n - 1] : ResumeInstr(s, seq[n]) \in T[n]
  BY <1>1
<1>3. InTurn(ResumeInstr, w, seq) \in T[Len(seq)]
  BY <1>1, <1>2, ResumeInstrTurns
<1> QED
  BY <1>1, <1>3

LEMMA ResumeDataTurns ==
    ASSUME NEW seq, Len(seq) \in Nat, NEW T, NEW w \in T[0],
           \A n \in 1 .. Len(seq) : \A s \in T[n - 1] : ResumeData(s, seq[n]) \in T[n]
    PROVE  InTurn(ResumeData, w, seq) \in T[Len(seq)]
<1> DEFINE N == Len(seq)
           G == UNION {T[n] : n \in 0 .. N}
           f == [x \in (1 .. N) \X G |-> ResumeData(x[2], seq[x[1]])]
           after[n \in 0 .. Len(seq)] == IF n = 0 THEN w ELSE ResumeData(after[n - 1], seq[n])
<1>1. InTurn(ResumeData, w, seq) = after[N]
  BY DEF InTurn
<1>2. ASSUME NEW n \in 1 .. N, NEW s \in T[n - 1]
      PROVE  f[<<n, s>>] = ResumeData(s, seq[n]) /\ f[<<n, s>>] \in T[n]
  <2>1. n - 1 \in 0 .. N
    OBVIOUS
  <2>2. s \in G
    BY <2>1
  <2> HIDE DEF G
  <2> QED
    BY <2>2
<1> HIDE DEF f
<1>3. PICK g : g = Going(N, w, f, g) /\ \A n \in 1 .. N : g[n - 1] \in T[n - 1]
  BY <1>2, GoingReaches
<1>4. g = [n \in 0 .. N |-> IF n = 0 THEN w ELSE ResumeData(g[n - 1], seq[n])]
  BY <1>2, <1>3 DEF Going
<1>5. after = [n \in 0 .. N |-> IF n = 0 THEN w ELSE ResumeData(after[n - 1], seq[n])]
  BY <1>4
<1> HIDE DEF after, G
<1>6. after[0] \in T[0] /\ \A n \in 1 .. N : after[n - 1] \in T[n - 1] => after[n] \in T[n]
  BY <1>5
<1>7. \A n \in 0 .. N : after[n] \in T[n]
  BY <1>6, StepsReach
<1> QED
  BY <1>1, <1>7

LEMMA ResumeDataLoop ==
    ASSUME NEW R, NEW seq \in Seq(R), NEW G, NEW w \in G,
           \A s \in G, r \in R : ResumeData(s, r) \in G
    PROVE  InTurn(ResumeData, w, seq) \in G
<1> DEFINE T == [n \in 0 .. Len(seq) |-> G]
<1>1. /\ Len(seq) \in Nat /\ \A n \in 0 .. Len(seq) : T[n] = G
      /\ \A n \in 1 .. Len(seq) : n - 1 \in 0 .. Len(seq) /\ seq[n] \in R
  BY LenProperties
<1> HIDE DEF T
<1>2. w \in T[0] /\ \A n \in 1 .. Len(seq) : \A s \in T[n - 1] : ResumeData(s, seq[n]) \in T[n]
  BY <1>1
<1>3. InTurn(ResumeData, w, seq) \in T[Len(seq)]
  BY <1>1, <1>2, ResumeDataTurns
<1> QED
  BY <1>1, <1>3

LEMMA IssueDataTurns ==
    ASSUME NEW seq, Len(seq) \in Nat, NEW T, NEW w \in T[0],
           \A n \in 1 .. Len(seq) : \A s \in T[n - 1] : IssueData(s, seq[n]) \in T[n]
    PROVE  InTurn(IssueData, w, seq) \in T[Len(seq)]
<1> DEFINE N == Len(seq)
           G == UNION {T[n] : n \in 0 .. N}
           f == [x \in (1 .. N) \X G |-> IssueData(x[2], seq[x[1]])]
           after[n \in 0 .. Len(seq)] == IF n = 0 THEN w ELSE IssueData(after[n - 1], seq[n])
<1>1. InTurn(IssueData, w, seq) = after[N]
  BY DEF InTurn
<1>2. ASSUME NEW n \in 1 .. N, NEW s \in T[n - 1]
      PROVE  f[<<n, s>>] = IssueData(s, seq[n]) /\ f[<<n, s>>] \in T[n]
  <2>1. n - 1 \in 0 .. N
    OBVIOUS
  <2>2. s \in G
    BY <2>1
  <2> HIDE DEF G
  <2> QED
    BY <2>2
<1> HIDE DEF f
<1>3. PICK g : g = Going(N, w, f, g) /\ \A n \in 1 .. N : g[n - 1] \in T[n - 1]
  BY <1>2, GoingReaches
<1>4. g = [n \in 0 .. N |-> IF n = 0 THEN w ELSE IssueData(g[n - 1], seq[n])]
  BY <1>2, <1>3 DEF Going
<1>5. after = [n \in 0 .. N |-> IF n = 0 THEN w ELSE IssueData(after[n - 1], seq[n])]
  BY <1>4
<1> HIDE DEF after, G
<1>6. after[0] \in T[0] /\ \A n \in 1 .. N : after[n - 1] \in T[n - 1] => after[n] \in T[n]
  BY <1>5
<1>7. \A n \in 0 .. N : after[n] \in T[n]
  BY <1>6, StepsReach
<1> QED
  BY <1>1, <1>7

LEMMA IssueDataLoop ==
    ASSUME NEW R, NEW seq \in Seq(R), NEW G, NEW w \in G,
           \A s \in G, r \in R : IssueData(s, r) \in G
    PROVE  InTurn(IssueData, w, seq) \in G
<1> DEFINE T == [n \in 0 .. Len(seq) |-> G]
<1>1. /\ Len(seq) \in Nat /\ \A n \in 0 .. Len(seq) : T[n] = G
      /\ \A n \in 1 .. Len(seq) : n - 1 \in 0 .. Len(seq) /\ seq[n] \in R
  BY LenProperties
<1> HIDE DEF T
<1>2. w \in T[0] /\ \A n \in 1 .. Len(seq) : \A s \in T[n - 1] : IssueData(s, seq[n]) \in T[n]
  BY <1>1
<1>3. InTurn(IssueData, w, seq) \in T[Len(seq)]
  BY <1>1, <1>2, IssueDataTurns
<1> QED
  BY <1>1, <1>3

LEMMA InstrAnswerTurns ==
    ASSUME NEW seq, Len(seq) \in Nat, NEW T, NEW w \in T[0],
           \A n \in 1 .. Len(seq) : \A s \in T[n - 1] : InstrAnswer(s, seq[n]) \in T[n]
    PROVE  InTurn(InstrAnswer, w, seq) \in T[Len(seq)]
<1> DEFINE N == Len(seq)
           G == UNION {T[n] : n \in 0 .. N}
           f == [x \in (1 .. N) \X G |-> InstrAnswer(x[2], seq[x[1]])]
           after[n \in 0 .. Len(seq)] == IF n = 0 THEN w ELSE InstrAnswer(after[n - 1], seq[n])
<1>1. InTurn(InstrAnswer, w, seq) = after[N]
  BY DEF InTurn
<1>2. ASSUME NEW n \in 1 .. N, NEW s \in T[n - 1]
      PROVE  f[<<n, s>>] = InstrAnswer(s, seq[n]) /\ f[<<n, s>>] \in T[n]
  <2>1. n - 1 \in 0 .. N
    OBVIOUS
  <2>2. s \in G
    BY <2>1
  <2> HIDE DEF G
  <2> QED
    BY <2>2
<1> HIDE DEF f
<1>3. PICK g : g = Going(N, w, f, g) /\ \A n \in 1 .. N : g[n - 1] \in T[n - 1]
  BY <1>2, GoingReaches
<1>4. g = [n \in 0 .. N |-> IF n = 0 THEN w ELSE InstrAnswer(g[n - 1], seq[n])]
  BY <1>2, <1>3 DEF Going
<1>5. after = [n \in 0 .. N |-> IF n = 0 THEN w ELSE InstrAnswer(after[n - 1], seq[n])]
  BY <1>4
<1> HIDE DEF after, G
<1>6. after[0] \in T[0] /\ \A n \in 1 .. N : after[n - 1] \in T[n - 1] => after[n] \in T[n]
  BY <1>5
<1>7. \A n \in 0 .. N : after[n] \in T[n]
  BY <1>6, StepsReach
<1> QED
  BY <1>1, <1>7

LEMMA InstrAnswerLoop ==
    ASSUME NEW R, NEW seq \in Seq(R), NEW G, NEW w \in G,
           \A s \in G, r \in R : InstrAnswer(s, r) \in G
    PROVE  InTurn(InstrAnswer, w, seq) \in G
<1> DEFINE T == [n \in 0 .. Len(seq) |-> G]
<1>1. /\ Len(seq) \in Nat /\ \A n \in 0 .. Len(seq) : T[n] = G
      /\ \A n \in 1 .. Len(seq) : n - 1 \in 0 .. Len(seq) /\ seq[n] \in R
  BY LenProperties
<1> HIDE DEF T
<1>2. w \in T[0] /\ \A n \in 1 .. Len(seq) : \A s \in T[n - 1] : InstrAnswer(s, seq[n]) \in T[n]
  BY <1>1
<1>3. InTurn(InstrAnswer, w, seq) \in T[Len(seq)]
  BY <1>1, <1>2, InstrAnswerTurns
<1> QED
  BY <1>1, <1>3

LEMMA DataAnswerTurns ==
    ASSUME NEW seq, Len(seq) \in Nat, NEW T, NEW w \in T[0],
           \A n \in 1 .. Len(seq) : \A s \in T[n - 1] : DataAnswer(s, seq[n]) \in T[n]
    PROVE  InTurn(DataAnswer, w, seq) \in T[Len(seq)]
<1> DEFINE N == Len(seq)
           G == UNION {T[n] : n \in 0 .. N}
           f == [x \in (1 .. N) \X G |-> DataAnswer(x[2], seq[x[1]])]
           after[n \in 0 .. Len(seq)] == IF n = 0 THEN w ELSE DataAnswer(after[n - 1], seq[n])
<1>1. InTurn(DataAnswer, w, seq) = after[N]
  BY DEF InTurn
<1>2. ASSUME NEW n \in 1 .. N, NEW s \in T[n - 1]
      PROVE  f[<<n, s>>] = DataAnswer(s, seq[n]) /\ f[<<n, s>>] \in T[n]
  <2>1. n - 1 \in 0 .. N
    OBVIOUS
  <2>2. s \in G
    BY <2>1
  <2> HIDE DEF G
  <2> QED
    BY <2>2
<1> HIDE DEF f
<1>3. PICK g : g = Going(N, w, f, g) /\ \A n \in 1 .. N : g[n - 1] \in T[n - 1]
  BY <1>2, GoingReaches
<1>4. g = [n \in 0 .. N |-> IF n = 0 THEN w ELSE DataAnswer(g[n - 1], seq[n])]
  BY <1>2, <1>3 DEF Going
<1>5. after = [n \in 0 .. N |-> IF n = 0 THEN w ELSE DataAnswer(after[n - 1], seq[n])]
  BY <1>4
<1> HIDE DEF after, G
<1>6. after[0] \in T[0] /\ \A n \in 1 .. N : after[n - 1] \in T[n - 1] => after[n] \in T[n]
  BY <1>5
<1>7. \A n \in 0 .. N : after[n] \in T[n]
  BY <1>6, StepsReach
<1> QED
  BY <1>1, <1>7

LEMMA DataAnswerLoop ==
    ASSUME NEW R, NEW seq \in Seq(R), NEW G, NEW w \in G,
           \A s \in G, r \in R : DataAnswer(s, r) \in G
    PROVE  InTurn(DataAnswer, w, seq) \in G
<1> DEFINE T == [n \in 0 .. Len(seq) |-> G]
<1>1. /\ Len(seq) \in Nat /\ \A n \in 0 .. Len(seq) : T[n] = G
      /\ \A n \in 1 .. Len(seq) : n - 1 \in 0 .. Len(seq) /\ seq[n] \in R
  BY LenProperties
<1> HIDE DEF T
<1>2. w \in T[0] /\ \A n \in 1 .. Len(seq) : \A s \in T[n - 1] : DataAnswer(s, seq[n]) \in T[n]
  BY <1>1
<1>3. InTurn(DataAnswer, w, seq) \in T[Len(seq)]
  BY <1>1, <1>2, DataAnswerTurns
<1> QED
  BY <1>1, <1>3

LEMMA FetchInstrTurns ==
    ASSUME NEW seq, Len(seq) \in Nat, NEW T, NEW w \in T[0],
           \A n \in 1 .. Len(seq) : \A s \in T[n - 1] : FetchInstr(s, seq[n]) \in T[n]
    PROVE  InTurn(FetchInstr, w, seq) \in T[Len(seq)]
<1> DEFINE N == Len(seq)
           G == UNION {T[n] : n \in 0 .. N}
           f == [x \in (1 .. N) \X G |-> FetchInstr(x[2], seq[x[1]])]
           after[n \in 0 .. Len(seq)] == IF n = 0 THEN w ELSE FetchInstr(after[n - 1], seq[n])
<1>1. InTurn(FetchInstr, w, seq) = after[N]
  BY DEF InTurn
<1>2. ASSUME NEW n \in 1 .. N, NEW s \in T[n - 1]
      PROVE  f[<<n, s>>] = FetchInstr(s, seq[n]) /\ f[<<n, s>>] \in T[n]
  <2>1. n - 1 \in 0 .. N
    OBVIOUS
  <2>2. s \in G
    BY <2>1
  <2> HIDE DEF G
  <2> QED
    BY <2>2
<1> HIDE DEF f
<1>3. PICK g : g = Going(N, w, f, g) /\ \A n \in 1 .. N : g[n - 1] \in T[n - 1]
  BY <1>2, GoingReaches
<1>4. g = [n \in 0 .. N |-> IF n = 0 THEN w ELSE FetchInstr(g[n - 1], seq[n])]
  BY <1>2, <1>3 DEF Going
<1>5. after = [n \in 0 .. N |-> IF n = 0 THEN w ELSE FetchInstr(after[n - 1], seq[n])]
  BY <1>4
<1> HIDE DEF after, G
<1>6. after[0] \in T[0] /\ \A n \in 1 .. N : after[n - 1] \in T[n - 1] => after[n] \in T[n]
  BY <1>5
<1>7. \A n \in 0 .. N : after[n] \in T[n]
  BY <1>6, StepsReach
<1> QED
  BY <1>1, <1>7

LEMMA FetchInstrLoop ==
    ASSUME NEW R, NEW seq \in Seq(R), NEW G, NEW w \in G,
           \A s \in G, r \in R : FetchInstr(s, r) \in G
    PROVE  InTurn(FetchInstr, w, seq) \in G
<1> DEFINE T == [n \in 0 .. Len(seq) |-> G]
<1>1. /\ Len(seq) \in Nat /\ \A n \in 0 .. Len(seq) : T[n] = G
      /\ \A n \in 1 .. Len(seq) : n - 1 \in 0 .. Len(seq) /\ seq[n] \in R
  BY LenProperties
<1> HIDE DEF T
<1>2. w \in T[0] /\ \A n \in 1 .. Len(seq) : \A s \in T[n - 1] : FetchInstr(s, seq[n]) \in T[n]
  BY <1>1
<1>3. InTurn(FetchInstr, w, seq) \in T[Len(seq)]
  BY <1>1, <1>2, FetchInstrTurns
<1> QED
  BY <1>1, <1>3

LEMMA FetchOneTurns ==
    ASSUME NEW seq, Len(seq) \in Nat, NEW T, NEW w \in T[0],
           \A n \in 1 .. Len(seq) : \A s \in T[n - 1] : FetchOne(s, seq[n]) \in T[n]
    PROVE  InTurn(FetchOne, w, seq) \in T[Len(seq)]
<1> DEFINE N == Len(seq)
           G == UNION {T[n] : n \in 0 .. N}
           f == [x \in (1 .. N) \X G |-> FetchOne(x[2], seq[x[1]])]
           after[n \in 0 .. Len(seq)] == IF n = 0 THEN w ELSE FetchOne(after[n - 1], seq[n])
<1>1. InTurn(FetchOne, w, seq) = after[N]
  BY DEF InTurn
<1>2. ASSUME NEW n \in 1 .. N, NEW s \in T[n - 1]
      PROVE  f[<<n, s>>] = FetchOne(s, seq[n]) /\ f[<<n, s>>] \in T[n]
  <2>1. n - 1 \in 0 .. N
    OBVIOUS
  <2>2. s \in G
    BY <2>1
  <2> HIDE DEF G
  <2> QED
    BY <2>2
<1> HIDE DEF f
<1>3. PICK g : g = Going(N, w, f, g) /\ \A n \in 1 .. N : g[n - 1] \in T[n - 1]
  BY <1>2, GoingReaches
<1>4. g = [n \in 0 .. N |-> IF n = 0 THEN w ELSE FetchOne(g[n - 1], seq[n])]
  BY <1>2, <1>3 DEF Going
<1>5. after = [n \in 0 .. N |-> IF n = 0 THEN w ELSE FetchOne(after[n - 1], seq[n])]
  BY <1>4
<1> HIDE DEF after, G
<1>6. after[0] \in T[0] /\ \A n \in 1 .. N : after[n - 1] \in T[n - 1] => after[n] \in T[n]
  BY <1>5
<1>7. \A n \in 0 .. N : after[n] \in T[n]
  BY <1>6, StepsReach
<1> QED
  BY <1>1, <1>7

LEMMA FetchOneLoop ==
    ASSUME NEW R, NEW seq \in Seq(R), NEW G, NEW w \in G,
           \A s \in G, r \in R : FetchOne(s, r) \in G
    PROVE  InTurn(FetchOne, w, seq) \in G
<1> DEFINE T == [n \in 0 .. Len(seq) |-> G]
<1>1. /\ Len(seq) \in Nat /\ \A n \in 0 .. Len(seq) : T[n] = G
      /\ \A n \in 1 .. Len(seq) : n - 1 \in 0 .. Len(seq) /\ seq[n] \in R
  BY LenProperties
<1> HIDE DEF T
<1>2. w \in T[0] /\ \A n \in 1 .. Len(seq) : \A s \in T[n - 1] : FetchOne(s, seq[n]) \in T[n]
  BY <1>1
<1>3. InTurn(FetchOne, w, seq) \in T[Len(seq)]
  BY <1>1, <1>2, FetchOneTurns
<1> QED
  BY <1>1, <1>3

LEMMA CommitOneTurns ==
    ASSUME NEW seq, Len(seq) \in Nat, NEW T, NEW w \in T[0],
           \A n \in 1 .. Len(seq) : \A s \in T[n - 1] : CommitOne(s, seq[n]) \in T[n]
    PROVE  InTurn(CommitOne, w, seq) \in T[Len(seq)]
<1> DEFINE N == Len(seq)
           G == UNION {T[n] : n \in 0 .. N}
           f == [x \in (1 .. N) \X G |-> CommitOne(x[2], seq[x[1]])]
           after[n \in 0 .. Len(seq)] == IF n = 0 THEN w ELSE CommitOne(after[n - 1], seq[n])
<1>1. InTurn(CommitOne, w, seq) = after[N]
  BY DEF InTurn
<1>2. ASSUME NEW n \in 1 .. N, NEW s \in T[n - 1]
      PROVE  f[<<n, s>>] = CommitOne(s, seq[n]) /\ f[<<n, s>>] \in T[n]
  <2>1. n - 1 \in 0 .. N
    OBVIOUS
  <2>2. s \in G
    BY <2>1
  <2> HIDE DEF G
  <2> QED
    BY <2>2
<1> HIDE DEF f
<1>3. PICK g : g = Going(N, w, f, g) /\ \A n \in 1 .. N : g[n - 1] \in T[n - 1]
  BY <1>2, GoingReaches
<1>4. g = [n \in 0 .. N |-> IF n = 0 THEN w ELSE CommitOne(g[n - 1], seq[n])]
  BY <1>2, <1>3 DEF Going
<1>5. after = [n \in 0 .. N |-> IF n = 0 THEN w ELSE CommitOne(after[n - 1], seq[n])]
  BY <1>4
<1> HIDE DEF after, G
<1>6. after[0] \in T[0] /\ \A n \in 1 .. N : after[n - 1] \in T[n - 1] => after[n] \in T[n]
  BY <1>5
<1>7. \A n \in 0 .. N : after[n] \in T[n]
  BY <1>6, StepsReach
<1> QED
  BY <1>1, <1>7

LEMMA CommitOneLoop ==
    ASSUME NEW R, NEW seq \in Seq(R), NEW G, NEW w \in G,
           \A s \in G, r \in R : CommitOne(s, r) \in G
    PROVE  InTurn(CommitOne, w, seq) \in G
<1> DEFINE T == [n \in 0 .. Len(seq) |-> G]
<1>1. /\ Len(seq) \in Nat /\ \A n \in 0 .. Len(seq) : T[n] = G
      /\ \A n \in 1 .. Len(seq) : n - 1 \in 0 .. Len(seq) /\ seq[n] \in R
  BY LenProperties
<1> HIDE DEF T
<1>2. w \in T[0] /\ \A n \in 1 .. Len(seq) : \A s \in T[n - 1] : CommitOne(s, seq[n]) \in T[n]
  BY <1>1
<1>3. InTurn(CommitOne, w, seq) \in T[Len(seq)]
  BY <1>1, <1>2, CommitOneTurns
<1> QED
  BY <1>1, <1>3

-----------------------------------------------------------------------------
(* Remainders *)

LEMMA ModUnique ==
    ASSUME NEW R \in Nat \ {0}, NEW q \in Nat, NEW m \in 0 .. R - 1
    PROVE  (R * q + m) % R = m
    OBVIOUS
LEMMA ModIs ==
    ASSUME NEW a \in Nat, NEW R \in Nat \ {0}
    PROVE  \E q \in Nat, m \in 0 .. R - 1 : a = R * q + m /\ a % R = m
<1> DEFINE rest == {m \in Nat : \E q \in Nat : a = R * q + m}
<1>1. a \in rest
  <2>1. 0 \in Nat /\ a = R * 0 + a
    OBVIOUS
  <2> QED
    BY <2>1
<1>2. PICK m \in rest : \A n \in rest : m <= n
  <2>1. rest \in SUBSET Nat /\ rest # {}
    BY <1>1
  <2> HIDE DEF rest
  <2> QED
    BY <2>1, MinNat
<1>3. PICK q \in Nat : a = R * q + m
  BY <1>2
<1>4. m \in Nat
  OBVIOUS
<1>5. m < R
  <2>1. SUFFICES ASSUME ~(m < R) PROVE FALSE
    OBVIOUS
  <2>2. m - R \in Nat /\ q + 1 \in Nat /\ a = R * (q + 1) + (m - R)
    BY <1>3, <1>4, <2>1
  <2>3. m - R \in rest
    BY <2>2
  <2>4. m <= m - R
    BY <1>2, <2>3
  <2> QED
    BY <1>4, <2>4
<1>6. m \in 0 .. R - 1
  BY <1>4, <1>5
<1> HIDE DEF rest
<1>7. a % R = m
  BY <1>3, <1>6, ModUnique
<1> QED
  BY <1>3, <1>6, <1>7

LEMMA ModNext ==
    ASSUME NEW a \in Nat, NEW R \in Nat \ {0}
    PROVE  ((a % R) + 1) % R = (a + 1) % R
<1> DEFINE m == a % R
<1>1. PICK q \in Nat : m \in 0 .. R - 1 /\ a = R * q + m
  BY ModIs
<1> HIDE DEF m
<1>2. CASE m + 1 < R
  <2>1. m + 1 \in 0 .. R - 1 /\ 0 \in Nat /\ R * 0 + (m + 1) = m + 1 /\ a + 1 = R * q + (m + 1)
    BY <1>1, <1>2
  <2>2. (R * 0 + (m + 1)) % R = m + 1 /\ (R * q + (m + 1)) % R = m + 1
    BY <1>1, <2>1, ModUnique
  <2> QED
    BY <2>1, <2>2 DEF m
<1>3. CASE m + 1 = R
  <2>1. 0 \in 0 .. R - 1 /\ q + 1 \in Nat /\ 1 \in Nat /\ R * 1 + 0 = m + 1 /\ a + 1 = R * (q + 1) + 0
    BY <1>1, <1>3
  <2>2. (R * 1 + 0) % R = 0 /\ (R * (q + 1) + 0) % R = 0
    BY <2>1, ModUnique
  <2> QED
    BY <2>1, <2>2 DEF m
<1> QED
  BY <1>1, <1>2, <1>3

-----------------------------------------------------------------------------
(* Requests that are stalled *)

LEMMA HitsIs ==
    ASSUME NEW l \in Seq(Reqs), NEW p
    PROVE  /\ Hits(l, p) \in Nat
           /\ Hits(l, p) = 0 <=> \A n \in DOMAIN l : PageOf(l[n]) # p
<1> DEFINE A == {n \in DOMAIN l : PageOf(l[n]) = p}
<1>1. DOMAIN l = 1 .. Len(l) /\ Len(l) \in Nat
  BY LenProperties
<1>2. A \subseteq 1 .. Len(l) /\ IsFiniteSet(1 .. Len(l))
  BY <1>1, FS_Interval
<1>3. IsFiniteSet(A)
  BY <1>2, FS_Subset
<1>4. Cardinality(A) \in Nat /\ (Cardinality(A) = 0 <=> A = {})
  BY <1>3, FS_EmptySet, FS_CardinalityType
<1> QED
  BY <1>4 DEF Hits

LEMMA HitsAppended ==
    ASSUME NEW l \in Seq(Reqs), NEW r \in Reqs, NEW p
    PROVE  Hits(Append(l, r), p) = Hits(l, p) + IF PageOf(r) = p THEN 1 ELSE 0
<1> DEFINE m == Append(l, r)
           A == {n \in DOMAIN l : PageOf(l[n]) = p}
           B == {n \in DOMAIN m : PageOf(m[n]) = p}
<1>1. DOMAIN l = 1 .. Len(l) /\ Len(l) \in Nat
  BY LenProperties
<1>2. /\ DOMAIN m = 1 .. Len(l) + 1 /\ m[Len(l) + 1] = r
      /\ \A i \in 1 .. Len(l) : m[i] = l[i]
  BY AppendProperties, LenProperties
<1>3. Hits(l, p) = Cardinality(A) /\ Hits(m, p) = Cardinality(B)
  BY DEF Hits
<1> HIDE DEF m
<1>4. B = A \cup IF PageOf(r) = p THEN {Len(l) + 1} ELSE {}
  BY <1>1, <1>2
<1>5. A \subseteq 1 .. Len(l) /\ IsFiniteSet(1 .. Len(l)) /\ Len(l) + 1 \notin A
  BY <1>1, FS_Interval
<1>6. IsFiniteSet(A)
  BY <1>5, FS_Subset
<1> HIDE DEF A, B
<1>7. Cardinality(A \cup {Len(l) + 1}) = Cardinality(A) + 1 /\ Cardinality(A) \in Nat
  BY <1>5, <1>6, FS_AddElement, FS_CardinalityType
<1>8. CASE PageOf(r) = p
  <2>1. B = A \cup {Len(l) + 1}
    BY <1>4, <1>8
  <2> QED
    BY <1>3, <1>7, <1>8, <2>1 DEF m
<1>9. CASE PageOf(r) # p
  <2>1. B = A
    BY <1>4, <1>9
  <2> QED
    BY <1>3, <1>7, <1>9, <2>1 DEF m
<1> QED
  BY <1>8, <1>9

\* The tail moved back behind its head is the list.
LEMMA HitsTail ==
    ASSUME NEW l \in Seq(Reqs), l # <<>>, NEW p
    PROVE  /\ Tail(l) \in Seq(Reqs) /\ Head(l) \in Reqs
           /\ Hits(l, p) = Hits(Tail(l), p) + IF PageOf(Head(l)) = p THEN 1 ELSE 0
<1> DEFINE t == Tail(l)
           A == {n \in DOMAIN l : PageOf(l[n]) = p}
           B == {n \in DOMAIN t : PageOf(t[n]) = p}
           up == {n + 1 : n \in B}
           shift == [n \in B |-> n + 1]
<1>1. DOMAIN l = 1 .. Len(l) /\ Len(l) \in Nat \ {0} /\ Head(l) = l[1] /\ Head(l) \in Reqs
  BY LenProperties, EmptySeq, HeadTailProperties
<1>2. /\ t \in Seq(Reqs) /\ Len(t) = Len(l) - 1
      /\ \A n \in 1 .. Len(t) : t[n] = l[n + 1]
  BY HeadTailProperties
<1>3. DOMAIN t = 1 .. Len(l) - 1
  BY <1>2, LenProperties
<1>4. Hits(l, p) = Cardinality(A) /\ Hits(t, p) = Cardinality(B)
  BY DEF Hits
<1> HIDE DEF t
<1>5. A = up \cup IF PageOf(Head(l)) = p THEN {1} ELSE {}
  <2>1. ASSUME NEW n \in A, n # 1 PROVE n \in up
    <3>1. n - 1 \in 1 .. Len(l) - 1 /\ t[n - 1] = l[n] /\ n = (n - 1) + 1
      BY <1>1, <1>2, <2>1
    <3>2. n - 1 \in B
      BY <1>3, <3>1, <2>1
    <3> QED
      BY <3>1, <3>2
  <2>2. ASSUME NEW n \in up PROVE n \in A /\ n # 1
    <3>1. PICK b \in B : n = b + 1
      OBVIOUS
    <3>2. b \in 1 .. Len(l) - 1 /\ t[b] = l[n] /\ PageOf(t[b]) = p
      BY <1>2, <1>3, <3>1
    <3> QED
      BY <1>1, <3>1, <3>2
  <2>3. 1 \in A <=> PageOf(Head(l)) = p
    BY <1>1
  <2> QED
    BY <2>1, <2>2, <2>3
<1>6. 1 \notin up
  BY <1>1, <1>3
<1>7. B \subseteq 1 .. Len(l) - 1 /\ IsFiniteSet(1 .. Len(l) - 1)
  BY <1>1, <1>3, FS_Interval
<1>8. IsFiniteSet(B)
  BY <1>7, FS_Subset
<1>9. shift \in Bijection(B, up)
  <2>1. B \subseteq Nat
    BY <1>1, <1>3
  <2> HIDE DEF B
  <2> QED
    BY <2>1 DEF Bijection, Injection, Surjection, IsInjective
<1> HIDE DEF A, B, up, shift
<1>10. IsFiniteSet(up) /\ Cardinality(up) = Cardinality(B)
  <2>1. ExistsBijection(B, up)
    BY <1>9 DEF ExistsBijection
  <2> QED
    BY <1>8, <2>1, FS_Bijection
<1>11. Cardinality(up \cup {1}) = Cardinality(up) + 1 /\ Cardinality(up) \in Nat
  BY <1>6, <1>10, FS_AddElement, FS_CardinalityType
<1>12. CASE PageOf(Head(l)) = p
  <2>1. A = up \cup {1}
    BY <1>5, <1>12
  <2> QED
    BY <1>1, <1>2, <1>4, <1>10, <1>11, <1>12, <2>1 DEF t
<1>13. CASE PageOf(Head(l)) # p
  <2>1. A = up
    BY <1>5, <1>13
  <2> QED
    BY <1>1, <1>2, <1>4, <1>10, <1>11, <1>13, <2>1 DEF t
<1> QED
  BY <1>12, <1>13

-----------------------------------------------------------------------------
(* The invariant *)

\* The requests for a page that are stalled.
Left(w, p) == Hits(w.cpu.stalled["instr"], p) + Hits(w.cpu.stalled["data"], p)

\* A drain counts what is left; of a page that is flushed nothing is.
PageQuiet(w, p) ==
    /\ p \in DOMAIN w.cpu.drains <=> held[p] = "drain"
    /\ held[p] = "drain" => w.cpu.drains[p] = Left(w, p)
    /\ held[p] = "flush" => Left(w, p) = 0

\* There is an event for each drain with nothing left.
NoneLeft(w) == {p \in DOMAIN w.cpu.drains : w.cpu.drains[p] = 0}
Counted(w) == IsFiniteSet(NoneLeft(w)) /\ Cardinality(NoneLeft(w)) = DrainEvents(w)

Stamps(w) == [e \in Entries |-> w.cpu.rob[e].g]
Used(w) == {e \in Entries : Stamps(w)[e] # 0}

\* The pausers are entries that have been fetched, each at its place in the buffer.
Placed(w) ==
    /\ w.cpu.instrPausers \in Seq(Used(w)) /\ w.cpu.dataPausers \in Seq(Used(w))
    /\ w.cpu.head = w.cpu.read % RobSize

Good == {w \in Worlds : Placed(w) /\ Counted(w) /\ \A p \in Pages : PageQuiet(w, p)}

IInv ==
    /\ Now \in Good
    /\ odd \in BOOLEAN /\ holds \in Nat
    /\ held \in [Pages -> {"open", "drain", "flush"}]

\* What a step leaves as it is when it neither stalls nor pauses nor fetches anything.
Keeps(z, w) ==
    /\ z \in Worlds
    /\ Queues(z) = Queues(w) /\ Lists(z) = Lists(w) /\ Ring(z) = Ring(w) /\ Stamps(z) = Stamps(w)

LEMMA SameStamps == ASSUME NEW z, NEW w, Buffer(z) = Buffer(w) PROVE Stamps(z) = Stamps(w)
    BY DEF Buffer, Stamps

LEMMA OneMore ==
    ASSUME NEW S, NEW x, x \notin S, IsFiniteSet(S)
    PROVE  IsFiniteSet(S \cup {x}) /\ Cardinality(S \cup {x}) = Cardinality(S) + 1
    BY FS_AddElement

LEMMA QueuesKept ==
    ASSUME NEW w \in Good, NEW z, Queues(z) = Queues(w)
    PROVE  Counted(z) /\ \A p \in Pages : PageQuiet(z, p)
    BY DEF Queues, Counted, NoneLeft, PageQuiet, Left, Good

LEMMA KeepsGood == ASSUME NEW w \in Good, NEW z, Keeps(z, w) PROVE z \in Good
<1>1. Used(z) = Used(w) /\ Placed(z)
  BY DEF Keeps, Lists, Ring, Used, Placed, Good
<1>2. Counted(z) /\ \A p \in Pages : PageQuiet(z, p)
  BY QueuesKept DEF Keeps
<1> QED
  BY <1>1, <1>2 DEF Keeps, Good

LEMMA Constants ==
    /\ RobSize \in Nat \ {0} /\ Len(Trace) \in Nat /\ DOMAIN Trace = 1 .. Len(Trace)
    /\ "instr" \in CacheNames /\ "data" \in CacheNames
    BY CPUAssumption, LenProperties DEF CacheNames

LEMMA TraceIs ==
    ASSUME NEW g \in DOMAIN Trace
    PROVE  Trace[g].instr \in Seq(Pages) /\ Trace[g].data \in Seq([page : Pages, read : BOOLEAN])
<1> DEFINE T == [instr : Seq(Pages), data : Seq([page : Pages, read : BOOLEAN])]
<1>1. Trace \in Seq(T)
  BY CPUAssumption
<1>2. Trace[g] \in T
  <2> HIDE DEF T
  <2> QED
    BY <1>1
<1> QED
  BY <1>2

LEMMA RequestsAre ==
    ASSUME NEW kind \in CacheNames, NEW g \in DOMAIN Trace
    PROVE  /\ Requests(kind, g) \in Seq({r \in Reqs : r.kind = kind /\ r.g = g})
<1>1. Trace[g].instr \in Seq(Pages) /\ Trace[g].data \in Seq([page : Pages, read : BOOLEAN])
  BY TraceIs
<1> DEFINE n == IF kind = "instr" THEN Len(Trace[g].instr) ELSE Len(Trace[g].data)
           q == Requests(kind, g)
<1>2. n \in Nat
  BY <1>1
<1>3. q = [i \in 1 .. n |-> Request(kind, g, i)] /\ DOMAIN q = 1 .. n
  BY DEF Requests
<1> HIDE DEF n
<1>4. ASSUME NEW i \in 1 .. n PROVE q[i] \in {r \in Reqs : r.kind = kind /\ r.g = g}
  <2>1. q[i] = [kind |-> kind, g |-> g, i |-> i] /\ i \in Nat
    BY <1>2, <1>3 DEF Request
  <2>2. q[i] \in [kind : CacheNames, g : DOMAIN Trace, i : Nat]
    BY <2>1
  <2>3. q[i].kind = kind /\ q[i].g = g /\ q[i].i \in DOMAIN q
    BY <1>3, <2>1
  <2> QED
    BY <2>2, <2>3 DEF Reqs
<1> HIDE DEF q
<1>5. q = [i \in 1 .. n |-> q[i]]
  BY <1>3
<1> QED
  BY <1>2, <1>4, <1>5 DEF q

LEMMA RequestIs ==
    ASSUME NEW r \in Reqs
    PROVE  /\ r.kind \in CacheNames /\ r.g \in DOMAIN Trace /\ r.i \in Nat
           /\ PageOf(r) \in Pages /\ EntryOf(r) \in Entries
<1>1. r.kind \in CacheNames /\ r.g \in DOMAIN Trace /\ r.i \in Nat /\ r.i \in DOMAIN Requests(r.kind, r.g)
  BY DEF Reqs
<1>2. Trace[r.g].instr \in Seq(Pages) /\ Trace[r.g].data \in Seq([page : Pages, read : BOOLEAN])
  BY <1>1, TraceIs
<1>3. r.i \in 1 .. IF r.kind = "instr" THEN Len(Trace[r.g].instr) ELSE Len(Trace[r.g].data)
  BY <1>1 DEF Requests
<1>4. PageOf(r) \in Pages
  <2>1. CASE r.kind = "instr"
    BY <1>2, <1>3, <2>1 DEF PageOf
  <2>2. CASE r.kind # "instr"
    <3>1. Trace[r.g].data[r.i] \in [page : Pages, read : BOOLEAN]
      BY <1>2, <1>3, <2>2, ElementOfSeq
    <3> QED
      BY <2>2, <3>1 DEF PageOf
  <2> QED
    BY <2>1, <2>2
<1>5. r.g - 1 \in Nat
  BY <1>1, Constants
<1>6. EntryOf(r) \in Entries
  BY <1>5, Constants DEF EntryOf, Entries
<1> QED
  BY <1>1, <1>4, <1>6

-----------------------------------------------------------------------------
(* Requests *)

LEMMA FailKeeps ==
    ASSUME NEW w \in Worlds, NEW what \in Failures, NEW ok
    PROVE  Keeps(Fail(w, what, ok), w)
<1>1. CASE ok \/ w.cpu.failed # ""
  BY <1>1 DEF Fail, Keeps
<1>2. CASE ~(ok \/ w.cpu.failed # "")
  <2>1. Fail(w, what, ok) = [w EXCEPT !.cpu.failed = what]
    BY <1>2 DEF Fail
  <2> QED
    BY <2>1, SetFailed, SameStamps DEF Keeps
<1> QED
  BY <1>1, <1>2

LEMMA CoreIs ==
    ASSUME NEW w \in Worlds
    PROVE  /\ w.cpu.rob \in [Entries -> RobEntries] /\ w.cpu.head \in Entries /\ w.cpu.tail \in Entries
           /\ w.cpu.full \in BOOLEAN /\ w.cpu.fetchEntry \in Seq(Entries) /\ w.cpu.read \in 0 .. Len(Trace)
           /\ w.cpu.lsq \in SUBSET Reqs /\ w.cpu.instrPausers \in Seq(Entries)
           /\ w.cpu.dataPausers \in Seq(Entries) /\ w.cpu.stalled \in [CacheNames -> Seq(Reqs)]
           /\ w.cpu.drains \in Drains /\ w.cpu.slots \in [{0, 1} -> Slots]
           /\ w.cpu.now \in Counts /\ w.cpu.next \in Counts /\ w.cpu.quota \in [CacheNames -> Nat]
           /\ w.cpu.commits \in Nat /\ w.cpu.finished \in Nat
           /\ w.atCache.reads \in SUBSET Reqs /\ w.atCache.unstall \in SUBSET CacheNames
           /\ w.waiting \in SUBSET Pages
    BY DEF Worlds, Cores, Caches

LEMMA TakeKeeps ==
    ASSUME NEW w \in Worlds, NEW r \in Reqs
    PROVE  /\ Take(w, r) \in Worlds
           /\ Queues(Take(w, r)) = Queues(w) /\ Lists(Take(w, r)) = Lists(w)
           /\ Ring(Take(w, r)) = Ring(w) /\ Buffer(Take(w, r)) = Buffer(w)
<1>1. r.kind \in CacheNames
  BY RequestIs
<1>2. CASE w.cpu.quota[r.kind] = 0
  <2> DEFINE v == w.atCache.unstall \cup {r.kind}
             z == [w EXCEPT !.atCache.unstall = v]
  <2>1. v \in SUBSET CacheNames
    BY <1>1, CoreIs
  <2>2. Take(w, r) = z
    BY <1>2 DEF Take
  <2>3. z \in Worlds /\ Queues(z) = Queues(w) /\ Lists(z) = Lists(w) /\ Ring(z) = Ring(w)
        /\ Buffer(z) = Buffer(w)
    <3> HIDE DEF v
    <3> QED
      BY <2>1, SetUnstall
  <2> QED
    BY <2>2, <2>3
<1>3. CASE w.cpu.quota[r.kind] # 0
  <2> DEFINE v == [w.cpu.quota EXCEPT ![r.kind] = @ - 1]
             a == [w EXCEPT !.cpu.quota = v]
             rs == IF IsRead(r) THEN w.atCache.reads \cup {r} ELSE w.atCache.reads
  <2>1. v \in [CacheNames -> Nat] /\ rs \in SUBSET Reqs
    BY <1>1, <1>3, CoreIs
  <2>2. a \in Worlds /\ Queues(a) = Queues(w) /\ Lists(a) = Lists(w) /\ Ring(a) = Ring(w)
        /\ Buffer(a) = Buffer(w)
    <3> HIDE DEF v
    <3> QED
      BY <2>1, SetQuota
  <2>3. a.atCache.reads = w.atCache.reads
    BY DEF Worlds
  <2> DEFINE z == [a EXCEPT !.atCache.reads = rs]
  <2>4. Take(w, r) = z
    BY <1>3, <2>3 DEF Take
  <2>5. z \in Worlds /\ Queues(z) = Queues(a) /\ Lists(z) = Lists(a) /\ Ring(z) = Ring(a)
        /\ Buffer(z) = Buffer(a)
    <3> HIDE DEF a, rs
    <3> QED
      BY <2>1, <2>2, SetReads
  <2> QED
    BY <2>2, <2>4, <2>5
<1> QED
  BY <1>2, <1>3

\* Where a step of a loop may go from w.
Follow(w) == {s \in Good : Stamps(s) = Stamps(w)}

LEMMA KeepsFollows == ASSUME NEW w \in Good, NEW z, Keeps(z, w) PROVE z \in Follow(w)
    BY KeepsGood DEF Keeps, Follow

LEMMA EntryPauses ==
    ASSUME NEW t \in RobEntries, NEW i \in Nat
    PROVE  /\ [t EXCEPT !.instrPause = @ \ {i}] \in RobEntries /\ [t EXCEPT !.instrPause = @ \ {i}].g = t.g
           /\ [t EXCEPT !.dataPause = @ \ {i}] \in RobEntries /\ [t EXCEPT !.dataPause = @ \ {i}].g = t.g
           /\ [t EXCEPT !.instrPause = @ \cup {i}] \in RobEntries /\ [t EXCEPT !.instrPause = @ \cup {i}].g = t.g
           /\ [t EXCEPT !.dataPause = @ \cup {i}] \in RobEntries /\ [t EXCEPT !.dataPause = @ \cup {i}].g = t.g
    BY DEF RobEntries

LEMMA EntryWaits ==
    ASSUME NEW t \in RobEntries, NEW state \in States
    PROVE  /\ [t EXCEPT !.instrLeft = @ - 1] \in RobEntries /\ [t EXCEPT !.instrLeft = @ - 1].g = t.g
           /\ [t EXCEPT !.dataLeft = @ - 1] \in RobEntries /\ [t EXCEPT !.dataLeft = @ - 1].g = t.g
           /\ [t EXCEPT !.state = state] \in RobEntries /\ [t EXCEPT !.state = state].g = t.g
    BY DEF RobEntries

LEMMA EntryKeeps ==
    ASSUME NEW w \in Worlds, NEW e \in Entries, NEW v \in RobEntries, v.g = w.cpu.rob[e].g
    PROVE  /\ Keeps([w EXCEPT !.cpu.rob[e] = v], w)
           /\ [w EXCEPT !.cpu.rob[e] = v].cpu.rob = [w.cpu.rob EXCEPT ![e] = v]
<1> DEFINE z == [w EXCEPT !.cpu.rob[e] = v]
<1>1. /\ z \in Worlds
      /\ Queues(z) = Queues(w) /\ Lists(z) = Lists(w) /\ Ring(z) = Ring(w)
      /\ z.cpu.rob = [w.cpu.rob EXCEPT ![e] = v]
  <2> HIDE DEF z
  <2>1. z = WithEntry(w, e, v)
    BY DEF z, WithEntry
  <2> QED
    BY <2>1, SetEntry
<1>2. w.cpu.rob \in [Entries -> RobEntries]
  BY CoreIs
<1> HIDE DEF z
<1>3. Stamps(z) = Stamps(w)
  BY <1>1, <1>2 DEF Stamps
<1> QED
  BY <1>1, <1>3 DEF Keeps, z

LEMMA ListedKeeps == ASSUME NEW w \in Worlds, NEW r \in Reqs PROVE Keeps(Listed(w, r), w)
<1> DEFINE v == w.waiting \cup {PageOf(r)}
           z == [w EXCEPT !.waiting = v]
<1>1. v \in SUBSET Pages
  BY RequestIs, CoreIs
<1>2. /\ z \in Worlds
      /\ Queues(z) = Queues(w) /\ Lists(z) = Lists(w) /\ Ring(z) = Ring(w) /\ Buffer(z) = Buffer(w)
  <2> HIDE DEF v
  <2> QED
    BY <1>1, SetWaiting
<1>3. Listed(w, r) = z
  BY DEF Listed
<1> QED
  BY <1>2, <1>3, SameStamps DEF Keeps

LEMMA TakeFollows ==
    ASSUME NEW w \in Worlds, NEW r \in Reqs
    PROVE  Keeps(Take(w, r), w)
    BY TakeKeeps, SameStamps DEF Keeps

\* What is stalled, and what drains wait for, is changed.
LEMMA QueuesFollow ==
    ASSUME NEW w \in Good, NEW z \in Worlds,
           Lists(z) = Lists(w), Ring(z) = Ring(w), Stamps(z) = Stamps(w),
           Counted(z), \A p \in Pages : PageQuiet(z, p)
    PROVE  z \in Follow(w)
<1>1. Used(z) = Used(w) /\ Placed(z)
  BY DEF Lists, Ring, Used, Placed, Good
<1> QED
  BY <1>1 DEF Good, Follow

LEMMA LeftIs ==
    ASSUME NEW w \in Worlds, NEW p
    PROVE  /\ Left(w, p) \in Nat
           /\ Left(w, p) = 0 <=> \A k \in CacheNames : \A n \in DOMAIN w.cpu.stalled[k] :
                                     PageOf(w.cpu.stalled[k][n]) # p
<1>1. w.cpu.stalled["instr"] \in Seq(Reqs) /\ w.cpu.stalled["data"] \in Seq(Reqs)
  BY CoreIs, Constants
<1>2. /\ Hits(w.cpu.stalled["instr"], p) \in Nat /\ Hits(w.cpu.stalled["data"], p) \in Nat
      /\ \A k \in CacheNames : Hits(w.cpu.stalled[k], p) = 0 <=>
             \A n \in DOMAIN w.cpu.stalled[k] : PageOf(w.cpu.stalled[k][n]) # p
  BY <1>1, HitsIs DEF CacheNames
<1>3. Left(w, p) = 0 <=> \A k \in CacheNames : Hits(w.cpu.stalled[k], p) = 0
  BY <1>2 DEF Left, CacheNames
<1> QED
  BY <1>2, <1>3 DEF Left

\* One list of stalled requests is changed.
LEMMA LeftSet ==
    ASSUME NEW w \in Worlds, NEW z \in Worlds, NEW k \in CacheNames, NEW v \in Seq(Reqs),
           z.cpu.stalled = [w.cpu.stalled EXCEPT ![k] = v], NEW p
    PROVE  Left(z, p) = Left(w, p) - Hits(w.cpu.stalled[k], p) + Hits(v, p)
<1>1. w.cpu.stalled \in [CacheNames -> Seq(Reqs)]
  BY CoreIs
<1>2. /\ Hits(v, p) \in Nat
      /\ Hits(w.cpu.stalled["instr"], p) \in Nat /\ Hits(w.cpu.stalled["data"], p) \in Nat
  BY <1>1, Constants, HitsIs
<1>3. CASE k = "instr"
  <2>1. z.cpu.stalled["instr"] = v /\ z.cpu.stalled["data"] = w.cpu.stalled["data"]
    BY <1>1, <1>3, Constants
  <2> QED
    BY <1>2, <1>3, <2>1 DEF Left
<1>4. CASE k = "data"
  <2>1. z.cpu.stalled["data"] = v /\ z.cpu.stalled["instr"] = w.cpu.stalled["instr"]
    BY <1>1, <1>4, Constants
  <2> QED
    BY <1>2, <1>4, <2>1 DEF Left
<1> QED
  BY <1>3, <1>4 DEF CacheNames

\* A request for a page that is not held may stall.
LEMMA StallFollows ==
    ASSUME NEW w \in Good, NEW r \in Reqs, ~IsHeld(r)
    PROVE  [w EXCEPT !.cpu.stalled[r.kind] = Append(@, r)] \in Follow(w)
<1> DEFINE k == r.kind
           v == Append(w.cpu.stalled[k], r)
           z == [w EXCEPT !.cpu.stalled[k] = v]
<1>1. w \in Worlds /\ k \in CacheNames /\ PageOf(r) \in Pages /\ w.cpu.stalled[k] \in Seq(Reqs)
  BY RequestIs, CoreIs DEF Good
<1>2. v \in Seq(Reqs)
  BY <1>1, AppendProperties
<1>3. /\ z \in Worlds
      /\ Lists(z) = Lists(w) /\ Ring(z) = Ring(w) /\ Buffer(z) = Buffer(w)
      /\ z.cpu.stalled = [w.cpu.stalled EXCEPT ![k] = v] /\ z.cpu.drains = w.cpu.drains
      /\ Clock(z) = Clock(w)
  <2> HIDE DEF z, v, k
  <2>1. z = WithStalled(w, k, v)
    BY DEF z, WithStalled
  <2> QED
    BY <1>1, <1>2, <2>1, SetStalled
<1> HIDE DEF z
<1>4. ASSUME NEW p \in Pages PROVE PageQuiet(z, p)
  <2>1. PageQuiet(w, p)
    BY DEF Good
  <2>2. CASE p = PageOf(r)
    <3>1. held[p] = "open"
      BY <2>2 DEF IsHeld
    <3> QED
      BY <1>3, <2>1, <3>1 DEF PageQuiet
  <2>3. CASE p # PageOf(r)
    <3>1. Hits(v, p) = Hits(w.cpu.stalled[k], p) + 0
      BY <1>1, <2>3, HitsAppended
    <3>2. Left(z, p) = Left(w, p) - Hits(w.cpu.stalled[k], p) + Hits(v, p)
      <4> HIDE DEF v, k
      <4> QED
        BY <1>1, <1>2, <1>3, LeftSet
    <3>3. Hits(w.cpu.stalled[k], p) \in Nat /\ Left(w, p) \in Nat
      BY <1>1, HitsIs, LeftIs
    <3>4. Left(z, p) = Left(w, p)
      <4> HIDE DEF v, k
      <4> QED
        BY <3>1, <3>2, <3>3
    <3> QED
      BY <1>3, <2>1, <3>4 DEF PageQuiet
  <2> QED
    BY <2>2, <2>3
<1>5. Counted(z)
  BY <1>3 DEF Good, Counted, NoneLeft, DrainEvents, Clock
<1>6. z \in Follow(w)
  BY <1>3, <1>4, <1>5, SameStamps, QueuesFollow
<1> QED
  BY <1>6 DEF z

LEMMA SendFollows ==
    ASSUME NEW w \in Good, NEW r \in Reqs, ~IsHeld(r)
    PROVE  Send(w, r) \in Follow(w)
<1> DEFINE asked == IF w.cpu.stalled[r.kind] = <<>> THEN Take(w, r) ELSE w
<1>1. w \in Worlds
  BY DEF Good
<1>2. asked \in Good /\ Stamps(asked) = Stamps(w)
  BY <1>1, TakeFollows, KeepsGood DEF Keeps
<1>3. [asked EXCEPT !.cpu.stalled[r.kind] = Append(@, r)] \in Follow(asked)
  <2> HIDE DEF asked
  <2> QED
    BY <1>2, StallFollows
<1>4. \/ Send(w, r) = asked
      \/ Send(w, r) = [asked EXCEPT !.cpu.stalled[r.kind] = Append(@, r)]
  BY DEF Send
<1> HIDE DEF asked
<1> QED
  BY <1>2, <1>3, <1>4 DEF Follow

\* A stalled request goes to its cache: a drain that waits for it counts it off.
LEMMA DrainedFollows ==
    ASSUME NEW w \in Good, NEW r \in Reqs, NEW u \in Worlds,
           Lists(u) = Lists(w), Ring(u) = Ring(w), Stamps(u) = Stamps(w),
           u.cpu.drains = w.cpu.drains, DrainEvents(u) = DrainEvents(w),
           \A p \in Pages : Left(w, p) = Left(u, p) + IF p = PageOf(r) THEN 1 ELSE 0
    PROVE  Drained(u, r) \in Follow(w)
<1> DEFINE p == PageOf(r)
           d == u.cpu.drains
<1>1. p \in Pages /\ w \in Worlds /\ \A q \in Pages : Left(u, q) \in Nat
  BY RequestIs, LeftIs DEF Good
<1>2. CASE p \notin DOMAIN d
  <2>1. Drained(u, r) = u
    BY <1>2 DEF Drained
  <2>2. ASSUME NEW q \in Pages PROVE PageQuiet(u, q)
    <3>1. PageQuiet(w, q) /\ Left(u, q) \in Nat
      BY <1>1 DEF Good
    <3>2. CASE q = p
      <4>1. Left(w, q) = Left(u, q) + 1
        BY <3>2
      <4> QED
        BY <1>2, <3>1, <3>2, <4>1 DEF PageQuiet
    <3>3. CASE q # p
      <4>1. Left(w, q) = Left(u, q)
        BY <3>1, <3>3
      <4> QED
        BY <3>1, <4>1 DEF PageQuiet
    <3> QED
      BY <3>2, <3>3
  <2>3. Counted(u)
    BY DEF Good, Counted, NoneLeft
  <2> QED
    BY <2>1, <2>2, <2>3, QueuesFollow
<1>3. CASE p \in DOMAIN d
  <2> DEFINE v == [d EXCEPT ![p] = @ - 1]
             a == [u EXCEPT !.cpu.drains = v]
             m == [a.cpu.next EXCEPT !.drain = IF d[p] = 1 THEN @ + 1 ELSE @]
             z == [a EXCEPT !.cpu.next = m]
             ok == u.cpu.drains[p] > 0
  <2>1. d \in Drains
    BY CoreIs
  <2>2. DOMAIN d \in SUBSET Pages /\ d \in [DOMAIN d -> Int]
    BY <2>1 DEF Drains
  <2>3. v \in [DOMAIN d -> Int] /\ DOMAIN v = DOMAIN d /\ v[p] = d[p] - 1
        /\ \A q \in DOMAIN d \ {p} : v[q] = d[q]
    <3> HIDE DEF p, d
    <3> QED
      BY <1>3, <2>2
  <2>4. v \in Drains
    BY <2>1, <2>2, <2>3 DEF Drains
  <2>5. /\ a \in Worlds /\ Lists(a) = Lists(u) /\ Ring(a) = Ring(u) /\ Buffer(a) = Buffer(u)
        /\ a.cpu.drains = v /\ a.cpu.stalled = u.cpu.stalled /\ Clock(a) = Clock(u)
    <3> HIDE DEF v
    <3> QED
      BY <2>4, SetDrains
  <2>6. m \in Counts /\ m.drain = u.cpu.next.drain + IF d[p] = 1 THEN 1 ELSE 0
    <3>1. a.cpu.next \in Counts /\ a.cpu.next = u.cpu.next
      BY <2>5, CoreIs DEF Clock
    <3> HIDE DEF a, d, p
    <3> QED
      BY <3>1 DEF Counts
  <2>7. /\ z \in Worlds /\ Lists(z) = Lists(a) /\ Ring(z) = Ring(a) /\ Buffer(z) = Buffer(a)
        /\ z.cpu.drains = a.cpu.drains /\ z.cpu.stalled = a.cpu.stalled
        /\ z.cpu.next = m /\ z.cpu.now = a.cpu.now
    <3> HIDE DEF a, m
    <3> QED
      BY <2>5, <2>6, SetNext
  <2>8. Drained(u, r) = Fail(z, "drain", ok)
    BY <1>3 DEF Drained
  <2> HIDE DEF a, z, m, ok
  <2>9. z.cpu.drains = v /\ z.cpu.stalled = u.cpu.stalled
    BY <2>5, <2>7
  <2>10. ASSUME NEW q \in Pages PROVE PageQuiet(z, q)
    <3>1. PageQuiet(w, q) /\ Left(u, q) \in Nat /\ Left(z, q) = Left(u, q)
      BY <1>1, <2>9 DEF Good, Left
    <3>2. CASE q = p
      <4>1. Left(w, q) = Left(u, q) + 1
        BY <3>2
      <4>2. held[q] = "drain" /\ d[q] = Left(w, q)
        BY <1>3, <3>1, <3>2 DEF PageQuiet
      <4>3. z.cpu.drains[q] = Left(z, q) /\ q \in DOMAIN z.cpu.drains
        <5>1. v[q] = d[q] - 1
          BY <2>3, <3>2
        <5> HIDE DEF v, d, p
        <5> QED
          BY <1>3, <2>3, <2>9, <3>1, <3>2, <4>1, <4>2, <5>1
      <4> QED
        BY <4>2, <4>3 DEF PageQuiet
    <3>3. CASE q # p
      <4>1. Left(w, q) = Left(z, q)
        BY <3>1, <3>3
      <4>2. q \in DOMAIN z.cpu.drains <=> q \in DOMAIN d
        BY <2>3, <2>9
      <4>3. q \in DOMAIN d => z.cpu.drains[q] = d[q]
        BY <2>3, <2>9, <3>3
      <4> QED
        BY <3>1, <4>1, <4>2, <4>3 DEF PageQuiet
    <3> QED
      BY <3>2, <3>3
  <2>11. z \in Follow(w)
    <3>1. Lists(z) = Lists(w) /\ Ring(z) = Ring(w) /\ Stamps(z) = Stamps(w)
      BY <2>5, <2>7, SameStamps
    <3>2. Counted(z)
      <4>1. DrainEvents(z) = DrainEvents(w) + IF d[p] = 1 THEN 1 ELSE 0
        <5>1. u.cpu.now \in Counts /\ u.cpu.next \in Counts
          BY CoreIs
        <5> HIDE DEF d, p
        <5> QED
          BY <2>5, <2>6, <2>7, <5>1 DEF DrainEvents, Clock, Counts
      <4>2. NoneLeft(z) = NoneLeft(w) \cup IF d[p] = 1 THEN {p} ELSE {}
        <5>1. d[p] \in Nat /\ d[p] # 0
          <6>1. PageQuiet(w, p) /\ Left(w, p) = Left(u, p) + 1 /\ Left(u, p) \in Nat
            BY <1>1 DEF Good
          <6> QED
            BY <1>3, <6>1 DEF PageQuiet
        <5> HIDE DEF d, p, v
        <5> QED
          BY <1>3, <2>3, <2>9, <5>1 DEF NoneLeft, d
      <4>3. d[p] = 1 => p \notin NoneLeft(w)
        BY DEF NoneLeft
      <4>4. IsFiniteSet(NoneLeft(w)) /\ Cardinality(NoneLeft(w)) = DrainEvents(w)
        BY DEF Good, Counted
      <4>5. CASE d[p] = 1
        BY <4>1, <4>2, <4>3, <4>4, <4>5, OneMore DEF Counted
      <4>6. CASE d[p] # 1
        BY <4>1, <4>2, <4>4, <4>6, FS_CardinalityType DEF Counted
      <4> QED
        BY <4>5, <4>6
    <3> QED
      BY <2>7, <2>10, <3>1, <3>2, QueuesFollow
  <2>12. z \in Good /\ Keeps(Fail(z, "drain", ok), z)
    <3>1. "drain" \in Failures
      BY DEF Failures
    <3>2. z \in Good /\ z \in Worlds
      BY <2>7, <2>11 DEF Follow
    <3> QED
      BY <3>1, <3>2, FailKeeps
  <2> QED
    BY <2>8, <2>11, <2>12, KeepsFollows DEF Follow
<1> QED
  BY <1>2, <1>3

LEMMA UnstallOneFollows ==
    ASSUME NEW w \in Good, NEW r \in Reqs
    PROVE  UnstallOne(w, r) \in Follow(w)
<1> DEFINE k == r.kind
           t == Take(w, r)
           v == Tail(w.cpu.stalled[k])
           u == [t EXCEPT !.cpu.stalled[k] = v]
<1>1. w \in Worlds /\ k \in CacheNames /\ w.cpu.stalled[k] \in Seq(Reqs)
  BY RequestIs, CoreIs DEF Good
<1>2. Keeps(t, w)
  BY <1>1, TakeFollows
<1>3. CASE w.cpu.stalled[k] = <<>> \/ Head(w.cpu.stalled[k]) # r
  BY <1>3 DEF UnstallOne, Follow
<1>4. CASE w.cpu.quota[k] = 0 /\ ~(w.cpu.stalled[k] = <<>> \/ Head(w.cpu.stalled[k]) # r)
  <2>1. UnstallOne(w, r) = t
    BY <1>4 DEF UnstallOne
  <2> QED
    BY <1>2, <2>1, KeepsFollows
<1>5. CASE w.cpu.quota[k] # 0 /\ ~(w.cpu.stalled[k] = <<>> \/ Head(w.cpu.stalled[k]) # r)
  <2>1. /\ t \in Worlds /\ t.cpu.stalled = w.cpu.stalled /\ t.cpu.drains = w.cpu.drains
        /\ DrainEvents(t) = DrainEvents(w)
    BY <1>2 DEF Keeps, Queues
  <2>2. UnstallOne(w, r) = Drained(u, r)
    BY <1>5, <2>1 DEF UnstallOne
  <2>3. /\ v \in Seq(Reqs)
        /\ \A p : Hits(w.cpu.stalled[k], p) = Hits(v, p) + IF PageOf(r) = p THEN 1 ELSE 0
    <3> HIDE DEF k
    <3> QED
      BY <1>1, <1>5, HitsTail
  <2>4. /\ u \in Worlds
        /\ Lists(u) = Lists(t) /\ Ring(u) = Ring(t) /\ Buffer(u) = Buffer(t)
        /\ u.cpu.stalled = [t.cpu.stalled EXCEPT ![k] = v] /\ u.cpu.drains = t.cpu.drains
        /\ DrainEvents(u) = DrainEvents(t)
    <3> HIDE DEF u, v, k, t
    <3>1. u = WithStalled(t, k, v)
      BY DEF u, WithStalled
    <3> QED
      BY <1>1, <2>1, <2>3, <3>1, SetStalled DEF Clock, DrainEvents
  <2> HIDE DEF u, t, v, k
  <2>5. Lists(u) = Lists(w) /\ Ring(u) = Ring(w) /\ Stamps(u) = Stamps(w)
    BY <1>2, <2>4, SameStamps DEF Keeps
  <2>6. ASSUME NEW p \in Pages
        PROVE  Left(w, p) = Left(u, p) + IF p = PageOf(r) THEN 1 ELSE 0
    <3>1. Left(u, p) = Left(w, p) - Hits(w.cpu.stalled[k], p) + Hits(v, p)
      BY <1>1, <2>1, <2>3, <2>4, LeftSet
    <3>2. Hits(w.cpu.stalled[k], p) \in Nat /\ Hits(v, p) \in Nat /\ Left(w, p) \in Nat
      BY <1>1, <2>3, HitsIs, LeftIs
    <3> QED
      BY <2>3, <3>1, <3>2
  <2> QED
    BY <2>1, <2>2, <2>4, <2>5, <2>6, DrainedFollows
<1> QED
  BY <1>3, <1>4, <1>5

\* The core is unstalled.
LEMMA SlotsAre == Slot \in {0, 1} /\ 1 - Slot \in {0, 1}
    BY DEF Slot

LEMMA SlotKeeps ==
    ASSUME NEW w \in Worlds, NEW n \in {0, 1}, NEW v \in Slots
    PROVE  Keeps([w EXCEPT !.cpu.slots[n] = v], w)
<1> DEFINE z == [w EXCEPT !.cpu.slots[n] = v]
<1>1. /\ z \in Worlds /\ Queues(z) = Queues(w) /\ Lists(z) = Lists(w) /\ Ring(z) = Ring(w)
      /\ Buffer(z) = Buffer(w)
  <2> HIDE DEF z
  <2>1. z = WithSlot(w, n, v)
    BY DEF z, WithSlot
  <2> QED
    BY <2>1, SetSlot
<1> QED
  BY <1>1, SameStamps DEF Keeps

LEMMA UnstallFollows ==
    ASSUME NEW w \in Good, NEW kind \in CacheNames
    PROVE  Unstall(w, kind) \in Good
<1> DEFINE n == 1 - Slot
           s == w.cpu.slots[n]
           v == [s EXCEPT !.unstall[kind] = FALSE]
           z == [w EXCEPT !.cpu.slots[n] = v]
<1>1. w \in Worlds /\ n \in {0, 1} /\ w.cpu.stalled[kind] \in Seq(Reqs)
  BY CoreIs, SlotsAre DEF Good
<1>2. v \in Slots
  <2>1. s \in Slots
    BY <1>1, CoreIs
  <2> QED
    BY <2>1 DEF Slots
<1>3. z \in Good
  <2> HIDE DEF n, v
  <2>1. Keeps(z, w)
    BY <1>1, <1>2, SlotKeeps
  <2> QED
    BY <2>1, KeepsGood
<1>4. InTurn(UnstallOne, z, w.cpu.stalled[kind]) \in Good
  <2>1. \A x \in Good, r \in Reqs : UnstallOne(x, r) \in Good
    BY UnstallOneFollows DEF Follow
  <2> HIDE DEF z
  <2> QED
    BY <1>1, <1>3, <2>1, UnstallOneLoop
<1>5. Unstall(w, kind) = w \/ Unstall(w, kind) = InTurn(UnstallOne, z, w.cpu.stalled[kind])
  BY DEF Unstall
<1> QED
  BY <1>4, <1>5

\* A request that is not held is sent.
LEMMA PassInstrFollows ==
    ASSUME NEW w \in Good, NEW r \in Reqs, ~IsHeld(r)
    PROVE  PassInstr(w, r) \in Follow(w)
<1> DEFINE e == EntryOf(r)
           v == [w.cpu.rob[e] EXCEPT !.instrPause = @ \ {r.i}]
           z == [w EXCEPT !.cpu.rob[e] = v]
<1>1. w \in Worlds /\ e \in Entries /\ w.cpu.rob[e] \in RobEntries
  BY RequestIs, CoreIs DEF Good
<1>2. v \in RobEntries /\ v.g = w.cpu.rob[e].g
  BY <1>1, RequestIs, EntryPauses
<1>3. Keeps(z, w)
  <2> HIDE DEF e, v
  <2> QED
    BY <1>1, <1>2, EntryKeeps
<1>4. PassInstr(w, r) = Send(z, r)
  BY DEF PassInstr
<1> HIDE DEF z
<1>5. z \in Good /\ Stamps(z) = Stamps(w)
  BY <1>3, KeepsGood DEF Keeps
<1> QED
  BY <1>4, <1>5, SendFollows DEF Follow

LEMMA PassDataFollows ==
    ASSUME NEW w \in Good, NEW r \in Reqs, ~IsHeld(r)
    PROVE  PassData(w, r) \in Follow(w)
<1> DEFINE e == EntryOf(r)
           v == [w.cpu.rob[e] EXCEPT !.dataPause = @ \ {r.i}]
           y == [w EXCEPT !.cpu.rob[e] = v]
           z == Send(y, r)
<1>1. w \in Worlds /\ e \in Entries /\ w.cpu.rob[e] \in RobEntries
  BY RequestIs, CoreIs DEF Good
<1>2. v \in RobEntries /\ v.g = w.cpu.rob[e].g
  BY <1>1, RequestIs, EntryPauses
<1>3. Keeps(y, w)
  <2> HIDE DEF e, v
  <2> QED
    BY <1>1, <1>2, EntryKeeps
<1>4. z \in Good /\ Stamps(z) = Stamps(w)
  <2> HIDE DEF y
  <2>1. y \in Good /\ Stamps(y) = Stamps(w)
    BY <1>3, KeepsGood DEF Keeps
  <2> QED
    BY <2>1, SendFollows DEF Follow
<1>5. CASE IsRead(r)
  <2> DEFINE l == z.cpu.lsq \cup {r}
             x == [z EXCEPT !.cpu.lsq = l]
             ok == r \notin w.cpu.lsq
  <2>1. PassData(w, r) = Fail(x, "lsq", ok)
    BY <1>5 DEF PassData
  <2> HIDE DEF ok
  <2> HIDE DEF z
  <2>2. z \in Worlds /\ l \in SUBSET Reqs
    BY <1>4, CoreIs DEF Good
  <2> HIDE DEF l
  <2>3. Keeps(x, z)
    BY <2>2, SetLsq, SameStamps DEF Keeps
  <2> HIDE DEF x
  <2>4. Keeps(Fail(x, "lsq", ok), x) /\ x \in Good
    BY <1>4, <2>3, FailKeeps, KeepsGood DEF Failures, Keeps
  <2> QED
    BY <1>4, <2>1, <2>3, <2>4, KeepsFollows DEF Follow, Keeps
<1>6. CASE ~IsRead(r)
  <2> DEFINE l == [z.cpu.rob[e] EXCEPT !.dataLeft = @ - 1]
             x == [z EXCEPT !.cpu.rob[e] = l]
  <2>1. PassData(w, r) = x
    BY <1>6 DEF PassData
  <2> HIDE DEF z
  <2>2. z \in Worlds /\ z.cpu.rob[e] \in RobEntries
    BY <1>1, <1>4, CoreIs DEF Good
  <2>3. l \in RobEntries /\ l.g = z.cpu.rob[e].g
    BY <2>2, EntryWaits DEF States
  <2> HIDE DEF l, e
  <2>4. Keeps(x, z)
    BY <1>1, <2>2, <2>3, EntryKeeps
  <2> QED
    BY <1>4, <2>1, <2>4, KeepsFollows DEF Follow
<1> QED
  BY <1>5, <1>6

LEMMA DoneFollows ==
    ASSUME NEW w \in Good, NEW e \in Entries
    PROVE  DoneIfNothingLeft(w, e) \in Follow(w)
<1> DEFINE v == [w.cpu.rob[e] EXCEPT !.state = "DONE"]
           z == [w EXCEPT !.cpu.rob[e] = v]
<1>1. w \in Worlds /\ w.cpu.rob[e] \in RobEntries
  BY CoreIs DEF Good
<1>2. v \in RobEntries /\ v.g = w.cpu.rob[e].g
  BY <1>1, EntryWaits DEF States
<1>3. Keeps(z, w)
  <2> HIDE DEF v
  <2> QED
    BY <1>1, <1>2, EntryKeeps
<1>4. DoneIfNothingLeft(w, e) = z \/ DoneIfNothingLeft(w, e) = w
  BY DEF DoneIfNothingLeft
<1> HIDE DEF z
<1> QED
  BY <1>3, <1>4, KeepsFollows DEF Follow

-----------------------------------------------------------------------------
(* The core is resumed *)

LEMMA RetryInstrFollows ==
    ASSUME NEW w \in Good, NEW r \in Reqs
    PROVE  RetryInstr(w, r) \in Follow(w)
<1>1. w \in Worlds
  BY DEF Good
<1>2. w \in Follow(w) /\ Listed(w, r) \in Follow(w)
  BY <1>1, ListedKeeps, KeepsFollows DEF Follow
<1> QED
  BY <1>2, PassInstrFollows DEF RetryInstr

LEMMA RetryDataFollows ==
    ASSUME NEW w \in Good, NEW r \in Reqs
    PROVE  RetryData(w, r) \in Follow(w)
<1>1. w \in Worlds
  BY DEF Good
<1>2. w \in Follow(w) /\ Listed(w, r) \in Follow(w)
  BY <1>1, ListedKeeps, KeepsFollows DEF Follow
<1> QED
  BY <1>2, PassDataFollows DEF RetryData

\* The lists of pausers are changed.
LEMMA ListsFollow ==
    ASSUME NEW w \in Good, NEW z \in Worlds,
           Queues(z) = Queues(w), Ring(z) = Ring(w), Stamps(z) = Stamps(w),
           z.cpu.instrPausers \in Seq(Used(w)), z.cpu.dataPausers \in Seq(Used(w))
    PROVE  z \in Follow(w)
<1>1. Used(z) = Used(w) /\ Placed(z)
  BY DEF Ring, Used, Placed, Good
<1>2. Counted(z) /\ \A p \in Pages : PageQuiet(z, p)
  BY QueuesKept
<1> QED
  BY <1>1, <1>2 DEF Good, Follow

LEMMA UsedPausers ==
    ASSUME NEW w \in Good, NEW v \in Seq(Used(w))
    PROVE  /\ [w EXCEPT !.cpu.instrPausers = v] \in Follow(w)
           /\ [w EXCEPT !.cpu.dataPausers = v] \in Follow(w)
<1> DEFINE y == [w EXCEPT !.cpu.instrPausers = v]
           z == [w EXCEPT !.cpu.dataPausers = v]
<1>1. /\ w \in Worlds
      /\ w.cpu.instrPausers \in Seq(Used(w)) /\ w.cpu.dataPausers \in Seq(Used(w))
  BY DEF Good, Placed
<1>2. v \in Seq(Entries)
  <2>1. \A n \in 1 .. Len(v) : v[n] \in Entries
    BY ElementOfSeq DEF Used
  <2> QED
    BY <2>1, LenProperties, IsASeq
<1>3. /\ y \in Worlds /\ Queues(y) = Queues(w) /\ Ring(y) = Ring(w) /\ Buffer(y) = Buffer(w)
      /\ y.cpu.instrPausers = v /\ y.cpu.dataPausers = w.cpu.dataPausers
  BY <1>1, <1>2, SetInstrPausers
<1>4. /\ z \in Worlds /\ Queues(z) = Queues(w) /\ Ring(z) = Ring(w) /\ Buffer(z) = Buffer(w)
      /\ z.cpu.dataPausers = v /\ z.cpu.instrPausers = w.cpu.instrPausers
  BY <1>1, <1>2, SetDataPausers
<1> HIDE DEF y, z
<1>5. y \in Follow(w) /\ z \in Follow(w)
  BY <1>1, <1>3, <1>4, SameStamps, ListsFollow
<1> QED
  BY <1>5 DEF y, z

LEMMA ResumeInstrFollows ==
    ASSUME NEW w \in Good, NEW e \in Used(w)
    PROVE  ResumeInstr(w, e) \in Follow(w)
<1> DEFINE q == Requests("instr", w.cpu.rob[e].g)
           t == InTurn(RetryInstr, w, q)
           z == [t EXCEPT !.cpu.instrPausers = Append(@, e)]
<1>1. w \in Worlds /\ e \in Entries /\ w.cpu.rob[e].g \in DOMAIN Trace
  <2>1. e \in Entries /\ w.cpu.rob[e].g # 0 /\ w \in Worlds
    BY DEF Used, Stamps, Good
  <2>2. w.cpu.rob[e].g \in 0 .. Len(Trace)
    BY <2>1, CoreIs DEF RobEntries
  <2> QED
    BY <2>1, <2>2, Constants
<1>2. q \in Seq({r \in Reqs : r.kind = "instr" /\ r.g = w.cpu.rob[e].g})
  BY <1>1, Constants, RequestsAre
<1>3. t \in Follow(w)
  <2>1. w \in Follow(w)
    BY DEF Follow
  <2>2. \A s \in Follow(w), r \in {r \in Reqs : r.kind = "instr" /\ r.g = w.cpu.rob[e].g} :
            RetryInstr(s, r) \in Follow(w)
    BY RetryInstrFollows DEF Follow
  <2> HIDE DEF q
  <2> QED
    BY <1>2, <2>1, <2>2, RetryInstrLoop
<1>4. ResumeInstr(w, e) \in {t, z}
  BY DEF ResumeInstr
<1> HIDE DEF t
<1>5. t \in Good /\ t.cpu.instrPausers \in Seq(Used(t)) /\ e \in Used(t)
  BY <1>3 DEF Follow, Good, Placed, Used
<1>6. Append(t.cpu.instrPausers, e) \in Seq(Used(t))
  BY <1>5, AppendProperties
<1>7. z \in Follow(t)
  BY <1>5, <1>6, UsedPausers
<1> QED
  BY <1>3, <1>4, <1>7 DEF Follow

LEMMA ResumeDataFollows ==
    ASSUME NEW w \in Good, NEW e \in Used(w)
    PROVE  ResumeData(w, e) \in Follow(w)
<1> DEFINE q == Requests("data", w.cpu.rob[e].g)
           t == InTurn(RetryData, w, q)
           y == DoneIfNothingLeft(t, e)
           z == [y EXCEPT !.cpu.dataPausers = Append(@, e)]
<1>1. w \in Worlds /\ e \in Entries /\ w.cpu.rob[e].g \in DOMAIN Trace
  <2>1. e \in Entries /\ w.cpu.rob[e].g # 0 /\ w \in Worlds
    BY DEF Used, Stamps, Good
  <2>2. w.cpu.rob[e].g \in 0 .. Len(Trace)
    BY <2>1, CoreIs DEF RobEntries
  <2> QED
    BY <2>1, <2>2, Constants
<1>2. q \in Seq({r \in Reqs : r.kind = "data" /\ r.g = w.cpu.rob[e].g})
  BY <1>1, Constants, RequestsAre
<1>3. t \in Follow(w)
  <2>1. w \in Follow(w)
    BY DEF Follow
  <2>2. \A s \in Follow(w), r \in {r \in Reqs : r.kind = "data" /\ r.g = w.cpu.rob[e].g} :
            RetryData(s, r) \in Follow(w)
    BY RetryDataFollows DEF Follow
  <2> HIDE DEF q
  <2> QED
    BY <1>2, <2>1, <2>2, RetryDataLoop
<1>4. ResumeData(w, e) \in {y, z}
  BY DEF ResumeData
<1>5. y \in Follow(w)
  <2> HIDE DEF t
  <2> QED
    BY <1>1, <1>3, DoneFollows DEF Follow
<1> HIDE DEF y
<1>6. y \in Good /\ y.cpu.dataPausers \in Seq(Used(y)) /\ e \in Used(y)
  BY <1>5 DEF Follow, Good, Placed, Used
<1>7. Append(y.cpu.dataPausers, e) \in Seq(Used(y))
  BY <1>6, AppendProperties
<1>8. z \in Follow(y)
  BY <1>6, <1>7, UsedPausers
<1> QED
  BY <1>4, <1>5, <1>8 DEF Follow

LEMMA ResumeFollows ==
    ASSUME NEW w \in Good
    PROVE  ResumePrivate(w) \in Good
<1> DEFINE n == 1 - Slot
           v == [w.cpu.slots[n] EXCEPT !.resumed = FALSE]
           y == [w EXCEPT !.cpu.slots[n] = v]
           ok == w.cpu.instrPausers # <<>> \/ w.cpu.dataPausers # <<>>
           w0 == Fail(y, "resume", ok)
           i0 == [w0 EXCEPT !.cpu.instrPausers = <<>>]
           w1 == InTurn(ResumeInstr, i0, w0.cpu.instrPausers)
           d1 == [w1 EXCEPT !.cpu.dataPausers = <<>>]
           w2 == InTurn(ResumeData, d1, w1.cpu.dataPausers)
<1>1. w \in Worlds /\ n \in {0, 1}
  BY SlotsAre DEF Good
<1>2. v \in Slots
  <2>1. w.cpu.slots[n] \in Slots
    BY <1>1, CoreIs
  <2> QED
    BY <2>1 DEF Slots
<1>3. y \in Good
  <2> HIDE DEF n, v
  <2>1. Keeps(y, w)
    BY <1>1, <1>2, SlotKeeps
  <2> QED
    BY <2>1, KeepsGood
<1>4. w0 \in Good
  <2> HIDE DEF y, ok
  <2>1. y \in Worlds /\ "resume" \in Failures
    BY <1>3 DEF Good, Failures
  <2>2. Keeps(w0, y)
    BY <2>1, FailKeeps
  <2> QED
    BY <1>3, <2>2, KeepsGood
<1>5. ResumePrivate(w) \in {w, w2}
  BY DEF ResumePrivate
<1> HIDE DEF w0
<1>6. w0.cpu.instrPausers \in Seq(Used(w0)) /\ <<>> \in Seq(Used(w0))
  BY <1>4 DEF Good, Placed
<1>7. i0 \in Follow(w0)
  BY <1>4, <1>6, UsedPausers
<1>8. w1 \in Follow(w0)
  <2> HIDE DEF i0
  <2>1. \A s \in Follow(w0), e \in Used(w0) : ResumeInstr(s, e) \in Follow(w0)
    BY ResumeInstrFollows DEF Follow, Used
  <2> QED
    BY <1>6, <1>7, <2>1, ResumeInstrLoop
<1> HIDE DEF w1
<1>9. w1 \in Good /\ w1.cpu.dataPausers \in Seq(Used(w1)) /\ <<>> \in Seq(Used(w1))
  BY <1>8 DEF Good, Placed, Follow
<1>10. d1 \in Follow(w1)
  BY <1>9, UsedPausers
<1>11. w2 \in Follow(w1)
  <2> HIDE DEF d1
  <2>1. \A s \in Follow(w1), e \in Used(w1) : ResumeData(s, e) \in Follow(w1)
    BY ResumeDataFollows DEF Follow, Used
  <2> QED
    BY <1>9, <1>10, <2>1, ResumeDataLoop
<1> QED
  BY <1>5, <1>11 DEF Follow

-----------------------------------------------------------------------------
(* The answers *)

LEMMA IssueDataFollows ==
    ASSUME NEW w \in Good, NEW r \in Reqs, EntryOf(r) \in Used(w)
    PROVE  IssueData(w, r) \in Follow(w)
<1> DEFINE e == EntryOf(r)
           l == Listed(w, r)
           v == [l.cpu.rob[e] EXCEPT !.dataPause = @ \cup {r.i}]
           y == [l EXCEPT !.cpu.rob[e] = v]
           z == [y EXCEPT !.cpu.dataPausers = Append(@, e)]
<1>1. CASE ~IsHeld(r)
  BY <1>1, PassDataFollows DEF IssueData
<1>2. CASE IsHeld(r)
  <2>1. w \in Worlds /\ e \in Entries /\ r.i \in Nat
    BY RequestIs DEF Good
  <2>2. l \in Follow(w)
    BY <2>1, ListedKeeps, KeepsFollows
  <2>3. IssueData(w, r) = z
    BY <1>2 DEF IssueData
  <2> HIDE DEF l
  <2>4. l \in Worlds /\ l.cpu.rob[e] \in RobEntries
    BY <2>1, <2>2, CoreIs DEF Follow, Good
  <2>5. v \in RobEntries /\ v.g = l.cpu.rob[e].g
    BY <2>1, <2>4, EntryPauses
  <2>6. y \in Follow(l)
    <3> HIDE DEF v, e
    <3>1. Keeps(y, l)
      BY <2>1, <2>4, <2>5, EntryKeeps
    <3> QED
      BY <2>2, <3>1, KeepsFollows DEF Follow
  <2> HIDE DEF y
  <2>7. y \in Good /\ y.cpu.dataPausers \in Seq(Used(y)) /\ e \in Used(y)
    BY <2>2, <2>6 DEF Follow, Good, Placed, Used
  <2>8. Append(y.cpu.dataPausers, e) \in Seq(Used(y))
    BY <2>7, AppendProperties
  <2>9. z \in Follow(y)
    BY <2>7, <2>8, UsedPausers
  <2> QED
    BY <2>2, <2>3, <2>6, <2>9 DEF Follow
<1> QED
  BY <1>1, <1>2

LEMMA InstrAnswerFollows ==
    ASSUME NEW w \in Good, NEW r \in Reqs
    PROVE  InstrAnswer(w, r) \in Follow(w)
<1> DEFINE e == EntryOf(r)
           ok == /\ e \in Range(w.cpu.fetchEntry)
                 /\ w.cpu.rob[e].state = "FETCHING" /\ w.cpu.rob[e].g = r.g
           u == [w.cpu.rob[e] EXCEPT !.instrLeft = @ - 1]
           w1 == [w EXCEPT !.cpu.rob[e] = u]
           v == [w1.cpu.rob[e] EXCEPT !.state = "DATA"]
           y == [w1 EXCEPT !.cpu.rob[e] = v]
           t == InTurn(IssueData, y, Requests("data", r.g))
<1>1. w \in Worlds /\ e \in Entries /\ r.g \in DOMAIN Trace /\ w.cpu.rob[e] \in RobEntries
  BY RequestIs, CoreIs DEF Good
<1>2. CASE ~ok
  <2>1. InstrAnswer(w, r) = Fail(w, "processInstr", FALSE)
    BY <1>2 DEF InstrAnswer
  <2>2. "processInstr" \in Failures
    BY DEF Failures
  <2> HIDE DEF ok
  <2> QED
    BY <1>1, <2>1, <2>2, FailKeeps, KeepsFollows
<1>3. CASE ok
  <2>1. u \in RobEntries /\ u.g = w.cpu.rob[e].g
    BY <1>1, EntryWaits DEF States
  <2>2. w1 \in Follow(w)
    <3> HIDE DEF u, e
    <3>1. Keeps(w1, w)
      BY <1>1, <2>1, EntryKeeps
    <3> QED
      BY <3>1, KeepsFollows
  <2>3. InstrAnswer(w, r) \in {w1, DoneIfNothingLeft(t, e)}
    BY <1>3 DEF InstrAnswer
  <2>4. w1.cpu.rob[e].g = r.g
    <3>1. Stamps(w1)[e] = Stamps(w)[e]
      BY <2>2 DEF Follow
    <3> HIDE DEF w1
    <3> QED
      BY <1>1, <1>3, <3>1 DEF Stamps
  <2> HIDE DEF w1
  <2>5. w1 \in Worlds /\ w1 \in Good /\ w1.cpu.rob[e] \in RobEntries
    BY <1>1, <2>2, CoreIs DEF Follow, Good
  <2>6. v \in RobEntries /\ v.g = w1.cpu.rob[e].g
    BY <2>5, EntryWaits DEF States
  <2>7. y \in Follow(w1)
    <3> HIDE DEF v, e
    <3>1. Keeps(y, w1)
      BY <1>1, <2>5, <2>6, EntryKeeps
    <3> QED
      BY <2>5, <3>1, KeepsFollows
  <2>8. e \in Used(w1)
    <3>1. r.g # 0
      BY <1>1, Constants
    <3> QED
      BY <1>1, <2>4, <3>1 DEF Used, Stamps
  <2> DEFINE R == {x \in Reqs : x.kind = "data" /\ x.g = r.g}
  <2>9. t \in Follow(w1)
    <3>1. Requests("data", r.g) \in Seq(R)
      BY <1>1, Constants, RequestsAre
    <3>2. ASSUME NEW s \in Follow(w1), NEW x \in R PROVE IssueData(s, x) \in Follow(w1)
      <4>1. EntryOf(x) = e
        BY DEF EntryOf
      <4>2. EntryOf(x) \in Used(s)
        BY <2>8, <4>1 DEF Follow, Used
      <4> QED
        BY <4>2, IssueDataFollows DEF Follow
    <3> HIDE DEF y, R
    <3> QED
      BY <2>7, <3>1, <3>2, IssueDataLoop
  <2> HIDE DEF t
  <2>10. DoneIfNothingLeft(t, e) \in Follow(w1)
    BY <1>1, <2>9, DoneFollows DEF Follow
  <2> QED
    BY <2>2, <2>3, <2>10 DEF Follow
<1> QED
  BY <1>2, <1>3

LEMMA DataAnswerFollows ==
    ASSUME NEW w \in Good, NEW r \in Reqs
    PROVE  DataAnswer(w, r) \in Follow(w)
<1> DEFINE e == EntryOf(r)
           ok == r \in w.cpu.lsq /\ w.cpu.rob[e].state = "DATA" /\ w.cpu.rob[e].g = r.g
           v == [w.cpu.rob[e] EXCEPT !.dataLeft = @ - 1]
           y == [w EXCEPT !.cpu.rob[e] = v]
           l == y.cpu.lsq \ {r}
           z == [y EXCEPT !.cpu.lsq = l]
           d == DoneIfNothingLeft(z, e)
<1>1. w \in Worlds /\ e \in Entries /\ w.cpu.rob[e] \in RobEntries
  BY RequestIs, CoreIs DEF Good
<1>2. v \in RobEntries /\ v.g = w.cpu.rob[e].g
  BY <1>1, EntryWaits DEF States
<1>3. y \in Follow(w)
  <2> HIDE DEF v, e
  <2>1. Keeps(y, w)
    BY <1>1, <1>2, EntryKeeps
  <2> QED
    BY <2>1, KeepsFollows
<1>4. DataAnswer(w, r) = Fail(d, "processData", ok)
  BY DEF DataAnswer
<1> HIDE DEF y, ok
<1>5. y \in Worlds /\ y \in Good /\ l \in SUBSET Reqs
  BY <1>3, CoreIs DEF Good, Follow
<1>6. z \in Follow(y)
  <2> HIDE DEF l
  <2>1. /\ z \in Worlds /\ Queues(z) = Queues(y) /\ Lists(z) = Lists(y) /\ Ring(z) = Ring(y)
        /\ Buffer(z) = Buffer(y)
    BY <1>5, SetLsq
  <2>2. Keeps(z, y)
    BY <2>1, SameStamps DEF Keeps
  <2> QED
    BY <1>5, <2>2, KeepsFollows
<1> HIDE DEF z
<1>7. d \in Follow(z)
  BY <1>1, <1>6, DoneFollows DEF Follow
<1> HIDE DEF d
<1>8. d \in Good /\ d \in Worlds /\ "processData" \in Failures
  BY <1>7 DEF Follow, Good, Failures
<1>9. Fail(d, "processData", ok) \in Follow(d)
  BY <1>8, FailKeeps, KeepsFollows
<1> QED
  BY <1>3, <1>4, <1>6, <1>7, <1>9 DEF Follow

LEMMA SlotFields ==
    ASSUME NEW s \in Slots, NEW v \in Seq(Reqs)
    PROVE  /\ s.instr \in Seq(Reqs) /\ s.data \in Seq(Reqs)
           /\ [s EXCEPT !.instr = v] \in Slots /\ [s EXCEPT !.data = v] \in Slots
    BY DEF Slots

\* The answers of the cycle before are processed.
LEMMA AnswersFollow ==
    ASSUME NEW w \in Good
    PROVE  ProcessInstr(w) \in Good /\ ProcessData(w) \in Good
<1> DEFINE n == 1 - Slot
           s == w.cpu.slots[n]
           u == [s EXCEPT !.instr = <<>>]
           v == [s EXCEPT !.data = <<>>]
           y == [w EXCEPT !.cpu.slots[n] = u]
           z == [w EXCEPT !.cpu.slots[n] = v]
<1>1. w \in Worlds /\ n \in {0, 1}
  BY SlotsAre DEF Good
<1>2. s \in Slots
  BY <1>1, CoreIs
<1>3. s.instr \in Seq(Reqs) /\ s.data \in Seq(Reqs) /\ u \in Slots /\ v \in Slots
  <2>1. <<>> \in Seq(Reqs)
    OBVIOUS
  <2> HIDE DEF s
  <2> QED
    BY <1>2, <2>1, SlotFields
<1>4. y \in Good /\ z \in Good
  <2> HIDE DEF n, u, v
  <2>1. Keeps(y, w) /\ Keeps(z, w)
    BY <1>1, <1>3, SlotKeeps
  <2> QED
    BY <2>1, KeepsGood
<1>5. ProcessInstr(w) = InTurn(InstrAnswer, y, s.instr) /\ ProcessData(w) = InTurn(DataAnswer, z, s.data)
  BY DEF ProcessInstr, ProcessData
<1> HIDE DEF s, y, z
<1>6. InTurn(InstrAnswer, y, s.instr) \in Good
  <2>1. \A x \in Good, r \in Reqs : InstrAnswer(x, r) \in Good
    BY InstrAnswerFollows DEF Follow
  <2> QED
    BY <1>3, <1>4, <2>1, InstrAnswerLoop
<1>7. InTurn(DataAnswer, z, s.data) \in Good
  <2>1. \A x \in Good, r \in Reqs : DataAnswer(x, r) \in Good
    BY DataAnswerFollows DEF Follow
  <2> QED
    BY <1>3, <1>4, <2>1, DataAnswerLoop
<1> QED
  BY <1>5, <1>6, <1>7

-----------------------------------------------------------------------------
(* Fetch and commit *)

LEMMA FetchInstrFollows ==
    ASSUME NEW w \in Good, NEW r \in Reqs, EntryOf(r) \in Used(w)
    PROVE  FetchInstr(w, r) \in Follow(w)
<1> DEFINE e == EntryOf(r)
           l == Listed(w, r)
           v == [l.cpu.rob[e] EXCEPT !.instrPause = @ \cup {r.i}]
           y == [l EXCEPT !.cpu.rob[e] = v]
           z == [y EXCEPT !.cpu.instrPausers = Append(@, e)]
<1>1. CASE ~IsHeld(r)
  BY <1>1, PassInstrFollows DEF FetchInstr
<1>2. CASE IsHeld(r)
  <2>1. w \in Worlds /\ e \in Entries /\ r.i \in Nat
    BY RequestIs DEF Good
  <2>2. l \in Follow(w)
    BY <2>1, ListedKeeps, KeepsFollows
  <2>3. FetchInstr(w, r) = z
    BY <1>2 DEF FetchInstr
  <2> HIDE DEF l
  <2>4. l \in Worlds /\ l.cpu.rob[e] \in RobEntries
    BY <2>1, <2>2, CoreIs DEF Follow, Good
  <2>5. v \in RobEntries /\ v.g = l.cpu.rob[e].g
    BY <2>1, <2>4, EntryPauses
  <2>6. y \in Follow(l)
    <3> HIDE DEF v, e
    <3>1. Keeps(y, l)
      BY <2>1, <2>4, <2>5, EntryKeeps
    <3> QED
      BY <2>2, <3>1, KeepsFollows DEF Follow
  <2> HIDE DEF y
  <2>7. y \in Good /\ y.cpu.instrPausers \in Seq(Used(y)) /\ e \in Used(y)
    BY <2>2, <2>6 DEF Follow, Good, Placed, Used
  <2>8. Append(y.cpu.instrPausers, e) \in Seq(Used(y))
    BY <2>7, AppendProperties
  <2>9. z \in Follow(y)
    BY <2>7, <2>8, UsedPausers
  <2> QED
    BY <2>2, <2>3, <2>6, <2>9 DEF Follow
<1> QED
  BY <1>1, <1>2

\* The entry at the head is taken for the next timestamp.
LEMMA FetchOneFollows ==
    ASSUME NEW w \in Good, NEW n
    PROVE  FetchOne(w, n) \in Good
<1> DEFINE g == w.cpu.read + 1
           e == w.cpu.head
           h == (e + 1) % RobSize
           v == NewEntry(g)
           y == [w EXCEPT !.cpu.rob[e] = v]
           f == InTurn(FetchInstr, y, Requests("instr", g))
           R == {x \in Reqs : x.kind = "instr" /\ x.g = g}
           z1 == [f EXCEPT !.cpu.read = g]
           z2 == [z1 EXCEPT !.cpu.fetchEntry = Append(@, e)]
           z3 == [z2 EXCEPT !.cpu.head = h]
           b == h = w.cpu.tail
           z4 == [z3 EXCEPT !.cpu.full = b]
           z == [f EXCEPT !.cpu.read = g, !.cpu.fetchEntry = Append(@, e), !.cpu.head = h, !.cpu.full = b]
<1>1. CASE g \notin DOMAIN Trace \/ w.cpu.full
  BY <1>1 DEF FetchOne
<1>2. CASE ~(g \notin DOMAIN Trace \/ w.cpu.full)
  <2>1. w \in Worlds /\ e \in Entries /\ e = w.cpu.read % RobSize /\ w.cpu.read \in Nat
    BY Constants, CoreIs DEF Good, Placed
  <2>2. g \in DOMAIN Trace /\ g \in 0 .. Len(Trace) /\ g # 0
    BY <1>2, Constants
  <2>3. v \in RobEntries /\ v.g = g
    <3>1. Len(Trace[g].instr) \in Int /\ Len(Trace[g].data) \in Int
      BY <2>2, TraceIs
    <3> HIDE DEF g
    <3> QED
      BY <2>2, <3>1 DEF NewEntry, RobEntries, States
  <2>4. FetchOne(w, n) = z4
    <3>1. FetchOne(w, n) = z
      BY <1>2 DEF FetchOne
    <3>2. z = z4
      <4> HIDE DEF f, g, e, h, b
      <4> QED
        OBVIOUS
    <3> QED
      BY <3>1, <3>2
  <2>5. /\ y \in Worlds
        /\ Queues(y) = Queues(w) /\ Lists(y) = Lists(w) /\ Ring(y) = Ring(w)
        /\ y.cpu.rob = [w.cpu.rob EXCEPT ![e] = v]
    <3> HIDE DEF v, e, y
    <3>1. y = WithEntry(w, e, v)
      BY DEF y, WithEntry
    <3> QED
      BY <2>1, <2>3, <3>1, SetEntry
  <2>6. e \in Used(y) /\ Used(w) \subseteq Used(y)
    <3>1. w.cpu.rob \in [Entries -> RobEntries]
      BY <2>1, CoreIs
    <3>2. y.cpu.rob[e].g = g /\ \A x \in Entries \ {e} : y.cpu.rob[x] = w.cpu.rob[x]
      <4> HIDE DEF v, y, e, g
      <4> QED
        BY <2>1, <2>3, <2>5, <3>1
    <3> HIDE DEF y, g
    <3> QED
      BY <2>1, <2>2, <3>2 DEF Used, Stamps
  <2>7. y \in Good
    <3> HIDE DEF y
    <3>1. w.cpu.instrPausers \in Seq(Used(w)) /\ w.cpu.dataPausers \in Seq(Used(w))
      BY DEF Good, Placed
    <3>2. y.cpu.instrPausers \in Seq(Used(y)) /\ y.cpu.dataPausers \in Seq(Used(y))
      BY <2>5, <2>6, <3>1, SeqMonotonic DEF Lists
    <3>3. Placed(y)
      BY <2>5, <3>2 DEF Ring, Placed, Good
    <3>4. Counted(y) /\ \A p \in Pages : PageQuiet(y, p)
      BY <2>5, QueuesKept
    <3> QED
      BY <2>5, <3>3, <3>4 DEF Good
  <2>8. f \in Follow(y)
    <3>1. Requests("instr", g) \in Seq(R)
      BY <2>2, Constants, RequestsAre
    <3>2. ASSUME NEW s \in Follow(y), NEW x \in R PROVE FetchInstr(s, x) \in Follow(y)
      <4>1. EntryOf(x) = e
        <5>1. x.g - 1 = w.cpu.read
          BY <2>1
        <5> QED
          BY <2>1, <5>1 DEF EntryOf
      <4>2. x \in Reqs /\ EntryOf(x) \in Used(s)
        BY <2>6, <4>1 DEF Follow, Used
      <4> HIDE DEF y
      <4> QED
        BY <4>2, FetchInstrFollows DEF Follow
    <3>3. y \in Follow(y)
      BY <2>7 DEF Follow
    <3> HIDE DEF y, R, g
    <3> QED
      BY <3>1, <3>2, <3>3, FetchInstrLoop
  <2>9. h \in Entries /\ h = g % RobSize 
    <3>1. h = (w.cpu.read + 1) % RobSize
      BY <2>1, Constants, ModNext
    <3>2. h \in Entries
      BY <2>1, Constants DEF Entries
    <3> QED
      BY <3>1, <3>2
  <2> HIDE DEF f, g, h
  <2>10. f \in Good /\ f \in Worlds
    BY <2>8 DEF Follow, Good
  <2>11. /\ z1 \in Worlds /\ Queues(z1) = Queues(f) /\ Lists(z1) = Lists(f) /\ Buffer(z1) = Buffer(f)
         /\ z1.cpu.read = g
    BY <2>2, <2>10, SetRead
  <2> HIDE DEF z1
  <2>12. /\ z2 \in Worlds /\ Queues(z2) = Queues(z1) /\ Lists(z2) = Lists(z1) /\ Buffer(z2) = Buffer(z1)
         /\ Ring(z2) = Ring(z1)
    <3> DEFINE l == Append(z1.cpu.fetchEntry, e)
    <3>1. l \in Seq(Entries)
      BY <2>1, <2>11, CoreIs, AppendProperties
    <3>2. z2 = [z1 EXCEPT !.cpu.fetchEntry = l]
      OBVIOUS
    <3> HIDE DEF l, z2
    <3> QED
      BY <2>11, <3>1, <3>2, SetFetchEntry
  <2> HIDE DEF z2
  <2>13. /\ z3 \in Worlds /\ Queues(z3) = Queues(z2) /\ Lists(z3) = Lists(z2) /\ Buffer(z3) = Buffer(z2)
         /\ z3.cpu.head = h /\ z3.cpu.read = z2.cpu.read
    BY <2>9, <2>12, SetHead
  <2> HIDE DEF z3
  <2>14. /\ z4 \in Worlds /\ Queues(z4) = Queues(z3) /\ Lists(z4) = Lists(z3) /\ Buffer(z4) = Buffer(z3)
         /\ z4.cpu.head = z3.cpu.head /\ z4.cpu.read = z3.cpu.read
    <3>1. b \in BOOLEAN
      OBVIOUS
    <3> HIDE DEF b
    <3> QED
      BY <2>13, <3>1, SetFull
  <2> HIDE DEF z4
  <2>15. z4.cpu.head = z4.cpu.read % RobSize
    BY <2>9, <2>11, <2>12, <2>13, <2>14 DEF Ring
  <2>16. Queues(z4) = Queues(f) /\ Lists(z4) = Lists(f) /\ Stamps(z4) = Stamps(f)
    BY <2>11, <2>12, <2>13, <2>14, SameStamps
  <2>17. Placed(z4)
    <3>1. Used(z4) = Used(f)
      BY <2>16 DEF Used
    <3> QED
      BY <2>10, <2>15, <2>16, <3>1 DEF Placed, Lists, Good
  <2>18. Counted(z4) /\ \A p \in Pages : PageQuiet(z4, p)
    BY <2>10, <2>16, QueuesKept
  <2> QED
    BY <2>4, <2>14, <2>17, <2>18 DEF Good
<1> QED
  BY <1>1, <1>2

LEMMA FetchFollows ==
    ASSUME NEW w \in Good
    PROVE  Fetch(w) \in Good
<1> DEFINE y == [w EXCEPT !.cpu.fetchEntry = <<>>]
           q == [n \in 1 .. IssueWidth |-> n]
<1>1. w \in Worlds /\ <<>> \in Seq(Entries) /\ q \in Seq(Nat)
  BY CPUAssumption DEF Good
<1>2. y \in Good
  <2>1. /\ y \in Worlds /\ Queues(y) = Queues(w) /\ Lists(y) = Lists(w) /\ Ring(y) = Ring(w)
        /\ Buffer(y) = Buffer(w)
    BY <1>1, SetFetchEntry
  <2>2. Keeps(y, w)
    BY <2>1, SameStamps DEF Keeps
  <2> QED
    BY <2>2, KeepsGood
<1>3. Fetch(w) \in {w, InTurn(FetchOne, y, q)}
  BY DEF Fetch
<1> HIDE DEF y, q
<1>4. InTurn(FetchOne, y, q) \in Good
  <2>1. \A s \in Good, n \in Nat : FetchOne(s, n) \in Good
    BY FetchOneFollows
  <2> QED
    BY <1>1, <1>2, <2>1, FetchOneLoop
<1> QED
  BY <1>3, <1>4

LEMMA CommitOneFollows ==
    ASSUME NEW w \in Good, NEW n
    PROVE  CommitOne(w, n) \in Good
<1> DEFINE last == w.cpu.read = Len(Trace) /\ w.cpu.tail = (Len(Trace) - 1) % RobSize
           next == (w.cpu.tail + 1) % RobSize
           f == IF last THEN w.cpu.finished + 1 ELSE w.cpu.finished
           ok == last => w.cpu.head = next
           c == w.cpu.commits + 1
           z1 == [w EXCEPT !.cpu.tail = next]
           z2 == [z1 EXCEPT !.cpu.full = FALSE]
           z3 == [z2 EXCEPT !.cpu.commits = c]
           z4 == [z3 EXCEPT !.cpu.finished = f]
           z == [w EXCEPT !.cpu.tail = next, !.cpu.full = FALSE, !.cpu.commits = @ + 1,
                          !.cpu.finished = IF last THEN @ + 1 ELSE @]
<1>1. w \in Worlds /\ next \in Entries /\ f \in Nat /\ c \in Nat
  <2>1. w \in Worlds /\ w.cpu.tail \in Entries /\ w.cpu.finished \in Nat /\ w.cpu.commits \in Nat
    BY CoreIs DEF Good
  <2> QED
    BY <2>1, Constants DEF Entries
<1>2. CommitOne(w, n) = w \/ CommitOne(w, n) = Fail(z, "commit", ok)
  BY DEF CommitOne
<1>3. z1 \in Worlds /\ z2 \in Worlds /\ z3 \in Worlds
  <2> HIDE DEF next, c
  <2>1. z1 \in Worlds
    BY <1>1, SetTail
  <2> HIDE DEF z1
  <2>2. z2 \in Worlds
    BY <2>1, SetFull
  <2> HIDE DEF z2
  <2>3. z3 \in Worlds
    BY <1>1, <2>2, SetCommits
  <2> QED
    BY <2>1, <2>2, <2>3 DEF z1, z2
<1>4. z4 = z
  <2>1. w.cpu.commits = z2.cpu.commits /\ w.cpu.finished = z3.cpu.finished
    BY <1>1 DEF Worlds, Cores
  <2> HIDE DEF last, next
  <2> QED
    BY <2>1
<1>5. /\ z4 \in Worlds /\ Queues(z4) = Queues(w) /\ Lists(z4) = Lists(w) /\ Buffer(z4) = Buffer(w)
      /\ z4.cpu.head = w.cpu.head /\ z4.cpu.read = w.cpu.read
  <2> HIDE DEF next, f, c
  <2>1. /\ Queues(z1) = Queues(w) /\ Lists(z1) = Lists(w) /\ Buffer(z1) = Buffer(w)
        /\ z1.cpu.head = w.cpu.head /\ z1.cpu.read = w.cpu.read
    BY <1>1, SetTail
  <2> HIDE DEF z1
  <2>2. /\ Queues(z2) = Queues(z1) /\ Lists(z2) = Lists(z1) /\ Buffer(z2) = Buffer(z1)
        /\ z2.cpu.head = z1.cpu.head /\ z2.cpu.read = z1.cpu.read
    BY <1>3, SetFull
  <2> HIDE DEF z2
  <2>3. /\ Queues(z3) = Queues(z2) /\ Lists(z3) = Lists(z2) /\ Buffer(z3) = Buffer(z2)
        /\ Ring(z3) = Ring(z2)
    BY <1>1, <1>3, SetCommits
  <2> HIDE DEF z3
  <2>4. /\ z4 \in Worlds /\ Queues(z4) = Queues(z3) /\ Lists(z4) = Lists(z3) /\ Buffer(z4) = Buffer(z3)
        /\ Ring(z4) = Ring(z3)
    BY <1>1, <1>3, SetFinished
  <2> HIDE DEF z4
  <2>5. z4.cpu.head = w.cpu.head /\ z4.cpu.read = w.cpu.read
    BY <2>1, <2>2, <2>3, <2>4 DEF Ring
  <2> QED
    BY <2>1, <2>2, <2>3, <2>4, <2>5
<1>6. z4 \in Good
  <2> HIDE DEF z4
  <2>1. Stamps(z4) = Stamps(w)
    BY <1>5, SameStamps
  <2>2. Placed(z4)
    BY <1>5, <2>1 DEF Placed, Used, Lists, Good
  <2>3. Counted(z4) /\ \A p \in Pages : PageQuiet(z4, p)
    BY <1>5, QueuesKept
  <2> QED
    BY <1>5, <2>2, <2>3 DEF Good
<1>7. Fail(z4, "commit", ok) \in Good
  <2> HIDE DEF z4, ok
  <2>1. z4 \in Worlds /\ "commit" \in Failures
    BY <1>6 DEF Good, Failures
  <2>2. Keeps(Fail(z4, "commit", ok), z4)
    BY <2>1, FailKeeps
  <2> QED
    BY <1>6, <2>2, KeepsGood
<1> HIDE DEF z4, z, ok
<1> QED
  BY <1>2, <1>4, <1>7

LEMMA ScheduleKeeps ==
    ASSUME NEW w \in Worlds
    PROVE  Keeps(ScheduleEvent(w), w)
<1> DEFINE n == Slot
           v == [w.cpu.slots[n] EXCEPT !.scheduled = TRUE]
           y == [w EXCEPT !.cpu.slots[n] = v]
           m == [y.cpu.next EXCEPT !.process = @ + 1]
           z == [y EXCEPT !.cpu.next = m]
<1>1. ScheduleEvent(w) \in {w, z}
  BY DEF ScheduleEvent
<1>2. w.cpu.slots[n] \in Slots /\ n \in {0, 1}
  BY CoreIs, SlotsAre
<1>3. v \in Slots
  BY <1>2 DEF Slots
<1>4. Keeps(y, w)
  <2> HIDE DEF n, v
  <2> QED
    BY <1>2, <1>3, SlotKeeps
<1> HIDE DEF y
<1>5. y \in Worlds /\ m \in Counts /\ m.drain = y.cpu.next.drain
  <2>1. y \in Worlds /\ y.cpu.next \in Counts
    BY <1>4, CoreIs DEF Keeps
  <2> QED
    BY <2>1 DEF Counts
<1>6. Keeps(z, w)
  <2> HIDE DEF m
  <2>1. /\ z \in Worlds /\ Queues(z) = Queues(y) /\ Lists(z) = Lists(y) /\ Ring(z) = Ring(y)
        /\ Buffer(z) = Buffer(y)
    BY <1>5, SetNext
  <2> QED
    BY <1>4, <2>1, SameStamps DEF Keeps
<1> QED
  BY <1>1, <1>6 DEF Keeps

LEMMA CommitFollows ==
    ASSUME NEW w \in Good
    PROVE  Commit(w) \in Good
<1> DEFINE y == [w EXCEPT !.cpu.commits = 0]
           q == [n \in 1 .. IssueWidth |-> n]
           c == InTurn(CommitOne, y, q)
<1>1. w \in Worlds /\ q \in Seq(Nat)
  BY CPUAssumption DEF Good
<1>2. y \in Good
  <2>1. /\ y \in Worlds /\ Queues(y) = Queues(w) /\ Lists(y) = Lists(w) /\ Ring(y) = Ring(w)
        /\ Buffer(y) = Buffer(w)
    BY <1>1, SetCommits
  <2>2. Keeps(y, w)
    BY <2>1, SameStamps DEF Keeps
  <2> QED
    BY <2>2, KeepsGood
<1>3. Commit(w) \in {c, ScheduleEvent(c)}
  BY DEF Commit
<1>4. c \in Good
  <2> HIDE DEF y, q
  <2>1. \A s \in Good, n \in Nat : CommitOne(s, n) \in Good
    BY CommitOneFollows
  <2> QED
    BY <1>1, <1>2, <2>1, CommitOneLoop
<1> HIDE DEF c
<1>5. ScheduleEvent(c) \in Good
  <2>1. c \in Worlds
    BY <1>4 DEF Good
  <2> QED
    BY <1>4, <2>1, ScheduleKeeps, KeepsGood
<1> QED
  BY <1>3, <1>4, <1>5

LEMMA ProcessFollows ==
    ASSUME NEW w \in Good
    PROVE  ProcessSlot(w) \in Good
<1> DEFINE n == 1 - Slot
           v == [w.cpu.slots[n] EXCEPT !.scheduled = FALSE]
           y == [w EXCEPT !.cpu.slots[n] = v]
           ok == w.cpu.slots[n].scheduled
           w0 == Fail(y, "scheduled", ok)
           w1 == ResumePrivate(w0)
           w2 == Unstall(w1, "instr")
           w3 == Unstall(w2, "data")
           w4 == ProcessInstr(w3)
           w5 == Fetch(w4)
           w6 == ProcessData(w5)
<1>1. w \in Worlds /\ n \in {0, 1}
  BY SlotsAre DEF Good
<1>2. v \in Slots
  <2>1. w.cpu.slots[n] \in Slots
    BY <1>1, CoreIs
  <2> QED
    BY <2>1 DEF Slots
<1>3. y \in Good
  <2> HIDE DEF n, v
  <2>1. Keeps(y, w)
    BY <1>1, <1>2, SlotKeeps
  <2> QED
    BY <2>1, KeepsGood
<1>4. ProcessSlot(w) = Commit(w6)
  BY DEF ProcessSlot
<1> HIDE DEF y, ok
<1>5. w0 \in Good
  <2>1. y \in Worlds /\ "scheduled" \in Failures
    BY <1>3 DEF Good, Failures
  <2>2. Keeps(w0, y)
    BY <2>1, FailKeeps
  <2> QED
    BY <1>3, <2>2, KeepsGood
<1> HIDE DEF w0
<1>6. w1 \in Good
  BY <1>5, ResumeFollows
<1> HIDE DEF w1
<1>7. w2 \in Good
  BY <1>6, UnstallFollows, Constants
<1> HIDE DEF w2
<1>8. w3 \in Good
  BY <1>7, UnstallFollows, Constants
<1> HIDE DEF w3
<1>9. w4 \in Good
  BY <1>8, AnswersFollow
<1> HIDE DEF w4
<1>10. w5 \in Good
  BY <1>9, FetchFollows
<1> HIDE DEF w5
<1>11. w6 \in Good
  BY <1>10, AnswersFollow
<1> HIDE DEF w6
<1> QED
  BY <1>4, <1>11, CommitFollows

-----------------------------------------------------------------------------
(* The steps *)

LEMMA BecomesIs == ASSUME NEW z \in Worlds, Becomes(z) PROVE Now' = z
<1>1. z = [cpu |-> z.cpu, atCache |-> z.atCache, waiting |-> z.waiting]
  BY DEF Worlds
<1> QED
  BY <1>1 DEF Becomes, Now

\* A step that leaves the manager's view as it is.
LEMMA SameView ==
    ASSUME IInv, UNCHANGED <<held, holds>>, odd' \in BOOLEAN, NEW z \in Good, Now' = z
    PROVE  IInv'
<1>1. ASSUME NEW p \in Pages PROVE PageQuiet(z, p)'
  <2>1. PageQuiet(z, p)
    BY DEF Good
  <2> QED
    BY <2>1 DEF PageQuiet, Left
<1>2. Placed(z)'
  <2>1. Placed(z)
    BY DEF Good
  <2> QED
    BY <2>1 DEF Placed, Used, Stamps
<1>3. z \in Worlds
  BY DEF Good
<1>4. (z \in Good)'
  BY <1>1, <1>2, <1>3 DEF Good, Counted, NoneLeft, DrainEvents
<1> QED
  BY <1>4 DEF IInv

LEMMA ProcessStep == ASSUME IInv, Process PROVE IInv'
<1>1. PICK quota \in [CacheNames -> Accepts] :
          Becomes([ProcessSlot([Now EXCEPT !.cpu.quota = quota, !.cpu.now.process = @ - 1])
                   EXCEPT !.cpu.quota = [k \in CacheNames |-> 0], !.cpu.commits = 0])
  BY DEF Process
<1> DEFINE a == [Now EXCEPT !.cpu.quota = quota]
           m == [a.cpu.now EXCEPT !.process = @ - 1]
           b == [a EXCEPT !.cpu.now = m]
           none == [k \in CacheNames |-> 0]
           s == ProcessSlot(b)
           y == [s EXCEPT !.cpu.quota = none]
           z == [y EXCEPT !.cpu.commits = 0]
<1>2. Now \in Good /\ Now \in Worlds /\ quota \in [CacheNames -> Nat] /\ none \in [CacheNames -> Nat]
  BY CPUAssumption DEF IInv, Good
<1>3. a \in Good
  <2>1. /\ a \in Worlds /\ Queues(a) = Queues(Now) /\ Lists(a) = Lists(Now) /\ Ring(a) = Ring(Now)
        /\ Buffer(a) = Buffer(Now)
    BY <1>2, SetQuota
  <2>2. Keeps(a, Now)
    BY <2>1, SameStamps DEF Keeps
  <2> QED
    BY <1>2, <2>2, KeepsGood
<1>4. m \in Counts /\ m.drain = a.cpu.now.drain
  <2>1. a.cpu.now = cpu.now /\ cpu.now.process > 0
    BY <1>2 DEF Process, Now, Worlds, Cores
  <2>2. a.cpu.now \in Counts
    BY <1>3, CoreIs DEF Good
  <2> QED
    BY <2>1, <2>2 DEF Counts
<1> HIDE DEF a
<1>5. b \in Good
  <2> HIDE DEF m
  <2>1. a \in Worlds
    BY <1>3 DEF Good
  <2>2. /\ b \in Worlds /\ Queues(b) = Queues(a) /\ Lists(b) = Lists(a) /\ Ring(b) = Ring(a)
        /\ Buffer(b) = Buffer(a)
    BY <1>4, <2>1, SetNow
  <2>3. Keeps(b, a)
    BY <2>2, SameStamps DEF Keeps
  <2> QED
    BY <1>3, <2>3, KeepsGood
<1>6. Becomes(z)
  BY <1>1 DEF a
<1> HIDE DEF b
<1>7. s \in Good
  BY <1>5, ProcessFollows
<1> HIDE DEF s, none
<1>8. y \in Good
  <2>1. s \in Worlds
    BY <1>7 DEF Good
  <2>2. /\ y \in Worlds /\ Queues(y) = Queues(s) /\ Lists(y) = Lists(s) /\ Ring(y) = Ring(s)
        /\ Buffer(y) = Buffer(s)
    BY <1>2, <2>1, SetQuota
  <2>3. Keeps(y, s)
    BY <2>2, SameStamps DEF Keeps
  <2> QED
    BY <1>7, <2>3, KeepsGood
<1> HIDE DEF y
<1>9. z \in Good
  <2>1. y \in Worlds
    BY <1>8 DEF Good
  <2>2. /\ z \in Worlds /\ Queues(z) = Queues(y) /\ Lists(z) = Lists(y) /\ Ring(z) = Ring(y)
        /\ Buffer(z) = Buffer(y)
    BY <2>1, SetCommits
  <2>3. Keeps(z, y)
    BY <2>2, SameStamps DEF Keeps
  <2> QED
    BY <1>8, <2>3, KeepsGood
<1> HIDE DEF z
<1>10. Now' = z
  BY <1>6, <1>9, BecomesIs DEF Good
<1>11. odd' = odd /\ UNCHANGED <<held, holds>> /\ odd \in BOOLEAN
  BY DEF Process, IInv
<1> QED
  BY <1>9, <1>10, <1>11, SameView

LEMMA TickStep == ASSUME IInv, Tick PROVE IInv'
<1> DEFINE none == [process |-> 0, drain |-> 0]
           m == cpu.next
           a == [Now EXCEPT !.cpu.now = m]
           z == [a EXCEPT !.cpu.next = none]
<1>1. Now \in Good /\ Now \in Worlds /\ m \in Counts /\ none \in Counts
  <2>1. Now \in Good /\ Now \in Worlds /\ Now.cpu.next \in Counts
    BY CoreIs DEF IInv, Good
  <2> QED
    BY <2>1 DEF Now, Counts
<1>2. Becomes(z)
  <2>1. Now = [cpu |-> cpu, atCache |-> atCache, waiting |-> waiting]
    BY DEF Now
  <2>2. a = [cpu |-> [cpu EXCEPT !.now = m], atCache |-> atCache, waiting |-> waiting]
    BY <2>1
  <2> HIDE DEF a, m, none
  <2>3. z = [cpu |-> [cpu EXCEPT !.now = m, !.next = none], atCache |-> atCache, waiting |-> waiting]
    BY <2>2
  <2> HIDE DEF z
  <2> QED
    BY <2>3 DEF Tick, Becomes, m, none
<1> HIDE DEF none, m
<1>3. /\ a \in Worlds /\ Lists(a) = Lists(Now) /\ Ring(a) = Ring(Now) /\ Buffer(a) = Buffer(Now)
      /\ a.cpu.stalled = Now.cpu.stalled /\ a.cpu.drains = Now.cpu.drains /\ a.cpu.now = m
  BY <1>1, SetNow
<1> HIDE DEF a
<1>4. /\ z \in Worlds /\ Lists(z) = Lists(a) /\ Ring(z) = Ring(a) /\ Buffer(z) = Buffer(a)
      /\ z.cpu.stalled = a.cpu.stalled /\ z.cpu.drains = a.cpu.drains
      /\ z.cpu.now = a.cpu.now /\ z.cpu.next = none
  BY <1>1, <1>3, SetNext
<1> HIDE DEF z
<1>5. z \in Good
  <2>1. DrainEvents(z) = DrainEvents(Now)
    <3>1. Now.cpu.now.drain = 0 /\ m = Now.cpu.next /\ m.drain \in Nat
      BY <1>1 DEF Tick, Now, Counts, m
    <3> QED
      BY <1>3, <1>4, <3>1 DEF DrainEvents, none
  <2>2. Keeps(z, Now)
    BY <1>3, <1>4, <2>1, SameStamps DEF Keeps, Queues
  <2> QED
    BY <1>1, <2>2, KeepsGood
<1>6. odd' \in BOOLEAN /\ UNCHANGED <<held, holds>>
  BY DEF Tick, IInv
<1>7. Now' = z
  BY <1>2, <1>4, BecomesIs
<1> QED
  BY <1>5, <1>6, <1>7, SameView

LEMMA CompleteStep == ASSUME IInv, NEW r \in atCache.reads, Complete(r) PROVE IInv'
<1> DEFINE n == Slot
           rs == Now.atCache.reads \ {r}
           a == [Now EXCEPT !.atCache.reads = rs]
           v == [a.cpu.slots[n] EXCEPT ![r.kind] = Append(@, r)]
           b == [a EXCEPT !.cpu.slots[n] = v]
           z == ScheduleEvent(b)
<1>1. Now \in Good /\ Now \in Worlds /\ r \in Reqs /\ rs \in SUBSET Reqs /\ n \in {0, 1}
  <2>1. Now \in Good /\ Now \in Worlds /\ Now.atCache.reads \in SUBSET Reqs
    BY CoreIs DEF IInv, Good
  <2> QED
    BY <2>1, SlotsAre DEF Now
<1>2. Becomes(z)
  BY DEF Complete
<1> HIDE DEF n, rs
<1>3. /\ a \in Worlds /\ Queues(a) = Queues(Now) /\ Lists(a) = Lists(Now) /\ Ring(a) = Ring(Now)
      /\ Buffer(a) = Buffer(Now)
  BY <1>1, SetReads
<1>4. v \in Slots
  <2> HIDE DEF a
  <2>1. a.cpu.slots[n] \in Slots /\ r.kind \in {"instr", "data"}
    BY <1>1, <1>3, RequestIs, CoreIs DEF CacheNames
  <2> DEFINE s == a.cpu.slots[n]
  <2>2. Append(s.instr, r) \in Seq(Reqs) /\ Append(s.data, r) \in Seq(Reqs)
    <3>1. s.instr \in Seq(Reqs) /\ s.data \in Seq(Reqs)
      BY <2>1 DEF Slots
    <3> QED
      BY <1>1, <3>1, AppendProperties
  <2>3. v = [s EXCEPT !.instr = Append(s.instr, r)] \/ v = [s EXCEPT !.data = Append(s.data, r)]
    BY <2>1
  <2> HIDE DEF s, v
  <2>4. s \in Slots
    BY <2>1 DEF s
  <2> QED
    BY <2>2, <2>3, <2>4, SlotFields
<1> HIDE DEF a, v
<1>5. b \in Good
  <2>1. Keeps(a, Now) /\ Keeps(b, a)
    BY <1>1, <1>3, <1>4, SlotKeeps, SameStamps DEF Keeps
  <2>2. Keeps(b, Now)
    BY <2>1 DEF Keeps
  <2> QED
    BY <1>1, <2>2, KeepsGood
<1> HIDE DEF b
<1>6. z \in Good
  <2>1. b \in Worlds
    BY <1>5 DEF Good
  <2> QED
    BY <1>5, <2>1, ScheduleKeeps, KeepsGood
<1> HIDE DEF z
<1>7. Now' = z
  BY <1>2, <1>6, BecomesIs DEF Good
<1>8. odd' \in BOOLEAN /\ UNCHANGED <<held, holds>>
  BY DEF Complete, IInv
<1> QED
  BY <1>6, <1>7, <1>8, SameView

LEMMA UnstallStep == ASSUME IInv, NEW kind \in CacheNames, UnstallCPU(kind) PROVE IInv'
<1> DEFINE n == Slot
           us == Now.atCache.unstall \ {kind}
           a == [Now EXCEPT !.atCache.unstall = us]
           v == [a.cpu.slots[n] EXCEPT !.unstall[kind] = TRUE]
           b == [a EXCEPT !.cpu.slots[n] = v]
           z == ScheduleEvent(b)
<1>1. Now \in Good /\ Now \in Worlds /\ us \in SUBSET CacheNames /\ n \in {0, 1}
  <2>1. Now \in Good /\ Now \in Worlds /\ Now.atCache.unstall \in SUBSET CacheNames
    BY CoreIs DEF IInv, Good
  <2> QED
    BY <2>1, SlotsAre
<1>2. Becomes(z)
  BY DEF UnstallCPU
<1> HIDE DEF n, us
<1>3. /\ a \in Worlds /\ Queues(a) = Queues(Now) /\ Lists(a) = Lists(Now) /\ Ring(a) = Ring(Now)
      /\ Buffer(a) = Buffer(Now)
  BY <1>1, SetUnstall
<1>4. v \in Slots
  <2> HIDE DEF a
  <2>1. a.cpu.slots[n] \in Slots
    BY <1>1, <1>3, CoreIs
  <2> QED
    BY <2>1 DEF Slots
<1> HIDE DEF a, v
<1>5. b \in Good
  <2>1. Keeps(a, Now) /\ Keeps(b, a)
    BY <1>1, <1>3, <1>4, SlotKeeps, SameStamps DEF Keeps
  <2>2. Keeps(b, Now)
    BY <2>1 DEF Keeps
  <2> QED
    BY <1>1, <2>2, KeepsGood
<1> HIDE DEF b
<1>6. z \in Good
  <2>1. b \in Worlds
    BY <1>5 DEF Good
  <2> QED
    BY <1>5, <2>1, ScheduleKeeps, KeepsGood
<1> HIDE DEF z
<1>7. Now' = z
  BY <1>2, <1>6, BecomesIs DEF Good
<1>8. odd' \in BOOLEAN /\ UNCHANGED <<held, holds>>
  BY DEF UnstallCPU, IInv
<1> QED
  BY <1>6, <1>7, <1>8, SameView

\* A step at which the manager's view changes.
LEMMA ViewStep ==
    ASSUME IInv, NEW z \in Worlds, Now' = z,
           Lists(z) = Lists(Now), Ring(z) = Ring(Now), Stamps(z) = Stamps(Now),
           Counted(z), \A q \in Pages : PageQuiet(Now, q)',
           odd' \in BOOLEAN, holds' \in Nat, held' \in [Pages -> {"open", "drain", "flush"}]
    PROVE  IInv'
<1>1. Used(z) = Used(Now) /\ Placed(z)
  BY DEF Lists, Ring, Used, Placed, Good, IInv
<1>2. Placed(z)'
  BY <1>1 DEF Placed, Used, Stamps
<1>3. \A q \in Pages : PageQuiet(z, q)'
  BY DEF PageQuiet, Left
<1>4. (z \in Good)'
  BY <1>2, <1>3 DEF Good, Counted, NoneLeft, DrainEvents
<1> QED
  BY <1>4 DEF IInv

\* A page that is held has no drain yet.
LEMMA HoldIs ==
    ASSUME IInv, NEW p \in Pages, Hold(p)
    PROVE  LET hits == Hits(cpu.stalled.instr, p) + Hits(cpu.stalled.data, p) IN
           cpu' = [cpu EXCEPT !.drains = [q \in DOMAIN cpu.drains \cup {p} |->
                                          IF q = p THEN hits ELSE cpu.drains[q]],
                              !.next = [cpu.next EXCEPT !.drain = IF hits = 0 THEN @ + 1 ELSE @]]
<1> DEFINE hits == Hits(cpu.stalled.instr, p) + Hits(cpu.stalled.data, p)
           d == [q \in DOMAIN cpu.drains \cup {p} |-> IF q = p THEN hits ELSE cpu.drains[q]]
           w == [Now EXCEPT !.cpu.drains = d, !.cpu.next.drain = IF hits = 0 THEN @ + 1 ELSE @]
<1>1. p \notin DOMAIN cpu.drains
  <2>1. PageQuiet(Now, p) /\ held[p] = "open"
    BY DEF IInv, Good, Hold
  <2> QED
    BY <2>1 DEF PageQuiet, Now
<1>2. cpu' = Fail(w, "drainTwice", p \notin DOMAIN cpu.drains).cpu
  BY DEF Hold, Drain, DrainEntry, Now
<1>3. cpu' = w.cpu
  <2> HIDE DEF w
  <2> QED
    BY <1>1, <1>2 DEF Fail
<1> HIDE DEF d, hits
<1>4. cpu \in Cores
  BY DEF IInv, Good, Worlds, Now
<1> QED
  BY <1>3, <1>4 DEF Now, Cores, d, hits

\* The manager holds a page: what is stalled for it is counted.
LEMMA HoldStep == ASSUME IInv, NEW p \in Pages, Hold(p) PROVE IInv'
<1> DEFINE hits == Hits(cpu.stalled.instr, p) + Hits(cpu.stalled.data, p)
           d == [q \in DOMAIN cpu.drains \cup {p} |-> IF q = p THEN hits ELSE cpu.drains[q]]
           a == [Now EXCEPT !.cpu.drains = d]
           m == [cpu.next EXCEPT !.drain = IF hits = 0 THEN @ + 1 ELSE @]
           z == [a EXCEPT !.cpu.next = m]
<1>1. /\ Now \in Good /\ Now \in Worlds
      /\ hits = Left(Now, p) /\ hits \in Nat
      /\ cpu.drains \in Drains /\ cpu.next \in Counts /\ p \notin DOMAIN cpu.drains
  <2>1. Now \in Good /\ Now \in Worlds
    BY DEF IInv, Good
  <2>2. Now.cpu = cpu
    BY DEF Now
  <2>3. PageQuiet(Now, p) /\ held[p] = "open"
    BY <2>1 DEF Good, Hold
  <2> QED
    BY <2>1, <2>2, <2>3, CoreIs, LeftIs DEF Left, PageQuiet
<1>2. Becomes(z)
  <2>1. Now = [cpu |-> cpu, atCache |-> atCache, waiting |-> waiting]
    BY DEF Now
  <2>2. cpu' = [cpu EXCEPT !.drains = d, !.next = m]
    BY HoldIs
  <2> HIDE DEF d, m
  <2>3. a = [cpu |-> [cpu EXCEPT !.drains = d], atCache |-> atCache, waiting |-> waiting]
    BY <2>1
  <2> HIDE DEF a
  <2>4. z = [cpu |-> [cpu EXCEPT !.drains = d, !.next = m], atCache |-> atCache, waiting |-> waiting]
    BY <2>3
  <2> HIDE DEF z
  <2> QED
    BY <2>2, <2>4 DEF Hold, Becomes
<1> HIDE DEF hits
<1>3. DOMAIN cpu.drains \in SUBSET Pages /\ cpu.drains \in [DOMAIN cpu.drains -> Int]
  BY <1>1 DEF Drains
<1>4. d \in [DOMAIN cpu.drains \cup {p} -> Int]
  BY <1>1, <1>3
<1>5. d \in Drains /\ m \in Counts /\ m.drain = cpu.next.drain + IF hits = 0 THEN 1 ELSE 0
  <2>1. DOMAIN cpu.drains \cup {p} \in SUBSET Pages
    BY <1>3
  <2>2. m \in Counts /\ m.drain = cpu.next.drain + IF hits = 0 THEN 1 ELSE 0
    BY <1>1 DEF Counts
  <2> HIDE DEF d, m
  <2> QED
    BY <1>4, <2>1, <2>2 DEF Drains
<1>6. DOMAIN d = DOMAIN cpu.drains \cup {p} /\ d[p] = hits /\ \A q \in DOMAIN cpu.drains \ {p} : d[q] = cpu.drains[q]
  OBVIOUS
<1> HIDE DEF d, m
<1>7. /\ a \in Worlds /\ Lists(a) = Lists(Now) /\ Ring(a) = Ring(Now) /\ Buffer(a) = Buffer(Now)
      /\ a.cpu.drains = d /\ a.cpu.stalled = Now.cpu.stalled /\ Clock(a) = Clock(Now)
  BY <1>1, <1>5, SetDrains
<1> HIDE DEF a
<1>8. /\ z \in Worlds /\ Lists(z) = Lists(a) /\ Ring(z) = Ring(a) /\ Buffer(z) = Buffer(a)
      /\ z.cpu.drains = a.cpu.drains /\ z.cpu.stalled = a.cpu.stalled
      /\ z.cpu.next = m /\ z.cpu.now = a.cpu.now
  BY <1>5, <1>7, SetNext
<1> HIDE DEF z
<1>9. Now' = z
  BY <1>2, <1>8, BecomesIs
<1>10. z.cpu.drains = d /\ z.cpu.stalled = Now.cpu.stalled
  BY <1>7, <1>8
<1>11. held \in [Pages -> {"open", "drain", "flush"}] /\ held' = [held EXCEPT ![p] = "drain"] /\ held[p] = "open"
  BY DEF IInv, Hold
<1>12. held'[p] = "drain" /\ \A q \in Pages \ {p} : held'[q] = held[q]
  BY <1>11
<1>13. Now.cpu.drains = cpu.drains
  BY DEF Now
<1>14. ASSUME NEW q \in Pages PROVE PageQuiet(Now, q)
  BY <1>1 DEF Good
<1>15. \A q \in Pages : PageQuiet(Now, q)'
  <2>1. SUFFICES ASSUME NEW q \in Pages PROVE PageQuiet(Now, q)'
    OBVIOUS
  <2>2. Now'.cpu.drains = d /\ Left(Now, q)' = Left(Now, q)
    BY <1>9, <1>10 DEF Left, Hits, PageOf
  <2>3. CASE q = p
    <3>1. Now'.cpu.drains[q] = Left(Now, q)' /\ q \in DOMAIN Now'.cpu.drains /\ held'[q] = "drain"
      BY <1>1, <1>6, <1>12, <2>2, <2>3
    <3> QED
      BY <3>1 DEF PageQuiet
  <2>4. CASE q # p
    <3>1. held'[q] = held[q] /\ (q \in DOMAIN Now'.cpu.drains <=> q \in DOMAIN Now.cpu.drains)
      BY <1>6, <1>12, <1>13, <2>2, <2>4
    <3>2. q \in DOMAIN Now.cpu.drains => Now'.cpu.drains[q] = Now.cpu.drains[q]
      BY <1>6, <1>13, <2>2, <2>4
    <3> QED
      BY <1>14, <2>2, <3>1, <3>2 DEF PageQuiet
  <2> QED
    BY <2>3, <2>4
<1>16. Counted(z)
  <2>1. NoneLeft(z) = NoneLeft(Now) \cup (IF hits = 0 THEN {p} ELSE {}) /\ p \notin NoneLeft(Now)
    BY <1>1, <1>6, <1>10, <1>13 DEF NoneLeft
  <2>2. DrainEvents(z) = DrainEvents(Now) + IF hits = 0 THEN 1 ELSE 0
    <3>1. z.cpu.next.drain = Now.cpu.next.drain + (IF hits = 0 THEN 1 ELSE 0) /\ z.cpu.now = Now.cpu.now
      BY <1>5, <1>7, <1>8 DEF Now, Clock
    <3>2. Now.cpu.now.drain \in Nat /\ Now.cpu.next.drain \in Nat
      BY <1>1, CoreIs DEF Counts
    <3> QED
      BY <3>1, <3>2 DEF DrainEvents
  <2>3. IsFiniteSet(NoneLeft(Now)) /\ Cardinality(NoneLeft(Now)) = DrainEvents(Now)
    BY <1>1 DEF Good, Counted
  <2>4. CASE hits = 0
    BY <2>1, <2>2, <2>3, <2>4, OneMore DEF Counted
  <2>5. CASE hits # 0
    BY <2>1, <2>2, <2>3, <2>5, FS_CardinalityType DEF Counted
  <2> QED
    BY <2>4, <2>5
<1> QED
  BY <1>7, <1>8, <1>9, <1>11, <1>12, <1>15, <1>16, SameStamps, ViewStep DEF Hold, IInv

\* The event finds a drain with nothing left.
LEMMA DrainFound ==
    ASSUME IInv, DrainEvent
    PROVE  \E p \in DOMAIN cpu.drains :
               /\ cpu.drains[p] = 0
               /\ cpu' = [cpu EXCEPT !.now.drain = @ - 1, !.drains = [q \in DOMAIN @ \ {p} |-> @[q]]]
               /\ held' = [held EXCEPT ![p] = "flush"]
<1>1. NothingLeft # {}
  <2>1. NothingLeft = NoneLeft(Now) /\ Now.cpu.now.drain > 0
    BY DEF NothingLeft, NoneLeft, Now, DrainEvent
  <2>2. Now \in Good /\ Now.cpu.now \in Counts /\ Now.cpu.next \in Counts
    BY CoreIs DEF IInv, Good
  <2>3. Cardinality(NoneLeft(Now)) # 0
    BY <2>1, <2>2 DEF Good, Counted, DrainEvents, Counts
  <2> QED
    BY <2>1, <2>3, FS_EmptySet
<1> QED
  BY <1>1 DEF DrainEvent, NothingLeft

\* A drain is complete: nothing is stalled for its page.
LEMMA DrainStep == ASSUME IInv, DrainEvent PROVE IInv'
<1>1. PICK p \in DOMAIN cpu.drains :
          /\ cpu.drains[p] = 0
          /\ cpu' = [cpu EXCEPT !.now.drain = @ - 1, !.drains = [q \in DOMAIN @ \ {p} |-> @[q]]]
          /\ held' = [held EXCEPT ![p] = "flush"]
  BY DrainFound
<1> DEFINE m == [cpu.now EXCEPT !.drain = @ - 1]
           d == [q \in DOMAIN cpu.drains \ {p} |-> cpu.drains[q]]
           a == [Now EXCEPT !.cpu.now = m]
           z == [a EXCEPT !.cpu.drains = d]
<1>2. /\ Now \in Good /\ Now \in Worlds
      /\ cpu.drains \in Drains /\ cpu.now \in Counts
  <2>1. Now \in Good /\ Now \in Worlds
    BY DEF IInv, Good
  <2>2. Now.cpu = cpu
    BY DEF Now
  <2> QED
    BY <2>1, <2>2, CoreIs
<1>3. Becomes(z)
  <2>1. Now = [cpu |-> cpu, atCache |-> atCache, waiting |-> waiting]
    BY DEF Now
  <2>2. cpu' = [cpu EXCEPT !.now = m, !.drains = d]
    <3>1. [cpu EXCEPT !.now = m].drains = cpu.drains
      BY <1>2 DEF Worlds, Cores, Now
    <3> QED
      BY <1>1, <3>1
  <2> HIDE DEF d, m
  <2>3. a = [cpu |-> [cpu EXCEPT !.now = m], atCache |-> atCache, waiting |-> waiting]
    BY <2>1
  <2> HIDE DEF a
  <2>4. z = [cpu |-> [cpu EXCEPT !.now = m, !.drains = d], atCache |-> atCache, waiting |-> waiting]
    BY <2>3
  <2> HIDE DEF z
  <2> QED
    BY <2>2, <2>4 DEF DrainEvent, Becomes
<1>4. /\ DOMAIN cpu.drains \in SUBSET Pages /\ cpu.drains \in [DOMAIN cpu.drains -> Int]
      /\ p \in Pages
  BY <1>2 DEF Drains
<1>5. d \in [DOMAIN cpu.drains \ {p} -> Int] /\ DOMAIN cpu.drains \ {p} \in SUBSET Pages
  BY <1>4
<1>6. m \in Counts
  <2>1. cpu.now.drain > 0
    BY DEF DrainEvent
  <2> QED
    BY <1>2, <2>1 DEF Counts
<1>7. d \in Drains
  <2> HIDE DEF d
  <2> QED
    BY <1>5 DEF Drains
<1>8. DOMAIN d = DOMAIN cpu.drains \ {p} /\ \A q \in DOMAIN d : d[q] = cpu.drains[q]
  OBVIOUS
<1> HIDE DEF d, m
<1>9. /\ a \in Worlds /\ Lists(a) = Lists(Now) /\ Ring(a) = Ring(Now) /\ Buffer(a) = Buffer(Now)
      /\ a.cpu.stalled = Now.cpu.stalled /\ a.cpu.now = m /\ a.cpu.next = Now.cpu.next
  BY <1>2, <1>6, SetNow
<1> HIDE DEF a
<1>10. /\ z \in Worlds /\ Lists(z) = Lists(a) /\ Ring(z) = Ring(a) /\ Buffer(z) = Buffer(a)
       /\ z.cpu.drains = d /\ z.cpu.stalled = a.cpu.stalled /\ Clock(z) = Clock(a)
  BY <1>7, <1>9, SetDrains
<1> HIDE DEF z
<1>11. Now' = z
  BY <1>3, <1>10, BecomesIs
<1>12. Now'.cpu.drains = d /\ Now'.cpu.stalled = Now.cpu.stalled
  BY <1>9, <1>10, <1>11
<1>13. held \in [Pages -> {"open", "drain", "flush"}]
  BY DEF IInv
<1>14. held'[p] = "flush" /\ \A q \in Pages \ {p} : held'[q] = held[q]
  BY <1>1, <1>4, <1>13
<1>15. Now.cpu.drains = cpu.drains
  BY DEF Now
<1>16. ASSUME NEW q \in Pages PROVE PageQuiet(Now, q)
  BY <1>2 DEF Good
<1>17. \A q \in Pages : PageQuiet(Now, q)'
  <2>1. SUFFICES ASSUME NEW q \in Pages PROVE PageQuiet(Now, q)'
    OBVIOUS
  <2>2. Left(Now, q)' = Left(Now, q)
    BY <1>12 DEF Left, Hits, PageOf
  <2>3. CASE q = p
    <3>1. held[q] = "drain" /\ cpu.drains[q] = Left(Now, q)
      BY <1>4, <1>15, <1>16, <2>3 DEF PageQuiet
    <3>2. q \notin DOMAIN Now'.cpu.drains /\ held'[q] = "flush" /\ Left(Now, q)' = 0
      BY <1>1, <1>8, <1>12, <1>14, <2>2, <2>3, <3>1
    <3> QED
      BY <3>2 DEF PageQuiet
  <2>4. CASE q # p
    <3>1. held'[q] = held[q] /\ (q \in DOMAIN Now'.cpu.drains <=> q \in DOMAIN Now.cpu.drains)
      BY <1>8, <1>12, <1>14, <1>15, <2>4
    <3>2. q \in DOMAIN Now.cpu.drains => Now'.cpu.drains[q] = Now.cpu.drains[q]
      BY <1>8, <1>12, <1>15, <2>4
    <3> QED
      BY <1>16, <2>2, <3>1, <3>2 DEF PageQuiet
  <2> QED
    BY <2>3, <2>4
<1>18. Counted(z)
  <2>1. NoneLeft(z) = NoneLeft(Now) \ {p} /\ p \in NoneLeft(Now)
    BY <1>1, <1>8, <1>10, <1>15 DEF NoneLeft
  <2>2. DrainEvents(z) = DrainEvents(Now) - 1
    <3>1. cpu.now = Now.cpu.now /\ Now.cpu.next \in Counts
      BY <1>2, CoreIs DEF Now
    <3> QED
      BY <1>2, <1>9, <1>10, <3>1 DEF DrainEvents, Clock, Counts, m
  <2>3. IsFiniteSet(NoneLeft(Now)) /\ Cardinality(NoneLeft(Now)) = DrainEvents(Now)
    BY <1>2 DEF Good, Counted
  <2> QED
    BY <2>1, <2>2, <2>3, FS_RemoveElement DEF Counted
<1> QED
  BY <1>1, <1>9, <1>10, <1>11, <1>13, <1>17, <1>18, SameStamps, ViewStep DEF DrainEvent, IInv

\* The page is free: the core is resumed if it is listed for it.
LEMMA FreeStep == ASSUME IInv, NEW p \in Pages, Free(p) PROVE IInv'
<1> DEFINE n == Slot
           v == [Now.cpu.slots[n] EXCEPT !.resumed = TRUE]
           u == Now.waiting \ {p}
           a == [Now EXCEPT !.cpu.slots[n] = v]
           b == [a EXCEPT !.waiting = u]
           z == IF p \notin waiting THEN Now ELSE ScheduleEvent(b)
<1>1. /\ Now \in Good /\ Now \in Worlds /\ n \in {0, 1}
      /\ Now.cpu.slots[n] \in Slots /\ u \in SUBSET Pages
  BY CoreIs, SlotsAre DEF IInv, Good
<1>2. v \in Slots
  BY <1>1 DEF Slots
<1>3. Keeps(a, Now)
  <2> HIDE DEF n, v
  <2> QED
    BY <1>1, <1>2, SlotKeeps
<1>4. Becomes(z)
  <2>1. a.waiting = Now.waiting
    BY <1>1 DEF Worlds
  <2> QED
    BY <2>1 DEF Free
<1> HIDE DEF a, u, n
<1>5. Keeps(b, Now)
  <2>1. a \in Worlds
    BY <1>3 DEF Keeps
  <2>2. /\ b \in Worlds /\ Queues(b) = Queues(a) /\ Lists(b) = Lists(a) /\ Ring(b) = Ring(a)
        /\ Buffer(b) = Buffer(a)
    BY <1>1, <2>1, SetWaiting
  <2> QED
    BY <1>3, <2>2, SameStamps DEF Keeps
<1> HIDE DEF b
<1>6. Keeps(z, Now)
  <2>1. Keeps(ScheduleEvent(b), b) /\ Keeps(Now, Now)
    BY <1>1, <1>5, ScheduleKeeps DEF Keeps
  <2> QED
    BY <1>5, <2>1 DEF Keeps
<1> HIDE DEF z
<1>7. Now' = z
  BY <1>4, <1>6, BecomesIs DEF Keeps
<1>8. held \in [Pages -> {"open", "drain", "flush"}] /\ held[p] = "flush" /\ held' = [held EXCEPT ![p] = "open"]
  BY DEF IInv, Free
<1>9. held'[p] = "open" /\ \A q \in Pages \ {p} : held'[q] = held[q]
  BY <1>8
<1>10. ASSUME NEW q \in Pages PROVE PageQuiet(Now, q)
  BY <1>1 DEF Good
<1>11. Now'.cpu.drains = Now.cpu.drains /\ Now'.cpu.stalled = Now.cpu.stalled
  BY <1>6, <1>7 DEF Keeps, Queues
<1>12. \A q \in Pages : PageQuiet(Now, q)'
  <2>1. SUFFICES ASSUME NEW q \in Pages PROVE PageQuiet(Now, q)'
    OBVIOUS
  <2>2. Left(Now, q)' = Left(Now, q)
    BY <1>11 DEF Left, Hits, PageOf
  <2>3. CASE q = p
    BY <1>8, <1>9, <1>10, <1>11, <2>3 DEF PageQuiet
  <2>4. CASE q # p
    <3>1. held'[q] = held[q]
      BY <1>9, <2>4
    <3> QED
      BY <1>10, <1>11, <2>2, <3>1 DEF PageQuiet
  <2> QED
    BY <2>3, <2>4
<1>13. Counted(z)
  BY <1>1, <1>6, KeepsGood DEF Good
<1> QED
  BY <1>6, <1>7, <1>8, <1>12, <1>13, ViewStep DEF Free, IInv, Keeps

-----------------------------------------------------------------------------
(* The theorem *)

LEMMA InitIInv == Init => IInv
<1> SUFFICES ASSUME Init PROVE IInv
  OBVIOUS
<1> DEFINE none == [p \in {} |-> 0]
           slots == [n \in {0, 1} |-> [EmptySlot EXCEPT !.scheduled = n = 0]]
           zero == [process |-> 0, drain |-> 0]
           one == [process |-> 1, drain |-> 0]
           empty == [k \in CacheNames |-> <<>>]
           quota == [k \in CacheNames |-> 0]
<1>1. PICK states \in [Entries -> States] :
           cpu = [rob |-> [e \in Entries |-> [g |-> 0, instrPause |-> {}, dataPause |-> {}, instrLeft |-> 0,
                                              dataLeft |-> 0, state |-> states[e]]],
                  head |-> 0, tail |-> 0, full |-> FALSE, fetchEntry |-> <<>>, read |-> 0, lsq |-> {},
                  instrPausers |-> <<>>, dataPausers |-> <<>>, stalled |-> empty,
                  drains |-> none, slots |-> slots, now |-> zero, next |-> one,
                  quota |-> quota, commits |-> 0, finished |-> 0, failed |-> ""]
  BY DEF Init
<1> DEFINE rob == [e \in Entries |-> [g |-> 0, instrPause |-> {}, dataPause |-> {}, instrLeft |-> 0,
                                      dataLeft |-> 0, state |-> states[e]]]
<1>2. rob \in [Entries -> RobEntries]
  <2>1. 0 \in 0 .. Len(Trace)
    BY Constants
  <2> QED
    BY <2>1 DEF RobEntries
<1>3. /\ 0 \in Entries /\ 0 \in 0 .. Len(Trace) /\ zero \in Counts /\ one \in Counts
      /\ quota \in [CacheNames -> Nat] /\ empty \in [CacheNames -> Seq(Reqs)]
      /\ <<>> \in Seq(Entries) /\ "" \in Failures
  BY Constants DEF Entries, Counts, Failures
<1>4. slots \in [{0, 1} -> Slots]
  <2>1. EmptySlot \in Slots
    <3>1. <<>> \in Seq(Reqs) /\ [k \in CacheNames |-> FALSE] \in [CacheNames -> BOOLEAN]
      OBVIOUS
    <3> QED
      BY <3>1 DEF EmptySlot, Slots
  <2>2. \A n \in {0, 1} : [EmptySlot EXCEPT !.scheduled = n = 0] \in Slots
    BY <2>1 DEF Slots
  <2> QED
    BY <2>2
<1>5. none \in Drains /\ DOMAIN none = {}
  <2>1. none \in [{} -> Int] /\ {} \in SUBSET Pages
    OBVIOUS
  <2> QED
    BY <2>1 DEF Drains
<1> HIDE DEF none, slots, zero, one, empty, quota, rob
<1>6. cpu \in Cores
  BY <1>1, <1>2, <1>3, <1>4, <1>5 DEF Cores, rob
<1>7. Now \in Worlds
  <2>1. atCache \in Caches /\ waiting \in SUBSET Pages
    BY DEF Init, Caches
  <2> QED
    BY <1>6, <2>1 DEF Now, Worlds
<1>8. Placed(Now)
  <2>1. 0 % RobSize = 0
    BY Constants
  <2>2. <<>> \in Seq(Used(Now))
    OBVIOUS
  <2> QED
    BY <1>1, <2>1, <2>2 DEF Now, Placed
<1>9. ASSUME NEW p \in Pages PROVE PageQuiet(Now, p)
  <2>1. held[p] = "open"
    BY DEF Init
  <2> QED
    BY <1>1, <1>5, <2>1 DEF PageQuiet, Now
<1>10. odd \in BOOLEAN /\ holds \in Nat /\ held \in [Pages -> {"open", "drain", "flush"}]
  BY DEF Init
<1>11. Counted(Now)
  <2>1. Now.cpu.drains = none /\ Now.cpu.now = zero /\ Now.cpu.next = one
    BY <1>1 DEF Now
  <2>2. NoneLeft(Now) = {} /\ DrainEvents(Now) = 0
    BY <1>5, <2>1 DEF NoneLeft, DrainEvents, zero, one
  <2> QED
    BY <2>2, FS_EmptySet DEF Counted
<1> QED
  BY <1>7, <1>8, <1>9, <1>10, <1>11 DEF Good, IInv

LEMMA NextIInv == IInv /\ [Next]_vars => IInv'
<1> SUFFICES ASSUME IInv, [Next]_vars PROVE IInv'
  OBVIOUS
<1>1. CASE Process
  BY <1>1, ProcessStep
<1>2. CASE DrainEvent
  BY <1>2, DrainStep
<1>3. CASE Tick
  BY <1>3, TickStep
<1>4. ASSUME NEW r \in atCache.reads, Complete(r) PROVE IInv'
  BY <1>4, CompleteStep
<1>5. ASSUME NEW kind \in CacheNames, UnstallCPU(kind) PROVE IInv'
  BY <1>5, UnstallStep
<1>6. ASSUME NEW p \in Pages, Hold(p) PROVE IInv'
  BY <1>6, HoldStep
<1>7. ASSUME NEW p \in Pages, Free(p) PROVE IInv'
  BY <1>7, FreeStep
<1>8. CASE UNCHANGED vars
  <2>1. Now' = Now
    BY <1>8 DEF vars, Now
  <2>2. Now \in Good /\ odd' \in BOOLEAN /\ UNCHANGED <<held, holds>>
    BY <1>8 DEF vars, IInv
  <2> QED
    BY <2>1, <2>2, SameView
<1> QED
  BY <1>1, <1>2, <1>3, <1>4, <1>5, <1>6, <1>7, <1>8 DEF Next

\* While a page is flushed and moved, the core has no request for it that it has yet
\* to send: the drain has waited for those that were stalled, and none has joined
\* them, whatever the trace, the size of the buffer, the answers of the caches and
\* the times at which the manager holds and frees the page.
THEOREM QuietKept == Spec => []QuietWhileFlushed
<1>1. IInv => QuietWhileFlushed
  <2> SUFFICES ASSUME IInv, NEW p \in Pages, held[p] = "flush", NEW r \in Stalled
               PROVE  PageOf(r) # p
    BY DEF QuietWhileFlushed
  <2>1. Now \in Worlds /\ Left(Now, p) = 0 /\ Now.cpu = cpu
    BY DEF IInv, Good, PageQuiet, Now
  <2>2. \A k \in CacheNames : \A n \in DOMAIN cpu.stalled[k] : PageOf(cpu.stalled[k][n]) # p
    BY <2>1, LeftIs
  <2>3. PICK k \in CacheNames : \E n \in DOMAIN cpu.stalled[k] : r = cpu.stalled[k][n]
    BY Constants DEF Stalled, Range
  <2> QED
    BY <2>2, <2>3
<1> QED
  BY InitIInv, NextIInv, <1>1, PTL DEF Spec

-----------------------------------------------------------------------------
(* Where the requests are *)

One(b) == IF b THEN 1 ELSE 0
Times(list, r) == Cardinality({n \in DOMAIN list : list[n] = r})

\* How often a read has been sent and not been answered; writes are not answered.
Sent(w, r) ==
    IF ~IsRead(r) THEN 0
    ELSE Times(w.cpu.stalled[r.kind], r) + One(r \in w.atCache.reads)
         + Times(w.cpu.slots[0][r.kind], r) + Times(w.cpu.slots[1][r.kind], r)

Paused(w, r) ==
    LET t == w.cpu.rob[EntryOf(r)]
    IN t.g = r.g /\ r.i \in IF r.kind = "instr" THEN t.instrPause ELSE t.dataPause

\* With the requests X to be sent yet by the event, and the answers Y to be processed.
Load(w, X, Y, r) == Sent(w, r) + One(r \in X) + One(r \in Y) + One(Paused(w, r))

\* What an entry has to wait for.
Due(w, X, Y, e, k) ==
    {i \in DOMAIN Requests(k, w.cpu.rob[e].g) : Load(w, X, Y, Request(k, w.cpu.rob[e].g, i)) = 1}

-----------------------------------------------------------------------------
(* The invariant of answers *)

\* A request is in one place, and its entry is that of its timestamp.
Placing(w, X, Y) ==
    \A r \in Reqs :
        /\ Load(w, X, Y, r) \in {0, 1}
        /\ Load(w, X, Y, r) = 1 => w.cpu.rob[EntryOf(r)].g = r.g
        /\ r.kind = "data" => (Sent(w, r) + One(r \in Y) = 1 <=> r \in w.cpu.lsq)

\* The counts of an entry say what it waits for; those in B are just being counted.
Waits(w, X, Y, B, e) ==
    LET t == w.cpu.rob[e]
        I == Due(w, X, Y, e, "instr")
        D == Due(w, X, Y, e, "data")
    IN /\ t.state = "FETCHING" =>
              /\ t.instrLeft = Cardinality(I) /\ (e \notin B => t.instrLeft > 0)
              /\ D = {} /\ t.dataLeft = Len(Trace[t.g].data)
       /\ t.state = "DATA" => I = {} /\ t.dataLeft = Cardinality(D) /\ (e \notin B => t.dataLeft > 0)
       /\ t.state = "DONE" => I = {} /\ D = {}

Loads(w, X, Y, B) == Placing(w, X, Y) /\ \A e \in Used(w) : Waits(w, X, Y, B, e)

InWindow(w) ==
    LET used == IF w.cpu.full THEN RobSize ELSE (w.cpu.head - w.cpu.tail) % RobSize
    IN {(w.cpu.tail + n) % RobSize : n \in 0 .. used - 1}

\* Entries that are not done are in the window; those in E are just being fetched.
Alive(w, E) ==
    /\ w.cpu.full => w.cpu.head = w.cpu.tail
    /\ InWindow(w) \subseteq Used(w)
    /\ \A e \in Used(w) :
           /\ w.cpu.rob[e].state # "DONE" => e \in InWindow(w) \cup E
           /\ w.cpu.rob[e].state = "FETCHING" => e \in Range(w.cpu.fetchEntry) \cup E
           /\ w.cpu.rob[e].g <= w.cpu.read \/ e \in E

\* A paused entry is listed; Zi and Zd are pausers that are tried again.
Pausing(w, Zi, Zd) ==
    /\ \A e \in Used(w) :
           /\ w.cpu.rob[e].instrPause # {} => e \in Range(w.cpu.instrPausers) \cup Zi
           /\ w.cpu.rob[e].dataPause # {} => e \in Range(w.cpu.dataPausers) \cup Zd
    /\ \A e \in Zd : e \in Used(w) /\ w.cpu.rob[e].state # "FETCHING"

\* A listed entry has a paused access; while the core is resumed, one that is held (H).
HeldReqs == {r \in Reqs : IsHeld(r)}
Pending(w, H) ==
    \A e \in Range(w.cpu.dataPausers) :
        \E i \in w.cpu.rob[e].dataPause : Request("data", w.cpu.rob[e].g, i) \in H

\* An entry is of the timestamp of its place, and pauses its own requests.
Shaped(w) ==
    \A e \in Used(w) :
        /\ (w.cpu.rob[e].g - 1) % RobSize = e
        /\ w.cpu.rob[e].instrPause \subseteq DOMAIN Requests("instr", w.cpu.rob[e].g)
        /\ w.cpu.rob[e].dataPause \subseteq DOMAIN Requests("data", w.cpu.rob[e].g)

\* Only reads are answered; each kind of request is in its own lists.
Kinds(w) ==
    /\ \A k \in CacheNames : \A n \in DOMAIN w.cpu.stalled[k] : w.cpu.stalled[k][n].kind = k
    /\ \A m \in {0, 1}, k \in CacheNames : \A n \in DOMAIN w.cpu.slots[m][k] :
           w.cpu.slots[m][k][n].kind = k /\ IsRead(w.cpu.slots[m][k][n])
    /\ \A r \in w.atCache.reads : IsRead(r)

\* One event for each slot in use.
Timed(w) ==
    /\ w.cpu.now.process = One(w.cpu.slots[1 - Slot].scheduled)
    /\ w.cpu.next.process = One(w.cpu.slots[Slot].scheduled)

Sound(w) == w \in Good /\ Shaped(w) /\ Kinds(w) /\ Timed(w) /\ w.cpu.failed \in {"", "resume"}

Fine(w, X, Y, B, E, Zi, Zd) == Sound(w) /\ Loads(w, X, Y, B) /\ Alive(w, E) /\ Pausing(w, Zi, Zd)

\* What the invariant says of the core alone.
Answered(w) ==
    /\ Shaped(w) /\ Kinds(w) /\ w.cpu.failed \in {"", "resume"}
    /\ Loads(w, {}, {}, {}) /\ Alive(w, {}) /\ Pausing(w, {}, {}) /\ Pending(w, Reqs)

AInv == IInv /\ Timed(Now) /\ Answered(Now)

-----------------------------------------------------------------------------
(* How often a request is in a list *)

LEMMA TimesIs ==
    ASSUME NEW l \in Seq(Reqs), NEW p
    PROVE  /\ Times(l, p) \in Nat
           /\ Times(l, p) = 0 <=> \A n \in DOMAIN l : l[n] # p
<1> DEFINE A == {n \in DOMAIN l : l[n] = p}
<1>1. DOMAIN l = 1 .. Len(l) /\ Len(l) \in Nat
  BY LenProperties
<1>2. A \subseteq 1 .. Len(l) /\ IsFiniteSet(1 .. Len(l))
  BY <1>1, FS_Interval
<1>3. IsFiniteSet(A)
  BY <1>2, FS_Subset
<1>4. Cardinality(A) \in Nat /\ (Cardinality(A) = 0 <=> A = {})
  BY <1>3, FS_EmptySet, FS_CardinalityType
<1> QED
  BY <1>4 DEF Times

LEMMA TimesAppended ==
    ASSUME NEW l \in Seq(Reqs), NEW r \in Reqs, NEW p
    PROVE  Times(Append(l, r), p) = Times(l, p) + IF r = p THEN 1 ELSE 0
<1> DEFINE m == Append(l, r)
           A == {n \in DOMAIN l : l[n] = p}
           B == {n \in DOMAIN m : m[n] = p}
<1>1. DOMAIN l = 1 .. Len(l) /\ Len(l) \in Nat
  BY LenProperties
<1>2. /\ DOMAIN m = 1 .. Len(l) + 1 /\ m[Len(l) + 1] = r
      /\ \A i \in 1 .. Len(l) : m[i] = l[i]
  BY AppendProperties, LenProperties
<1>3. Times(l, p) = Cardinality(A) /\ Times(m, p) = Cardinality(B)
  BY DEF Times
<1> HIDE DEF m
<1>4. B = A \cup IF r = p THEN {Len(l) + 1} ELSE {}
  BY <1>1, <1>2
<1>5. A \subseteq 1 .. Len(l) /\ IsFiniteSet(1 .. Len(l)) /\ Len(l) + 1 \notin A
  BY <1>1, FS_Interval
<1>6. IsFiniteSet(A)
  BY <1>5, FS_Subset
<1> HIDE DEF A, B
<1>7. Cardinality(A \cup {Len(l) + 1}) = Cardinality(A) + 1 /\ Cardinality(A) \in Nat
  BY <1>5, <1>6, FS_AddElement, FS_CardinalityType
<1>8. CASE r = p
  <2>1. B = A \cup {Len(l) + 1}
    BY <1>4, <1>8
  <2> QED
    BY <1>3, <1>7, <1>8, <2>1 DEF m
<1>9. CASE r # p
  <2>1. B = A
    BY <1>4, <1>9
  <2> QED
    BY <1>3, <1>7, <1>9, <2>1 DEF m
<1> QED
  BY <1>8, <1>9

\* The tail moved back behind its head is the list.
LEMMA TimesTail ==
    ASSUME NEW l \in Seq(Reqs), l # <<>>, NEW p
    PROVE  /\ Tail(l) \in Seq(Reqs) /\ Head(l) \in Reqs
           /\ Times(l, p) = Times(Tail(l), p) + IF Head(l) = p THEN 1 ELSE 0
<1> DEFINE t == Tail(l)
           A == {n \in DOMAIN l : l[n] = p}
           B == {n \in DOMAIN t : t[n] = p}
           up == {n + 1 : n \in B}
           shift == [n \in B |-> n + 1]
<1>1. DOMAIN l = 1 .. Len(l) /\ Len(l) \in Nat \ {0} /\ Head(l) = l[1] /\ Head(l) \in Reqs
  BY LenProperties, EmptySeq, HeadTailProperties
<1>2. /\ t \in Seq(Reqs) /\ Len(t) = Len(l) - 1
      /\ \A n \in 1 .. Len(t) : t[n] = l[n + 1]
  BY HeadTailProperties
<1>3. DOMAIN t = 1 .. Len(l) - 1
  BY <1>2, LenProperties
<1>4. Times(l, p) = Cardinality(A) /\ Times(t, p) = Cardinality(B)
  BY DEF Times
<1> HIDE DEF t
<1>5. A = up \cup IF Head(l) = p THEN {1} ELSE {}
  <2>1. ASSUME NEW n \in A, n # 1 PROVE n \in up
    <3>1. n - 1 \in 1 .. Len(l) - 1 /\ t[n - 1] = l[n] /\ n = (n - 1) + 1
      BY <1>1, <1>2, <2>1
    <3>2. n - 1 \in B
      BY <1>3, <3>1, <2>1
    <3> QED
      BY <3>1, <3>2
  <2>2. ASSUME NEW n \in up PROVE n \in A /\ n # 1
    <3>1. PICK b \in B : n = b + 1
      OBVIOUS
    <3>2. b \in 1 .. Len(l) - 1 /\ t[b] = l[n] /\ t[b] = p
      BY <1>2, <1>3, <3>1
    <3>3. n \in DOMAIN l /\ l[n] = p /\ n # 1
      <4> HIDE DEF up
      <4> QED
        BY <1>1, <3>1, <3>2
    <3> QED
      BY <3>3
  <2>3. 1 \in A <=> Head(l) = p
    BY <1>1
  <2> QED
    BY <2>1, <2>2, <2>3
<1>6. 1 \notin up
  BY <1>1, <1>3
<1>7. B \subseteq 1 .. Len(l) - 1 /\ IsFiniteSet(1 .. Len(l) - 1)
  BY <1>1, <1>3, FS_Interval
<1>8. IsFiniteSet(B)
  BY <1>7, FS_Subset
<1>9. shift \in Bijection(B, up)
  <2>1. B \subseteq Nat
    BY <1>1, <1>3
  <2> HIDE DEF B
  <2> QED
    BY <2>1 DEF Bijection, Injection, Surjection, IsInjective
<1> HIDE DEF A, B, up, shift
<1>10. IsFiniteSet(up) /\ Cardinality(up) = Cardinality(B)
  <2>1. ExistsBijection(B, up)
    BY <1>9 DEF ExistsBijection
  <2> QED
    BY <1>8, <2>1, FS_Bijection
<1>11. Cardinality(up \cup {1}) = Cardinality(up) + 1 /\ Cardinality(up) \in Nat
  BY <1>6, <1>10, FS_AddElement, FS_CardinalityType
<1>12. CASE Head(l) = p
  <2>1. A = up \cup {1}
    BY <1>5, <1>12
  <2> QED
    BY <1>1, <1>2, <1>4, <1>10, <1>11, <1>12, <2>1 DEF t
<1>13. CASE Head(l) # p
  <2>1. A = up
    BY <1>5, <1>13
  <2> QED
    BY <1>1, <1>2, <1>4, <1>10, <1>11, <1>13, <2>1 DEF t
<1> QED
  BY <1>12, <1>13

LEMMA TimesEmpty == ASSUME NEW r PROVE Times(<<>>, r) = 0
<1> DEFINE l == <<>>
<1>0. l \in Seq({}) /\ Len(l) = 0
  OBVIOUS
<1>1. DOMAIN l = {}
  <2> HIDE DEF l
  <2>1. DOMAIN l = 1 .. 0
    BY <1>0, LenProperties
  <2> QED
    BY <2>1
<1> QED
  <2> HIDE DEF l
  <2>1. {n \in DOMAIN l : l[n] = r} = {}
    BY <1>1
  <2>2. Times(l, r) = 0
    BY <2>1, FS_EmptySet DEF Times
  <2> QED
    BY <2>2 DEF l

\* A request that is in a list no more than once has one index.
LEMMA TimesOnce ==
    ASSUME NEW l \in Seq(Reqs), NEW r \in Reqs, Times(l, r) <= 1
    PROVE  \A m, n \in DOMAIN l : l[m] = r /\ l[n] = r => m = n
<1> DEFINE A == {n \in DOMAIN l : l[n] = r}
<1>1. DOMAIN l = 1 .. Len(l) /\ Len(l) \in Nat
  BY LenProperties
<1>2. A \subseteq 1 .. Len(l) /\ IsFiniteSet(1 .. Len(l))
  BY <1>1, FS_Interval
<1>3. IsFiniteSet(A) /\ Cardinality(A) = Times(l, r)
  BY <1>2, FS_Subset DEF Times
<1> SUFFICES ASSUME NEW m \in A, NEW n \in A PROVE m = n
  OBVIOUS
<1> HIDE DEF A
<1>4. SUFFICES ASSUME m # n PROVE FALSE
  OBVIOUS
<1>5. Cardinality(A \ {m}) = Cardinality(A) - 1 /\ IsFiniteSet(A \ {m}) /\ n \in A \ {m}
  BY <1>3, <1>4, FS_RemoveElement
<1>6. Cardinality(A \ {m}) \in Nat /\ Cardinality(A) \in Nat
  BY <1>3, <1>5, FS_CardinalityType
<1>7. Cardinality(A \ {m}) = 0
  BY <1>3, <1>5, <1>6
<1> QED
  BY <1>5, <1>7, FS_EmptySet

LEMMA SlotIs ==
    ASSUME NEW w \in Worlds, NEW n \in {0, 1}
    PROVE  /\ w.cpu.slots[n] \in Slots
           /\ w.cpu.slots[n].instr \in Seq(Reqs) /\ w.cpu.slots[n].data \in Seq(Reqs)
           /\ \A k \in CacheNames : w.cpu.slots[n][k] \in Seq(Reqs)
           /\ w.cpu.slots[n].scheduled \in BOOLEAN
<1>1. w.cpu.slots[n] \in Slots
  BY CoreIs
<1> QED
  BY <1>1 DEF Slots, CacheNames

LEMMA SentIs ==
    ASSUME NEW w \in Worlds, NEW r \in Reqs
    PROVE  /\ Sent(w, r) \in Nat
           /\ Times(w.cpu.stalled[r.kind], r) \in Nat /\ One(r \in w.atCache.reads) \in {0, 1}
           /\ Times(w.cpu.slots[0][r.kind], r) \in Nat /\ Times(w.cpu.slots[1][r.kind], r) \in Nat
<1>1. r.kind \in CacheNames
  BY RequestIs
<1>2. w.cpu.stalled[r.kind] \in Seq(Reqs)
  BY <1>1, CoreIs
<1>3. w.cpu.slots[0][r.kind] \in Seq(Reqs) /\ w.cpu.slots[1][r.kind] \in Seq(Reqs)
  BY <1>1, SlotIs
<1>4. /\ Times(w.cpu.stalled[r.kind], r) \in Nat
      /\ Times(w.cpu.slots[0][r.kind], r) \in Nat /\ Times(w.cpu.slots[1][r.kind], r) \in Nat
  BY <1>2, <1>3, TimesIs
<1>5. One(r \in w.atCache.reads) \in {0, 1}
  BY DEF One
<1> QED
  BY <1>4, <1>5 DEF Sent

\* The i-th request of a kind and a timestamp.
LEMMA RequestOf ==
    ASSUME NEW k \in CacheNames, NEW g \in DOMAIN Trace, NEW i \in DOMAIN Requests(k, g)
    PROVE  /\ Request(k, g, i) \in Reqs /\ Requests(k, g)[i] = Request(k, g, i)
           /\ Request(k, g, i).kind = k /\ Request(k, g, i).g = g /\ Request(k, g, i).i = i
<1>1. Requests(k, g)[i] = Request(k, g, i)
  BY DEF Requests
<1>2. Requests(k, g) \in Seq({r \in Reqs : r.kind = k /\ r.g = g})
  BY RequestsAre
<1>3. Requests(k, g)[i] \in {r \in Reqs : r.kind = k /\ r.g = g}
  BY <1>2, ElementOfSeq, LenProperties
<1> QED
  BY <1>1, <1>3 DEF Request

LEMMA RequestHas ==
    ASSUME NEW r \in Reqs
    PROVE  r = Request(r.kind, r.g, r.i) /\ r.i \in DOMAIN Requests(r.kind, r.g)
    BY DEF Reqs, Request

\* How many requests of a kind a timestamp has.
LEMMA RequestsDomain ==
    ASSUME NEW k \in CacheNames, NEW g \in DOMAIN Trace
    PROVE  /\ Len(Requests(k, g)) \in Nat /\ DOMAIN Requests(k, g) = 1 .. Len(Requests(k, g))
           /\ IsFiniteSet(DOMAIN Requests(k, g))
           /\ Cardinality(DOMAIN Requests(k, g)) = Len(Requests(k, g))
           /\ k = "instr" => Len(Requests(k, g)) = Len(Trace[g].instr)
           /\ k = "data" => Len(Requests(k, g)) = Len(Trace[g].data)
<1>1. Len(Trace[g].instr) \in Nat /\ Len(Trace[g].data) \in Nat
  BY TraceIs, LenProperties
<1>2. /\ Len(Requests(k, g)) \in Nat /\ DOMAIN Requests(k, g) = 1 .. Len(Requests(k, g))
  BY RequestsAre, LenProperties
<1>3. Len(Requests(k, g)) = IF k = "instr" THEN Len(Trace[g].instr) ELSE Len(Trace[g].data)
  <2> DEFINE n == IF k = "instr" THEN Len(Trace[g].instr) ELSE Len(Trace[g].data)
  <2>1. n \in Nat
    BY <1>1
  <2>2. Requests(k, g) = [i \in 1 .. n |-> Request(k, g, i)]
    BY DEF Requests
  <2> HIDE DEF n
  <2> QED
    BY <2>1, <2>2 DEF n
<1>4. IsFiniteSet(1 .. Len(Requests(k, g))) /\ Cardinality(1 .. Len(Requests(k, g))) = Len(Requests(k, g))
  BY <1>2, FS_Interval
<1> QED
  BY <1>2, <1>3, <1>4

-----------------------------------------------------------------------------
(* What a step may leave as it is *)

Timing(w) ==
    <<w.cpu.now.process, w.cpu.next.process, w.cpu.slots[0].scheduled, w.cpu.slots[1].scheduled>>

\* The state of an entry and its counts.
Tally(w, e) == <<w.cpu.rob[e].state, w.cpu.rob[e].instrLeft, w.cpu.rob[e].dataLeft>>

LEMMA TimedKept ==
    ASSUME NEW z, NEW w, Timing(z) = Timing(w), Timed(w)
    PROVE  Timed(z)
<1>1. CASE Slot = 0
  BY <1>1 DEF Timed, Timing
<1>2. CASE Slot = 1
  BY <1>2 DEF Timed, Timing
<1> QED
  BY <1>1, <1>2 DEF Slot

\* The timestamp of an entry in use.
LEMMA UsedIs ==
    ASSUME NEW w \in Good, NEW e \in Used(w)
    PROVE  /\ e \in Entries /\ w \in Worlds /\ w.cpu.rob[e] \in RobEntries
           /\ w.cpu.rob[e].g \in DOMAIN Trace
<1>1. e \in Entries /\ w.cpu.rob[e].g # 0 /\ w \in Worlds
  BY DEF Used, Stamps, Good
<1>2. w.cpu.rob[e] \in RobEntries
  BY <1>1, CoreIs
<1> QED
  BY <1>1, <1>2, Constants DEF RobEntries

LEMMA StampIs ==
    ASSUME NEW w, NEW z, Stamps(z) = Stamps(w)
    PROVE  Used(z) = Used(w) /\ \A e \in Entries : z.cpu.rob[e].g = w.cpu.rob[e].g
<1>1. ASSUME NEW e \in Entries PROVE z.cpu.rob[e].g = w.cpu.rob[e].g
  <2>1. Stamps(z)[e] = z.cpu.rob[e].g /\ Stamps(w)[e] = w.cpu.rob[e].g
    BY DEF Stamps
  <2> QED
    BY <2>1
<1> QED
  BY <1>1 DEF Used

LEMMA OneIs == ASSUME NEW b PROVE One(b) \in {0, 1} /\ (One(b) = 1 <=> b)
    BY DEF One

LEMMA LoadIs ==
    ASSUME NEW w \in Worlds, NEW X, NEW Y, NEW r \in Reqs
    PROVE  /\ Load(w, X, Y, r) \in Nat /\ Sent(w, r) \in Nat
           /\ Load(w, X, Y, r) = Sent(w, r) + One(r \in X) + One(r \in Y) + One(Paused(w, r))
<1>1. Sent(w, r) \in Nat
  BY SentIs
<1>2. One(r \in X) \in {0, 1} /\ One(r \in Y) \in {0, 1} /\ One(Paused(w, r)) \in {0, 1}
  BY OneIs
<1> QED
  BY <1>1, <1>2 DEF Load

\* What an entry waits for, as a set of requests.
LEMMA DueIs ==
    ASSUME NEW w \in Good, NEW X, NEW Y, NEW e \in Used(w), NEW k \in CacheNames
    PROVE  LET D == Due(w, X, Y, e, k) IN
           /\ D \subseteq DOMAIN Requests(k, w.cpu.rob[e].g)
           /\ IsFiniteSet(D) /\ Cardinality(D) \in Nat /\ (Cardinality(D) = 0 <=> D = {})
           /\ \A r \in Reqs : r.kind = k /\ r.g = w.cpu.rob[e].g =>
                  (r.i \in D <=> Load(w, X, Y, r) = 1)
<1> DEFINE D == Due(w, X, Y, e, k)
           g == w.cpu.rob[e].g
<1>1. g \in DOMAIN Trace
  BY UsedIs
<1>2. D \subseteq DOMAIN Requests(k, g) /\ IsFiniteSet(DOMAIN Requests(k, g))
  BY <1>1, RequestsDomain DEF Due
<1>3. IsFiniteSet(D)
  BY <1>2, FS_Subset
<1>4. Cardinality(D) \in Nat /\ (Cardinality(D) = 0 <=> D = {})
  BY <1>3, FS_CardinalityType, FS_EmptySet
<1>5. ASSUME NEW r \in Reqs, r.kind = k, r.g = g PROVE r.i \in D <=> Load(w, X, Y, r) = 1
  <2>1. r = Request(k, g, r.i) /\ r.i \in DOMAIN Requests(k, g)
    BY <1>5, RequestHas
  <2> QED
    BY <2>1 DEF Due
<1> QED
  BY <1>2, <1>3, <1>4, <1>5

LEMMA LoadHas ==
    ASSUME NEW w \in Good, NEW X, NEW Y, Placing(w, X, Y), NEW r \in Reqs, Load(w, X, Y, r) = 1
    PROVE  /\ EntryOf(r) \in Used(w) /\ w.cpu.rob[EntryOf(r)].g = r.g
           /\ r.i \in Due(w, X, Y, EntryOf(r), r.kind)
<1>1. w.cpu.rob[EntryOf(r)].g = r.g /\ EntryOf(r) \in Entries /\ r.g # 0 /\ r.kind \in CacheNames
  BY RequestIs, Constants DEF Placing
<1>2. EntryOf(r) \in Used(w)
  BY <1>1 DEF Used, Stamps
<1> QED
  BY <1>1, <1>2, DueIs

\* The entry of a request of a shaped entry.
LEMMA ShapedEntry ==
    ASSUME NEW w \in Good, Shaped(w), NEW e \in Used(w), NEW r \in Reqs, r.g = w.cpu.rob[e].g
    PROVE  EntryOf(r) = e
    BY DEF Shaped, EntryOf

-----------------------------------------------------------------------------
(* Loads that are kept, and loads that a step takes away *)

SameLoads(z, X1, Y1, w, X, Y, R) == \A r \in R : Load(z, X1, Y1, r) = Load(w, X, Y, r)
SameTallies(z, w, U) == \A e \in U : Tally(z, e) = Tally(w, e)

\* The data that is read is awaited.
Awaited(z, Y) ==
    \A r \in Reqs : r.kind = "data" => (Sent(z, r) + One(r \in Y) = 1 <=> r \in z.cpu.lsq)

\* A step that moves requests from place to place.
LEMMA LoadsKept ==
    ASSUME NEW w \in Good, NEW z \in Good, NEW X, NEW Y, NEW X1, NEW Y1, NEW B,
           Loads(w, X, Y, B), Stamps(z) = Stamps(w),
           SameTallies(z, w, Used(w)), SameLoads(z, X1, Y1, w, X, Y, Reqs), Awaited(z, Y1)
    PROVE  Loads(z, X1, Y1, B)
<1>1. Used(z) = Used(w) /\ \A e \in Entries : z.cpu.rob[e].g = w.cpu.rob[e].g
  BY StampIs
<1>2. Placing(z, X1, Y1)
  <2>1. ASSUME NEW r \in Reqs
        PROVE  Load(z, X1, Y1, r) \in {0, 1} /\ (Load(z, X1, Y1, r) = 1 => z.cpu.rob[EntryOf(r)].g = r.g)
    <3>1. Load(w, X, Y, r) \in {0, 1} /\ (Load(w, X, Y, r) = 1 => w.cpu.rob[EntryOf(r)].g = r.g)
      BY DEF Loads, Placing
    <3>2. EntryOf(r) \in Entries
      BY RequestIs
    <3> QED
      BY <1>1, <3>1, <3>2 DEF SameLoads
  <2> QED
    BY <2>1 DEF Placing, Awaited
<1>3. ASSUME NEW e \in Used(z) PROVE Waits(z, X1, Y1, B, e)
  <2>1. e \in Used(w) /\ z.cpu.rob[e].g = w.cpu.rob[e].g /\ Waits(w, X, Y, B, e)
    BY <1>1, UsedIs DEF Loads
  <2>2. ASSUME NEW k \in CacheNames PROVE Due(z, X1, Y1, e, k) = Due(w, X, Y, e, k)
    <3>1. \A i \in DOMAIN Requests(k, w.cpu.rob[e].g) : Request(k, w.cpu.rob[e].g, i) \in Reqs
      BY <2>1, UsedIs, RequestOf
    <3> QED
      BY <2>1, <3>1 DEF Due, SameLoads
  <2>3. Tally(z, e) = Tally(w, e)
    BY <2>1 DEF SameTallies
  <2> QED
    BY <2>1, <2>2, <2>3, Constants DEF Waits, Tally
<1> QED
  BY <1>2, <1>3 DEF Loads

\* What an entry waits for, with a request of that entry less.
LEMMA DueDrops ==
    ASSUME NEW w \in Good, NEW z \in Good, NEW X, NEW Y, NEW X1, NEW Y1,
           Placing(w, X, Y), Shaped(w), Stamps(z) = Stamps(w),
           NEW r \in Reqs, Load(w, X, Y, r) = 1, Load(z, X1, Y1, r) = 0,
           SameLoads(z, X1, Y1, w, X, Y, Reqs \ {r}),
           NEW e \in Used(w), NEW k \in CacheNames
    PROVE  LET old == Due(w, X, Y, e, k)
               new == Due(z, X1, Y1, e, k)
           IN /\ e = EntryOf(r) /\ k = r.kind =>
                     new = old \ {r.i} /\ r.i \in old /\ Cardinality(new) = Cardinality(old) - 1
              /\ ~(e = EntryOf(r) /\ k = r.kind) => new = old
<1> DEFINE g == w.cpu.rob[e].g
<1>1. g \in DOMAIN Trace /\ z.cpu.rob[e].g = g /\ e \in Entries
  BY UsedIs, StampIs
<1>2. \A i \in DOMAIN Requests(k, g) :
          Request(k, g, i) \in Reqs /\ Request(k, g, i).kind = k /\ Request(k, g, i).g = g
          /\ Request(k, g, i).i = i
  BY <1>1, RequestOf
<1>3. EntryOf(r) \in Used(w) /\ w.cpu.rob[EntryOf(r)].g = r.g /\ r.i \in Due(w, X, Y, EntryOf(r), r.kind)
  BY LoadHas
<1>4. CASE e = EntryOf(r) /\ k = r.kind
  <2>1. r = Request(k, g, r.i) /\ r.i \in Due(w, X, Y, e, k)
    BY <1>3, <1>4, RequestHas
  <2>2. Due(z, X1, Y1, e, k) = Due(w, X, Y, e, k) \ {r.i}
    <3> HIDE DEF g
    <3>1. ASSUME NEW i \in DOMAIN Requests(k, g)
          PROVE  Load(z, X1, Y1, Request(k, g, i)) = 1
                     <=> Load(w, X, Y, Request(k, g, i)) = 1 /\ i # r.i
      <4>1. CASE i = r.i
        BY <2>1, <4>1
      <4>2. CASE i # r.i
        BY <1>2, <4>2 DEF SameLoads
      <4> QED
        BY <4>1, <4>2
    <3> QED
      BY <1>1, <3>1 DEF Due, g
  <2>3. IsFiniteSet(Due(w, X, Y, e, k))
    BY DueIs
  <2> DEFINE old == Due(w, X, Y, e, k)
             new == Due(z, X1, Y1, e, k)
  <2>4. new = old \ {r.i} /\ r.i \in old /\ IsFiniteSet(old)
    BY <2>1, <2>2, <2>3
  <2> HIDE DEF old, new
  <2>5. Cardinality(new) = Cardinality(old) - 1
    BY <2>4, FS_RemoveElement
  <2> QED
    BY <1>4, <2>4, <2>5 DEF old, new
<1>5. CASE ~(e = EntryOf(r) /\ k = r.kind)
  <2>1. ASSUME NEW i \in DOMAIN Requests(k, g) PROVE Request(k, g, i) # r
    <3>1. SUFFICES ASSUME Request(k, g, i) = r PROVE FALSE
      OBVIOUS
    <3>2. r.kind = k /\ r.g = g
      BY <1>2, <3>1
    <3> QED
      BY <1>5, <3>2, ShapedEntry
  <2>2. Due(z, X1, Y1, e, k) = Due(w, X, Y, e, k)
    BY <1>1, <1>2, <2>1 DEF Due, SameLoads
  <2> QED
    BY <1>5, <2>2
<1> QED
  BY <1>4, <1>5

CountsOff(z, w, r) ==
    LET t == w.cpu.rob[EntryOf(r)] IN
        Tally(z, EntryOf(r)) = IF r.kind = "instr" THEN <<t.state, t.instrLeft - 1, t.dataLeft>>
                               ELSE <<t.state, t.instrLeft, t.dataLeft - 1>>

\* An answer, or a write that is sent, is counted off; the entry of it is being counted.
LEMMA LoadsDrop ==
    ASSUME NEW w \in Good, NEW z \in Good, NEW X, NEW Y, NEW X1, NEW Y1, NEW B,
           Loads(w, X, Y, B), Shaped(w), Stamps(z) = Stamps(w),
           NEW r \in Reqs, Load(w, X, Y, r) = 1, Load(z, X1, Y1, r) = 0,
           SameLoads(z, X1, Y1, w, X, Y, Reqs \ {r}),
           SameTallies(z, w, Used(w) \ {EntryOf(r)}), CountsOff(z, w, r), Awaited(z, Y1)
    PROVE  Loads(z, X1, Y1, B \cup {EntryOf(r)})
<1>1. Used(z) = Used(w) /\ \A e \in Entries : z.cpu.rob[e].g = w.cpu.rob[e].g
  BY StampIs
<1>2. Placing(w, X, Y) /\ r.kind \in {"instr", "data"}
  BY RequestIs DEF Loads, CacheNames
<1>3. Placing(z, X1, Y1)
  <2>1. ASSUME NEW q \in Reqs
        PROVE  Load(z, X1, Y1, q) \in {0, 1} /\ (Load(z, X1, Y1, q) = 1 => z.cpu.rob[EntryOf(q)].g = q.g)
    <3>1. Load(w, X, Y, q) \in {0, 1} /\ (Load(w, X, Y, q) = 1 => w.cpu.rob[EntryOf(q)].g = q.g)
      BY <1>2 DEF Placing
    <3>2. EntryOf(q) \in Entries
      BY RequestIs
    <3>3. CASE q = r
      BY <3>3
    <3>4. CASE q # r
      BY <1>1, <3>1, <3>2, <3>4 DEF SameLoads
    <3> QED
      BY <3>3, <3>4
  <2> QED
    BY <2>1 DEF Placing, Awaited
<1>4. ASSUME NEW e \in Used(z) PROVE Waits(z, X1, Y1, B \cup {EntryOf(r)}, e)
  <2> DEFINE I == Due(w, X, Y, e, "instr")
             D == Due(w, X, Y, e, "data")
             I1 == Due(z, X1, Y1, e, "instr")
             D1 == Due(z, X1, Y1, e, "data")
  <2>1. e \in Used(w) /\ z.cpu.rob[e].g = w.cpu.rob[e].g /\ Waits(w, X, Y, B, e)
    BY <1>1, UsedIs DEF Loads
  <2>2. "instr" \in CacheNames /\ "data" \in CacheNames
    BY Constants
  <2>3. ASSUME NEW k \in CacheNames
        PROVE  LET old == Due(w, X, Y, e, k)
                   new == Due(z, X1, Y1, e, k)
               IN /\ e = EntryOf(r) /\ k = r.kind =>
                         new = old \ {r.i} /\ r.i \in old /\ Cardinality(new) = Cardinality(old) - 1
                  /\ ~(e = EntryOf(r) /\ k = r.kind) => new = old
    <3>1. Placing(w, X, Y) /\ e \in Used(w)
      BY <1>2, <2>1
    <3> QED
      BY <3>1, DueDrops
  <2>4. CASE e # EntryOf(r)
    <3>1. I1 = I /\ D1 = D
      BY <2>2, <2>4, <2>3
    <3>2. Tally(z, e) = Tally(w, e)
      BY <2>1, <2>4 DEF SameTallies
    <3> DEFINE t == w.cpu.rob[e]
               u == z.cpu.rob[e]
    <3>3. u.state = t.state /\ u.instrLeft = t.instrLeft /\ u.dataLeft = t.dataLeft /\ u.g = t.g
      BY <2>1, <3>2 DEF Tally
    <3>4. /\ t.state = "FETCHING" =>
                 /\ t.instrLeft = Cardinality(I) /\ (e \notin B => t.instrLeft > 0)
                 /\ D = {} /\ t.dataLeft = Len(Trace[t.g].data)
          /\ t.state = "DATA" => I = {} /\ t.dataLeft = Cardinality(D) /\ (e \notin B => t.dataLeft > 0)
          /\ t.state = "DONE" => I = {} /\ D = {}
      BY <2>1 DEF Waits
    <3> HIDE DEF t, u, I, D, I1, D1
    <3>5. /\ u.state = "FETCHING" =>
                 /\ u.instrLeft = Cardinality(I1) /\ (e \notin B => u.instrLeft > 0)
                 /\ D1 = {} /\ u.dataLeft = Len(Trace[u.g].data)
          /\ u.state = "DATA" => I1 = {} /\ u.dataLeft = Cardinality(D1) /\ (e \notin B => u.dataLeft > 0)
          /\ u.state = "DONE" => I1 = {} /\ D1 = {}
      BY <3>1, <3>3, <3>4
    <3> QED
      BY <3>5 DEF Waits, I1, D1, u
  <2>5. CASE e = EntryOf(r) /\ r.kind = "instr"
    <3>1. r.i \in I /\ Cardinality(I1) = Cardinality(I) - 1 /\ D1 = D
      BY <2>2, <2>5, <2>3
    <3>2. I # {}
      BY <3>1
    <3> HIDE DEF I, D, I1, D1
    <3>3. w.cpu.rob[e].state = "FETCHING" /\ w.cpu.rob[e].instrLeft = Cardinality(I) /\ D = {}
          /\ w.cpu.rob[e].dataLeft = Len(Trace[w.cpu.rob[e].g].data)
      <4>1. w.cpu.rob[e].state \in {"FETCHING", "DATA", "DONE"}
        BY <2>1, UsedIs DEF RobEntries, States
      <4> QED
        BY <2>1, <3>2, <4>1 DEF Waits, I, D
    <3>4. /\ z.cpu.rob[e].state = "FETCHING" /\ z.cpu.rob[e].instrLeft = w.cpu.rob[e].instrLeft - 1
          /\ z.cpu.rob[e].dataLeft = w.cpu.rob[e].dataLeft
      BY <2>5, <3>3 DEF Tally, CountsOff
    <3>5. z.cpu.rob[e].instrLeft = Cardinality(I1) /\ D1 = {}
      BY <3>1, <3>3, <3>4
    <3>6. z.cpu.rob[e].dataLeft = Len(Trace[z.cpu.rob[e].g].data) /\ e \in B \cup {EntryOf(r)}
      BY <2>1, <2>5, <3>3, <3>4
    <3> QED
      BY <3>4, <3>5, <3>6 DEF Waits, I1, D1
  <2>6. CASE e = EntryOf(r) /\ r.kind = "data"
    <3>1. r.i \in D /\ Cardinality(D1) = Cardinality(D) - 1 /\ I1 = I
      BY <2>2, <2>6, <2>3
    <3>2. D # {}
      BY <3>1
    <3> HIDE DEF I, D, I1, D1
    <3>3. w.cpu.rob[e].state = "DATA" /\ w.cpu.rob[e].dataLeft = Cardinality(D) /\ I = {}
      <4>1. w.cpu.rob[e].state \in {"FETCHING", "DATA", "DONE"}
        BY <2>1, UsedIs DEF RobEntries, States
      <4> QED
        BY <2>1, <3>2, <4>1 DEF Waits, I, D
    <3>4. z.cpu.rob[e].state = "DATA" /\ z.cpu.rob[e].dataLeft = w.cpu.rob[e].dataLeft - 1
      BY <2>6, <3>3 DEF Tally, CountsOff
    <3>5. z.cpu.rob[e].dataLeft = Cardinality(D1) /\ I1 = {} /\ e \in B \cup {EntryOf(r)}
      BY <2>6, <3>1, <3>3, <3>4
    <3> QED
      BY <3>4, <3>5 DEF Waits, I1, D1
  <2> QED
    BY <1>2, <2>4, <2>5, <2>6
<1> QED
  BY <1>3, <1>4 DEF Loads

-----------------------------------------------------------------------------
(* Sending *)

\* What a step leaves as it is that only moves requests that have been sent.
Aside(z, w) ==
    /\ Buffer(z) = Buffer(w) /\ Lists(z) = Lists(w) /\ Ring(z) = Ring(w) /\ Turn(z) = Turn(w)
    /\ Timing(z) = Timing(w) /\ z.cpu.slots = w.cpu.slots /\ z.cpu.lsq = w.cpu.lsq

LEMMA AsideTwice == ASSUME NEW z, NEW y, NEW w, Aside(z, y), Aside(y, w) PROVE Aside(z, w)
    BY DEF Aside

LEMMA TakeDoes ==
    ASSUME NEW w \in Worlds, NEW r \in Reqs
    PROVE  LET z == Take(w, r) IN
           /\ z \in Worlds /\ Aside(z, w) /\ z.cpu.stalled = w.cpu.stalled
           /\ z.atCache.reads = IF w.cpu.quota[r.kind] # 0 /\ IsRead(r) THEN w.atCache.reads \cup {r}
                                ELSE w.atCache.reads
<1>1. r.kind \in CacheNames
  BY RequestIs
<1>2. CASE w.cpu.quota[r.kind] = 0
  <2> DEFINE v == w.atCache.unstall \cup {r.kind}
             z == [w EXCEPT !.atCache.unstall = v]
  <2>1. v \in SUBSET CacheNames
    BY <1>1, CoreIs
  <2>2. Take(w, r) = z
    BY <1>2 DEF Take
  <2>3. /\ z \in Worlds /\ Queues(z) = Queues(w) /\ Lists(z) = Lists(w) /\ Ring(z) = Ring(w)
        /\ Buffer(z) = Buffer(w) /\ Turn(z) = Turn(w) /\ Clock(z) = Clock(w)
        /\ z.cpu.lsq = w.cpu.lsq /\ z.cpu.slots = w.cpu.slots /\ z.atCache.reads = w.atCache.reads
    <3> HIDE DEF v
    <3> QED
      BY <2>1, SetUnstall
  <2> HIDE DEF z
  <2> QED
    BY <1>2, <2>2, <2>3 DEF Aside, Timing, Clock, Queues
<1>3. CASE w.cpu.quota[r.kind] # 0
  <2> DEFINE v == [w.cpu.quota EXCEPT ![r.kind] = @ - 1]
             a == [w EXCEPT !.cpu.quota = v]
             rs == IF IsRead(r) THEN w.atCache.reads \cup {r} ELSE w.atCache.reads
             z == [a EXCEPT !.atCache.reads = rs]
  <2>1. v \in [CacheNames -> Nat] /\ rs \in SUBSET Reqs
    BY <1>1, <1>3, CoreIs
  <2>2. /\ a \in Worlds /\ Queues(a) = Queues(w) /\ Lists(a) = Lists(w) /\ Ring(a) = Ring(w)
        /\ Buffer(a) = Buffer(w) /\ Turn(a) = Turn(w) /\ Clock(a) = Clock(w) /\ Answers(a) = Answers(w)
    <3> HIDE DEF v
    <3> QED
      BY <2>1, SetQuota
  <2>3. a.atCache.reads = w.atCache.reads
    BY DEF Worlds
  <2>4. Take(w, r) = z
    BY <1>3, <2>3 DEF Take
  <2>5. /\ z \in Worlds /\ Queues(z) = Queues(a) /\ Lists(z) = Lists(a) /\ Ring(z) = Ring(a)
        /\ Buffer(z) = Buffer(a) /\ Turn(z) = Turn(a) /\ Clock(z) = Clock(a)
        /\ z.cpu.lsq = a.cpu.lsq /\ z.cpu.slots = a.cpu.slots /\ z.atCache.reads = rs
    <3> HIDE DEF a, rs
    <3> QED
      BY <2>1, <2>2, SetReads
  <2> HIDE DEF z, a
  <2> QED
    BY <1>3, <2>2, <2>4, <2>5 DEF Aside, Timing, Clock, Queues, Answers
<1> QED
  BY <1>2, <1>3

LEMMA KindsMoved ==
    ASSUME NEW w, NEW z, Kinds(w), z.cpu.slots = w.cpu.slots,
           \A k \in CacheNames : \A n \in DOMAIN z.cpu.stalled[k] : z.cpu.stalled[k][n].kind = k,
           \A r \in z.atCache.reads : IsRead(r)
    PROVE  Kinds(z)
    BY DEF Kinds

LEMMA AppendedIs ==
    ASSUME NEW S, NEW l \in Seq(S), NEW x \in S
    PROVE  /\ Append(l, x) \in Seq(S)
           /\ DOMAIN Append(l, x) = DOMAIN l \cup {Len(l) + 1}
           /\ Append(l, x)[Len(l) + 1] = x /\ \A n \in DOMAIN l : Append(l, x)[n] = l[n]
           /\ Range(Append(l, x)) = Range(l) \cup {x}
<1> DEFINE m == Append(l, x)
<1>1. /\ m \in Seq(S) /\ Len(m) = Len(l) + 1 /\ m[Len(l) + 1] = x
      /\ \A n \in 1 .. Len(l) : m[n] = l[n]
      /\ DOMAIN l = 1 .. Len(l) /\ Len(l) \in Nat
  BY AppendProperties, LenProperties
<1>2. DOMAIN m = 1 .. Len(l) + 1
  BY <1>1, LenProperties
<1> HIDE DEF m
<1>3. DOMAIN m = DOMAIN l \cup {Len(l) + 1}
  BY <1>1, <1>2
<1>4. Range(m) = Range(l) \cup {x}
  BY <1>1, <1>3 DEF Range
<1> QED
  BY <1>1, <1>3, <1>4 DEF m

LEMMA SendDoes ==
    ASSUME NEW w \in Worlds, NEW r \in Reqs, Kinds(w), Sent(w, r) = 0
    PROVE  LET z == Send(w, r) IN
           /\ z \in Worlds /\ Aside(z, w) /\ Kinds(z)
           /\ \A q \in Reqs : Sent(z, q) = Sent(w, q) + IF q = r /\ IsRead(r) THEN 1 ELSE 0
<1> DEFINE k == r.kind
           asked == IF w.cpu.stalled[k] = <<>> THEN Take(w, r) ELSE w
           now == w.cpu.stalled[k] = <<>> /\ w.cpu.quota[k] > 0
           v == Append(asked.cpu.stalled[k], r)
           y == [asked EXCEPT !.cpu.stalled[k] = v]
           z == Send(w, r)
<1>1. k \in CacheNames /\ w.cpu.stalled[k] \in Seq(Reqs) /\ w.cpu.quota[k] \in Nat
  BY RequestIs, CoreIs
<1>2. Aside(w, w)
  BY DEF Aside
<1>3. /\ asked \in Worlds /\ Aside(asked, w) /\ asked.cpu.stalled = w.cpu.stalled
      /\ asked.atCache.reads = IF now /\ IsRead(r) THEN w.atCache.reads \cup {r} ELSE w.atCache.reads
  <2>1. CASE w.cpu.stalled[k] = <<>>
    <3>1. asked = Take(w, r) /\ (now <=> w.cpu.quota[k] # 0)
      BY <1>1, <2>1
    <3> QED
      BY <3>1, TakeDoes
  <2>2. CASE w.cpu.stalled[k] # <<>>
    BY <1>2, <2>2
  <2> QED
    BY <2>1, <2>2
<1>4. z = IF now THEN asked ELSE y
  BY DEF Send
<1> HIDE DEF asked
<1>5. v \in Seq(Reqs) /\ asked.cpu.stalled[k] \in Seq(Reqs)
  BY <1>1, <1>3, AppendProperties
<1>6. /\ y \in Worlds /\ Aside(y, asked) /\ y.cpu.stalled = [w.cpu.stalled EXCEPT ![k] = v]
      /\ y.atCache.reads = asked.atCache.reads
  <2> HIDE DEF y, v, k
  <2>1. y = WithStalled(asked, k, v)
    BY DEF y, WithStalled
  <2>2. /\ y \in Worlds
        /\ Lists(y) = Lists(asked) /\ Ring(y) = Ring(asked) /\ Buffer(y) = Buffer(asked)
        /\ Answers(y) = Answers(asked) /\ Turn(y) = Turn(asked) /\ Clock(y) = Clock(asked)
        /\ y.cpu.stalled = [asked.cpu.stalled EXCEPT ![k] = v]
    BY <1>1, <1>3, <1>5, <2>1, SetStalled
  <2> QED
    BY <1>3, <2>2 DEF Aside, Timing, Clock, Answers
<1> HIDE DEF y
<1>7. z \in Worlds /\ Aside(z, w)
  BY <1>3, <1>4, <1>6, AsideTwice
<1>8. /\ z.cpu.slots = w.cpu.slots
      /\ z.atCache.reads = IF now /\ IsRead(r) THEN w.atCache.reads \cup {r} ELSE w.atCache.reads
      /\ z.cpu.stalled = IF now THEN w.cpu.stalled ELSE [w.cpu.stalled EXCEPT ![k] = v]
  <2> HIDE DEF v, z, now
  <2> QED
    BY <1>3, <1>4, <1>6, <1>7 DEF Aside
<1>9. v = Append(w.cpu.stalled[k], r) /\ w.cpu.stalled \in [CacheNames -> Seq(Reqs)]
  BY <1>3, CoreIs
<1> HIDE DEF z, v, now
<1>10. Kinds(z)
  <2>1. ASSUME NEW j \in CacheNames, NEW n \in DOMAIN z.cpu.stalled[j]
        PROVE  z.cpu.stalled[j][n].kind = j
    <3>1. \A m \in DOMAIN w.cpu.stalled[j] : w.cpu.stalled[j][m].kind = j
      BY DEF Kinds
    <3>2. CASE now \/ j # k
      <4>1. z.cpu.stalled[j] = w.cpu.stalled[j]
        BY <1>8, <1>9, <3>2
      <4> QED
        BY <3>1, <4>1
    <3>3. CASE ~now /\ j = k
      <4>1. z.cpu.stalled[j] = Append(w.cpu.stalled[k], r)
        BY <1>8, <1>9, <3>3
      <4>2. n \in DOMAIN w.cpu.stalled[k] \/ n = Len(w.cpu.stalled[k]) + 1
        BY <1>1, <4>1, AppendedIs
      <4> QED
        BY <1>1, <3>1, <3>3, <4>1, <4>2, AppendedIs
    <3> QED
      BY <3>2, <3>3
  <2>2. \A q \in z.atCache.reads : IsRead(q)
    BY <1>8 DEF Kinds
  <2> QED
    BY <1>8, <2>1, <2>2, KindsMoved
<1>11. ASSUME NEW q \in Reqs PROVE Sent(z, q) = Sent(w, q) + IF q = r /\ IsRead(r) THEN 1 ELSE 0
  <2>1. /\ Times(w.cpu.stalled[q.kind], q) \in Nat /\ One(q \in w.atCache.reads) \in {0, 1}
        /\ Times(w.cpu.slots[0][q.kind], q) \in Nat /\ Times(w.cpu.slots[1][q.kind], q) \in Nat
        /\ Sent(w, q) \in Nat /\ q.kind \in CacheNames
    BY SentIs, RequestIs
  <2>2. CASE ~IsRead(q)
    BY <2>2 DEF Sent, One
  <2>3. CASE IsRead(q) /\ now
    <3>1. z.cpu.stalled[q.kind] = w.cpu.stalled[q.kind]
      BY <1>8, <2>3
    <3>2. One(q \in z.atCache.reads) = One(q \in w.atCache.reads) + IF q = r /\ IsRead(r) THEN 1 ELSE 0
      <4>1. CASE q = r
        <5>1. q \notin w.atCache.reads
          BY <2>1, <2>3, <4>1 DEF Sent, One
        <5> QED
          BY <1>8, <2>3, <4>1, <5>1 DEF One
      <4>2. CASE q # r
        BY <1>8, <2>3, <4>2 DEF One
      <4> QED
        BY <4>1, <4>2
    <3> QED
      BY <1>8, <2>1, <2>3, <3>1, <3>2 DEF Sent
  <2>4. CASE IsRead(q) /\ ~now
    <3>1. z.atCache.reads = w.atCache.reads
      BY <1>8, <2>4
    <3>2. Times(z.cpu.stalled[q.kind], q) = Times(w.cpu.stalled[q.kind], q) + IF q = r /\ IsRead(r) THEN 1 ELSE 0
      <4>1. CASE q.kind = k
        <5>1. z.cpu.stalled[q.kind] = Append(w.cpu.stalled[k], r)
          BY <1>1, <1>8, <1>9, <2>4, <4>1
        <5> QED
          BY <1>1, <2>1, <2>4, <4>1, <5>1, TimesAppended DEF One
      <4>2. CASE q.kind # k
        <5>1. z.cpu.stalled[q.kind] = w.cpu.stalled[q.kind] /\ q # r
          BY <1>8, <1>9, <2>1, <2>4, <4>2
        <5> QED
          BY <2>1, <5>1 DEF One
      <4> QED
        BY <4>1, <4>2
    <3> QED
      BY <1>8, <2>1, <2>4, <3>1, <3>2 DEF Sent
  <2> QED
    BY <2>2, <2>3, <2>4
<1> QED
  BY <1>7, <1>10, <1>11 DEF z

-----------------------------------------------------------------------------
(* Passing a request *)

LEMMA AliveKept ==
    ASSUME NEW w, NEW z, NEW E, Alive(w, E), Ring(z) = Ring(w), Stamps(z) = Stamps(w),
           z.cpu.fetchEntry = w.cpu.fetchEntry,
           \A e \in Used(w) : z.cpu.rob[e].state # w.cpu.rob[e].state =>
               /\ w.cpu.rob[e].state # "DONE" /\ z.cpu.rob[e].state # "FETCHING"
    PROVE  Alive(z, E)
<1>1. Used(z) = Used(w) /\ InWindow(z) = InWindow(w)
  BY DEF Ring, Used, InWindow
<1>2. \A e \in Used(w) :
          /\ z.cpu.rob[e].state # "DONE" => w.cpu.rob[e].state # "DONE"
          /\ z.cpu.rob[e].state = "FETCHING" => w.cpu.rob[e].state = "FETCHING"
  OBVIOUS
<1>3. \A e \in Used(w) : z.cpu.rob[e].g = w.cpu.rob[e].g
  BY StampIs DEF Used
<1> QED
  BY <1>1, <1>2, <1>3 DEF Alive, Ring

LEMMA PendingKept ==
    ASSUME NEW w \in Good, NEW z, NEW H, Pending(w, H), Stamps(z) = Stamps(w),
           z.cpu.dataPausers = w.cpu.dataPausers,
           \A e \in Used(w) : \A i \in w.cpu.rob[e].dataPause :
               Request("data", w.cpu.rob[e].g, i) \in H => i \in z.cpu.rob[e].dataPause
    PROVE  Pending(z, H)
<1>1. \A e \in Range(w.cpu.dataPausers) : e \in Used(w) /\ e \in Entries
  <2>1. w.cpu.dataPausers \in Seq(Used(w))
    BY DEF Good, Placed
  <2>2. \A n \in DOMAIN w.cpu.dataPausers : w.cpu.dataPausers[n] \in Used(w)
    BY <2>1, LenProperties, ElementOfSeq
  <2> QED
    BY <2>2 DEF Range, Used
<1>2. \A e \in Entries : z.cpu.rob[e].g = w.cpu.rob[e].g
  BY StampIs
<1> QED
  BY <1>1, <1>2 DEF Pending

\* An entry loses a pause, or gets one.
LEMMA ShapedKept ==
    ASSUME NEW w \in Good, NEW z, Shaped(w), Stamps(z) = Stamps(w),
           \A e \in Used(w) :
               /\ z.cpu.rob[e].instrPause \subseteq
                      w.cpu.rob[e].instrPause \cup DOMAIN Requests("instr", w.cpu.rob[e].g)
               /\ z.cpu.rob[e].dataPause \subseteq
                      w.cpu.rob[e].dataPause \cup DOMAIN Requests("data", w.cpu.rob[e].g)
    PROVE  Shaped(z)
<1>1. Used(z) = Used(w) /\ \A e \in Used(w) : z.cpu.rob[e].g = w.cpu.rob[e].g
  BY StampIs, UsedIs
<1> SUFFICES ASSUME NEW e \in Used(w)
             PROVE  /\ (z.cpu.rob[e].g - 1) % RobSize = e
                    /\ z.cpu.rob[e].instrPause \subseteq DOMAIN Requests("instr", z.cpu.rob[e].g)
                    /\ z.cpu.rob[e].dataPause \subseteq DOMAIN Requests("data", z.cpu.rob[e].g)
  BY <1>1 DEF Shaped
<1>2. /\ (w.cpu.rob[e].g - 1) % RobSize = e
      /\ w.cpu.rob[e].instrPause \subseteq DOMAIN Requests("instr", w.cpu.rob[e].g)
      /\ w.cpu.rob[e].dataPause \subseteq DOMAIN Requests("data", w.cpu.rob[e].g)
  BY DEF Shaped
<1> QED
  BY <1>1, <1>2

LEMMA EntrySet ==
    ASSUME NEW w \in Worlds, NEW z, NEW e \in Entries, NEW v,
           z.cpu.rob = [w.cpu.rob EXCEPT ![e] = v]
    PROVE  z.cpu.rob[e] = v /\ \A d \in Entries \ {e} : z.cpu.rob[d] = w.cpu.rob[d]
    BY CoreIs

\* Only the pauses of one entry change.
LEMMA PausedSet ==
    ASSUME NEW w \in Worlds, NEW z, NEW r \in Reqs, NEW q \in Reqs,
           LET e == EntryOf(r)
               t == w.cpu.rob[e]
           IN /\ \A d \in Entries \ {e} : z.cpu.rob[d] = w.cpu.rob[d]
              /\ z.cpu.rob[e].g = t.g /\ t.g = r.g
              /\ z.cpu.rob[e].instrPause \ {r.i} = t.instrPause \ {r.i}
              /\ z.cpu.rob[e].dataPause \ {r.i} = t.dataPause \ {r.i}
              /\ r.kind # "instr" => z.cpu.rob[e].instrPause = t.instrPause
              /\ r.kind = "instr" => z.cpu.rob[e].dataPause = t.dataPause,
           q # r
    PROVE  Paused(z, q) <=> Paused(w, q)
<1>1. EntryOf(q) \in Entries
  BY RequestIs
<1>2. CASE EntryOf(q) # EntryOf(r)
  <2>1. z.cpu.rob[EntryOf(q)] = w.cpu.rob[EntryOf(q)]
    BY <1>1, <1>2
  <2> QED
    BY <2>1 DEF Paused
<1>3. CASE EntryOf(q) = EntryOf(r)
  <2>1. q = Request(q.kind, q.g, q.i) /\ r = Request(r.kind, r.g, r.i)
    BY RequestHas
  <2>2. CASE q.g # r.g
    BY <1>3, <2>2 DEF Paused
  <2>3. CASE q.g = r.g /\ q.i # r.i
    BY <1>3, <2>3 DEF Paused
  <2>4. CASE q.g = r.g /\ q.i = r.i
    <3>1. q.kind # r.kind /\ r.kind \in {"instr", "data"} /\ q.kind \in {"instr", "data"}
      BY <2>1, <2>4, RequestIs DEF CacheNames
    <3> QED
      BY <1>3, <2>4, <3>1 DEF Paused
  <2> QED
    BY <2>2, <2>3, <2>4
<1> QED
  BY <1>2, <1>3

\* Pauses only go, and no entry begins to fetch.
LEMMA FineKept ==
    ASSUME NEW w, NEW z \in Good, NEW X, NEW Y, NEW B, NEW E, NEW Zi, NEW Zd,
           NEW X1, NEW Y1, NEW B1,
           Fine(w, X, Y, B, E, Zi, Zd), Loads(z, X1, Y1, B1), Kinds(z),
           Ring(z) = Ring(w), Turn(z) = Turn(w), Timing(z) = Timing(w), Stamps(z) = Stamps(w),
           Lists(z) = Lists(w),
           \A e \in Used(w) :
               /\ z.cpu.rob[e].instrPause \subseteq w.cpu.rob[e].instrPause
               /\ z.cpu.rob[e].dataPause \subseteq w.cpu.rob[e].dataPause
               /\ z.cpu.rob[e].state # w.cpu.rob[e].state =>
                      w.cpu.rob[e].state # "DONE" /\ z.cpu.rob[e].state # "FETCHING"
    PROVE  Fine(z, X1, Y1, B1, E, Zi, Zd)
<1>1. /\ w \in Good /\ Shaped(w) /\ Timed(w) /\ w.cpu.failed \in {"", "resume"}
      /\ Alive(w, E) /\ Pausing(w, Zi, Zd)
  BY DEF Fine, Sound
<1>2. Timed(z) /\ z.cpu.failed = w.cpu.failed /\ z.cpu.fetchEntry = w.cpu.fetchEntry
  BY <1>1, TimedKept DEF Turn
<1>3. Alive(z, E)
  <2>1. \A e \in Used(w) : z.cpu.rob[e].state # w.cpu.rob[e].state =>
            w.cpu.rob[e].state # "DONE" /\ z.cpu.rob[e].state # "FETCHING"
    OBVIOUS
  <2> QED
    BY <1>1, <1>2, <2>1, AliveKept
<1>4. Shaped(z)
  BY <1>1, ShapedKept
<1>5. Used(z) = Used(w)
  BY StampIs
<1>6. z.cpu.instrPausers = w.cpu.instrPausers /\ z.cpu.dataPausers = w.cpu.dataPausers
  BY DEF Lists
<1>7. Pausing(z, Zi, Zd)
  <2>1. ASSUME NEW e \in Used(w)
        PROVE  /\ z.cpu.rob[e].instrPause # {} => e \in Range(w.cpu.instrPausers) \cup Zi
               /\ z.cpu.rob[e].dataPause # {} => e \in Range(w.cpu.dataPausers) \cup Zd
    <3>1. /\ w.cpu.rob[e].instrPause # {} => e \in Range(w.cpu.instrPausers) \cup Zi
          /\ w.cpu.rob[e].dataPause # {} => e \in Range(w.cpu.dataPausers) \cup Zd
      BY <1>1 DEF Pausing
    <3> QED
      BY <3>1
  <2>2. \A e \in Zd : e \in Used(w) /\ z.cpu.rob[e].state # "FETCHING"
    BY <1>1 DEF Pausing
  <2> QED
    BY <1>5, <1>6, <2>1, <2>2 DEF Pausing
<1> QED
  BY <1>1, <1>2, <1>3, <1>4, <1>7 DEF Fine, Sound

LEMMA EntryDoes ==
    ASSUME NEW w \in Good, NEW e \in Entries, NEW v \in RobEntries, v.g = w.cpu.rob[e].g
    PROVE  LET z == WithEntry(w, e, v) IN
           /\ z \in Good /\ z \in Worlds /\ Stamps(z) = Stamps(w)
           /\ Queues(z) = Queues(w) /\ Lists(z) = Lists(w) /\ Ring(z) = Ring(w)
           /\ Answers(z) = Answers(w) /\ Turn(z) = Turn(w) /\ Timing(z) = Timing(w)
           /\ z.cpu.rob[e] = v /\ \A d \in Entries \ {e} : z.cpu.rob[d] = w.cpu.rob[d]
           /\ Kinds(w) => Kinds(z)
           /\ \A q \in Reqs : Sent(z, q) = Sent(w, q)
<1> DEFINE z == WithEntry(w, e, v)
<1>1. w \in Worlds
  BY DEF Good
<1>2. /\ z \in Worlds
      /\ Queues(z) = Queues(w) /\ Lists(z) = Lists(w) /\ Ring(z) = Ring(w)
      /\ Answers(z) = Answers(w) /\ Turn(z) = Turn(w) /\ Clock(z) = Clock(w)
      /\ z.cpu.rob = [w.cpu.rob EXCEPT ![e] = v]
  BY <1>1, SetEntry
<1>3. z \in Good /\ Stamps(z) = Stamps(w)
  <2>1. Keeps(z, w)
    BY <1>1, EntryKeeps DEF WithEntry
  <2> HIDE DEF z
  <2> QED
    BY <2>1, KeepsGood DEF Keeps
<1> HIDE DEF z
<1>4. z.cpu.rob[e] = v /\ \A d \in Entries \ {e} : z.cpu.rob[d] = w.cpu.rob[d]
  BY <1>1, <1>2, EntrySet
<1>5. z.cpu.stalled = w.cpu.stalled /\ z.atCache.reads = w.atCache.reads /\ z.cpu.slots = w.cpu.slots
  BY <1>2 DEF Queues, Answers
<1>6. \A q \in Reqs : Sent(z, q) = Sent(w, q)
  BY <1>5 DEF Sent
<1>7. Kinds(w) => Kinds(z)
  BY <1>5 DEF Kinds
<1>8. Timing(z) = Timing(w)
  BY <1>2 DEF Timing, Clock, Answers
<1> QED
  BY <1>2, <1>3, <1>4, <1>6, <1>7, <1>8 DEF z

\* A request that is to be passed is among those to be sent, or paused.
Passable(w, X, r) == r \in X \/ Paused(w, r)

\* It is not one that keeps its entry listed.
Unlisted(w, H, r) == r \notin H \/ ~Paused(w, r)

LEMMA ToPass ==
    ASSUME NEW w \in Good, NEW X, NEW Y, Placing(w, X, Y), NEW r \in Reqs,
           Passable(w, X, r)
    PROVE  /\ Load(w, X, Y, r) = 1 /\ Sent(w, r) = 0 /\ r \notin Y
           /\ One(r \in X) + One(Paused(w, r)) = 1
           /\ EntryOf(r) \in Used(w) /\ w.cpu.rob[EntryOf(r)].g = r.g
<1>1. /\ Load(w, X, Y, r) = Sent(w, r) + One(r \in X) + One(r \in Y) + One(Paused(w, r))
      /\ Sent(w, r) \in Nat
  BY LoadIs DEF Good
<1>2. Load(w, X, Y, r) \in {0, 1}
  BY DEF Placing
<1>3. /\ Load(w, X, Y, r) = 1 /\ Sent(w, r) = 0 /\ r \notin Y
      /\ One(r \in X) + One(Paused(w, r)) = 1
  BY <1>1, <1>2 DEF One, Passable
<1> QED
  BY <1>3, LoadHas

\* The access r is not paused in z, and is sent, if it is a read.
Unpaused(z, w, r) ==
    LET e == EntryOf(r)
        t == w.cpu.rob[e]
    IN /\ \A d \in Entries \ {e} : z.cpu.rob[d] = w.cpu.rob[d]
       /\ z.cpu.rob[e].instrPause = IF r.kind = "instr" THEN t.instrPause \ {r.i} ELSE t.instrPause
       /\ z.cpu.rob[e].dataPause = IF r.kind = "instr" THEN t.dataPause ELSE t.dataPause \ {r.i}

Sends(z, w, r) ==
    \A q \in Reqs : Sent(z, q) = Sent(w, q) + IF q = r /\ IsRead(r) THEN 1 ELSE 0

LEMMA PauseTaken ==
    ASSUME NEW w \in Good, NEW X, NEW Y, Placing(w, X, Y), NEW r \in Reqs, Passable(w, X, r),
           NEW z \in Worlds, Stamps(z) = Stamps(w),
           Unpaused(z, w, r), Sends(z, w, r)
    PROVE  /\ Load(z, X \ {r}, Y, r) = IF IsRead(r) THEN 1 ELSE 0
           /\ SameLoads(z, X \ {r}, Y, w, X, Y, Reqs \ {r})
<1>1. Sent(w, r) = 0 /\ r \notin Y /\ EntryOf(r) \in Entries /\ w.cpu.rob[EntryOf(r)].g = r.g
  BY ToPass, RequestIs
<1>2. z.cpu.rob[EntryOf(r)].g = r.g /\ w \in Worlds
  BY <1>1, StampIs DEF Good
<1>3. Load(z, X \ {r}, Y, r) = IF IsRead(r) THEN 1 ELSE 0
  <2>1. ~Paused(z, r)
    BY <1>1 DEF Paused, Unpaused
  <2>2. Sent(z, r) = IF IsRead(r) THEN 1 ELSE 0
    BY <1>1 DEF Sends
  <2>3. One(r \in X \ {r}) = 0 /\ One(r \in Y) = 0 /\ One(Paused(z, r)) = 0
    BY <1>1, <2>1 DEF One
  <2> QED
    BY <2>2, <2>3 DEF Load
<1>4. ASSUME NEW q \in Reqs \ {r} PROVE Load(z, X \ {r}, Y, q) = Load(w, X, Y, q)
  <2>1. Paused(z, q) <=> Paused(w, q)
    BY <1>1, <1>2, PausedSet DEF Unpaused
  <2>2. Sent(z, q) = Sent(w, q)
    BY <1>2, SentIs DEF Sends
  <2> QED
    BY <2>1, <2>2 DEF Load, One
<1> QED
  BY <1>3, <1>4 DEF SameLoads

LEMMA PassInstrFine ==
    ASSUME NEW w, NEW X, NEW Y, NEW B, NEW E, NEW Zi, NEW Zd, NEW H,
           Fine(w, X, Y, B, E, Zi, Zd), Pending(w, H),
           NEW r \in Reqs, r.kind = "instr", ~IsHeld(r), Passable(w, X, r)
    PROVE  LET z == PassInstr(w, r) IN
           /\ Fine(z, X \ {r}, Y, B, E, Zi, Zd) /\ Pending(z, H) /\ z \in Follow(w)
           /\ Ring(z) = Ring(w)
           /\ \A e \in Used(w) : z.cpu.rob[e].instrPause \subseteq w.cpu.rob[e].instrPause
<1> DEFINE e == EntryOf(r)
           t == w.cpu.rob[e]
           v == [t EXCEPT !.instrPause = @ \ {r.i}]
           y == WithEntry(w, e, v)
           z == PassInstr(w, r)
<1>1. w \in Good /\ w \in Worlds /\ Kinds(w) /\ Placing(w, X, Y) /\ Loads(w, X, Y, B)
  BY DEF Fine, Sound, Loads, Good
<1>2. Sent(w, r) = 0 /\ e \in Entries /\ t.g = r.g /\ t \in RobEntries
  BY <1>1, ToPass, RequestIs, CoreIs
<1>3. /\ v \in RobEntries /\ v.g = t.g /\ v.instrPause = t.instrPause \ {r.i}
      /\ v.dataPause = t.dataPause /\ v.state = t.state /\ v.instrLeft = t.instrLeft
      /\ v.dataLeft = t.dataLeft
  BY <1>2 DEF RobEntries
<1>4. z = Send(y, r)
  BY DEF PassInstr, WithEntry
<1> HIDE DEF v
<1>5. /\ y \in Good /\ y \in Worlds /\ Stamps(y) = Stamps(w)
      /\ Lists(y) = Lists(w) /\ Ring(y) = Ring(w) /\ Queues(y) = Queues(w)
      /\ Answers(y) = Answers(w) /\ Turn(y) = Turn(w) /\ Timing(y) = Timing(w)
      /\ y.cpu.rob[e] = v /\ \A d \in Entries \ {e} : y.cpu.rob[d] = w.cpu.rob[d]
      /\ Kinds(y) /\ \A q \in Reqs : Sent(y, q) = Sent(w, q)
  <2>1. w \in Good /\ e \in Entries /\ v \in RobEntries /\ v.g = w.cpu.rob[e].g /\ Kinds(w)
    BY <1>1, <1>2, <1>3
  <2> QED
    BY <2>1, EntryDoes
<1> HIDE DEF y
<1>6. /\ z \in Worlds /\ Aside(z, y) /\ Kinds(z)
      /\ \A q \in Reqs : Sent(z, q) = Sent(y, q) + IF q = r /\ IsRead(r) THEN 1 ELSE 0
  BY <1>2, <1>4, <1>5, SendDoes
<1>7. z \in Follow(w)
  BY <1>1, PassInstrFollows
<1> HIDE DEF z
<1>8. z \in Good /\ Stamps(z) = Stamps(w) /\ IsRead(r)
  BY <1>7 DEF Follow, IsRead
<1>9. /\ z.cpu.rob[e] = v /\ \A d \in Entries \ {e} : z.cpu.rob[d] = w.cpu.rob[d]
      /\ Lists(z) = Lists(w) /\ Ring(z) = Ring(w) /\ Turn(z) = Turn(w) /\ Timing(z) = Timing(w)
      /\ z.cpu.lsq = w.cpu.lsq
  BY <1>5, <1>6 DEF Aside, Buffer, Answers
<1>10. /\ Load(z, X \ {r}, Y, r) = 1
       /\ SameLoads(z, X \ {r}, Y, w, X, Y, Reqs \ {r})
  <2>1. Sends(z, w, r)
    BY <1>5, <1>6 DEF Sends
  <2>2. Unpaused(z, w, r)
    BY <1>3, <1>9 DEF Unpaused
  <2> QED
    BY <1>1, <1>6, <1>8, <2>1, <2>2, PauseTaken
<1>11. SameLoads(z, X \ {r}, Y, w, X, Y, Reqs)
  BY <1>1, <1>10, ToPass DEF SameLoads
<1>12. ASSUME NEW d \in Used(w)
       PROVE  /\ Tally(z, d) = Tally(w, d) /\ z.cpu.rob[d].state = w.cpu.rob[d].state
              /\ z.cpu.rob[d].instrPause \subseteq w.cpu.rob[d].instrPause
              /\ z.cpu.rob[d].dataPause = w.cpu.rob[d].dataPause
  <2>1. d \in Entries
    BY DEF Used
  <2>2. CASE d = e
    BY <1>3, <1>9, <2>2 DEF Tally
  <2>3. CASE d # e
    BY <1>9, <2>1, <2>3 DEF Tally
  <2> QED
    BY <2>2, <2>3
<1>13. Loads(z, X \ {r}, Y, B)
  <2>1. ASSUME NEW q \in Reqs, q.kind = "data" PROVE Sent(z, q) + One(q \in Y) = 1 <=> q \in z.cpu.lsq
    <3>1. Sent(z, q) = Sent(w, q)
      <4>1. q # r /\ Sent(w, q) \in Nat
        BY <1>1, <2>1, SentIs
      <4> QED
        BY <1>5, <1>6, <4>1
    <3> QED
      BY <1>1, <1>9, <2>1, <3>1 DEF Placing
  <2>2. Awaited(z, Y) /\ SameTallies(z, w, Used(w))
    BY <1>12, <2>1 DEF Awaited, SameTallies
  <2> QED
    BY <1>1, <1>8, <1>11, <2>2, LoadsKept
<1>14. Fine(z, X \ {r}, Y, B, E, Zi, Zd)
  BY <1>6, <1>8, <1>9, <1>12, <1>13, FineKept
<1>15. Pending(z, H)
  <2>1. z.cpu.dataPausers = w.cpu.dataPausers
    BY <1>9 DEF Lists
  <2> QED
    BY <1>1, <1>8, <1>12, <2>1, PendingKept
<1> QED
  BY <1>7, <1>9, <1>12, <1>14, <1>15 DEF z

\* A read is among the accesses that are waited for; a write is counted off.
LEMMA PassDataFine ==
    ASSUME NEW w, NEW X, NEW Y, NEW B, NEW E, NEW Zi, NEW Zd, NEW H,
           Fine(w, X, Y, B, E, Zi, Zd), Pending(w, H),
           NEW r \in Reqs, r.kind = "data", ~IsHeld(r), Passable(w, X, r),
           EntryOf(r) \in B, Unlisted(w, H, r)
    PROVE  LET z == PassData(w, r) IN
           /\ Fine(z, X \ {r}, Y, B, E, Zi, Zd) /\ Pending(z, H) /\ z \in Follow(w)
           /\ z.cpu.rob[EntryOf(r)].dataPause = w.cpu.rob[EntryOf(r)].dataPause \ {r.i}
           /\ z.cpu.rob[EntryOf(r)].state = w.cpu.rob[EntryOf(r)].state
<1> DEFINE e == EntryOf(r)
           t == w.cpu.rob[e]
           v == [t EXCEPT !.dataPause = @ \ {r.i}]
           y == WithEntry(w, e, v)
           s == Send(y, r)
           z == PassData(w, r)
<1>1. w \in Good /\ w \in Worlds /\ Kinds(w) /\ Placing(w, X, Y) /\ Loads(w, X, Y, B) /\ Shaped(w)
  BY DEF Fine, Sound, Loads, Good
<1>2. Sent(w, r) = 0 /\ e \in Entries /\ t.g = r.g /\ t \in RobEntries /\ e \in Used(w)
  BY <1>1, ToPass, RequestIs, CoreIs
<1>0. r \notin w.cpu.lsq
  BY <1>1, <1>2, ToPass DEF Placing, One
<1>3. /\ v \in RobEntries /\ v.g = t.g /\ v.instrPause = t.instrPause
      /\ v.dataPause = t.dataPause \ {r.i} /\ v.state = t.state /\ v.instrLeft = t.instrLeft
      /\ v.dataLeft = t.dataLeft
  BY <1>2 DEF RobEntries
<1>4. z = IF IsRead(r) THEN [s EXCEPT !.cpu.lsq = @ \cup {r}]
          ELSE [s EXCEPT !.cpu.rob[e].dataLeft = @ - 1]
  BY <1>0 DEF PassData, WithEntry, Fail
<1> HIDE DEF v
<1>5. /\ y \in Good /\ y \in Worlds /\ Stamps(y) = Stamps(w)
      /\ Lists(y) = Lists(w) /\ Ring(y) = Ring(w) /\ Queues(y) = Queues(w)
      /\ Answers(y) = Answers(w) /\ Turn(y) = Turn(w) /\ Timing(y) = Timing(w)
      /\ y.cpu.rob[e] = v /\ \A d \in Entries \ {e} : y.cpu.rob[d] = w.cpu.rob[d]
      /\ Kinds(y) /\ \A q \in Reqs : Sent(y, q) = Sent(w, q)
  <2>1. w \in Good /\ e \in Entries /\ v \in RobEntries /\ v.g = w.cpu.rob[e].g /\ Kinds(w)
    BY <1>1, <1>2, <1>3
  <2> QED
    BY <2>1, EntryDoes
<1> HIDE DEF y
<1>6. /\ s \in Worlds /\ Aside(s, y) /\ Kinds(s)
      /\ \A q \in Reqs : Sent(s, q) = Sent(y, q) + IF q = r /\ IsRead(r) THEN 1 ELSE 0
  BY <1>2, <1>5, SendDoes
<1>7. s \in Good /\ Stamps(s) = Stamps(w)
  BY <1>5, SendFollows DEF Follow
<1>8. z \in Follow(w)
  BY <1>1, PassDataFollows
<1> HIDE DEF s, z
<1>9. /\ s.cpu.rob[e] = v /\ \A d \in Entries \ {e} : s.cpu.rob[d] = w.cpu.rob[d]
      /\ Lists(s) = Lists(w) /\ Ring(s) = Ring(w) /\ Turn(s) = Turn(w) /\ Timing(s) = Timing(w)
      /\ s.cpu.lsq = w.cpu.lsq /\ Sends(s, w, r)
  BY <1>5, <1>6 DEF Aside, Buffer, Answers, Sends
<1>10. z \in Good /\ z \in Worlds /\ Stamps(z) = Stamps(w)
  BY <1>8 DEF Follow, Good
<1>11. /\ Lists(z) = Lists(w) /\ Ring(z) = Ring(w) /\ Turn(z) = Turn(w) /\ Timing(z) = Timing(w)
       /\ Kinds(z) /\ Sends(z, w, r)
       /\ z.cpu.lsq = IF IsRead(r) THEN w.cpu.lsq \cup {r} ELSE w.cpu.lsq
       /\ \A d \in Entries \ {e} : z.cpu.rob[d] = w.cpu.rob[d]
       /\ z.cpu.rob[e].instrPause = t.instrPause /\ z.cpu.rob[e].dataPause = t.dataPause \ {r.i}
       /\ Tally(z, e) = <<t.state, t.instrLeft, IF IsRead(r) THEN t.dataLeft ELSE t.dataLeft - 1>>
  <2>1. CASE IsRead(r)
    <3> DEFINE l == s.cpu.lsq \cup {r}
               a == [s EXCEPT !.cpu.lsq = l]
    <3>1. z = a /\ l \in SUBSET Reqs
      BY <1>4, <1>6, <2>1, CoreIs
    <3>2. /\ Queues(a) = Queues(s) /\ Lists(a) = Lists(s) /\ Ring(a) = Ring(s)
          /\ Buffer(a) = Buffer(s) /\ Turn(a) = Turn(s) /\ Clock(a) = Clock(s)
          /\ a.cpu.lsq = l /\ a.cpu.slots = s.cpu.slots /\ a.atCache = s.atCache
      <4> HIDE DEF l
      <4> QED
        BY <1>6, <3>1, SetLsq
    <3> HIDE DEF a
    <3>3. Sends(z, w, r)
      BY <1>9, <3>1, <3>2 DEF Sends, Sent, Queues
    <3>4. Kinds(z)
      BY <1>6, <3>1, <3>2 DEF Kinds, Queues
    <3>5. z.cpu.rob = s.cpu.rob /\ z.cpu.lsq = w.cpu.lsq \cup {r} /\ Timing(z) = Timing(s)
      BY <1>9, <3>1, <3>2 DEF Buffer, Timing, Clock
    <3> QED
      BY <1>3, <1>9, <2>1, <3>1, <3>2, <3>3, <3>4, <3>5 DEF Tally
  <2>2. CASE ~IsRead(r)
    <3> DEFINE u == [s.cpu.rob[e] EXCEPT !.dataLeft = @ - 1]
               a == WithEntry(s, e, u)
    <3>1. z = a
      BY <1>4, <2>2 DEF WithEntry
    <3>2. /\ u \in RobEntries /\ u.g = s.cpu.rob[e].g /\ u.instrPause = t.instrPause
          /\ u.dataPause = t.dataPause \ {r.i} /\ u.state = t.state /\ u.instrLeft = t.instrLeft
          /\ u.dataLeft = t.dataLeft - 1
      BY <1>3, <1>9 DEF RobEntries
    <3> HIDE DEF u
    <3>3. /\ Lists(a) = Lists(s) /\ Ring(a) = Ring(s)
          /\ Answers(a) = Answers(s) /\ Turn(a) = Turn(s) /\ Timing(a) = Timing(s)
          /\ a.cpu.rob[e] = u /\ \A d \in Entries \ {e} : a.cpu.rob[d] = s.cpu.rob[d]
          /\ Kinds(a) /\ \A q \in Reqs : Sent(a, q) = Sent(s, q)
      <4>1. u \in RobEntries /\ u.g = s.cpu.rob[e].g
        BY <3>2
      <4> QED
        BY <1>2, <1>6, <1>7, <4>1, EntryDoes
    <3> HIDE DEF a
    <3>4. Sends(z, w, r) /\ z.cpu.lsq = w.cpu.lsq
      BY <1>9, <3>1, <3>3 DEF Sends, Answers
    <3> QED
      BY <1>9, <2>2, <3>1, <3>2, <3>3, <3>4 DEF Tally
  <2> QED
    BY <2>1, <2>2
<1>12. /\ Load(z, X \ {r}, Y, r) = IF IsRead(r) THEN 1 ELSE 0
       /\ SameLoads(z, X \ {r}, Y, w, X, Y, Reqs \ {r})
  <2>1. Unpaused(z, w, r)
    BY <1>11 DEF Unpaused
  <2> QED
    BY <1>1, <1>10, <1>11, <2>1, PauseTaken
<1>13. Load(w, X, Y, r) = 1
  BY <1>1, ToPass
<1>14. ASSUME NEW d \in Used(w), d # e PROVE z.cpu.rob[d] = w.cpu.rob[d] /\ Tally(z, d) = Tally(w, d)
  BY <1>11, <1>14 DEF Tally, Used
<1>15. ASSUME NEW q \in Reqs, q.kind = "data" PROVE Sent(z, q) + One(q \in Y) = 1 <=> q \in z.cpu.lsq
  <2>1. CASE q = r
    <3>1. Sent(z, q) = IF IsRead(r) THEN 1 ELSE 0
      BY <1>2, <1>11, <2>1 DEF Sends
    <3>2. One(q \in Y) = 0
      BY <1>1, <2>1, ToPass DEF One
    <3> QED
      BY <1>0, <1>11, <2>1, <3>1, <3>2
  <2>2. CASE q # r
    <3>1. Sent(z, q) = Sent(w, q)
      BY <1>1, <1>11, <2>2, SentIs DEF Sends
    <3>2. q \in z.cpu.lsq <=> q \in w.cpu.lsq
      BY <1>11, <2>2
    <3>3. Sent(w, q) + One(q \in Y) = 1 <=> q \in w.cpu.lsq
      BY <1>1, <1>15 DEF Placing
    <3> QED
      BY <3>1, <3>2, <3>3
  <2> QED
    BY <2>1, <2>2
<1>16. Loads(z, X \ {r}, Y, B)
  <2>0. Awaited(z, Y)
    BY <1>15 DEF Awaited
  <2>1. CASE IsRead(r)
    <3>1. SameLoads(z, X \ {r}, Y, w, X, Y, Reqs)
      BY <1>12, <1>13, <2>1 DEF SameLoads
    <3>2. Tally(z, e) = Tally(w, e)
      BY <1>11, <2>1 DEF Tally
    <3>3. SameTallies(z, w, Used(w))
      BY <1>14, <3>2 DEF SameTallies
    <3> QED
      BY <1>1, <1>10, <2>0, <3>1, <3>3, LoadsKept
  <2>2. CASE ~IsRead(r)
    <3>1. Load(z, X \ {r}, Y, r) = 0
      BY <1>12, <2>2
    <3>2. CountsOff(z, w, r) /\ SameTallies(z, w, Used(w) \ {e})
      BY <1>11, <1>14, <2>2 DEF CountsOff, SameTallies
    <3>3. Loads(z, X \ {r}, Y, B \cup {e})
      BY <1>1, <1>10, <1>12, <1>13, <2>0, <3>1, <3>2, LoadsDrop
    <3>4. B \cup {e} = B
      OBVIOUS
    <3> QED
      BY <3>3, <3>4
  <2> QED
    BY <2>1, <2>2
<1>17. ASSUME NEW d \in Used(w)
       PROVE  /\ z.cpu.rob[d].instrPause \subseteq w.cpu.rob[d].instrPause
              /\ z.cpu.rob[d].dataPause \subseteq w.cpu.rob[d].dataPause
              /\ z.cpu.rob[d].state = w.cpu.rob[d].state
  <2>1. CASE d = e
    BY <1>11, <2>1 DEF Tally
  <2>2. CASE d # e
    BY <1>14, <2>2
  <2> QED
    BY <2>1, <2>2
<1>18. Fine(z, X \ {r}, Y, B, E, Zi, Zd)
  BY <1>10, <1>11, <1>16, <1>17, FineKept
<1>19. Pending(z, H)
  <2>1. z.cpu.dataPausers = w.cpu.dataPausers
    BY <1>11 DEF Lists
  <2>2. ASSUME NEW d \in Used(w), NEW i \in w.cpu.rob[d].dataPause,
               Request("data", w.cpu.rob[d].g, i) \in H
        PROVE  i \in z.cpu.rob[d].dataPause
    <3>1. CASE d # e
      BY <1>14, <3>1
    <3>2. CASE d = e
      <4>1. i # r.i
        <5>1. SUFFICES ASSUME i = r.i PROVE FALSE
          OBVIOUS
        <5>2. Request("data", w.cpu.rob[d].g, i) = r
          BY <1>2, <3>2, <5>1, RequestHas
        <5>3. r \in H
          BY <2>2, <5>2
        <5> QED
          BY <1>2, <3>2, <5>1, <5>3 DEF Paused, Unlisted
      <4> QED
        BY <1>11, <3>2, <4>1
    <3> QED
      BY <3>1, <3>2
  <2> QED
    BY <1>1, <1>10, <2>1, <2>2, PendingKept
<1> QED
  BY <1>2, <1>8, <1>11, <1>17, <1>18, <1>19 DEF z

-----------------------------------------------------------------------------
(* Pausing an access *)

Pauses(z, w, r) ==
    LET e == EntryOf(r)
        t == w.cpu.rob[e]
        i == r.kind = "instr"
    IN /\ \A d \in Entries \ {e} : z.cpu.rob[d] = w.cpu.rob[d]
       /\ Tally(z, e) = Tally(w, e)
       /\ z.cpu.rob[e].instrPause = IF i THEN t.instrPause \cup {r.i} ELSE t.instrPause
       /\ z.cpu.rob[e].dataPause = IF i THEN t.dataPause ELSE t.dataPause \cup {r.i}
       /\ Range(z.cpu.instrPausers) = IF i THEN Range(w.cpu.instrPausers) \cup {e} ELSE Range(w.cpu.instrPausers)
       /\ Range(z.cpu.dataPausers) = IF i THEN Range(w.cpu.dataPausers) ELSE Range(w.cpu.dataPausers) \cup {e}
       /\ z.cpu.lsq = w.cpu.lsq /\ \A q \in Reqs : Sent(z, q) = Sent(w, q)

\* An access that is to be sent is paused instead.
LEMMA PauseLoads ==
    ASSUME NEW w \in Good, NEW z \in Good, NEW X, NEW Y, NEW B, Loads(w, X, Y, B),
           Stamps(z) = Stamps(w), NEW r \in Reqs, r \in X, Pauses(z, w, r)
    PROVE  Loads(z, X \ {r}, Y, B)
<1> DEFINE e == EntryOf(r)
<1>1. /\ Placing(w, X, Y) /\ e \in Entries /\ w \in Worlds /\ z \in Worlds
      /\ w.cpu.rob[e].g = r.g /\ e \in Used(w)
  BY ToPass, RequestIs DEF Loads, Good, Passable
<1>2. z.cpu.rob[e].g = r.g
  BY <1>1, StampIs
<1>3. Load(w, X, Y, r) = 1 /\ Sent(w, r) = 0 /\ r \notin Y
  BY <1>1, ToPass DEF Passable
<1>4. Load(z, X \ {r}, Y, r) = 1
  <2>1. Paused(z, r)
    BY <1>2 DEF Paused, Pauses
  <2>2. One(r \in X \ {r}) = 0 /\ One(r \in Y) = 0 /\ One(Paused(z, r)) = 1
    BY <1>3, <2>1 DEF One
  <2>3. Sent(z, r) = 0
    BY <1>3 DEF Pauses
  <2> QED
    BY <2>2, <2>3 DEF Load
<1>5. ASSUME NEW q \in Reqs, q # r PROVE Load(z, X \ {r}, Y, q) = Load(w, X, Y, q)
  <2>1. Paused(z, q) <=> Paused(w, q)
    <3>1. /\ \A d \in Entries \ {e} : z.cpu.rob[d] = w.cpu.rob[d]
          /\ z.cpu.rob[e].g = w.cpu.rob[e].g /\ w.cpu.rob[e].g = r.g
          /\ z.cpu.rob[e].instrPause \ {r.i} = w.cpu.rob[e].instrPause \ {r.i}
          /\ z.cpu.rob[e].dataPause \ {r.i} = w.cpu.rob[e].dataPause \ {r.i}
          /\ r.kind # "instr" => z.cpu.rob[e].instrPause = w.cpu.rob[e].instrPause
          /\ r.kind = "instr" => z.cpu.rob[e].dataPause = w.cpu.rob[e].dataPause
      BY <1>1, <1>2 DEF Pauses
    <3> QED
      BY <1>1, <1>5, <3>1, PausedSet
  <2>2. Sent(z, q) = Sent(w, q)
    BY DEF Pauses
  <2> QED
    BY <1>5, <2>1, <2>2 DEF Load, One
<1>6. SameLoads(z, X \ {r}, Y, w, X, Y, Reqs)
  BY <1>3, <1>4, <1>5 DEF SameLoads
<1>7. SameTallies(z, w, Used(w))
  <2>1. ASSUME NEW d \in Used(w) PROVE Tally(z, d) = Tally(w, d)
    <3>1. CASE d = e
      BY <3>1 DEF Pauses
    <3>2. CASE d # e
      BY <3>2 DEF Pauses, Tally, Used
    <3> QED
      BY <3>1, <3>2
  <2> QED
    BY <2>1 DEF SameTallies
<1>8. Awaited(z, Y)
  BY <1>1 DEF Awaited, Placing, Pauses
<1> QED
  BY <1>6, <1>7, <1>8, LoadsKept

LEMMA PauseFine ==
    ASSUME NEW w, NEW z \in Good, NEW X, NEW Y, NEW B, NEW E, NEW Zi, NEW Zd, NEW H,
           Fine(w, X, Y, B, E, Zi, Zd), Pending(w, H), Kinds(z),
           Ring(z) = Ring(w), Turn(z) = Turn(w), Timing(z) = Timing(w), Stamps(z) = Stamps(w),
           NEW r \in Reqs, r \in X, r \in H, Pauses(z, w, r)
    PROVE  Fine(z, X \ {r}, Y, B, E, Zi, Zd) /\ Pending(z, H)
<1> DEFINE e == EntryOf(r)
<1>1. /\ w \in Good /\ Shaped(w) /\ Timed(w) /\ w.cpu.failed \in {"", "resume"}
      /\ Alive(w, E) /\ Pausing(w, Zi, Zd) /\ Loads(w, X, Y, B) /\ Placing(w, X, Y)
  BY DEF Fine, Sound, Loads
<1>2. /\ e \in Used(w) /\ e \in Entries /\ w.cpu.rob[e].g = r.g
      /\ r.i \in DOMAIN Requests(r.kind, r.g) /\ r.kind \in {"instr", "data"}
  <2>0. w \in Good /\ Placing(w, X, Y) /\ Passable(w, X, r)
    BY <1>1 DEF Passable
  <2>1. e \in Used(w) /\ w.cpu.rob[e].g = r.g
    BY <2>0, ToPass
  <2> QED
    BY <2>1, RequestIs, RequestHas DEF CacheNames
<1>3. Timed(z) /\ z.cpu.failed = w.cpu.failed /\ z.cpu.fetchEntry = w.cpu.fetchEntry
  BY <1>1, TimedKept DEF Turn
<1>4. Used(z) = Used(w) /\ z.cpu.rob[e].g = r.g
  BY <1>2, StampIs
<1>5. ASSUME NEW d \in Used(w)
      PROVE  /\ z.cpu.rob[d].state = w.cpu.rob[d].state
             /\ d # e => z.cpu.rob[d] = w.cpu.rob[d]
  <2>1. CASE d = e
    BY <2>1 DEF Pauses, Tally
  <2>2. CASE d # e
    BY <2>2 DEF Pauses, Used
  <2> QED
    BY <2>1, <2>2
<1>6. Alive(z, E)
  <2>1. \A d \in Used(w) : z.cpu.rob[d].state # w.cpu.rob[d].state =>
            w.cpu.rob[d].state # "DONE" /\ z.cpu.rob[d].state # "FETCHING"
    BY <1>5
  <2> QED
    BY <1>1, <1>3, <2>1, AliveKept
<1>7. Shaped(z)
  <2>1. ASSUME NEW d \in Used(w)
        PROVE  /\ z.cpu.rob[d].instrPause \subseteq
                      w.cpu.rob[d].instrPause \cup DOMAIN Requests("instr", w.cpu.rob[d].g)
               /\ z.cpu.rob[d].dataPause \subseteq
                      w.cpu.rob[d].dataPause \cup DOMAIN Requests("data", w.cpu.rob[d].g)
    <3>1. CASE d = e
      BY <1>2, <3>1 DEF Pauses
    <3>2. CASE d # e
      BY <1>5, <3>2
    <3> QED
      BY <3>1, <3>2
  <2> QED
    BY <1>1, <2>1, ShapedKept
<1>8. Pausing(z, Zi, Zd)
  <2>1. ASSUME NEW d \in Used(w)
        PROVE  /\ z.cpu.rob[d].instrPause # {} => d \in Range(z.cpu.instrPausers) \cup Zi
               /\ z.cpu.rob[d].dataPause # {} => d \in Range(z.cpu.dataPausers) \cup Zd
    <3>1. /\ w.cpu.rob[d].instrPause # {} => d \in Range(w.cpu.instrPausers) \cup Zi
          /\ w.cpu.rob[d].dataPause # {} => d \in Range(w.cpu.dataPausers) \cup Zd
      BY <1>1 DEF Pausing
    <3>2. CASE d = e
      BY <1>2, <3>1, <3>2 DEF Pauses
    <3>3. CASE d # e
      BY <1>5, <3>1, <3>3 DEF Pauses
    <3> QED
      BY <3>2, <3>3
  <2>2. \A d \in Zd : d \in Used(w) /\ z.cpu.rob[d].state # "FETCHING"
    BY <1>1, <1>5 DEF Pausing
  <2> QED
    BY <1>4, <2>1, <2>2 DEF Pausing
<1>9. Loads(z, X \ {r}, Y, B)
  BY <1>1, PauseLoads
<1>10. Pending(z, H)
  <2>1. ASSUME NEW d \in Range(z.cpu.dataPausers)
        PROVE  \E i \in z.cpu.rob[d].dataPause : Request("data", z.cpu.rob[d].g, i) \in H
    <3>1. CASE d = e /\ r.kind = "data"
      <4>1. r = Request("data", z.cpu.rob[e].g, r.i)
        BY <1>4, <3>1, RequestHas
      <4>2. r.i \in z.cpu.rob[e].dataPause
        BY <3>1 DEF Pauses
      <4> QED
        BY <3>1, <4>1, <4>2
    <3>2. CASE ~(d = e /\ r.kind = "data")
      <4>1. d \in Range(w.cpu.dataPausers)
        BY <1>2, <3>2 DEF Pauses
      <4>2. PICK i \in w.cpu.rob[d].dataPause : Request("data", w.cpu.rob[d].g, i) \in H
        BY <4>1 DEF Pending
      <4>3. d \in Used(w)
        <5>1. w.cpu.dataPausers \in Seq(Used(w))
          BY <1>1 DEF Good, Placed
        <5>2. \A n \in DOMAIN w.cpu.dataPausers : w.cpu.dataPausers[n] \in Used(w)
          BY <5>1, LenProperties, ElementOfSeq
        <5> QED
          BY <4>1, <5>2 DEF Range
      <4>4. z.cpu.rob[d].g = w.cpu.rob[d].g /\ z.cpu.rob[d].dataPause = w.cpu.rob[d].dataPause
        <5>1. CASE d = e
          BY <1>2, <1>4, <3>2, <5>1 DEF Pauses
        <5>2. CASE d # e
          BY <1>5, <4>3, <5>2
        <5> QED
          BY <5>1, <5>2
      <4> QED
        BY <4>2, <4>4
    <3> QED
      BY <3>1, <3>2
  <2> QED
    BY <2>1 DEF Pending
<1> QED
  BY <1>1, <1>3, <1>6, <1>7, <1>8, <1>9, <1>10 DEF Fine, Sound

\* What Listed leaves as it is.
LEMMA ListedDoes ==
    ASSUME NEW w \in Good, NEW r \in Reqs
    PROVE  LET z == Listed(w, r) IN
           /\ z \in Good /\ z \in Worlds /\ Stamps(z) = Stamps(w)
           /\ Queues(z) = Queues(w) /\ Lists(z) = Lists(w) /\ Ring(z) = Ring(w) /\ Buffer(z) = Buffer(w)
           /\ Answers(z) = Answers(w) /\ Turn(z) = Turn(w) /\ Timing(z) = Timing(w)
           /\ Kinds(w) => Kinds(z)
           /\ \A q \in Reqs : Sent(z, q) = Sent(w, q)
<1> DEFINE v == w.waiting \cup {PageOf(r)}
           z == [w EXCEPT !.waiting = v]
<1>1. v \in SUBSET Pages /\ w \in Worlds
  BY RequestIs, CoreIs DEF Good
<1>2. /\ z \in Worlds
      /\ Queues(z) = Queues(w) /\ Lists(z) = Lists(w) /\ Ring(z) = Ring(w) /\ Buffer(z) = Buffer(w)
      /\ Answers(z) = Answers(w) /\ Turn(z) = Turn(w) /\ Clock(z) = Clock(w)
  <2> HIDE DEF v
  <2> QED
    BY <1>1, SetWaiting
<1>3. Listed(w, r) = z
  BY DEF Listed
<1> HIDE DEF z
<1>4. z \in Good /\ Stamps(z) = Stamps(w)
  BY <1>1, <1>2, <1>3, ListedKeeps, KeepsGood DEF Keeps
<1>5. z.cpu.stalled = w.cpu.stalled /\ z.atCache.reads = w.atCache.reads /\ z.cpu.slots = w.cpu.slots
  BY <1>2 DEF Queues, Answers
<1>6. \A q \in Reqs : Sent(z, q) = Sent(w, q)
  BY <1>5 DEF Sent
<1>7. Kinds(w) => Kinds(z)
  BY <1>5 DEF Kinds
<1>8. Timing(z) = Timing(w)
  BY <1>2 DEF Timing, Clock, Answers
<1> QED
  BY <1>2, <1>3, <1>4, <1>6, <1>7, <1>8

\* The lists of pausers are set.
LEMMA InstrPausersDo ==
    ASSUME NEW w \in Good, NEW v \in Seq(Used(w))
    PROVE  LET z == [w EXCEPT !.cpu.instrPausers = v] IN
           /\ z \in Good /\ z \in Worlds /\ Stamps(z) = Stamps(w)
           /\ Queues(z) = Queues(w) /\ Ring(z) = Ring(w) /\ z.cpu.rob = w.cpu.rob
           /\ Answers(z) = Answers(w) /\ Turn(z) = Turn(w) /\ Timing(z) = Timing(w)
           /\ Kinds(w) => Kinds(z)
           /\ \A q \in Reqs : Sent(z, q) = Sent(w, q)
           /\ z.cpu.instrPausers = v /\ z.cpu.dataPausers = w.cpu.dataPausers
<1> DEFINE z == [w EXCEPT !.cpu.instrPausers = v]
<1>1. w \in Worlds /\ v \in Seq(Entries)
  <2>1. Used(w) \subseteq Entries
    BY DEF Used
  <2> QED
    BY <2>1, SeqMonotonic DEF Good
<1>2. /\ Queues(z) = Queues(w) /\ Ring(z) = Ring(w) /\ Buffer(z) = Buffer(w)
      /\ Answers(z) = Answers(w) /\ Turn(z) = Turn(w) /\ Clock(z) = Clock(w)
      /\ z.cpu.instrPausers = v /\ z.cpu.dataPausers = w.cpu.dataPausers
  BY <1>1, SetInstrPausers
<1>3. z \in Good /\ z \in Worlds /\ Stamps(z) = Stamps(w)
  BY UsedPausers DEF Follow, Good
<1> HIDE DEF z
<1>4. z.cpu.stalled = w.cpu.stalled /\ z.atCache.reads = w.atCache.reads /\ z.cpu.slots = w.cpu.slots
  BY <1>2 DEF Queues, Answers
<1>5. \A q \in Reqs : Sent(z, q) = Sent(w, q)
  BY <1>4 DEF Sent
<1>6. Kinds(w) => Kinds(z)
  BY <1>4 DEF Kinds
<1>7. Timing(z) = Timing(w)
  BY <1>2 DEF Timing, Clock, Answers
<1>8. z.cpu.rob = w.cpu.rob
  BY <1>2 DEF Buffer
<1> QED
  BY <1>2, <1>3, <1>5, <1>6, <1>7, <1>8 DEF z

LEMMA DataPausersDo ==
    ASSUME NEW w \in Good, NEW v \in Seq(Used(w))
    PROVE  LET z == [w EXCEPT !.cpu.dataPausers = v] IN
           /\ z \in Good /\ z \in Worlds /\ Stamps(z) = Stamps(w)
           /\ Queues(z) = Queues(w) /\ Ring(z) = Ring(w) /\ z.cpu.rob = w.cpu.rob
           /\ Answers(z) = Answers(w) /\ Turn(z) = Turn(w) /\ Timing(z) = Timing(w)
           /\ Kinds(w) => Kinds(z)
           /\ \A q \in Reqs : Sent(z, q) = Sent(w, q)
           /\ z.cpu.dataPausers = v /\ z.cpu.instrPausers = w.cpu.instrPausers
<1> DEFINE z == [w EXCEPT !.cpu.dataPausers = v]
<1>1. w \in Worlds /\ v \in Seq(Entries)
  <2>1. Used(w) \subseteq Entries
    BY DEF Used
  <2> QED
    BY <2>1, SeqMonotonic DEF Good
<1>2. /\ Queues(z) = Queues(w) /\ Ring(z) = Ring(w) /\ Buffer(z) = Buffer(w)
      /\ Answers(z) = Answers(w) /\ Turn(z) = Turn(w) /\ Clock(z) = Clock(w)
      /\ z.cpu.dataPausers = v /\ z.cpu.instrPausers = w.cpu.instrPausers
  BY <1>1, SetDataPausers
<1>3. z \in Good /\ z \in Worlds /\ Stamps(z) = Stamps(w)
  BY UsedPausers DEF Follow, Good
<1> HIDE DEF z
<1>4. z.cpu.stalled = w.cpu.stalled /\ z.atCache.reads = w.atCache.reads /\ z.cpu.slots = w.cpu.slots
  BY <1>2 DEF Queues, Answers
<1>5. \A q \in Reqs : Sent(z, q) = Sent(w, q)
  BY <1>4 DEF Sent
<1>6. Kinds(w) => Kinds(z)
  BY <1>4 DEF Kinds
<1>7. Timing(z) = Timing(w)
  BY <1>2 DEF Timing, Clock, Answers
<1>8. z.cpu.rob = w.cpu.rob
  BY <1>2 DEF Buffer
<1> QED
  BY <1>2, <1>3, <1>5, <1>6, <1>7, <1>8 DEF z

\* The pauser of a held access is put on its list.
LEMMA HeldPauses ==
    ASSUME NEW w \in Good, Kinds(w), NEW r \in Reqs, EntryOf(r) \in Used(w)
    PROVE  LET e == EntryOf(r)
               l == Listed(w, r)
               z == IF r.kind = "instr"
                    THEN [l EXCEPT !.cpu.rob[e].instrPause = @ \cup {r.i},
                                   !.cpu.instrPausers = Append(@, e)]
                    ELSE [l EXCEPT !.cpu.rob[e].dataPause = @ \cup {r.i},
                                   !.cpu.dataPausers = Append(@, e)]
           IN /\ z \in Good /\ Stamps(z) = Stamps(w) /\ Kinds(z) /\ Pauses(z, w, r)
              /\ Ring(z) = Ring(w) /\ Turn(z) = Turn(w) /\ Timing(z) = Timing(w)
<1> DEFINE e == EntryOf(r)
           l == Listed(w, r)
           t == w.cpu.rob[e]
           v == IF r.kind = "instr" THEN [t EXCEPT !.instrPause = @ \cup {r.i}]
                ELSE [t EXCEPT !.dataPause = @ \cup {r.i}]
           y == WithEntry(l, e, v)
           old == IF r.kind = "instr" THEN w.cpu.instrPausers ELSE w.cpu.dataPausers
           new == Append(old, e)
           z == IF r.kind = "instr" THEN [y EXCEPT !.cpu.instrPausers = new]
                ELSE [y EXCEPT !.cpu.dataPausers = new]
           s == IF r.kind = "instr"
                THEN [l EXCEPT !.cpu.rob[e].instrPause = @ \cup {r.i},
                               !.cpu.instrPausers = Append(@, e)]
                ELSE [l EXCEPT !.cpu.rob[e].dataPause = @ \cup {r.i},
                               !.cpu.dataPausers = Append(@, e)]
<1>1. /\ l \in Good /\ l \in Worlds /\ Stamps(l) = Stamps(w)
      /\ Queues(l) = Queues(w) /\ Lists(l) = Lists(w) /\ Ring(l) = Ring(w) /\ l.cpu.rob = w.cpu.rob
      /\ Answers(l) = Answers(w) /\ Turn(l) = Turn(w) /\ Timing(l) = Timing(w)
      /\ Kinds(l) /\ \A q \in Reqs : Sent(l, q) = Sent(w, q)
  BY ListedDoes DEF Buffer
<1>2. s = z
  <2>1. l.cpu.rob[e] = t /\ l.cpu.instrPausers = w.cpu.instrPausers
        /\ l.cpu.dataPausers = w.cpu.dataPausers
    BY <1>1 DEF Lists
  <2> HIDE DEF l, e, t
  <2>2. CASE r.kind = "instr"
    <3>1. v = [l.cpu.rob[e] EXCEPT !.instrPause = @ \cup {r.i}]
      BY <2>1, <2>2
    <3>2. old = l.cpu.instrPausers
      BY <2>1, <2>2
    <3> HIDE DEF v, old
    <3> QED
      BY <2>2, <3>1, <3>2 DEF WithEntry
  <2>3. CASE r.kind # "instr"
    <3>1. v = [l.cpu.rob[e] EXCEPT !.dataPause = @ \cup {r.i}]
      BY <2>1, <2>3
    <3>2. old = l.cpu.dataPausers
      BY <2>1, <2>3
    <3> HIDE DEF v, old
    <3> QED
      BY <2>3, <3>1, <3>2 DEF WithEntry
  <2> QED
    BY <2>2, <2>3
<1> HIDE DEF l, s
<1>3. e \in Entries /\ t \in RobEntries /\ r.i \in Nat /\ w \in Worlds
  BY RequestIs, CoreIs DEF Good
<1>4. /\ v \in RobEntries /\ v.g = t.g /\ v.state = t.state /\ v.instrLeft = t.instrLeft
      /\ v.dataLeft = t.dataLeft
      /\ v.instrPause = IF r.kind = "instr" THEN t.instrPause \cup {r.i} ELSE t.instrPause
      /\ v.dataPause = IF r.kind = "instr" THEN t.dataPause ELSE t.dataPause \cup {r.i}
  BY <1>3 DEF RobEntries
<1> HIDE DEF v
<1>5. v \in RobEntries /\ v.g = l.cpu.rob[e].g
  BY <1>1, <1>4
<1>6. /\ y \in Good /\ y \in Worlds /\ Stamps(y) = Stamps(l)
      /\ Queues(y) = Queues(l) /\ Lists(y) = Lists(l) /\ Ring(y) = Ring(l)
      /\ Answers(y) = Answers(l) /\ Turn(y) = Turn(l) /\ Timing(y) = Timing(l)
      /\ y.cpu.rob[e] = v /\ \A d \in Entries \ {e} : y.cpu.rob[d] = l.cpu.rob[d]
      /\ Kinds(y) /\ \A q \in Reqs : Sent(y, q) = Sent(l, q)
  BY <1>1, <1>3, <1>5, EntryDoes
<1> HIDE DEF y
<1>7. /\ y.cpu.instrPausers = w.cpu.instrPausers /\ y.cpu.dataPausers = w.cpu.dataPausers
      /\ Used(y) = Used(w) /\ y.cpu.instrPausers \in Seq(Used(y)) /\ y.cpu.dataPausers \in Seq(Used(y))
  BY <1>1, <1>6, StampIs DEF Lists, Good, Placed
<1>8. old \in Seq(Used(y)) /\ new \in Seq(Used(y)) /\ Range(new) = Range(old) \cup {e}
  <2>1. old \in Seq(Used(y)) /\ e \in Used(y)
    BY <1>7
  <2> HIDE DEF old, e
  <2> QED
    BY <2>1, AppendedIs
<1> HIDE DEF new
<1>10. /\ z \in Good /\ z \in Worlds /\ Stamps(z) = Stamps(y)
       /\ Queues(z) = Queues(y) /\ Ring(z) = Ring(y) /\ z.cpu.rob = y.cpu.rob
       /\ Answers(z) = Answers(y) /\ Turn(z) = Turn(y) /\ Timing(z) = Timing(y)
       /\ Kinds(z) /\ \A q \in Reqs : Sent(z, q) = Sent(y, q)
       /\ r.kind = "instr" => z.cpu.instrPausers = new /\ z.cpu.dataPausers = y.cpu.dataPausers
       /\ r.kind # "instr" => z.cpu.dataPausers = new /\ z.cpu.instrPausers = y.cpu.instrPausers
  <2>1. CASE r.kind = "instr"
    <3>1. z = [y EXCEPT !.cpu.instrPausers = new]
      BY <2>1
    <3> HIDE DEF z
    <3> QED
      BY <1>6, <1>8, <2>1, <3>1, InstrPausersDo
  <2>2. CASE r.kind # "instr"
    <3>1. z = [y EXCEPT !.cpu.dataPausers = new]
      BY <2>2
    <3> HIDE DEF z
    <3> QED
      BY <1>6, <1>8, <2>2, <3>1, DataPausersDo
  <2> QED
    BY <2>1, <2>2
<1> HIDE DEF z
<1>11. z.cpu.lsq = w.cpu.lsq /\ \A q \in Reqs : Sent(z, q) = Sent(w, q)
  BY <1>1, <1>6, <1>10 DEF Answers
<1>12. /\ \A d \in Entries \ {e} : z.cpu.rob[d] = w.cpu.rob[d]
       /\ z.cpu.rob[e] = v
  BY <1>1, <1>6, <1>10
<1>13. Pauses(z, w, r)
  <2>1. Tally(z, e) = Tally(w, e)
    BY <1>4, <1>12 DEF Tally
  <2>2. CASE r.kind = "instr"
    BY <1>4, <1>7, <1>8, <1>10, <1>11, <1>12, <2>1, <2>2 DEF Pauses
  <2>3. CASE r.kind # "instr"
    BY <1>4, <1>7, <1>8, <1>10, <1>11, <1>12, <2>1, <2>3 DEF Pauses
  <2> QED
    BY <2>2, <2>3
<1>14. /\ z \in Good /\ Stamps(z) = Stamps(w) /\ Kinds(z)
       /\ Ring(z) = Ring(w) /\ Turn(z) = Turn(w) /\ Timing(z) = Timing(w)
  BY <1>1, <1>6, <1>10
<1> QED
  BY <1>2, <1>13, <1>14 DEF s, l

LEMMA IssueDataFine ==
    ASSUME NEW w, NEW X, NEW Y, NEW B, NEW E, NEW Zi, NEW Zd,
           Fine(w, X, Y, B, E, Zi, Zd), Pending(w, Reqs),
           NEW r \in Reqs, r.kind = "data", r \in X, EntryOf(r) \in B
    PROVE  LET z == IssueData(w, r) IN
           /\ Fine(z, X \ {r}, Y, B, E, Zi, Zd) /\ Pending(z, Reqs) /\ z \in Follow(w)
           /\ z.cpu.rob[EntryOf(r)].state = w.cpu.rob[EntryOf(r)].state
<1>1. w \in Good /\ Kinds(w) /\ Placing(w, X, Y)
  BY DEF Fine, Sound, Loads
<1>2. EntryOf(r) \in Used(w) /\ ~Paused(w, r)
  <2>1. EntryOf(r) \in Used(w) /\ One(r \in X) + One(Paused(w, r)) = 1
    BY <1>1, ToPass DEF Passable
  <2> QED
    BY <2>1 DEF One
<1>3. CASE ~IsHeld(r)
  <2>1. IssueData(w, r) = PassData(w, r)
    BY <1>3 DEF IssueData
  <2>2. Passable(w, X, r) /\ Unlisted(w, Reqs, r)
    BY <1>2 DEF Passable, Unlisted
  <2>3. Fine(PassData(w, r), X \ {r}, Y, B, E, Zi, Zd) /\ Pending(PassData(w, r), Reqs)
        /\ PassData(w, r) \in Follow(w)
        /\ PassData(w, r).cpu.rob[EntryOf(r)].state = w.cpu.rob[EntryOf(r)].state
    <3> DEFINE p == PassData(w, r)
    <3>1. LET z == p IN
          /\ Fine(z, X \ {r}, Y, B, E, Zi, Zd) /\ Pending(z, Reqs) /\ z \in Follow(w)
          /\ z.cpu.rob[EntryOf(r)].dataPause = w.cpu.rob[EntryOf(r)].dataPause \ {r.i}
          /\ z.cpu.rob[EntryOf(r)].state = w.cpu.rob[EntryOf(r)].state
      BY <1>3, <2>2, PassDataFine
    <3> HIDE DEF p
    <3>2. Fine(p, X \ {r}, Y, B, E, Zi, Zd) /\ Pending(p, Reqs) /\ p \in Follow(w)
          /\ p.cpu.rob[EntryOf(r)].state = w.cpu.rob[EntryOf(r)].state
      BY <3>1
    <3> QED
      BY <3>2 DEF p
  <2> QED
    BY <2>1, <2>3
<1>4. CASE IsHeld(r)
  <2> DEFINE z == IssueData(w, r)
  <2>1. z \in Follow(w)
    BY <1>1, <1>2, IssueDataFollows
  <2>2. z = [Listed(w, r) EXCEPT !.cpu.rob[EntryOf(r)].dataPause = @ \cup {r.i},
                                 !.cpu.dataPausers = Append(@, EntryOf(r))]
    BY <1>4 DEF IssueData
  <2>3. /\ z \in Good /\ Stamps(z) = Stamps(w) /\ Kinds(z) /\ Pauses(z, w, r)
        /\ Ring(z) = Ring(w) /\ Turn(z) = Turn(w) /\ Timing(z) = Timing(w)
    <3> HIDE DEF z
    <3> QED
      BY <1>1, <1>2, <2>2, HeldPauses
  <2> HIDE DEF z
  <2>4. Fine(z, X \ {r}, Y, B, E, Zi, Zd) /\ Pending(z, Reqs)
    BY <1>4, <2>3, PauseFine
  <2>5. z.cpu.rob[EntryOf(r)].state = w.cpu.rob[EntryOf(r)].state
    BY <2>3 DEF Pauses, Tally
  <2> QED
    BY <2>1, <2>4, <2>5 DEF z
<1> QED
  BY <1>3, <1>4

LEMMA FetchInstrFine ==
    ASSUME NEW w, NEW X, NEW Y, NEW B, NEW E, NEW Zi, NEW Zd,
           Fine(w, X, Y, B, E, Zi, Zd), Pending(w, Reqs),
           NEW r \in Reqs, r.kind = "instr", r \in X
    PROVE  LET z == FetchInstr(w, r) IN
           /\ Fine(z, X \ {r}, Y, B, E, Zi, Zd) /\ Pending(z, Reqs) /\ z \in Follow(w)
           /\ Ring(z) = Ring(w)
<1>1. w \in Good /\ Kinds(w) /\ Placing(w, X, Y)
  BY DEF Fine, Sound, Loads
<1>2. EntryOf(r) \in Used(w) /\ Passable(w, X, r)
  BY <1>1, ToPass DEF Passable
<1>3. CASE ~IsHeld(r)
  <2>1. FetchInstr(w, r) = PassInstr(w, r)
    BY <1>3 DEF FetchInstr
  <2>2. Fine(PassInstr(w, r), X \ {r}, Y, B, E, Zi, Zd) /\ Pending(PassInstr(w, r), Reqs)
        /\ PassInstr(w, r) \in Follow(w) /\ Ring(PassInstr(w, r)) = Ring(w)
    <3> DEFINE p == PassInstr(w, r)
    <3>1. LET z == p IN
          /\ Fine(z, X \ {r}, Y, B, E, Zi, Zd) /\ Pending(z, Reqs) /\ z \in Follow(w)
          /\ Ring(z) = Ring(w)
          /\ \A e \in Used(w) : z.cpu.rob[e].instrPause \subseteq w.cpu.rob[e].instrPause
      BY <1>2, <1>3, PassInstrFine
    <3> HIDE DEF p
    <3> QED
      BY <3>1 DEF p
  <2> QED
    BY <2>1, <2>2
<1>4. CASE IsHeld(r)
  <2> DEFINE z == FetchInstr(w, r)
  <2>1. z \in Follow(w)
    BY <1>1, <1>2, FetchInstrFollows
  <2>2. z = [Listed(w, r) EXCEPT !.cpu.rob[EntryOf(r)].instrPause = @ \cup {r.i},
                                 !.cpu.instrPausers = Append(@, EntryOf(r))]
    BY <1>4 DEF FetchInstr
  <2>3. /\ z \in Good /\ Stamps(z) = Stamps(w) /\ Kinds(z) /\ Pauses(z, w, r)
        /\ Ring(z) = Ring(w) /\ Turn(z) = Turn(w) /\ Timing(z) = Timing(w)
    <3> HIDE DEF z
    <3> QED
      BY <1>1, <1>2, <2>2, HeldPauses
  <2> HIDE DEF z
  <2>4. Fine(z, X \ {r}, Y, B, E, Zi, Zd) /\ Pending(z, Reqs)
    BY <1>4, <2>3, PauseFine
  <2> QED
    BY <2>1, <2>3, <2>4 DEF z
<1> QED
  BY <1>3, <1>4

\* Listing the core changes nothing of this.
LEMMA ListedFine ==
    ASSUME NEW w, NEW X, NEW Y, NEW B, NEW E, NEW Zi, NEW Zd, NEW H,
           Fine(w, X, Y, B, E, Zi, Zd), Pending(w, H), NEW r \in Reqs
    PROVE  LET z == Listed(w, r) IN
           Fine(z, X, Y, B, E, Zi, Zd) /\ Pending(z, H) /\ z \in Follow(w) /\ z.cpu.rob = w.cpu.rob
<1> DEFINE z == Listed(w, r)
<1>1. w \in Good /\ Kinds(w) /\ Loads(w, X, Y, B) /\ Placing(w, X, Y)
  BY DEF Fine, Sound, Loads
<1>2. /\ z \in Good /\ z \in Worlds /\ Stamps(z) = Stamps(w)
      /\ Lists(z) = Lists(w) /\ Ring(z) = Ring(w) /\ z.cpu.rob = w.cpu.rob
      /\ Turn(z) = Turn(w) /\ Timing(z) = Timing(w) /\ z.cpu.lsq = w.cpu.lsq
      /\ Kinds(z) /\ \A q \in Reqs : Sent(z, q) = Sent(w, q)
  BY <1>1, ListedDoes DEF Buffer, Answers
<1> HIDE DEF z
<1>3. SameLoads(z, X, Y, w, X, Y, Reqs)
  BY <1>2 DEF SameLoads, Load, Paused
<1>4. SameTallies(z, w, Used(w)) /\ Awaited(z, Y)
  BY <1>1, <1>2 DEF SameTallies, Tally, Awaited, Placing
<1>5. Loads(z, X, Y, B)
  BY <1>1, <1>2, <1>3, <1>4, LoadsKept
<1>6. Fine(z, X, Y, B, E, Zi, Zd)
  BY <1>2, <1>5, FineKept
<1>7. Pending(z, H)
  BY <1>1, <1>2, PendingKept DEF Lists
<1> QED
  BY <1>1, <1>2, <1>6, <1>7 DEF z, Follow

LEMMA RetryInstrFine ==
    ASSUME NEW w, NEW B, NEW E, NEW Zi, NEW Zd, NEW H,
           Fine(w, {}, {}, B, E, Zi, Zd), Pending(w, H),
           NEW r \in Reqs, r.kind = "instr", w.cpu.rob[EntryOf(r)].g = r.g
    PROVE  LET z == RetryInstr(w, r) IN
           Fine(z, {}, {}, B, E, Zi, Zd) /\ Pending(z, H) /\ z \in Follow(w)
<1>1. w \in Good
  BY DEF Fine, Sound
<1>2. CASE r.i \notin w.cpu.rob[EntryOf(r)].instrPause
  BY <1>1, <1>2 DEF RetryInstr, Follow
<1>3. CASE r.i \in w.cpu.rob[EntryOf(r)].instrPause /\ IsHeld(r)
  BY <1>3, ListedFine DEF RetryInstr
<1>4. CASE r.i \in w.cpu.rob[EntryOf(r)].instrPause /\ ~IsHeld(r)
  <2>1. RetryInstr(w, r) = PassInstr(w, r) /\ Passable(w, {}, r) /\ {} \ {r} = {}
    BY <1>4 DEF RetryInstr, Paused, Passable
  <2>2. Fine(PassInstr(w, r), {} \ {r}, {}, B, E, Zi, Zd) /\ Pending(PassInstr(w, r), H)
        /\ PassInstr(w, r) \in Follow(w)
    <3> DEFINE p == PassInstr(w, r)
               O == {}
    <3>1. Passable(w, O, r) /\ Fine(w, O, {}, B, E, Zi, Zd)
      BY <2>1
    <3> HIDE DEF O
    <3>2. LET z == p IN
          /\ Fine(z, O \ {r}, {}, B, E, Zi, Zd) /\ Pending(z, H) /\ z \in Follow(w)
          /\ Ring(z) = Ring(w)
          /\ \A e \in Used(w) : z.cpu.rob[e].instrPause \subseteq w.cpu.rob[e].instrPause
      BY <1>4, <3>1, PassInstrFine
    <3> HIDE DEF p
    <3> QED
      BY <3>2 DEF p, O
  <2> QED
    BY <2>1, <2>2
<1> QED
  BY <1>2, <1>3, <1>4

\* What is still paused is held.
LEMMA RetryDataFine ==
    ASSUME NEW w, NEW B, NEW E, NEW Zi, NEW Zd,
           Fine(w, {}, {}, B, E, Zi, Zd), Pending(w, HeldReqs),
           NEW r \in Reqs, r.kind = "data", w.cpu.rob[EntryOf(r)].g = r.g, EntryOf(r) \in B
    PROVE  LET z == RetryData(w, r) IN
           /\ Fine(z, {}, {}, B, E, Zi, Zd) /\ Pending(z, HeldReqs) /\ z \in Follow(w)
           /\ z.cpu.rob[EntryOf(r)].dataPause \subseteq w.cpu.rob[EntryOf(r)].dataPause
           /\ r.i \in z.cpu.rob[EntryOf(r)].dataPause => IsHeld(r)
<1>1. w \in Good
  BY DEF Fine, Sound
<1>2. CASE r.i \notin w.cpu.rob[EntryOf(r)].dataPause
  BY <1>1, <1>2 DEF RetryData, Follow
<1>3. CASE r.i \in w.cpu.rob[EntryOf(r)].dataPause /\ IsHeld(r)
  BY <1>3, ListedFine DEF RetryData
<1>4. CASE r.i \in w.cpu.rob[EntryOf(r)].dataPause /\ ~IsHeld(r)
  <2>1. /\ RetryData(w, r) = PassData(w, r) /\ {} \ {r} = {}
        /\ Passable(w, {}, r) /\ Unlisted(w, HeldReqs, r)
    BY <1>4 DEF RetryData, Paused, Passable, Unlisted, HeldReqs
  <2>2. /\ Fine(PassData(w, r), {} \ {r}, {}, B, E, Zi, Zd) /\ Pending(PassData(w, r), HeldReqs)
        /\ PassData(w, r) \in Follow(w)
        /\ PassData(w, r).cpu.rob[EntryOf(r)].dataPause = w.cpu.rob[EntryOf(r)].dataPause \ {r.i}
    BY <1>4, <2>1, PassDataFine
  <2> QED
    BY <2>1, <2>2
<1> QED
  BY <1>2, <1>3, <1>4

-----------------------------------------------------------------------------
(* Unstalling *)

SameSent(z, w) == \A q \in Reqs : Sent(z, q) = Sent(w, q)

\* What a step leaves as it is that only moves requests, whatever its slots are.
Calm(z, w) ==
    /\ Buffer(z) = Buffer(w) /\ Lists(z) = Lists(w) /\ Ring(z) = Ring(w) /\ Turn(z) = Turn(w)
    /\ Timing(z) = Timing(w) /\ z.cpu.lsq = w.cpu.lsq

LEMMA CalmFine ==
    ASSUME NEW w, NEW z \in Good, NEW X, NEW Y, NEW X1, NEW Y1, NEW B, NEW E, NEW Zi, NEW Zd, NEW H,
           Fine(w, X, Y, B, E, Zi, Zd), Pending(w, H), Calm(z, w), Kinds(z),
           SameLoads(z, X1, Y1, w, X, Y, Reqs), Awaited(z, Y1)
    PROVE  Fine(z, X1, Y1, B, E, Zi, Zd) /\ Pending(z, H)
<1>1. w \in Good /\ Loads(w, X, Y, B)
  BY DEF Fine, Sound
<1>2. /\ Stamps(z) = Stamps(w) /\ Lists(z) = Lists(w) /\ Ring(z) = Ring(w) /\ z.cpu.rob = w.cpu.rob
      /\ Turn(z) = Turn(w) /\ Timing(z) = Timing(w)
  BY SameStamps DEF Calm, Buffer
<1>3. SameTallies(z, w, Used(w))
  BY <1>2 DEF SameTallies, Tally
<1>4. Loads(z, X1, Y1, B)
  BY <1>1, <1>2, <1>3, LoadsKept
<1>5. Fine(z, X1, Y1, B, E, Zi, Zd)
  BY <1>2, <1>4, FineKept
<1>6. Pending(z, H)
  BY <1>1, <1>2, PendingKept DEF Lists
<1> QED
  BY <1>5, <1>6

LEMMA SentFine ==
    ASSUME NEW w, NEW z \in Good, NEW X, NEW Y, NEW B, NEW E, NEW Zi, NEW Zd, NEW H,
           Fine(w, X, Y, B, E, Zi, Zd), Pending(w, H), Calm(z, w), Kinds(z), SameSent(z, w)
    PROVE  Fine(z, X, Y, B, E, Zi, Zd) /\ Pending(z, H)
<1>1. w \in Good /\ Placing(w, X, Y) /\ z.cpu.lsq = w.cpu.lsq /\ z.cpu.rob = w.cpu.rob
  BY DEF Fine, Sound, Loads, Calm, Buffer
<1>2. SameLoads(z, X, Y, w, X, Y, Reqs)
  BY <1>1 DEF SameLoads, Load, Paused, SameSent
<1>3. Awaited(z, Y)
  BY <1>1 DEF Awaited, Placing, SameSent
<1> QED
  BY <1>2, <1>3, CalmFine

\* A drain that still waits for a request counts it off.
LEMMA DrainedDoes ==
    ASSUME NEW u \in Worlds, NEW r \in Reqs,
           PageOf(r) \in DOMAIN u.cpu.drains => u.cpu.drains[PageOf(r)] > 0
    PROVE  LET z == Drained(u, r) IN
           Aside(z, u) /\ z.cpu.stalled = u.cpu.stalled /\ z.atCache = u.atCache
<1> DEFINE p == PageOf(r)
           d == u.cpu.drains
           v == [d EXCEPT ![p] = @ - 1]
           a == [u EXCEPT !.cpu.drains = v]
           m == [a.cpu.next EXCEPT !.drain = IF d[p] = 1 THEN @ + 1 ELSE @]
           z == [a EXCEPT !.cpu.next = m]
<1>1. CASE p \notin DOMAIN d
  <2>1. Drained(u, r) = u
    BY <1>1 DEF Drained
  <2> QED
    BY <2>1 DEF Aside
<1>2. CASE p \in DOMAIN d
  <2>1. d \in Drains
    BY CoreIs
  <2>2. DOMAIN d \in SUBSET Pages /\ d \in [DOMAIN d -> Int]
    BY <2>1 DEF Drains
  <2>3. v \in [DOMAIN d -> Int] /\ DOMAIN v = DOMAIN d
    <3> HIDE DEF p, d
    <3> QED
      BY <1>2, <2>2
  <2>4. v \in Drains
    BY <2>2, <2>3 DEF Drains
  <2>5. /\ a \in Worlds /\ Lists(a) = Lists(u) /\ Ring(a) = Ring(u) /\ Buffer(a) = Buffer(u)
        /\ Answers(a) = Answers(u) /\ Turn(a) = Turn(u) /\ Clock(a) = Clock(u)
        /\ a.cpu.stalled = u.cpu.stalled
    <3> HIDE DEF v
    <3> QED
      BY <2>4, SetDrains
  <2>6. m \in Counts /\ m.process = a.cpu.next.process
    <3>1. a.cpu.next \in Counts
      BY <2>5, CoreIs
    <3> QED
      BY <3>1 DEF Counts
  <2>7. /\ Lists(z) = Lists(a) /\ Ring(z) = Ring(a) /\ Buffer(z) = Buffer(a)
        /\ Answers(z) = Answers(a) /\ Turn(z) = Turn(a) /\ z.cpu.stalled = a.cpu.stalled
        /\ z.cpu.next = m /\ z.cpu.now = a.cpu.now
    <3> HIDE DEF a, m
    <3> QED
      BY <2>5, <2>6, SetNext
  <2>8. Drained(u, r) = z
    <3>1. d[p] > 0
      BY <1>2
    <3>2. Drained(u, r) = Fail(z, "drain", u.cpu.drains[PageOf(r)] > 0)
      BY <1>2 DEF Drained
    <3> HIDE DEF z
    <3> QED
      BY <3>1, <3>2 DEF Fail
  <2> HIDE DEF a, z, m
  <2>9. Timing(z) = Timing(u)
    BY <2>5, <2>6, <2>7 DEF Timing, Clock, Answers
  <2> QED
    BY <2>5, <2>7, <2>8, <2>9 DEF Aside, Answers
<1> QED
  BY <1>1, <1>2

\* The first stalled request has gone to its cache.
LEMMA TakenSent ==
    ASSUME NEW w \in Worlds, Kinds(w), NEW r \in Reqs, Sent(w, r) <= 1,
           w.cpu.stalled[r.kind] # <<>>, Head(w.cpu.stalled[r.kind]) = r,
           NEW z, z.cpu.slots = w.cpu.slots,
           z.cpu.stalled = [w.cpu.stalled EXCEPT ![r.kind] = Tail(@)],
           z.atCache.reads = IF IsRead(r) THEN w.atCache.reads \cup {r} ELSE w.atCache.reads
    PROVE  Kinds(z) /\ SameSent(z, w)
<1> DEFINE k == r.kind
           l == w.cpu.stalled[k]
<1>1. k \in CacheNames /\ l \in Seq(Reqs) /\ l # <<>> /\ Head(l) = r /\ w.cpu.stalled \in [CacheNames -> Seq(Reqs)]
  BY RequestIs, CoreIs
<1>2. /\ z.cpu.stalled[k] = Tail(l) /\ Tail(l) \in Seq(Reqs)
      /\ \A j \in CacheNames \ {k} : z.cpu.stalled[j] = w.cpu.stalled[j]
      /\ \A q : Times(l, q) = Times(Tail(l), q) + IF r = q THEN 1 ELSE 0
  BY <1>1, TimesTail
<1>3. Kinds(z)
  <2>1. ASSUME NEW j \in CacheNames, NEW n \in DOMAIN z.cpu.stalled[j]
        PROVE  z.cpu.stalled[j][n].kind = j
    <3>1. \A m \in DOMAIN w.cpu.stalled[j] : w.cpu.stalled[j][m].kind = j
      BY DEF Kinds
    <3>2. CASE j # k
      BY <1>2, <3>1, <3>2
    <3>3. CASE j = k
      <4>1. n \in 1 .. Len(l) - 1 /\ Len(l) \in Nat /\ Tail(l)[n] = l[n + 1]
        BY <1>1, <1>2, <3>3, HeadTailProperties, LenProperties
      <4>2. n + 1 \in DOMAIN l
        BY <1>1, <4>1, LenProperties
      <4> QED
        BY <1>2, <3>1, <3>3, <4>1, <4>2
    <3> QED
      BY <3>2, <3>3
  <2>2. \A q \in z.atCache.reads : IsRead(q)
    BY DEF Kinds
  <2> QED
    BY <2>1, <2>2, KindsMoved
<1>4. ASSUME NEW q \in Reqs PROVE Sent(z, q) = Sent(w, q)
  <2>1. /\ Times(w.cpu.stalled[q.kind], q) \in Nat /\ One(q \in w.atCache.reads) \in {0, 1}
        /\ Times(w.cpu.slots[0][q.kind], q) \in Nat /\ Times(w.cpu.slots[1][q.kind], q) \in Nat
        /\ q.kind \in CacheNames
    BY SentIs, RequestIs
  <2>2. CASE ~IsRead(q)
    BY <2>2 DEF Sent
  <2>3. CASE IsRead(q) /\ q # r
    <3>1. Times(z.cpu.stalled[q.kind], q) = Times(w.cpu.stalled[q.kind], q)
      <4>1. CASE q.kind = k
        <5>1. Times(l, q) = Times(Tail(l), q) + 0 /\ Times(Tail(l), q) \in Nat
          BY <1>2, <2>3, TimesIs
        <5> QED
          BY <1>2, <4>1, <5>1
      <4>2. CASE q.kind # k
        BY <1>2, <2>1, <4>2
      <4> QED
        BY <4>1, <4>2
    <3>2. One(q \in z.atCache.reads) = One(q \in w.atCache.reads)
      BY <2>3 DEF One
    <3> QED
      BY <3>1, <3>2 DEF Sent
  <2>4. CASE IsRead(q) /\ q = r
    <3>1. Times(l, r) = Times(Tail(l), r) + 1 /\ Times(Tail(l), r) \in Nat
      BY <1>2, TimesIs
    <3>2. Sent(w, r) = Times(l, r) + One(r \in w.atCache.reads)
                       + Times(w.cpu.slots[0][k], r) + Times(w.cpu.slots[1][k], r)
      BY <2>4 DEF Sent
    <3>3. One(r \in w.atCache.reads) = 0
      BY <2>1, <2>4, <3>1, <3>2
    <3>4. One(r \in z.atCache.reads) = 1
      BY <2>4 DEF One
    <3>5. Sent(z, r) = Times(Tail(l), r) + 1
                       + Times(w.cpu.slots[0][k], r) + Times(w.cpu.slots[1][k], r)
      BY <1>2, <2>4, <3>4 DEF Sent
    <3> DEFINE x == Times(Tail(l), r)
               a == Times(w.cpu.slots[0][k], r)
               b == Times(w.cpu.slots[1][k], r)
    <3>6. x \in Nat /\ a \in Nat /\ b \in Nat
      BY <1>2, <2>1, <2>4, <3>1
    <3>7. Sent(w, r) = (x + 1) + 0 + a + b /\ Sent(z, r) = x + 1 + a + b
      BY <3>1, <3>2, <3>3, <3>5
    <3> HIDE DEF x, a, b
    <3> QED
      BY <2>4, <3>6, <3>7
  <2> QED
    BY <2>2, <2>3, <2>4
<1> QED
  BY <1>3, <1>4 DEF SameSent

LEMMA UnstallOneFine ==
    ASSUME NEW w, NEW X, NEW Y, NEW B, NEW E, NEW Zi, NEW Zd, NEW H,
           Fine(w, X, Y, B, E, Zi, Zd), Pending(w, H), NEW r \in Reqs
    PROVE  LET z == UnstallOne(w, r) IN Fine(z, X, Y, B, E, Zi, Zd) /\ Pending(z, H)
<1> DEFINE k == r.kind
           t == Take(w, r)
           v == Tail(w.cpu.stalled[k])
           u == [t EXCEPT !.cpu.stalled[k] = v]
           z == UnstallOne(w, r)
<1>1. w \in Good /\ w \in Worlds /\ k \in CacheNames /\ w.cpu.stalled[k] \in Seq(Reqs) /\ Kinds(w)
  BY RequestIs, CoreIs DEF Good, Fine, Sound
<1>2. z \in Good
  BY <1>1, UnstallOneFollows DEF Follow
<1>3. /\ t \in Worlds /\ Aside(t, w) /\ t.cpu.stalled = w.cpu.stalled
      /\ t.atCache.reads = IF w.cpu.quota[k] # 0 /\ IsRead(r) THEN w.atCache.reads \cup {r}
                           ELSE w.atCache.reads
      /\ t.cpu.drains = w.cpu.drains
  BY <1>1, TakeDoes, TakeKeeps DEF Queues
<1>4. CASE w.cpu.stalled[k] = <<>> \/ Head(w.cpu.stalled[k]) # r
  BY <1>4 DEF UnstallOne
<1>5. CASE w.cpu.quota[k] = 0 /\ ~(w.cpu.stalled[k] = <<>> \/ Head(w.cpu.stalled[k]) # r)
  <2>1. z = t
    BY <1>5 DEF UnstallOne
  <2> HIDE DEF z, t
  <2>2. z.cpu.slots = w.cpu.slots /\ z.cpu.stalled = w.cpu.stalled /\ z.atCache.reads = w.atCache.reads
    BY <1>3, <1>5, <2>1 DEF Aside
  <2>3. Kinds(z) /\ SameSent(z, w)
    BY <1>1, <2>2 DEF Kinds, SameSent, Sent
  <2>4. Fine(z, X, Y, B, E, Zi, Zd) /\ Pending(z, H)
    <3>1. Calm(z, w)
      BY <1>3, <2>1 DEF Aside, Calm
    <3> QED
      BY <1>2, <2>3, <3>1, SentFine
  <2> QED
    BY <2>4 DEF z
<1>6. CASE w.cpu.quota[k] # 0 /\ ~(w.cpu.stalled[k] = <<>> \/ Head(w.cpu.stalled[k]) # r)
  <2>1. z = Drained(u, r) /\ v \in Seq(Reqs)
    <3>1. v = Tail(t.cpu.stalled[k])
      BY <1>3
    <3>2. u = [t EXCEPT !.cpu.stalled[k] = Tail(@)]
      <4> HIDE DEF t, v
      <4> QED
        BY <3>1
    <3>3. v \in Seq(Reqs)
      BY <1>1, <1>6, HeadTailProperties
    <3> HIDE DEF u, v
    <3> QED
      BY <1>6, <3>2, <3>3 DEF UnstallOne
  <2>2. /\ u \in Worlds /\ Aside(u, w) /\ u.atCache.reads = t.atCache.reads
        /\ u.cpu.stalled = [w.cpu.stalled EXCEPT ![k] = v] /\ u.cpu.drains = w.cpu.drains
    <3> HIDE DEF u, v, t
    <3>1. u = WithStalled(t, k, v)
      BY DEF u, WithStalled
    <3>2. /\ u \in Worlds
          /\ Lists(u) = Lists(t) /\ Ring(u) = Ring(t) /\ Buffer(u) = Buffer(t)
          /\ Answers(u) = Answers(t) /\ Turn(u) = Turn(t) /\ Clock(u) = Clock(t)
          /\ u.cpu.stalled = [t.cpu.stalled EXCEPT ![k] = v] /\ u.cpu.drains = t.cpu.drains
      BY <1>1, <1>3, <2>1, <3>1, SetStalled
    <3>3. Aside(u, t)
      BY <3>2 DEF Aside, Timing, Clock, Answers
    <3> QED
      BY <1>3, <3>2, <3>3, AsideTwice DEF Answers
  <2>3. PageOf(r) \in DOMAIN w.cpu.drains => w.cpu.drains[PageOf(r)] > 0
    <3>1. r = w.cpu.stalled[k][1] /\ 1 \in DOMAIN w.cpu.stalled[k]
      BY <1>1, <1>6, HeadTailProperties, LenProperties, EmptySeq
    <3>2. Left(w, PageOf(r)) \in Nat /\ Left(w, PageOf(r)) # 0
      BY <1>1, <3>1, LeftIs
    <3>3. PageQuiet(w, PageOf(r))
      BY <1>1, RequestIs DEF Good
    <3> QED
      BY <3>2, <3>3 DEF PageQuiet
  <2> HIDE DEF u, z, t
  <2>4. Aside(z, u) /\ z.cpu.stalled = u.cpu.stalled /\ z.atCache = u.atCache
    BY <2>1, <2>2, <2>3, DrainedDoes
  <2>5. Aside(z, w)
    BY <2>2, <2>4, AsideTwice
  <2>6. /\ z.cpu.slots = w.cpu.slots /\ z.cpu.stalled = [w.cpu.stalled EXCEPT ![k] = Tail(@)]
        /\ z.atCache.reads = IF IsRead(r) THEN w.atCache.reads \cup {r} ELSE w.atCache.reads
    <3>1. z.cpu.stalled = [w.cpu.stalled EXCEPT ![k] = v]
      BY <2>2, <2>4
    <3> QED
      BY <1>3, <1>6, <2>2, <2>4, <2>5, <3>1 DEF Aside
  <2>7. Sent(w, r) <= 1
    <3>1. Load(w, X, Y, r) = Sent(w, r) + One(r \in X) + One(r \in Y) + One(Paused(w, r))
          /\ Sent(w, r) \in Nat
      BY <1>1, LoadIs
    <3>2. Load(w, X, Y, r) \in {0, 1}
      BY DEF Fine, Loads, Placing
    <3> QED
      BY <3>1, <3>2 DEF One
  <2>8. Kinds(z) /\ SameSent(z, w)
    BY <1>1, <1>6, <2>6, <2>7, TakenSent
  <2>9. Fine(z, X, Y, B, E, Zi, Zd) /\ Pending(z, H)
    <3>1. Calm(z, w)
      BY <2>5 DEF Aside, Calm
    <3> QED
      BY <1>2, <2>8, <3>1, SentFine
  <2> QED
    BY <2>9 DEF z
<1> QED
  BY <1>4, <1>5, <1>6

\* A slot is set.
LEMMA SlotDoes ==
    ASSUME NEW w \in Good, NEW n \in {0, 1}, NEW v \in Slots
    PROVE  LET z == WithSlot(w, n, v) IN
           /\ z \in Good /\ z \in Worlds
           /\ Queues(z) = Queues(w) /\ Lists(z) = Lists(w) /\ Ring(z) = Ring(w)
           /\ Buffer(z) = Buffer(w) /\ Turn(z) = Turn(w) /\ Clock(z) = Clock(w)
           /\ z.cpu.lsq = w.cpu.lsq /\ z.atCache = w.atCache
           /\ z.cpu.slots[n] = v /\ \A m \in {0, 1} : m # n => z.cpu.slots[m] = w.cpu.slots[m]
<1> DEFINE z == WithSlot(w, n, v)
<1>1. w \in Worlds
  BY DEF Good
<1>2. /\ z \in Worlds
      /\ Queues(z) = Queues(w) /\ Lists(z) = Lists(w) /\ Ring(z) = Ring(w)
      /\ Buffer(z) = Buffer(w) /\ Turn(z) = Turn(w) /\ Clock(z) = Clock(w)
      /\ z.cpu.slots = [w.cpu.slots EXCEPT ![n] = v]
      /\ z.cpu.lsq = w.cpu.lsq /\ z.atCache = w.atCache
  BY <1>1, SetSlot
<1>3. z \in Good
  <2>1. Keeps(z, w)
    BY <1>1, SlotKeeps DEF WithSlot
  <2> HIDE DEF z
  <2> QED
    BY <2>1, KeepsGood
<1>4. w.cpu.slots \in [{0, 1} -> Slots]
  BY <1>1, CoreIs
<1> HIDE DEF z
<1>5. z.cpu.slots[n] = v /\ \A m \in {0, 1} : m # n => z.cpu.slots[m] = w.cpu.slots[m]
  BY <1>2, <1>4
<1> QED
  BY <1>2, <1>3, <1>5 DEF z

\* A flag of a slot is reset.
LEMMA FlagDoes ==
    ASSUME NEW w \in Good, Kinds(w), NEW n \in {0, 1}, NEW v \in Slots,
           v.scheduled = w.cpu.slots[n].scheduled,
           v.instr = w.cpu.slots[n].instr, v.data = w.cpu.slots[n].data
    PROVE  LET z == WithSlot(w, n, v) IN
           /\ z \in Good /\ z.cpu.stalled = w.cpu.stalled
           /\ Calm(z, w) /\ Kinds(z) /\ SameSent(z, w)
<1> DEFINE z == WithSlot(w, n, v)
<1>1. /\ z \in Good /\ Queues(z) = Queues(w) /\ Lists(z) = Lists(w) /\ Ring(z) = Ring(w)
      /\ Buffer(z) = Buffer(w) /\ Turn(z) = Turn(w) /\ Clock(z) = Clock(w)
      /\ z.cpu.lsq = w.cpu.lsq /\ z.atCache = w.atCache
      /\ z.cpu.slots[n] = v /\ \A m \in {0, 1} : m # n => z.cpu.slots[m] = w.cpu.slots[m]
  BY SlotDoes
<1> HIDE DEF z
<1>2. z.cpu.stalled = w.cpu.stalled /\ z.cpu.now = w.cpu.now /\ z.cpu.next = w.cpu.next
  BY <1>1 DEF Queues, Clock
<1>3. ASSUME NEW m \in {0, 1}
      PROVE  /\ z.cpu.slots[m].scheduled = w.cpu.slots[m].scheduled
             /\ z.cpu.slots[m].instr = w.cpu.slots[m].instr /\ z.cpu.slots[m].data = w.cpu.slots[m].data
  <2>1. CASE m = n
    BY <1>1, <2>1
  <2>2. CASE m # n
    BY <1>1, <2>2
  <2> QED
    BY <2>1, <2>2
<1>4. \A m \in {0, 1}, k \in CacheNames : z.cpu.slots[m][k] = w.cpu.slots[m][k]
  BY <1>3 DEF CacheNames
<1>5. Timing(z) = Timing(w)
  BY <1>2, <1>3 DEF Timing
<1>6. Kinds(z)
  BY <1>1, <1>2, <1>4 DEF Kinds
<1>7. ASSUME NEW q \in Reqs PROVE Sent(z, q) = Sent(w, q)
  <2>1. q.kind \in CacheNames
    BY RequestIs
  <2>2. z.cpu.slots[0][q.kind] = w.cpu.slots[0][q.kind] /\ z.cpu.slots[1][q.kind] = w.cpu.slots[1][q.kind]
    BY <1>4, <2>1
  <2> QED
    BY <1>1, <1>2, <2>2 DEF Sent
<1> QED
  BY <1>1, <1>2, <1>5, <1>6, <1>7 DEF Calm, SameSent, z

LEMMA UnstallFine ==
    ASSUME NEW w, NEW H, Fine(w, {}, {}, {}, {}, {}, {}), Pending(w, H), NEW kind \in CacheNames
    PROVE  LET z == Unstall(w, kind) IN Fine(z, {}, {}, {}, {}, {}, {}) /\ Pending(z, H)
<1> DEFINE n == 1 - Slot
           s == w.cpu.slots[n]
           v == [s EXCEPT !.unstall[kind] = FALSE]
           y == WithSlot(w, n, v)
           z == Unstall(w, kind)
           F == {x \in Good : Fine(x, {}, {}, {}, {}, {}, {}) /\ Pending(x, H)}
<1>1. w \in Good /\ w \in Worlds /\ Kinds(w) /\ n \in {0, 1} /\ w.cpu.stalled[kind] \in Seq(Reqs)
  BY CoreIs, SlotsAre DEF Good, Fine, Sound
<1>2. v \in Slots /\ v.scheduled = s.scheduled /\ v.instr = s.instr /\ v.data = s.data
  <2>1. s \in Slots
    BY <1>1, CoreIs
  <2> QED
    BY <2>1 DEF Slots
<1>3. z = w \/ z = InTurn(UnstallOne, y, w.cpu.stalled[kind])
  BY DEF Unstall, WithSlot
<1>4. y \in Good /\ Calm(y, w) /\ Kinds(y) /\ SameSent(y, w)
  <2> HIDE DEF v, n
  <2> QED
    BY <1>1, <1>2, FlagDoes
<1> HIDE DEF y, z
<1>5. y \in F
  <2>1. Fine(y, {}, {}, {}, {}, {}, {}) /\ Pending(y, H)
    BY <1>4, SentFine
  <2> QED
    BY <1>4, <2>1
<1>6. InTurn(UnstallOne, y, w.cpu.stalled[kind]) \in F
  <2>1. ASSUME NEW x \in F, NEW r \in Reqs PROVE UnstallOne(x, r) \in F
    <3>1. UnstallOne(x, r) \in Good
      BY UnstallOneFollows DEF Follow
    <3>2. Fine(UnstallOne(x, r), {}, {}, {}, {}, {}, {}) /\ Pending(UnstallOne(x, r), H)
      BY UnstallOneFine
    <3> QED
      BY <3>1, <3>2
  <2> HIDE DEF F
  <2> QED
    BY <1>1, <1>5, <2>1, UnstallOneLoop
<1> QED
  BY <1>3, <1>6 DEF z

-----------------------------------------------------------------------------
(* An entry with nothing left *)

\* More entries may be being counted.
LEMMA MoreFine ==
    ASSUME NEW w, NEW X, NEW Y, NEW B, NEW B1, NEW E, NEW Zi, NEW Zd,
           Fine(w, X, Y, B, E, Zi, Zd), B \subseteq B1
    PROVE  Fine(w, X, Y, B1, E, Zi, Zd)
<1>1. Placing(w, X, Y) /\ \A e \in Used(w) : Waits(w, X, Y, B, e)
  BY DEF Fine, Loads
<1>2. \A e \in Used(w) : Waits(w, X, Y, B1, e)
  BY <1>1 DEF Waits
<1>3. Loads(w, X, Y, B1)
  BY <1>1, <1>2 DEF Loads
<1> QED
  BY <1>3 DEF Fine

LEMMA DoneFine ==
    ASSUME NEW w, NEW X, NEW Y, NEW B, NEW E, NEW Zi, NEW Zd, NEW H,
           Fine(w, X, Y, B, E, Zi, Zd), Pending(w, H),
           NEW e \in Used(w), w.cpu.rob[e].state # "FETCHING"
    PROVE  LET z == DoneIfNothingLeft(w, e) IN
           /\ Fine(z, X, Y, B \ {e}, E, Zi, Zd) /\ Pending(z, H) /\ z \in Follow(w)
           /\ z.cpu.rob[e].dataPause = w.cpu.rob[e].dataPause /\ Lists(z) = Lists(w)
<1> DEFINE t == w.cpu.rob[e]
           v == [t EXCEPT !.state = "DONE"]
           z == DoneIfNothingLeft(w, e)
<1>1. w \in Good /\ w \in Worlds /\ Kinds(w) /\ Placing(w, X, Y) /\ \A d \in Used(w) : Waits(w, X, Y, B, d)
  BY DEF Fine, Sound, Loads, Good
<1>2. e \in Entries /\ t \in RobEntries
  BY <1>1, UsedIs
<1>3. v \in RobEntries /\ v.g = t.g /\ v.state = "DONE" /\ v.dataPause = t.dataPause
      /\ v.instrPause = t.instrPause /\ v.dataLeft = t.dataLeft /\ v.instrLeft = t.instrLeft
  BY <1>2 DEF RobEntries, States
<1>4. z = IF t.dataLeft = 0 THEN WithEntry(w, e, v) ELSE w
  BY DEF DoneIfNothingLeft, WithEntry
<1>5. z \in Follow(w)
  BY <1>1, <1>2, DoneFollows
<1> HIDE DEF v, z
<1>6. /\ z \in Good /\ Stamps(z) = Stamps(w) /\ Lists(z) = Lists(w) /\ Ring(z) = Ring(w)
      /\ Turn(z) = Turn(w) /\ Timing(z) = Timing(w) /\ z.cpu.lsq = w.cpu.lsq
      /\ Kinds(z) /\ (\A q \in Reqs : Sent(z, q) = Sent(w, q))
      /\ \A d \in Entries \ {e} : z.cpu.rob[d] = w.cpu.rob[d]
  <2>1. CASE t.dataLeft = 0
    <3>1. z = WithEntry(w, e, v)
      BY <1>4, <2>1
    <3>2. v \in RobEntries /\ v.g = w.cpu.rob[e].g
      BY <1>3
    <3> QED
      BY <1>1, <1>2, <3>1, <3>2, EntryDoes DEF Answers
  <2>2. CASE t.dataLeft # 0
    BY <1>1, <1>4, <2>2
  <2> QED
    BY <2>1, <2>2
<1>7. /\ z.cpu.rob[e].g = t.g /\ z.cpu.rob[e].dataPause = t.dataPause
      /\ z.cpu.rob[e].instrPause = t.instrPause
      /\ z.cpu.rob[e].dataLeft = t.dataLeft /\ z.cpu.rob[e].instrLeft = t.instrLeft
      /\ z.cpu.rob[e].state = IF t.dataLeft = 0 THEN "DONE" ELSE t.state
  <2>1. CASE t.dataLeft = 0
    <3>1. z = WithEntry(w, e, v)
      BY <1>4, <2>1
    <3>2. v \in RobEntries /\ v.g = w.cpu.rob[e].g
      BY <1>3
    <3>3. z.cpu.rob[e] = v
      BY <1>1, <1>2, <3>1, <3>2, EntryDoes
    <3> QED
      BY <1>3, <2>1, <3>3
  <2>2. CASE t.dataLeft # 0
    BY <1>1, <1>4, <2>2
  <2> QED
    BY <2>1, <2>2
<1>8. SameLoads(z, X, Y, w, X, Y, Reqs)
  <2>1. ASSUME NEW q \in Reqs PROVE Load(z, X, Y, q) = Load(w, X, Y, q)
    <3>1. EntryOf(q) \in Entries
      BY RequestIs
    <3>2. Paused(z, q) <=> Paused(w, q)
      <4>1. CASE EntryOf(q) = e
        BY <1>7, <4>1 DEF Paused
      <4>2. CASE EntryOf(q) # e
        BY <1>6, <3>1, <4>2 DEF Paused
      <4> QED
        BY <4>1, <4>2
    <3> QED
      BY <1>6, <3>2 DEF Load, One
  <2> QED
    BY <2>1 DEF SameLoads
<1>9. Placing(z, X, Y)
  <2>1. ASSUME NEW q \in Reqs
        PROVE  z.cpu.rob[EntryOf(q)].g = w.cpu.rob[EntryOf(q)].g
    BY <1>6, RequestIs, StampIs
  <2> QED
    BY <1>1, <1>6, <1>8, <2>1 DEF Placing, SameLoads
<1>10. ASSUME NEW d \in Used(z) PROVE Waits(z, X, Y, B \ {e}, d)
  <2>1. d \in Used(w) /\ d \in Entries /\ z.cpu.rob[d].g = w.cpu.rob[d].g /\ w.cpu.rob[d].g \in DOMAIN Trace
    BY <1>1, <1>6, StampIs, UsedIs DEF Used
  <2>2. \A k \in CacheNames : Due(z, X, Y, d, k) = Due(w, X, Y, d, k)
    BY <1>8, <2>1, RequestOf DEF Due, SameLoads
  <2>3. Waits(w, X, Y, B, d)
    BY <1>1, <2>1
  <2>4. Due(z, X, Y, d, "instr") = Due(w, X, Y, d, "instr") /\ Due(z, X, Y, d, "data") = Due(w, X, Y, d, "data")
    BY <2>2 DEF CacheNames
  <2>5. CASE d # e
    <3>1. z.cpu.rob[d] = w.cpu.rob[d]
      BY <1>6, <2>1, <2>5
    <3> QED
      BY <2>3, <2>4, <2>5, <3>1 DEF Waits
  <2>6. CASE d = e
    <3>1. /\ Cardinality(Due(w, X, Y, e, "data")) \in Nat
          /\ Cardinality(Due(w, X, Y, e, "data")) = 0 <=> Due(w, X, Y, e, "data") = {}
      BY <1>1, DueIs DEF CacheNames
    <3>2. t.state \in {"DATA", "DONE"}
      BY <1>2 DEF RobEntries, States
    <3>3. CASE t.dataLeft = 0
      BY <1>7, <2>3, <2>4, <2>6, <3>1, <3>2, <3>3 DEF Waits
    <3>4. CASE t.dataLeft # 0
      BY <1>7, <2>3, <2>4, <2>6, <3>1, <3>2, <3>4 DEF Waits
    <3> QED
      BY <3>3, <3>4
  <2> QED
    BY <2>5, <2>6
<1>11. ASSUME NEW d \in Used(w)
       PROVE  /\ z.cpu.rob[d].instrPause \subseteq w.cpu.rob[d].instrPause
              /\ z.cpu.rob[d].dataPause = w.cpu.rob[d].dataPause
              /\ z.cpu.rob[d].state # w.cpu.rob[d].state =>
                     w.cpu.rob[d].state # "DONE" /\ z.cpu.rob[d].state # "FETCHING"
  <2>1. CASE d = e
    BY <1>7, <2>1
  <2>2. CASE d # e
    BY <1>6, <2>2 DEF Used
  <2> QED
    BY <2>1, <2>2
<1>12. Fine(z, X, Y, B \ {e}, E, Zi, Zd)
  <2>1. Loads(z, X, Y, B \ {e})
    BY <1>9, <1>10 DEF Loads
  <2> QED
    BY <1>6, <1>11, <2>1, FineKept
<1>13. Pending(z, H)
  <2>1. z.cpu.dataPausers = w.cpu.dataPausers
    BY <1>6 DEF Lists
  <2> QED
    BY <1>1, <1>6, <1>11, <2>1, PendingKept
<1> QED
  BY <1>5, <1>6, <1>7, <1>12, <1>13 DEF z

-----------------------------------------------------------------------------
(* The pausers are tried again *)

WithInstrPausers(w, v) == [w EXCEPT !.cpu.instrPausers = v]
WithDataPausers(w, v) == [w EXCEPT !.cpu.dataPausers = v]

LEMMA ListFine ==
    ASSUME NEW w, NEW z \in Good, NEW X, NEW Y, NEW B, NEW E, NEW Zi, NEW Zd, NEW Zi1, NEW Zd1,
           Fine(w, X, Y, B, E, Zi, Zd), z.cpu.rob = w.cpu.rob, Stamps(z) = Stamps(w),
           Ring(z) = Ring(w), Timing(z) = Timing(w), z.cpu.lsq = w.cpu.lsq,
           z.cpu.fetchEntry = w.cpu.fetchEntry, z.cpu.failed \in {"", "resume"},
           Kinds(z), SameSent(z, w), Pausing(z, Zi1, Zd1)
    PROVE  Fine(z, X, Y, B, E, Zi1, Zd1)
<1>1. /\ w \in Good /\ Shaped(w) /\ Timed(w) /\ w.cpu.failed \in {"", "resume"}
      /\ Alive(w, E) /\ Loads(w, X, Y, B) /\ Placing(w, X, Y)
  BY DEF Fine, Sound, Loads
<1>3. Timed(z)
  BY <1>1, TimedKept
<1>4. Alive(z, E)
  BY <1>1, AliveKept
<1>5. Shaped(z)
  BY <1>1, ShapedKept
<1>6. SameLoads(z, X, Y, w, X, Y, Reqs)
  BY DEF SameLoads, Load, Paused, SameSent
<1>7. SameTallies(z, w, Used(w)) /\ Awaited(z, Y)
  BY <1>1 DEF SameTallies, Tally, Awaited, Placing, SameSent
<1>8. Loads(z, X, Y, B)
  BY <1>1, <1>6, <1>7, LoadsKept
<1> QED
  BY <1>1, <1>3, <1>4, <1>5, <1>8 DEF Fine, Sound

\* What is left of a list behind its first n elements.
Rest(l, n) == {l[m] : m \in n + 1 .. Len(l)}

LEMMA RestIs ==
    ASSUME NEW S, NEW l \in Seq(S)
    PROVE  /\ Rest(l, 0) = Range(l) /\ Rest(l, Len(l)) = {} /\ Len(l) \in Nat
           /\ \A n \in 1 .. Len(l) : /\ l[n] \in S /\ l[n] \in Rest(l, n - 1)
                                     /\ Rest(l, n) \subseteq Rest(l, n - 1)
                                     /\ Rest(l, n - 1) \subseteq Rest(l, n) \cup {l[n]}
<1>1. DOMAIN l = 1 .. Len(l) /\ Len(l) \in Nat /\ \A n \in 1 .. Len(l) : l[n] \in S
  BY LenProperties, ElementOfSeq
<1>2. Rest(l, 0) = Range(l)
  BY <1>1 DEF Rest, Range
<1>3. Rest(l, Len(l)) = {}
  <2>1. Len(l) + 1 .. Len(l) = {}
    BY <1>1
  <2> QED
    BY <2>1 DEF Rest
<1>4. ASSUME NEW n \in 1 .. Len(l)
      PROVE  /\ l[n] \in Rest(l, n - 1)
             /\ Rest(l, n) \subseteq Rest(l, n - 1)
             /\ Rest(l, n - 1) \subseteq Rest(l, n) \cup {l[n]}
  <2>1. (n - 1) + 1 = n /\ n .. Len(l) = {n} \cup (n + 1 .. Len(l))
    BY <1>1
  <2> QED
    BY <2>1 DEF Rest
<1> QED
  BY <1>1, <1>2, <1>3, <1>4

LEMMA ResumeInstrFine ==
    ASSUME NEW w, NEW Zi, NEW Zi1, NEW H, Fine(w, {}, {}, {}, {}, Zi, {}), Pending(w, H),
           NEW e \in Used(w), Zi \subseteq Zi1 \cup {e}
    PROVE  LET z == ResumeInstr(w, e) IN
           Fine(z, {}, {}, {}, {}, Zi1, {}) /\ Pending(z, H) /\ z \in Follow(w)
<1> DEFINE g == w.cpu.rob[e].g
           q == Requests("instr", g)
           R == {r \in Reqs : r.kind = "instr" /\ r.g = g}
           t == InTurn(RetryInstr, w, q)
           v == Append(t.cpu.instrPausers, e)
           z == ResumeInstr(w, e)
           F == {s \in Follow(w) : Fine(s, {}, {}, {}, {}, Zi, {}) /\ Pending(s, H)}
<1>1. w \in Good /\ e \in Entries /\ g \in DOMAIN Trace
  <2>1. w \in Good
    BY DEF Fine, Sound
  <2> QED
    BY <2>1, UsedIs
<1>2. q \in Seq(R) /\ w \in F
  BY <1>1, RequestsAre DEF Follow, CacheNames
<1>3. ASSUME NEW s \in F, NEW r \in R PROVE RetryInstr(s, r) \in F
  <2>1. s \in Good /\ Shaped(s) /\ Stamps(s) = Stamps(w) /\ Fine(s, {}, {}, {}, {}, Zi, {}) /\ Pending(s, H)
    BY DEF Follow, Fine, Sound
  <2>2. e \in Used(s) /\ s.cpu.rob[e].g = r.g
    BY <1>1, <2>1, StampIs
  <2>3. EntryOf(r) = e
    BY <2>1, <2>2, ShapedEntry
  <2>4. s.cpu.rob[EntryOf(r)].g = r.g /\ r.kind = "instr" /\ r \in Reqs
    BY <2>2, <2>3
  <2>5. Fine(RetryInstr(s, r), {}, {}, {}, {}, Zi, {}) /\ Pending(RetryInstr(s, r), H)
        /\ RetryInstr(s, r) \in Follow(s)
    BY <2>1, <2>4, RetryInstrFine
  <2> QED
    BY <2>1, <2>5 DEF Follow
<1>4. t \in F
  <2> HIDE DEF F, R, q
  <2> QED
    BY <1>2, <1>3, RetryInstrLoop
<1>5. z = IF t.cpu.instrPausers # <<>> \/ t.cpu.rob[e].instrPause # {} THEN WithInstrPausers(t, v) ELSE t
  BY DEF ResumeInstr, WithInstrPausers
<1> HIDE DEF t, z
<1>6. /\ t \in Good /\ Stamps(t) = Stamps(w) /\ Used(t) = Used(w) /\ Fine(t, {}, {}, {}, {}, Zi, {})
      /\ Pending(t, H) /\ Kinds(t) /\ Pausing(t, Zi, {}) /\ t.cpu.instrPausers \in Seq(Used(t))
  BY <1>4, StampIs DEF Follow, Fine, Sound, Good, Placed
<1>7. CASE z = t /\ t.cpu.rob[e].instrPause = {}
  <2>1. Pausing(t, Zi1, {})
    BY <1>6, <1>7 DEF Pausing
  <2>2. Fine(t, {}, {}, {}, {}, Zi1, {})
    BY <1>6, <2>1 DEF Fine
  <2> QED
    BY <1>4, <1>6, <1>7, <2>2 DEF z
<1>8. CASE z = WithInstrPausers(t, v)
  <2>1. v \in Seq(Used(t)) /\ Range(v) = Range(t.cpu.instrPausers) \cup {e}
    BY <1>6, AppendedIs
  <2>2. /\ z \in Good /\ Stamps(z) = Stamps(t)
        /\ Ring(z) = Ring(t) /\ z.cpu.rob = t.cpu.rob
        /\ Answers(z) = Answers(t) /\ Turn(z) = Turn(t) /\ Timing(z) = Timing(t)
        /\ Kinds(z) /\ SameSent(z, t)
        /\ z.cpu.instrPausers = v /\ z.cpu.dataPausers = t.cpu.dataPausers
    <3> HIDE DEF v
    <3> QED
      BY <1>6, <1>8, <2>1, InstrPausersDo DEF WithInstrPausers, SameSent
  <2> HIDE DEF v
  <2>3. /\ z.cpu.lsq = t.cpu.lsq /\ z.cpu.fetchEntry = t.cpu.fetchEntry
        /\ z.cpu.failed \in {"", "resume"}
    BY <1>6, <2>2 DEF Answers, Turn, Fine, Sound
  <2>4. Used(z) = Used(t)
    BY <2>2, StampIs
  <2>5. Pausing(z, Zi1, {})
    BY <1>6, <2>1, <2>2, <2>4 DEF Pausing
  <2>6. Fine(z, {}, {}, {}, {}, Zi1, {})
    BY <1>6, <2>2, <2>3, <2>5, ListFine
  <2>7. Pending(z, H)
    BY <1>6, <2>2, PendingKept
  <2>8. z \in Follow(w)
    BY <1>6, <2>2 DEF Follow
  <2> QED
    BY <2>6, <2>7, <2>8 DEF z
<1> QED
  BY <1>5, <1>7, <1>8

LEMMA ResumeDataFine ==
    ASSUME NEW w, NEW Zd, NEW Zd1, Fine(w, {}, {}, {}, {}, {}, Zd), Pending(w, HeldReqs),
           NEW e \in Zd, Zd1 \subseteq Zd, Zd \subseteq Zd1 \cup {e}
    PROVE  LET z == ResumeData(w, e) IN
           Fine(z, {}, {}, {}, {}, {}, Zd1) /\ Pending(z, HeldReqs) /\ z \in Follow(w)
<1> DEFINE g == w.cpu.rob[e].g
           q == Requests("data", g)
           R == {r \in Reqs : r.kind = "data" /\ r.g = g}
           t == InTurn(RetryData, w, q)
           y == DoneIfNothingLeft(t, e)
           v == Append(y.cpu.dataPausers, e)
           z == ResumeData(w, e)
           T == [n \in 0 .. Len(q) |->
                    {s \in Follow(w) : /\ Fine(s, {}, {}, {e}, {}, {}, Zd) /\ Pending(s, HeldReqs)
                                       /\ \A i \in s.cpu.rob[e].dataPause : i <= n => IsHeld(Request("data", g, i))}]
<1>1. w \in Good /\ e \in Used(w) /\ e \in Entries /\ g \in DOMAIN Trace
  <2>1. w \in Good /\ e \in Used(w)
    BY DEF Fine, Sound, Pausing
  <2> QED
    BY <2>1, UsedIs
<1>2. /\ q \in Seq(R) /\ Len(q) \in Nat /\ DOMAIN q = 1 .. Len(q)
      /\ \A n \in 1 .. Len(q) : q[n] = Request("data", g, n) /\ q[n] \in R
  <2>1. q \in Seq(R) /\ Len(q) \in Nat /\ DOMAIN q = 1 .. Len(q)
    BY <1>1, RequestsAre, RequestsDomain DEF CacheNames
  <2>2. \A n \in 1 .. Len(q) : q[n] = Request("data", g, n) /\ q[n] \in R
    BY <1>1, <2>1, RequestOf DEF CacheNames
  <2> QED
    BY <2>1, <2>2
<1>3. w \in T[0]
  <2>1. Fine(w, {}, {}, {e}, {}, {}, Zd) /\ w \in Follow(w)
    BY <1>1, MoreFine DEF Follow
  <2>2. \A i \in w.cpu.rob[e].dataPause : ~(i <= 0)
    <3>1. w.cpu.rob[e].dataPause \subseteq DOMAIN q
      BY <1>1 DEF Fine, Sound, Shaped
    <3> QED
      BY <1>2, <3>1
  <2>3. \A i \in w.cpu.rob[e].dataPause : i <= 0 => IsHeld(Request("data", g, i))
    BY <2>2
  <2>4. 0 \in 0 .. Len(q)
    BY <1>2
  <2> HIDE DEF q, g
  <2> QED
    BY <2>1, <2>3, <2>4
<1>4. ASSUME NEW n \in 1 .. Len(q), NEW s \in T[n - 1] PROVE RetryData(s, q[n]) \in T[n]
  <2> DEFINE r == q[n]
             x == RetryData(s, r)
  <2>1. n \in 0 .. Len(q) /\ n - 1 \in 0 .. Len(q)
    BY <1>2
  <2>2. /\ s \in Follow(w) /\ Fine(s, {}, {}, {e}, {}, {}, Zd) /\ Pending(s, HeldReqs)
        /\ \A i \in s.cpu.rob[e].dataPause : i <= n - 1 => IsHeld(Request("data", g, i))
    BY <2>1
  <2>3. s \in Good /\ Shaped(s) /\ Stamps(s) = Stamps(w) /\ r \in Reqs /\ r.kind = "data" /\ r.g = g
        /\ r = Request("data", g, n) /\ r.i = n
    <3> HIDE DEF T
    <3>1. s \in Good /\ Shaped(s) /\ Stamps(s) = Stamps(w)
      BY <2>2 DEF Follow, Fine, Sound
    <3>2. r \in Reqs /\ r.kind = "data" /\ r.g = g /\ r = Request("data", g, n)
      BY <1>2
    <3>3. r.i = n
      BY <3>2 DEF Request
    <3> QED
      BY <3>1, <3>2, <3>3
  <2> HIDE DEF r, T
  <2>4. e \in Used(s) /\ s.cpu.rob[e].g = r.g
    BY <1>1, <2>3, StampIs
  <2>5. EntryOf(r) = e
    BY <2>3, <2>4, ShapedEntry
  <2>6. s.cpu.rob[EntryOf(r)].g = r.g /\ EntryOf(r) \in {e}
    BY <2>4, <2>5
  <2>7. /\ Fine(x, {}, {}, {e}, {}, {}, Zd) /\ Pending(x, HeldReqs) /\ x \in Follow(s)
        /\ x.cpu.rob[EntryOf(r)].dataPause \subseteq s.cpu.rob[EntryOf(r)].dataPause
        /\ r.i \in x.cpu.rob[EntryOf(r)].dataPause => IsHeld(r)
    BY <2>2, <2>3, <2>6, RetryDataFine
  <2> HIDE DEF x
  <2>8. x \in Follow(w)
    BY <2>2, <2>7 DEF Follow
  <2>9. ASSUME NEW i \in x.cpu.rob[e].dataPause, i <= n PROVE IsHeld(Request("data", g, i))
    <3>1. CASE i = n
      BY <2>3, <2>5, <2>7, <3>1
    <3>2. CASE i # n
      <4>1. i \in s.cpu.rob[e].dataPause
        BY <2>5, <2>7
      <4>2. i \in DOMAIN q
        <5>1. s.cpu.rob[e].dataPause \subseteq DOMAIN Requests("data", s.cpu.rob[e].g)
          BY <2>3, <2>4 DEF Shaped
        <5> QED
          BY <2>3, <2>4, <4>1, <5>1
      <4>3. i <= n - 1
        BY <1>2, <2>9, <3>2, <4>2
      <4> QED
        BY <2>2, <4>1, <4>3
    <3> QED
      BY <3>1, <3>2
  <2> QED
    BY <2>1, <2>7, <2>8, <2>9 DEF T, x, r
<1>5. t \in T[Len(q)]
  <2> HIDE DEF T, q
  <2> QED
    BY <1>2, <1>3, <1>4, RetryDataTurns
<1>6. z = IF y.cpu.rob[e].dataPause = {} THEN y ELSE WithDataPausers(y, v)
  BY DEF ResumeData, WithDataPausers
<1> HIDE DEF t, z
<1>7. /\ t \in Follow(w) /\ Fine(t, {}, {}, {e}, {}, {}, Zd) /\ Pending(t, HeldReqs)
      /\ \A i \in t.cpu.rob[e].dataPause : i <= Len(q) => IsHeld(Request("data", g, i))
  BY <1>2, <1>5
<1> HIDE DEF T
<1>8. t \in Good /\ Stamps(t) = Stamps(w) /\ e \in Used(t) /\ t.cpu.rob[e].state # "FETCHING" /\ Shaped(t)
  BY <1>7 DEF Follow, Fine, Pausing, Sound
<1>9. /\ Fine(y, {}, {}, {}, {}, {}, Zd) /\ Pending(y, HeldReqs) /\ y \in Follow(t)
      /\ y.cpu.rob[e].dataPause = t.cpu.rob[e].dataPause /\ Lists(y) = Lists(t)
  <2>1. {e} \ {e} = {}
    OBVIOUS
  <2>2. /\ Fine(y, {}, {}, {e} \ {e}, {}, {}, Zd) /\ Pending(y, HeldReqs) /\ y \in Follow(t)
        /\ y.cpu.rob[e].dataPause = t.cpu.rob[e].dataPause /\ Lists(y) = Lists(t)
    BY <1>7, <1>8, DoneFine
  <2> QED
    BY <2>1, <2>2
<1> HIDE DEF y
<1>10. /\ y \in Good /\ Stamps(y) = Stamps(w) /\ Used(y) = Used(w) /\ y.cpu.rob[e].g = g
       /\ Kinds(y) /\ Pausing(y, {}, Zd) /\ y.cpu.dataPausers \in Seq(Used(y))
  BY <1>1, <1>8, <1>9, StampIs DEF Follow, Fine, Sound, Good, Placed
<1>11. \A i \in y.cpu.rob[e].dataPause : Request("data", y.cpu.rob[e].g, i) \in HeldReqs
  <2>1. ASSUME NEW i \in y.cpu.rob[e].dataPause PROVE Request("data", g, i) \in HeldReqs
    <3>1. i \in DOMAIN Requests("data", t.cpu.rob[e].g)
      BY <1>8, <1>9 DEF Shaped
    <3>2. t.cpu.rob[e].g = g
      BY <1>1, <1>8, StampIs
    <3>3. i \in 1 .. Len(q)
      BY <1>2, <3>1, <3>2
    <3>4. IsHeld(Request("data", g, i))
      BY <1>2, <1>7, <1>9, <3>3
    <3>5. Request("data", g, i) \in Reqs
      BY <1>2, <3>3
    <3> QED
      BY <3>4, <3>5 DEF HeldReqs
  <2> QED
    BY <1>10, <2>1
<1>12. CASE z = y /\ y.cpu.rob[e].dataPause = {}
  <2>1. Pausing(y, {}, Zd1)
    BY <1>10, <1>12 DEF Pausing
  <2>2. Fine(y, {}, {}, {}, {}, {}, Zd1)
    BY <1>9, <2>1 DEF Fine
  <2>3. y \in Follow(w)
    BY <1>10 DEF Follow
  <2> QED
    BY <1>9, <1>12, <2>2, <2>3 DEF z
<1>13. CASE z = WithDataPausers(y, v) /\ y.cpu.rob[e].dataPause # {}
  <2>1. v \in Seq(Used(y)) /\ Range(v) = Range(y.cpu.dataPausers) \cup {e}
    BY <1>1, <1>10, AppendedIs
  <2>2. /\ z \in Good /\ Stamps(z) = Stamps(y)
        /\ Ring(z) = Ring(y) /\ z.cpu.rob = y.cpu.rob
        /\ Answers(z) = Answers(y) /\ Turn(z) = Turn(y) /\ Timing(z) = Timing(y)
        /\ Kinds(z) /\ SameSent(z, y)
        /\ z.cpu.dataPausers = v /\ z.cpu.instrPausers = y.cpu.instrPausers
    <3> HIDE DEF v
    <3> QED
      BY <1>10, <1>13, <2>1, DataPausersDo DEF WithDataPausers, SameSent
  <2> HIDE DEF v
  <2>3. /\ z.cpu.lsq = y.cpu.lsq /\ z.cpu.fetchEntry = y.cpu.fetchEntry
        /\ z.cpu.failed \in {"", "resume"}
    BY <1>9, <2>2 DEF Answers, Turn, Fine, Sound
  <2>4. Used(z) = Used(y)
    BY <2>2, StampIs
  <2>5. Pausing(z, {}, Zd1)
    BY <1>10, <2>1, <2>2, <2>4 DEF Pausing
  <2>6. Fine(z, {}, {}, {}, {}, {}, Zd1)
    BY <1>9, <2>2, <2>3, <2>5, ListFine
  <2>7. Pending(z, HeldReqs)
    <3>1. \A d \in Range(v) : \E i \in y.cpu.rob[d].dataPause : Request("data", y.cpu.rob[d].g, i) \in HeldReqs
      BY <1>9, <1>11, <1>13, <2>1 DEF Pending
    <3> QED
      BY <2>2, <3>1 DEF Pending
  <2>8. z \in Follow(w)
    BY <1>10, <2>2 DEF Follow
  <2> QED
    BY <2>6, <2>7, <2>8 DEF z
<1> QED
  BY <1>6, <1>12, <1>13

\* An entry with a paused datum has been fetched.
LEMMA PausedData ==
    ASSUME NEW w, NEW X, NEW Y, NEW B, NEW E, NEW Zi, NEW Zd, NEW H,
           Fine(w, X, Y, B, E, Zi, Zd), Pending(w, H), NEW e \in Range(w.cpu.dataPausers)
    PROVE  e \in Used(w) /\ w.cpu.rob[e].state # "FETCHING"
<1>1. w \in Good /\ Placing(w, X, Y) /\ Shaped(w) /\ \A d \in Used(w) : Waits(w, X, Y, B, d)
  BY DEF Fine, Sound, Loads
<1>2. e \in Used(w)
  <2>1. w.cpu.dataPausers \in Seq(Used(w))
    BY <1>1 DEF Good, Placed
  <2>2. \A n \in DOMAIN w.cpu.dataPausers : w.cpu.dataPausers[n] \in Used(w)
    BY <2>1, LenProperties, ElementOfSeq
  <2> QED
    BY <2>2 DEF Range
<1> DEFINE g == w.cpu.rob[e].g
<1>3. PICK i \in w.cpu.rob[e].dataPause : TRUE
  BY DEF Pending
<1> DEFINE r == Request("data", g, i)
<1>4. g \in DOMAIN Trace /\ i \in DOMAIN Requests("data", g)
  BY <1>1, <1>2, UsedIs DEF Shaped
<1>5. r \in Reqs /\ r.kind = "data" /\ r.g = g /\ r.i = i
  BY <1>4, RequestOf DEF CacheNames
<1> HIDE DEF r
<1>6. EntryOf(r) = e
  BY <1>1, <1>2, <1>5, ShapedEntry
<1>7. Passable(w, X, r)
  BY <1>3, <1>5, <1>6 DEF Passable, Paused
<1>8. Load(w, X, Y, r) = 1
  BY <1>1, <1>5, <1>7, ToPass
<1>9. r.i \in Due(w, X, Y, e, "data")
  BY <1>1, <1>5, <1>6, <1>8, LoadHas
<1> QED
  BY <1>1, <1>2, <1>9 DEF Waits

LEMMA ResumeFailFine ==
    ASSUME NEW w, NEW H, NEW ok, Fine(w, {}, {}, {}, {}, {}, {}), Pending(w, H)
    PROVE  LET z == Fail(w, "resume", ok) IN
           Fine(z, {}, {}, {}, {}, {}, {}) /\ Pending(z, H)
<1> DEFINE z == Fail(w, "resume", ok)
           f == [w EXCEPT !.cpu.failed = "resume"]
<1>1. w \in Good /\ w \in Worlds /\ Kinds(w) /\ Pausing(w, {}, {}) /\ "resume" \in Failures
  BY DEF Fine, Sound, Good, Failures
<1>2. z = w \/ z = f
  BY DEF Fail
<1>3. /\ Queues(f) = Queues(w) /\ Lists(f) = Lists(w) /\ Ring(f) = Ring(w) /\ Buffer(f) = Buffer(w)
      /\ Answers(f) = Answers(w) /\ Clock(f) = Clock(w)
      /\ f.cpu.failed = "resume" /\ f.cpu.fetchEntry = w.cpu.fetchEntry
  BY <1>1, SetFailed
<1>4. z \in Good
  <2>1. Keeps(z, w)
    BY <1>1, FailKeeps
  <2> HIDE DEF z
  <2> QED
    BY <1>1, <2>1, KeepsGood
<1> HIDE DEF z, f
<1>5. CASE z = f
  <2>1. /\ z.cpu.rob = w.cpu.rob /\ Stamps(z) = Stamps(w) /\ Ring(z) = Ring(w)
        /\ z.cpu.lsq = w.cpu.lsq /\ z.cpu.fetchEntry = w.cpu.fetchEntry
        /\ z.cpu.failed \in {"", "resume"} /\ z.cpu.slots = w.cpu.slots
        /\ z.cpu.stalled = w.cpu.stalled /\ z.atCache = w.atCache
        /\ z.cpu.instrPausers = w.cpu.instrPausers /\ z.cpu.dataPausers = w.cpu.dataPausers
    BY <1>3, <1>5, SameStamps DEF Buffer, Answers, Queues, Lists
  <2>2. Kinds(z) /\ SameSent(z, w)
    <3>1. /\ z.atCache.reads = w.atCache.reads /\ z.cpu.slots = w.cpu.slots
          /\ z.cpu.stalled = w.cpu.stalled
      BY <2>1
    <3>0. Kinds(w)
      BY <1>1
    <3>2. Kinds(z)
      BY <3>0, <3>1 DEF Kinds
    <3>3. ASSUME NEW q \in Reqs PROVE Sent(z, q) = Sent(w, q)
      BY <2>1, <3>1 DEF Sent
    <3> QED
      BY <3>2, <3>3 DEF SameSent
  <2>3. Timing(z) = Timing(w)
    BY <1>3, <1>5, <2>1 DEF Timing, Clock
  <2>4. Used(z) = Used(w)
    BY <2>1, StampIs
  <2>5. Pausing(z, {}, {})
    BY <1>1, <2>1, <2>4 DEF Pausing
  <2>6. Fine(z, {}, {}, {}, {}, {}, {})
    BY <1>4, <2>1, <2>2, <2>3, <2>5, ListFine
  <2>7. Pending(z, H)
    BY <2>1 DEF Pending
  <2> QED
    BY <2>6, <2>7 DEF z
<1>6. CASE z = w
  BY <1>6 DEF z
<1> QED
  BY <1>2, <1>5, <1>6

\* All pausers are taken from their list.
LEMMA InstrListTaken ==
    ASSUME NEW w, NEW H, Fine(w, {}, {}, {}, {}, {}, {}), Pending(w, H)
    PROVE  LET z == WithInstrPausers(w, <<>>) IN
           Fine(z, {}, {}, {}, {}, Range(w.cpu.instrPausers), {}) /\ Pending(z, H) /\ z \in Follow(w)
<1> DEFINE z == WithInstrPausers(w, <<>>)
           l == w.cpu.instrPausers
<1>0. <<>> \in Seq(Used(w))
  OBVIOUS
<1>1. w \in Good /\ Kinds(w) /\ Pausing(w, {}, {}) /\ w.cpu.failed \in {"", "resume"}
  BY DEF Fine, Sound
<1>2. /\ z \in Good /\ Stamps(z) = Stamps(w)
      /\ Ring(z) = Ring(w) /\ z.cpu.rob = w.cpu.rob
      /\ Answers(z) = Answers(w) /\ Turn(z) = Turn(w) /\ Timing(z) = Timing(w)
      /\ Kinds(z) /\ SameSent(z, w)
      /\ z.cpu.instrPausers = <<>> /\ z.cpu.dataPausers = w.cpu.dataPausers
  BY <1>0, <1>1, InstrPausersDo DEF WithInstrPausers, SameSent
<1> HIDE DEF z
<1>3. z.cpu.lsq = w.cpu.lsq /\ z.cpu.fetchEntry = w.cpu.fetchEntry /\ z.cpu.failed \in {"", "resume"}
  BY <1>1, <1>2 DEF Answers, Turn
<1>4. Used(z) = Used(w)
  BY <1>2, StampIs
<1>5. Pausing(z, Range(l), {})
  BY <1>1, <1>2, <1>4 DEF Pausing
<1>6. Fine(z, {}, {}, {}, {}, Range(l), {})
  <2> DEFINE Z == Range(l)
             O == {}
  <2>1. Pausing(z, Z, O) /\ Fine(w, O, O, O, O, O, O)
    BY <1>5
  <2> HIDE DEF Z, O
  <2>2. Fine(z, O, O, O, O, Z, O)
    BY <1>2, <1>3, <2>1, ListFine
  <2> QED
    BY <2>2 DEF Z, O
<1>7. Pending(z, H)
  BY <1>2 DEF Pending
<1> QED
  BY <1>2, <1>6, <1>7 DEF z, Follow

LEMMA DataListTaken ==
    ASSUME NEW w, NEW H, NEW H1, Fine(w, {}, {}, {}, {}, {}, {}), Pending(w, H)
    PROVE  LET z == WithDataPausers(w, <<>>) IN
           Fine(z, {}, {}, {}, {}, {}, Range(w.cpu.dataPausers)) /\ Pending(z, H1) /\ z \in Follow(w)
<1> DEFINE z == WithDataPausers(w, <<>>)
           l == w.cpu.dataPausers
<1>0. <<>> \in Seq(Used(w))
  OBVIOUS
<1>1. w \in Good /\ Kinds(w) /\ Pausing(w, {}, {}) /\ w.cpu.failed \in {"", "resume"}
  BY DEF Fine, Sound
<1>2. /\ z \in Good /\ Stamps(z) = Stamps(w)
      /\ Ring(z) = Ring(w) /\ z.cpu.rob = w.cpu.rob
      /\ Answers(z) = Answers(w) /\ Turn(z) = Turn(w) /\ Timing(z) = Timing(w)
      /\ Kinds(z) /\ SameSent(z, w)
      /\ z.cpu.dataPausers = <<>> /\ z.cpu.instrPausers = w.cpu.instrPausers
  BY <1>0, <1>1, DataPausersDo DEF WithDataPausers, SameSent
<1> HIDE DEF z
<1>3. z.cpu.lsq = w.cpu.lsq /\ z.cpu.fetchEntry = w.cpu.fetchEntry /\ z.cpu.failed \in {"", "resume"}
  BY <1>1, <1>2 DEF Answers, Turn
<1>4. Used(z) = Used(w)
  BY <1>2, StampIs
<1>5. \A e \in Range(l) : e \in Used(w) /\ w.cpu.rob[e].state # "FETCHING"
  BY PausedData
<1>6. Pausing(z, {}, Range(l))
  BY <1>1, <1>2, <1>4, <1>5 DEF Pausing
<1>7. Fine(z, {}, {}, {}, {}, {}, Range(l))
  <2> DEFINE Z == Range(l)
             O == {}
  <2>1. Pausing(z, O, Z) /\ Fine(w, O, O, O, O, O, O)
    BY <1>6
  <2> HIDE DEF Z, O
  <2>2. Fine(z, O, O, O, O, O, Z)
    BY <1>2, <1>3, <2>1, ListFine
  <2> QED
    BY <2>2 DEF Z, O
<1>8. Pending(z, H1)
  <2>1. Range(z.cpu.dataPausers) = {}
    BY <1>2 DEF Range
  <2> QED
    BY <2>1 DEF Pending
<1> QED
  BY <1>2, <1>7, <1>8 DEF z, Follow

LEMMA InstrPausersFine ==
    ASSUME NEW w, NEW H, NEW l \in Seq(Used(w)), Fine(w, {}, {}, {}, {}, Range(l), {}), Pending(w, H)
    PROVE  LET z == InTurn(ResumeInstr, w, l) IN
           Fine(z, {}, {}, {}, {}, {}, {}) /\ Pending(z, H)
<1> DEFINE T == [n \in 0 .. Len(l) |->
                    {s \in Follow(w) : Fine(s, {}, {}, {}, {}, Rest(l, n), {}) /\ Pending(s, H)}]
           z == InTurn(ResumeInstr, w, l)
<1>1. w \in Good
  BY DEF Fine, Sound
<1>2. /\ Rest(l, 0) = Range(l) /\ Rest(l, Len(l)) = {} /\ Len(l) \in Nat
      /\ \A n \in 1 .. Len(l) : l[n] \in Used(w) /\ Rest(l, n - 1) \subseteq Rest(l, n) \cup {l[n]}
  BY RestIs
<1>3. w \in T[0]
  BY <1>1, <1>2 DEF Follow
<1>4. ASSUME NEW n \in 1 .. Len(l), NEW s \in T[n - 1] PROVE ResumeInstr(s, l[n]) \in T[n]
  <2>1. n \in 0 .. Len(l) /\ n - 1 \in 0 .. Len(l)
    BY <1>2
  <2>2. s \in Follow(w) /\ Fine(s, {}, {}, {}, {}, Rest(l, n - 1), {}) /\ Pending(s, H)
    BY <2>1
  <2> DEFINE e == l[n]
             x == ResumeInstr(s, e)
  <2> HIDE DEF T, e, x
  <2>3. e \in Used(s) /\ Rest(l, n - 1) \subseteq Rest(l, n) \cup {e} /\ Stamps(s) = Stamps(w)
    BY <1>2, <2>2, StampIs DEF Follow, e
  <2>4. Fine(x, {}, {}, {}, {}, Rest(l, n), {}) /\ Pending(x, H) /\ x \in Follow(s)
    BY <2>2, <2>3, ResumeInstrFine DEF x
  <2>5. x \in Follow(w)
    BY <2>3, <2>4 DEF Follow
  <2> QED
    BY <2>1, <2>4, <2>5 DEF T, x, e
<1>5. z \in T[Len(l)]
  <2> HIDE DEF T
  <2> QED
    BY <1>2, <1>3, <1>4, ResumeInstrTurns
<1> HIDE DEF z
<1>6. Fine(z, {}, {}, {}, {}, Rest(l, Len(l)), {}) /\ Pending(z, H)
  <2>1. Len(l) \in 0 .. Len(l)
    BY <1>2
  <2> QED
    BY <1>5, <2>1
<1> QED
  BY <1>2, <1>6 DEF z

LEMMA DataPausersFine ==
    ASSUME NEW w, NEW l \in Seq(Used(w)), Fine(w, {}, {}, {}, {}, {}, Range(l)), Pending(w, HeldReqs)
    PROVE  LET z == InTurn(ResumeData, w, l) IN
           Fine(z, {}, {}, {}, {}, {}, {}) /\ Pending(z, HeldReqs)
<1> DEFINE T == [n \in 0 .. Len(l) |->
                    {s \in Follow(w) : Fine(s, {}, {}, {}, {}, {}, Rest(l, n)) /\ Pending(s, HeldReqs)}]
           z == InTurn(ResumeData, w, l)
<1>1. w \in Good
  BY DEF Fine, Sound
<1>2. /\ Rest(l, 0) = Range(l) /\ Rest(l, Len(l)) = {} /\ Len(l) \in Nat
      /\ \A n \in 1 .. Len(l) : /\ l[n] \in Rest(l, n - 1) /\ Rest(l, n) \subseteq Rest(l, n - 1)
                                /\ Rest(l, n - 1) \subseteq Rest(l, n) \cup {l[n]}
  BY RestIs
<1>3. w \in T[0]
  BY <1>1, <1>2 DEF Follow
<1>4. ASSUME NEW n \in 1 .. Len(l), NEW s \in T[n - 1] PROVE ResumeData(s, l[n]) \in T[n]
  <2>1. n \in 0 .. Len(l) /\ n - 1 \in 0 .. Len(l)
    BY <1>2
  <2>2. s \in Follow(w) /\ Fine(s, {}, {}, {}, {}, {}, Rest(l, n - 1)) /\ Pending(s, HeldReqs)
    BY <2>1
  <2> DEFINE e == l[n]
             x == ResumeData(s, e)
  <2> HIDE DEF T, e, x
  <2>3. e \in Rest(l, n - 1) /\ Rest(l, n) \subseteq Rest(l, n - 1)
        /\ Rest(l, n - 1) \subseteq Rest(l, n) \cup {e}
    BY <1>2 DEF e
  <2>4. Fine(x, {}, {}, {}, {}, {}, Rest(l, n)) /\ Pending(x, HeldReqs) /\ x \in Follow(s)
    BY <2>2, <2>3, ResumeDataFine DEF x
  <2>5. x \in Follow(w)
    BY <2>2, <2>4 DEF Follow
  <2> QED
    BY <2>1, <2>4, <2>5 DEF T, x, e
<1>5. z \in T[Len(l)]
  <2> HIDE DEF T
  <2> QED
    BY <1>2, <1>3, <1>4, ResumeDataTurns
<1> HIDE DEF z
<1>6. Fine(z, {}, {}, {}, {}, {}, Rest(l, Len(l))) /\ Pending(z, HeldReqs)
  <2>1. Len(l) \in 0 .. Len(l)
    BY <1>2
  <2> QED
    BY <1>5, <2>1
<1> QED
  BY <1>2, <1>6 DEF z

LEMMA ResumeFine ==
    ASSUME NEW w, Fine(w, {}, {}, {}, {}, {}, {}), Pending(w, Reqs)
    PROVE  LET z == ResumePrivate(w) IN Fine(z, {}, {}, {}, {}, {}, {}) /\ Pending(z, Reqs)
<1> DEFINE n == 1 - Slot
           s == w.cpu.slots[n]
           v == [s EXCEPT !.resumed = FALSE]
           y == WithSlot(w, n, v)
           ok == w.cpu.instrPausers # <<>> \/ w.cpu.dataPausers # <<>>
           w0 == Fail(y, "resume", ok)
           i0 == WithInstrPausers(w0, <<>>)
           w1 == InTurn(ResumeInstr, i0, w0.cpu.instrPausers)
           d1 == WithDataPausers(w1, <<>>)
           w2 == InTurn(ResumeData, d1, w1.cpu.dataPausers)
           z == ResumePrivate(w)
<1>1. w \in Good /\ w \in Worlds /\ Kinds(w) /\ n \in {0, 1}
  BY SlotsAre DEF Good, Fine, Sound
<1>2. v \in Slots /\ v.scheduled = s.scheduled /\ v.instr = s.instr /\ v.data = s.data
  <2>1. s \in Slots
    BY <1>1, CoreIs
  <2> QED
    BY <2>1 DEF Slots
<1>3. z = w \/ z = w2
  BY DEF ResumePrivate, WithSlot, WithInstrPausers, WithDataPausers
<1>4. y \in Good /\ Calm(y, w) /\ Kinds(y) /\ SameSent(y, w)
  <2> HIDE DEF v, n
  <2> QED
    BY <1>1, <1>2, FlagDoes
<1> HIDE DEF y, z
<1>5. Fine(y, {}, {}, {}, {}, {}, {}) /\ Pending(y, Reqs)
  BY <1>4, SentFine
<1>6. Fine(w0, {}, {}, {}, {}, {}, {}) /\ Pending(w0, Reqs)
  <2> HIDE DEF ok
  <2> QED
    BY <1>5, ResumeFailFine
<1> HIDE DEF w0
<1>7. Fine(i0, {}, {}, {}, {}, Range(w0.cpu.instrPausers), {}) /\ Pending(i0, Reqs) /\ i0 \in Follow(w0)
  BY <1>6, InstrListTaken
<1> HIDE DEF i0
<1>8. w0.cpu.instrPausers \in Seq(Used(i0))
  <2>1. w0.cpu.instrPausers \in Seq(Used(w0)) /\ Stamps(i0) = Stamps(w0)
    BY <1>6, <1>7 DEF Fine, Sound, Good, Placed, Follow
  <2> QED
    BY <2>1, StampIs
<1>9. Fine(w1, {}, {}, {}, {}, {}, {}) /\ Pending(w1, Reqs)
  BY <1>7, <1>8, InstrPausersFine
<1> HIDE DEF w1
<1>10. Fine(d1, {}, {}, {}, {}, {}, Range(w1.cpu.dataPausers)) /\ Pending(d1, HeldReqs) /\ d1 \in Follow(w1)
  BY <1>9, DataListTaken
<1> HIDE DEF d1
<1>11. w1.cpu.dataPausers \in Seq(Used(d1))
  <2>1. w1.cpu.dataPausers \in Seq(Used(w1)) /\ Stamps(d1) = Stamps(w1)
    BY <1>9, <1>10 DEF Fine, Sound, Good, Placed, Follow
  <2> QED
    BY <2>1, StampIs
<1>12. Fine(w2, {}, {}, {}, {}, {}, {}) /\ Pending(w2, HeldReqs)
  BY <1>10, <1>11, DataPausersFine
<1> HIDE DEF w2
<1>13. Pending(w2, Reqs)
  BY <1>12 DEF Pending, HeldReqs
<1> QED
  BY <1>3, <1>12, <1>13 DEF z

-----------------------------------------------------------------------------
(* The answers of a slot are processed *)

Injective(l) == \A m, n \in DOMAIN l : l[m] = l[n] => m = n

LEMMA RestLess ==
    ASSUME NEW S, NEW l \in Seq(S), Injective(l)
    PROVE  \A n \in 1 .. Len(l) : Rest(l, n) = Rest(l, n - 1) \ {l[n]}
<1>1. DOMAIN l = 1 .. Len(l) /\ Len(l) \in Nat
  BY LenProperties
<1>2. ASSUME NEW n \in 1 .. Len(l) PROVE l[n] \notin Rest(l, n)
  <2>1. ASSUME NEW m \in n + 1 .. Len(l) PROVE l[m] # l[n]
    <3>1. m \in DOMAIN l /\ n \in DOMAIN l /\ m # n
      BY <1>1
    <3> QED
      BY <3>1 DEF Injective
  <2> QED
    BY <2>1 DEF Rest
<1> QED
  BY <1>2, RestIs

\* The messages about a cache are taken from the slot of the cycle.
LEMMA SlotTaken ==
    ASSUME NEW w, NEW H, Fine(w, {}, {}, {}, {}, {}, {}), Pending(w, H),
           NEW n \in {0, 1}, NEW k \in CacheNames, NEW v \in Slots,
           v.scheduled = w.cpu.slots[n].scheduled, v[k] = <<>>,
           \A j \in CacheNames \ {k} : v[j] = w.cpu.slots[n][j]
    PROVE  LET l == w.cpu.slots[n][k]
               z == WithSlot(w, n, v)
           IN /\ l \in Seq({r \in Reqs : r.kind = k /\ IsRead(r)}) /\ Injective(l)
              /\ Fine(z, {}, Range(l), {}, {}, {}, {}) /\ Pending(z, H) /\ z \in Follow(w)
<1> DEFINE l == w.cpu.slots[n][k]
           z == WithSlot(w, n, v)
           R == Range(l)
           S == {r \in Reqs : r.kind = k /\ IsRead(r)}
           O == {}
<1>1. w \in Good /\ w \in Worlds /\ Kinds(w) /\ Placing(w, {}, {})
  BY DEF Fine, Sound, Loads, Good
<1>2. l \in Seq(Reqs) /\ DOMAIN l = 1 .. Len(l) /\ Len(l) \in Nat
  BY <1>1, SlotIs, LenProperties
<1>3. \A i \in DOMAIN l : l[i] \in S
  <2>1. \A i \in DOMAIN l : l[i] \in Reqs
    BY <1>2, ElementOfSeq
  <2> QED
    BY <1>1, <2>1 DEF Kinds
<1>4. l \in Seq(S)
  <2> HIDE DEF l, S
  <2>1. l = [i \in 1 .. Len(l) |-> l[i]]
    BY <1>2
  <2> QED
    BY <1>2, <1>3, <2>1
<1>5. ASSUME NEW q \in Reqs PROVE Sent(w, q) \in {0, 1}
  <2>1. Load(w, {}, {}, q) \in {0, 1}
    BY <1>1 DEF Placing
  <2>2. /\ Sent(w, q) \in Nat
        /\ Load(w, {}, {}, q) = Sent(w, q) + One(q \in {}) + One(q \in {}) + One(Paused(w, q))
    BY <1>1, LoadIs
  <2> QED
    BY <2>1, <2>2 DEF One
<1>6. R \subseteq S /\ \A q : q \in R <=> \E i \in DOMAIN l : l[i] = q
  <2> HIDE DEF l, S
  <2> QED
    BY <1>3 DEF Range
<1> HIDE DEF R, l
<1>7. ASSUME NEW q \in S PROVE Times(l, q) = One(q \in R)
  <2>1. Times(l, q) \in Nat /\ (Times(l, q) = 0 <=> \A i \in DOMAIN l : l[i] # q)
    BY <1>2, TimesIs
  <2>2. Times(l, q) <= Sent(w, q)
    <3>1. /\ Times(w.cpu.stalled[q.kind], q) \in Nat /\ One(q \in w.atCache.reads) \in {0, 1}
          /\ Times(w.cpu.slots[0][q.kind], q) \in Nat /\ Times(w.cpu.slots[1][q.kind], q) \in Nat
      BY <1>1, SentIs
    <3>2. Times(l, q) \in {Times(w.cpu.slots[0][q.kind], q), Times(w.cpu.slots[1][q.kind], q)}
      BY DEF l
    <3> QED
      BY <3>1, <3>2 DEF Sent
  <2>3. Sent(w, q) \in {0, 1}
    BY <1>5
  <2> QED
    BY <1>6, <2>1, <2>2, <2>3 DEF One
<1>8. Injective(l)
  <2>1. ASSUME NEW i \in DOMAIN l, NEW j \in DOMAIN l, l[i] = l[j] PROVE i = j
    <3>1. l[i] \in S /\ l[i] \in Reqs
      BY <1>3
    <3>2. Times(l, l[i]) <= 1
      BY <1>7, <3>1 DEF One
    <3> QED
      BY <1>2, <2>1, <3>1, <3>2, TimesOnce
  <2> QED
    BY <2>1 DEF Injective
<1>9. /\ z \in Good /\ z \in Worlds
      /\ Queues(z) = Queues(w) /\ Lists(z) = Lists(w) /\ Ring(z) = Ring(w)
      /\ Buffer(z) = Buffer(w) /\ Turn(z) = Turn(w) /\ Clock(z) = Clock(w)
      /\ z.cpu.lsq = w.cpu.lsq /\ z.atCache = w.atCache
      /\ z.cpu.slots[n] = v /\ \A m \in {0, 1} : m # n => z.cpu.slots[m] = w.cpu.slots[m]
  BY <1>1, SlotDoes
<1> HIDE DEF z
<1>10. z.cpu.stalled = w.cpu.stalled /\ z.cpu.now = w.cpu.now /\ z.cpu.next = w.cpu.next
       /\ z.cpu.rob = w.cpu.rob
  BY <1>9 DEF Queues, Clock, Buffer
<1>11. ASSUME NEW m \in {0, 1}
       PROVE  /\ z.cpu.slots[m].scheduled = w.cpu.slots[m].scheduled
              /\ \A j \in CacheNames : z.cpu.slots[m][j] = IF m = n /\ j = k THEN <<>> ELSE w.cpu.slots[m][j]
  <2>1. CASE m = n
    BY <1>9, <2>1
  <2>2. CASE m # n
    BY <1>9, <2>2
  <2> QED
    BY <2>1, <2>2
<1>12. Calm(z, w)
  <2>1. Timing(z) = Timing(w)
    BY <1>10, <1>11 DEF Timing
  <2> QED
    BY <1>9, <2>1 DEF Calm
<1>13. Kinds(z)
  <2>1. ASSUME NEW m \in {0, 1}, NEW j \in CacheNames, NEW i \in DOMAIN z.cpu.slots[m][j]
        PROVE  z.cpu.slots[m][j][i].kind = j /\ IsRead(z.cpu.slots[m][j][i])
    <3>1. CASE m = n /\ j = k
      <4>1. z.cpu.slots[m][j] = <<>>
        BY <1>11, <3>1
      <4> QED
        BY <4>1, EmptySeq
    <3>2. CASE ~(m = n /\ j = k)
      <4>1. z.cpu.slots[m][j] = w.cpu.slots[m][j]
        BY <1>11, <3>2
      <4> QED
        BY <1>1, <4>1 DEF Kinds
    <3> QED
      BY <3>1, <3>2
  <2>2. \A j \in CacheNames : \A i \in DOMAIN z.cpu.stalled[j] : z.cpu.stalled[j][i].kind = j
    BY <1>1, <1>10 DEF Kinds
  <2>3. \A q \in z.atCache.reads : IsRead(q)
    BY <1>1, <1>9 DEF Kinds
  <2> QED
    BY <2>1, <2>2, <2>3 DEF Kinds
<1>14. ASSUME NEW q \in Reqs PROVE Sent(z, q) + One(q \in R) = Sent(w, q) /\ Sent(z, q) \in Nat
  <2>1. q.kind \in CacheNames
    BY RequestIs
  <2>2. CASE ~IsRead(q)
    <3>1. q \notin R
      BY <1>6, <2>2
    <3> QED
      BY <2>2, <3>1 DEF Sent, One
  <2>3. CASE IsRead(q) /\ q.kind # k
    <3>1. q \notin R
      BY <1>6, <2>3
    <3>2. z.cpu.slots[0][q.kind] = w.cpu.slots[0][q.kind] /\ z.cpu.slots[1][q.kind] = w.cpu.slots[1][q.kind]
      BY <1>11, <2>1, <2>3
    <3>3. Sent(z, q) = Sent(w, q) /\ Sent(w, q) \in Nat
      BY <1>1, <1>9, <1>10, <3>2, SentIs DEF Sent
    <3> QED
      BY <3>1, <3>3 DEF One
  <2>4. CASE IsRead(q) /\ q.kind = k
    <3> DEFINE o == 1 - n
               out == Times(w.cpu.stalled[k], q) + One(q \in w.atCache.reads)
               other == Times(w.cpu.slots[o][k], q)
    <3>1. o \in {0, 1} /\ o # n
      OBVIOUS
    <3>2. z.cpu.slots[o][k] = w.cpu.slots[o][k] /\ z.cpu.slots[n][k] = <<>>
      BY <1>11, <3>1
    <3>3. out \in Nat /\ other \in Nat
      BY <1>1, <2>4, <3>1, SentIs
    <3>4. Sent(w, q) = out + other + Times(l, q)
      <4>1. Sent(w, q) = out + Times(w.cpu.slots[0][k], q) + Times(w.cpu.slots[1][k], q)
        BY <2>4 DEF Sent
      <4>2. Times(w.cpu.slots[0][k], q) \in Nat /\ Times(w.cpu.slots[1][k], q) \in Nat
        BY <1>1, <2>4, SentIs
      <4>3. CASE n = 0
        <5>1. other = Times(w.cpu.slots[1][k], q) /\ Times(l, q) = Times(w.cpu.slots[0][k], q)
          BY <4>3 DEF l
        <5> HIDE DEF out, other
        <5> QED
          BY <3>3, <4>1, <4>2, <5>1
      <4>4. CASE n = 1
        <5>1. other = Times(w.cpu.slots[0][k], q) /\ Times(l, q) = Times(w.cpu.slots[1][k], q)
          BY <4>4 DEF l
        <5> HIDE DEF out, other
        <5> QED
          BY <3>3, <4>1, <4>2, <5>1
      <4> QED
        BY <4>3, <4>4
    <3>5. Times(z.cpu.slots[n][k], q) = 0
      BY <3>2, TimesEmpty
    <3>6. Sent(z, q) = out + other
      <4>1. z.cpu.stalled[k] = w.cpu.stalled[k] /\ z.atCache.reads = w.atCache.reads
        BY <1>9, <1>10
      <4>2. Times(z.cpu.slots[o][k], q) = other
        BY <3>2
      <4>3. Sent(z, q) = out + Times(z.cpu.slots[0][k], q) + Times(z.cpu.slots[1][k], q)
        BY <2>4, <4>1 DEF Sent
      <4> HIDE DEF out, other
      <4> QED
        BY <3>3, <3>5, <4>2, <4>3
    <3>7. Times(l, q) = One(q \in R)
      BY <1>7, <2>4
    <3> QED
      BY <3>3, <3>4, <3>6, <3>7 DEF One
  <2> QED
    BY <2>2, <2>3, <2>4
<1>15. SameLoads(z, O, R, w, O, O, Reqs)
  <2>1. ASSUME NEW q \in Reqs PROVE Load(z, O, R, q) = Load(w, O, O, q)
    <3>1. One(Paused(z, q)) = One(Paused(w, q)) /\ One(Paused(w, q)) \in {0, 1}
      BY <1>10 DEF Paused, One
    <3>2. One(q \in O) = 0
      BY DEF One
    <3> HIDE DEF O
    <3> QED
      BY <1>14, <3>1, <3>2 DEF Load, One
  <2> HIDE DEF O
  <2> QED
    BY <2>1 DEF SameLoads
<1>16. Awaited(z, R)
  <2>1. ASSUME NEW q \in Reqs, q.kind = "data" PROVE Sent(z, q) + One(q \in R) = 1 <=> q \in z.cpu.lsq
    <3>1. Sent(z, q) + One(q \in R) = Sent(w, q) + One(q \in {})
      BY <1>14, <2>1 DEF One
    <3> QED
      BY <1>1, <1>9, <2>1, <3>1 DEF Placing
  <2> QED
    BY <2>1 DEF Awaited
<1>17. Fine(z, O, R, O, O, O, O) /\ Pending(z, H)
  <2>1. Fine(w, O, O, O, O, O, O)
    OBVIOUS
  <2> HIDE DEF O
  <2> QED
    BY <1>9, <1>12, <1>13, <1>15, <1>16, <2>1, CalmFine
<1>18. z \in Follow(w)
  BY <1>9, SameStamps DEF Follow
<1> QED
  BY <1>4, <1>8, <1>17, <1>18 DEF z, l, R

LEMMA RequestsInjective ==
    ASSUME NEW k \in CacheNames, NEW g \in DOMAIN Trace
    PROVE  /\ Requests(k, g) \in Seq({r \in Reqs : r.kind = k /\ r.g = g}) /\ Injective(Requests(k, g))
           /\ \A r \in Reqs : r \in Range(Requests(k, g)) <=> r.kind = k /\ r.g = g
<1> DEFINE q == Requests(k, g)
<1>1. \A i \in DOMAIN q : q[i] = Request(k, g, i) /\ Request(k, g, i).i = i
                          /\ Request(k, g, i).kind = k /\ Request(k, g, i).g = g
  BY RequestOf
<1>2. ASSUME NEW r \in Reqs, r.kind = k, r.g = g PROVE r.i \in DOMAIN q /\ q[r.i] = r
  BY <1>1, <1>2, RequestHas
<1> HIDE DEF q
<1>3. Injective(q)
  <2>1. ASSUME NEW m \in DOMAIN q, NEW n \in DOMAIN q, q[m] = q[n] PROVE m = n
    <3>1. q[m].i = m /\ q[n].i = n
      BY <1>1
    <3> QED
      BY <2>1, <3>1
  <2> QED
    BY <2>1 DEF Injective
<1>4. ASSUME NEW r \in Reqs PROVE r \in Range(q) <=> r.kind = k /\ r.g = g
  <2>1. r \in Range(q) => \E i \in DOMAIN q : r = q[i]
    BY DEF Range
  <2>2. (\E i \in DOMAIN q : r = q[i]) => r \in Range(q)
    BY DEF Range
  <2> QED
    BY <1>1, <1>2, <2>1, <2>2
<1> QED
  BY <1>3, <1>4, RequestsAre DEF q

\* An answer for an instruction finds its entry.
LEMMA InstrAwaited ==
    ASSUME NEW w, NEW Y, Fine(w, {}, Y, {}, {}, {}, {}),
           NEW r \in Reqs, r.kind = "instr", r \in Y
    PROVE  LET e == EntryOf(r) IN
           /\ e \in Used(w) /\ w.cpu.rob[e].g = r.g /\ w.cpu.rob[e].state = "FETCHING"
           /\ e \in Range(w.cpu.fetchEntry) /\ Load(w, {}, Y, r) = 1 /\ Load(w, {}, Y \ {r}, r) = 0
<1> DEFINE e == EntryOf(r)
           O == {}
<1>1. w \in Good /\ w \in Worlds /\ Placing(w, O, Y) /\ Alive(w, O)
      /\ \A d \in Used(w) : Waits(w, O, Y, O, d)
  BY DEF Fine, Sound, Loads, Good
<1> HIDE DEF O
<1>2. /\ Load(w, O, Y, r) \in {0, 1} /\ Sent(w, r) \in Nat
      /\ Load(w, O, Y, r) = Sent(w, r) + One(r \in O) + One(r \in Y) + One(Paused(w, r))
      /\ Load(w, O, Y \ {r}, r) = Sent(w, r) + One(r \in O) + One(r \in Y \ {r}) + One(Paused(w, r))
  BY <1>1, LoadIs DEF Placing
<1>3. Load(w, O, Y, r) = 1 /\ Load(w, O, Y \ {r}, r) = 0
  BY <1>2 DEF One
<1>4. e \in Used(w) /\ w.cpu.rob[e].g = r.g /\ r.i \in Due(w, O, Y, e, "instr")
  BY <1>1, <1>3, LoadHas
<1>5. Waits(w, O, Y, O, e) /\ w.cpu.rob[e].state \in States
  BY <1>1, <1>4, UsedIs DEF RobEntries
<1>6. w.cpu.rob[e].state = "FETCHING"
  BY <1>4, <1>5 DEF Waits, States
<1>7. e \in Range(w.cpu.fetchEntry)
  BY <1>1, <1>4, <1>6 DEF Alive, O
<1> QED
  BY <1>3, <1>4, <1>6, <1>7 DEF O

WithInstrLeft(w, r) ==
    WithEntry(w, EntryOf(r), [w.cpu.rob[EntryOf(r)] EXCEPT !.instrLeft = @ - 1])

\* It is counted.
LEMMA InstrCounted ==
    ASSUME NEW w, NEW Y, Fine(w, {}, Y, {}, {}, {}, {}), Pending(w, Reqs),
           NEW r \in Reqs, r.kind = "instr", r \in Y
    PROVE  LET e == EntryOf(r)
               z == WithInstrLeft(w, r)
           IN /\ Fine(z, {}, Y \ {r}, {e}, {}, {}, {}) /\ Pending(z, Reqs) /\ z \in Follow(w)
              /\ z.cpu.rob[e].state = "FETCHING" /\ z.cpu.rob[e].g = r.g
<1> DEFINE e == EntryOf(r)
           t == w.cpu.rob[e]
           v == [t EXCEPT !.instrLeft = @ - 1]
           z == WithInstrLeft(w, r)
           Y1 == Y \ {r}
           O == {}
<1>1. /\ w \in Good /\ w \in Worlds /\ Kinds(w) /\ Shaped(w) /\ Loads(w, O, Y, O) /\ Placing(w, O, Y)
      /\ Fine(w, O, Y, O, O, O, O)
  BY DEF Fine, Sound, Loads, Good
<1>2. /\ e \in Used(w) /\ t.g = r.g /\ t.state = "FETCHING"
      /\ Load(w, O, Y, r) = 1 /\ Load(w, O, Y1, r) = 0
  BY InstrAwaited
<1>3. e \in Entries /\ t \in RobEntries
  <2>1. w \in Good /\ EntryOf(r) \in Used(w)
    BY <1>1, <1>2
  <2> QED
    BY <2>1, UsedIs
<1>4. /\ v \in RobEntries /\ v.g = t.g /\ v.state = t.state /\ v.instrLeft = t.instrLeft - 1
      /\ v.dataLeft = t.dataLeft /\ v.instrPause = t.instrPause /\ v.dataPause = t.dataPause
  <2>1. t \in RobEntries
    BY <1>3
  <2> HIDE DEF t, e
  <2> QED
    BY <2>1 DEF RobEntries
<1>5. z = WithEntry(w, e, v)
  BY DEF WithInstrLeft
<1> HIDE DEF v, z, O
<1>6. /\ z \in Good /\ z \in Worlds /\ Stamps(z) = Stamps(w)
      /\ Queues(z) = Queues(w) /\ Lists(z) = Lists(w) /\ Ring(z) = Ring(w)
      /\ Answers(z) = Answers(w) /\ Turn(z) = Turn(w) /\ Timing(z) = Timing(w)
      /\ z.cpu.rob[e] = v /\ (\A d \in Entries \ {e} : z.cpu.rob[d] = w.cpu.rob[d])
      /\ Kinds(z) /\ \A q \in Reqs : Sent(z, q) = Sent(w, q)
  <2>1. v \in RobEntries /\ v.g = w.cpu.rob[e].g
    BY <1>4
  <2> QED
    BY <1>1, <1>3, <1>5, <2>1, EntryDoes
<1>7. ASSUME NEW q \in Reqs PROVE One(Paused(z, q)) = One(Paused(w, q))
  <2>1. EntryOf(q) \in Entries
    BY RequestIs
  <2>2. CASE EntryOf(q) = e
    BY <1>4, <1>6, <2>2 DEF Paused, One
  <2>3. CASE EntryOf(q) # e
    BY <1>6, <2>1, <2>3 DEF Paused, One
  <2> QED
    BY <2>2, <2>3
<1>8. SameLoads(z, O, Y1, w, O, Y, Reqs \ {r}) /\ Load(z, O, Y1, r) = 0
  <2>1. ASSUME NEW q \in Reqs PROVE Load(z, O, Y1, q) = Load(w, O, Y1, q)
    BY <1>6, <1>7 DEF Load
  <2>2. ASSUME NEW q \in Reqs \ {r} PROVE Load(w, O, Y1, q) = Load(w, O, Y, q)
    BY DEF Load, One
  <2> QED
    BY <1>2, <2>1, <2>2 DEF SameLoads
<1>9. SameTallies(z, w, Used(w) \ {e}) /\ CountsOff(z, w, r)
  <2>1. \A d \in Used(w) \ {e} : z.cpu.rob[d] = w.cpu.rob[d]
    BY <1>6 DEF Used
  <2> QED
    BY <1>4, <1>6, <2>1 DEF SameTallies, CountsOff, Tally
<1>10. Awaited(z, Y1)
  <2>1. z.cpu.lsq = w.cpu.lsq
    BY <1>6 DEF Answers
  <2>2. ASSUME NEW q \in Reqs, q.kind = "data" PROVE Sent(z, q) + One(q \in Y1) = 1 <=> q \in z.cpu.lsq
    <3>1. Sent(z, q) = Sent(w, q) /\ (q \in Y1 <=> q \in Y)
      BY <1>6, <2>2
    <3> QED
      BY <1>1, <2>1, <2>2, <3>1 DEF Placing
  <2> QED
    BY <2>2 DEF Awaited
<1>11. Loads(z, O, Y1, {e})
  <2>1. Loads(z, O, Y1, O \cup {EntryOf(r)})
    BY <1>1, <1>2, <1>6, <1>8, <1>9, <1>10, LoadsDrop
  <2> QED
    BY <2>1 DEF O
<1>12. ASSUME NEW d \in Used(w)
       PROVE  /\ z.cpu.rob[d].instrPause = w.cpu.rob[d].instrPause
              /\ z.cpu.rob[d].dataPause = w.cpu.rob[d].dataPause
              /\ z.cpu.rob[d].state = w.cpu.rob[d].state
  <2>1. CASE d = e
    BY <1>4, <1>6, <2>1
  <2>2. CASE d # e
    BY <1>6, <2>2 DEF Used
  <2> QED
    BY <2>1, <2>2
<1>13. Fine(z, O, Y1, {e}, O, O, O)
  BY <1>1, <1>6, <1>11, <1>12, FineKept
<1>14. Pending(z, Reqs)
  <2>1. z.cpu.dataPausers = w.cpu.dataPausers
    BY <1>6 DEF Lists
  <2> QED
    BY <1>1, <1>6, <1>12, <2>1, PendingKept
<1>15. z.cpu.rob[e].state = "FETCHING" /\ z.cpu.rob[e].g = r.g /\ z \in Follow(w)
  BY <1>2, <1>4, <1>6 DEF Follow
<1> QED
  BY <1>13, <1>14, <1>15 DEF O, z

WithState(w, e, state) == WithEntry(w, e, [w.cpu.rob[e] EXCEPT !.state = state])

\* The last answer for an instruction: its data accesses are to be sent.
LEMMA DataToSend ==
    ASSUME NEW w, NEW Y, NEW e \in Used(w), Fine(w, {}, Y, {e}, {}, {}, {}), Pending(w, Reqs),
           w.cpu.rob[e].state = "FETCHING", ~(w.cpu.rob[e].instrLeft > 0)
    PROVE  LET z == WithState(w, e, "DATA") IN
           /\ Fine(z, Range(Requests("data", w.cpu.rob[e].g)), Y, {e}, {}, {}, {}) /\ Pending(z, Reqs)
           /\ z \in Follow(w) /\ z.cpu.rob[e].state = "DATA"
<1> DEFINE t == w.cpu.rob[e]
           v == [t EXCEPT !.state = "DATA"]
           z == WithState(w, e, "DATA")
           X == Range(Requests("data", t.g))
           O == {}
           B == {e}
<1>1. /\ w \in Good /\ w \in Worlds /\ Kinds(w) /\ Shaped(w) /\ Placing(w, O, Y)
      /\ (\A d \in Used(w) : Waits(w, O, Y, B, d)) /\ Fine(w, O, Y, B, O, O, O)
  BY DEF Fine, Sound, Loads, Good
<1>2. e \in Entries /\ t \in RobEntries /\ t.g \in DOMAIN Trace
  BY <1>1, UsedIs
<1>3. /\ v \in RobEntries /\ v.g = t.g /\ v.state = "DATA" /\ v.instrLeft = t.instrLeft
      /\ v.dataLeft = t.dataLeft /\ v.instrPause = t.instrPause /\ v.dataPause = t.dataPause
  BY <1>2 DEF RobEntries, States
<1>4. z = WithEntry(w, e, v)
  BY DEF WithState
<1>5. \A r \in Reqs : r \in X <=> r.kind = "data" /\ r.g = t.g
  <2>1. ASSUME NEW g \in DOMAIN Trace
        PROVE  \A r \in Reqs : r \in Range(Requests("data", g)) <=> r.kind = "data" /\ r.g = g
    BY Constants, RequestsInjective
  <2> QED
    BY <1>2, <2>1
<1> HIDE DEF v, z, O, B, X
<1>6. /\ z \in Good /\ z \in Worlds /\ Stamps(z) = Stamps(w)
      /\ Queues(z) = Queues(w) /\ Lists(z) = Lists(w) /\ Ring(z) = Ring(w)
      /\ Answers(z) = Answers(w) /\ Turn(z) = Turn(w) /\ Timing(z) = Timing(w)
      /\ z.cpu.rob[e] = v /\ (\A d \in Entries \ {e} : z.cpu.rob[d] = w.cpu.rob[d])
      /\ Kinds(z) /\ \A q \in Reqs : Sent(z, q) = Sent(w, q)
  <2>1. v \in RobEntries /\ v.g = w.cpu.rob[e].g
    BY <1>3
  <2> QED
    BY <1>1, <1>2, <1>4, <2>1, EntryDoes
<1>7. /\ Due(w, O, Y, e, "instr") = {} /\ Due(w, O, Y, e, "data") = {}
      /\ t.dataLeft = Len(Trace[t.g].data)
  <2>1. Waits(w, O, Y, B, e)
    BY <1>1
  <2>2. /\ Cardinality(Due(w, O, Y, e, "instr")) \in Nat
        /\ Cardinality(Due(w, O, Y, e, "instr")) = 0 <=> Due(w, O, Y, e, "instr") = {}
    BY <1>1, Constants, DueIs
  <2> QED
    BY <2>1, <2>2 DEF Waits
<1>8. ASSUME NEW q \in Reqs PROVE One(Paused(z, q)) = One(Paused(w, q))
  <2>1. EntryOf(q) \in Entries
    BY RequestIs
  <2>2. CASE EntryOf(q) = e
    BY <1>3, <1>6, <2>2 DEF Paused, One
  <2>3. CASE EntryOf(q) # e
    BY <1>6, <2>1, <2>3 DEF Paused, One
  <2> QED
    BY <2>2, <2>3
<1>9. ASSUME NEW q \in Reqs
      PROVE  Load(z, X, Y, q) = IF q \in X THEN 1 ELSE Load(w, O, Y, q)
  <2>1. Load(z, X, Y, q) = Sent(w, q) + One(q \in X) + One(q \in Y) + One(Paused(w, q))
    BY <1>6, <1>8 DEF Load
  <2>2. /\ Load(w, O, Y, q) = Sent(w, q) + One(q \in O) + One(q \in Y) + One(Paused(w, q))
        /\ Load(w, O, Y, q) \in {0, 1} /\ Sent(w, q) \in Nat
    BY <1>1, LoadIs DEF Placing
  <2>3. One(q \in O) = 0
    BY DEF One, O
  <2>4. CASE q \in X
    <3>1. q.kind = "data" /\ q.g = t.g
      BY <1>5, <2>4
    <3>2. Load(w, O, Y, q) # 1
      BY <1>1, <1>7, <3>1, Constants, DueIs
    <3> QED
      BY <2>1, <2>2, <2>3, <2>4, <3>2 DEF One
  <2>5. CASE q \notin X
    BY <2>1, <2>2, <2>3, <2>5 DEF One
  <2> QED
    BY <2>4, <2>5
<1>10. Placing(z, X, Y)
  <2>1. z.cpu.lsq = w.cpu.lsq
    BY <1>6 DEF Answers
  <2>2. ASSUME NEW q \in Reqs
        PROVE  /\ Load(z, X, Y, q) \in {0, 1}
               /\ Load(z, X, Y, q) = 1 => z.cpu.rob[EntryOf(q)].g = q.g
    <3>1. z.cpu.rob[EntryOf(q)].g = w.cpu.rob[EntryOf(q)].g
      BY <1>6, RequestIs, StampIs
    <3>2. CASE q \in X
      <4>1. q.g = t.g
        BY <1>5, <3>2
      <4>2. EntryOf(q) = e
        BY <1>1, <4>1, ShapedEntry
      <4> QED
        BY <1>9, <3>1, <3>2, <4>1, <4>2
    <3>3. CASE q \notin X
      BY <1>1, <1>9, <3>1, <3>3 DEF Placing
    <3> QED
      BY <3>2, <3>3
  <2>3. ASSUME NEW q \in Reqs, q.kind = "data" PROVE Sent(z, q) + One(q \in Y) = 1 <=> q \in z.cpu.lsq
    BY <1>1, <1>6, <2>1, <2>3 DEF Placing
  <2> QED
    BY <2>2, <2>3 DEF Placing
<1>11. ASSUME NEW d \in Used(z) PROVE Waits(z, X, Y, B, d)
  <2>1. d \in Used(w) /\ d \in Entries /\ z.cpu.rob[d].g = w.cpu.rob[d].g /\ w.cpu.rob[d].g \in DOMAIN Trace
    BY <1>1, <1>6, StampIs, UsedIs DEF Used
  <2>2. Waits(w, O, Y, B, d)
    BY <1>1, <2>1
  <2>3. CASE d # e
    <3>1. ASSUME NEW k \in CacheNames, NEW i \in DOMAIN Requests(k, w.cpu.rob[d].g)
          PROVE  Load(z, X, Y, Request(k, w.cpu.rob[d].g, i)) = Load(w, O, Y, Request(k, w.cpu.rob[d].g, i))
      <4> DEFINE q == Request(k, w.cpu.rob[d].g, i)
      <4>1. q \in Reqs /\ q.g = w.cpu.rob[d].g
        BY <2>1, RequestOf
      <4> HIDE DEF q
      <4>2. EntryOf(q) = d
        BY <1>1, <2>1, <4>1, ShapedEntry
      <4>3. q \notin X
        <5>1. SUFFICES ASSUME q.g = t.g PROVE FALSE
          BY <1>5, <4>1
        <5>2. EntryOf(q) = e
          BY <1>1, <4>1, <5>1, ShapedEntry
        <5> QED
          BY <2>3, <4>2, <5>2
      <4> QED
        BY <1>9, <4>1, <4>3 DEF q
    <3>2. \A k \in CacheNames : Due(z, X, Y, d, k) = Due(w, O, Y, d, k)
      BY <2>1, <3>1 DEF Due
    <3>3. Due(z, X, Y, d, "instr") = Due(w, O, Y, d, "instr") /\ Due(z, X, Y, d, "data") = Due(w, O, Y, d, "data")
      BY <3>2, Constants
    <3>4. z.cpu.rob[d] = w.cpu.rob[d]
      BY <1>6, <2>1, <2>3
    <3> QED
      BY <2>2, <3>3, <3>4 DEF Waits
  <2>4. CASE d = e
    <3> DEFINE N == DOMAIN Requests("data", t.g)
    <3>1. Due(z, X, Y, e, "instr") = {}
      <4>1. ASSUME NEW i \in DOMAIN Requests("instr", t.g)
            PROVE  Load(z, X, Y, Request("instr", t.g, i)) = Load(w, O, Y, Request("instr", t.g, i))
        <5>1. Request("instr", t.g, i) \in Reqs /\ Request("instr", t.g, i).kind = "instr"
          BY <1>2, Constants, RequestOf
        <5>2. Request("instr", t.g, i) \notin X
          BY <1>5, <5>1
        <5> QED
          BY <1>9, <5>1, <5>2
      <4>2. Due(z, X, Y, e, "instr") = Due(w, O, Y, e, "instr")
        BY <2>1, <2>4, <4>1 DEF Due
      <4> QED
        BY <1>7, <4>2
    <3>2. Due(z, X, Y, e, "data") = N
      <4>1. ASSUME NEW i \in N PROVE Load(z, X, Y, Request("data", t.g, i)) = 1
        <5>1. Request("data", t.g, i) \in Reqs /\ Request("data", t.g, i).kind = "data"
              /\ Request("data", t.g, i).g = t.g
          BY <1>2, Constants, RequestOf
        <5>2. Request("data", t.g, i) \in X
          BY <1>5, <5>1
        <5> QED
          BY <1>9, <5>1, <5>2
      <4> QED
        BY <2>1, <2>4, <4>1 DEF Due
    <3>3. Cardinality(N) = Len(Trace[t.g].data)
      BY <1>2, Constants, RequestsDomain
    <3> HIDE DEF N
    <3>4. z.cpu.rob[e].state = "DATA" /\ z.cpu.rob[e].dataLeft = Cardinality(N)
      BY <1>3, <1>6, <1>7, <3>3
    <3>5. e \in B
      BY DEF B
    <3> QED
      BY <2>4, <3>1, <3>2, <3>4, <3>5 DEF Waits
  <2> QED
    BY <2>3, <2>4
<1>12. Loads(z, X, Y, B)
  BY <1>10, <1>11 DEF Loads
<1>13. ASSUME NEW d \in Used(w)
       PROVE  /\ z.cpu.rob[d].instrPause = w.cpu.rob[d].instrPause
              /\ z.cpu.rob[d].dataPause = w.cpu.rob[d].dataPause
              /\ z.cpu.rob[d].state # w.cpu.rob[d].state =>
                     w.cpu.rob[d].state # "DONE" /\ z.cpu.rob[d].state # "FETCHING"
  <2>1. CASE d = e
    BY <1>3, <1>6, <2>1
  <2>2. CASE d # e
    BY <1>6, <2>2 DEF Used
  <2> QED
    BY <2>1, <2>2
<1>14. Fine(z, X, Y, B, O, O, O)
  BY <1>1, <1>6, <1>12, <1>13, FineKept
<1>15. Pending(z, Reqs)
  <2>1. z.cpu.dataPausers = w.cpu.dataPausers
    BY <1>6 DEF Lists
  <2> QED
    BY <1>1, <1>6, <1>13, <2>1, PendingKept
<1>16. z \in Follow(w) /\ z.cpu.rob[e].state = "DATA"
  BY <1>3, <1>6 DEF Follow
<1> QED
  BY <1>14, <1>15, <1>16 DEF O, B, X, z

\* An entry that still waits for answers has been counted.
LEMMA StillWaits ==
    ASSUME NEW w, NEW X, NEW Y, NEW e, NEW E, NEW Zi, NEW Zd, Fine(w, X, Y, {e}, E, Zi, Zd),
           w.cpu.rob[e].state = "FETCHING", w.cpu.rob[e].instrLeft > 0
    PROVE  Fine(w, X, Y, {}, E, Zi, Zd)
<1>1. Placing(w, X, Y) /\ \A d \in Used(w) : Waits(w, X, Y, {e}, d)
  BY DEF Fine, Loads
<1>2. ASSUME NEW d \in Used(w) PROVE Waits(w, X, Y, {}, d)
  <2>1. Waits(w, X, Y, {e}, d)
    BY <1>1
  <2>2. CASE d = e
    BY <2>1, <2>2 DEF Waits
  <2>3. CASE d # e
    BY <2>1, <2>3 DEF Waits
  <2> QED
    BY <2>2, <2>3
<1>3. Loads(w, X, Y, {})
  BY <1>1, <1>2 DEF Loads
<1> QED
  BY <1>3 DEF Fine

\* The data accesses of an entry are sent.
LEMMA DataIssued ==
    ASSUME NEW w, NEW Y, NEW e \in Used(w), NEW g \in DOMAIN Trace, w.cpu.rob[e].g = g,
           Fine(w, Range(Requests("data", g)), Y, {e}, {}, {}, {}), Pending(w, Reqs),
           w.cpu.rob[e].state = "DATA"
    PROVE  LET z == DoneIfNothingLeft(InTurn(IssueData, w, Requests("data", g)), e) IN
           Fine(z, {}, Y, {}, {}, {}, {}) /\ Pending(z, Reqs) /\ z \in Follow(w)
<1> DEFINE q == Requests("data", g)
           T == [n \in 0 .. Len(q) |->
                     {s \in Follow(w) : /\ Fine(s, Rest(q, n), Y, {e}, {}, {}, {}) /\ Pending(s, Reqs)
                                        /\ s.cpu.rob[e].state = "DATA"}]
           t == InTurn(IssueData, w, q)
           S == {r \in Reqs : r.kind = "data" /\ r.g = g}
           B == {e}
           O == {}
<1>1. w \in Good /\ Shaped(w) /\ w \in Follow(w)
  BY DEF Fine, Sound, Follow
<1>2. q \in Seq(S) /\ Injective(q)
  <2> DEFINE k == "data"
  <2>1. k \in CacheNames /\ g \in DOMAIN Trace
    BY Constants
  <2> HIDE DEF k
  <2>2. Requests(k, g) \in Seq({r \in Reqs : r.kind = k /\ r.g = g}) /\ Injective(Requests(k, g))
    BY <2>1, RequestsInjective
  <2> QED
    BY <2>2 DEF k, q, S
<1> HIDE DEF q, S
<1>3. /\ Len(q) \in Nat /\ Rest(q, 0) = Range(q) /\ Rest(q, Len(q)) = {}
      /\ \A n \in 1 .. Len(q) : q[n] \in S /\ q[n] \in Rest(q, n - 1) /\ Rest(q, n) = Rest(q, n - 1) \ {q[n]}
  BY <1>2, RestIs, RestLess
<1>4. w \in T[0]
  <2>1. Fine(w, Rest(q, 0), Y, {e}, {}, {}, {})
    BY <1>3 DEF q
  <2> QED
    BY <1>1, <1>3, <2>1
<1>5. ASSUME NEW n \in 1 .. Len(q), NEW s \in T[n - 1] PROVE IssueData(s, q[n]) \in T[n]
  <2> DEFINE r == q[n]
             z == IssueData(s, r)
             X == Rest(q, n - 1)
  <2>1. /\ s \in Follow(w) /\ Fine(s, X, Y, {e}, {}, {}, {}) /\ Pending(s, Reqs)
        /\ s.cpu.rob[e].state = "DATA"
    BY <1>3
  <2>2. r \in Reqs /\ r.kind = "data" /\ r.g = g /\ r \in X
    BY <1>3 DEF S
  <2>3. EntryOf(r) = e
    BY <1>1, <2>2, ShapedEntry
  <2> HIDE DEF r, X
  <2>4. /\ Fine(z, X \ {r}, Y, B, O, O, O) /\ Pending(z, Reqs) /\ z \in Follow(s)
        /\ z.cpu.rob[EntryOf(r)].state = s.cpu.rob[EntryOf(r)].state
    <3>1. Fine(s, X, Y, B, O, O, O) /\ EntryOf(r) \in B
      BY <2>1, <2>3
    <3> HIDE DEF B, O
    <3> QED
      BY <2>1, <2>2, <3>1, IssueDataFine
  <2> HIDE DEF z
  <2>5. z \in Follow(w) /\ z.cpu.rob[e].state = "DATA" /\ Fine(z, X \ {r}, Y, {e}, {}, {}, {})
    BY <2>1, <2>3, <2>4 DEF Follow
  <2>6. X \ {r} = Rest(q, n)
    BY <1>3 DEF X, r
  <2>7. Fine(z, Rest(q, n), Y, {e}, {}, {}, {})
    BY <2>5, <2>6
  <2>8. n \in 0 .. Len(q)
    BY <1>3
  <2> QED
    BY <2>4, <2>5, <2>7, <2>8 DEF z, r
<1>6. t \in T[Len(q)]
  <2> HIDE DEF T
  <2> QED
    BY <1>3, <1>4, <1>5, IssueDataTurns
<1>7. /\ t \in Follow(w) /\ Fine(t, O, Y, B, O, O, O) /\ Pending(t, Reqs) /\ t.cpu.rob[e].state = "DATA"
  <2>1. Len(q) \in 0 .. Len(q)
    BY <1>3
  <2> HIDE DEF t
  <2>2. t \in Follow(w) /\ Fine(t, Rest(q, Len(q)), Y, {e}, {}, {}, {}) /\ Pending(t, Reqs)
        /\ t.cpu.rob[e].state = "DATA"
    BY <1>6, <2>1
  <2> QED
    BY <1>3, <2>2
<1> HIDE DEF t, T
<1>8. LET z == DoneIfNothingLeft(t, e) IN
      Fine(z, O, Y, B \ {e}, O, O, O) /\ Pending(z, Reqs) /\ z \in Follow(t)
  <2>1. e \in Used(t)
    BY <1>7 DEF Follow, Used
  <2> HIDE DEF O, B
  <2> QED
    BY <1>7, <2>1, DoneFine
<1>9. B \ {e} = {}
  OBVIOUS
<1>10. DoneIfNothingLeft(t, e) \in Follow(w)
  BY <1>7, <1>8 DEF Follow
<1> QED
  BY <1>8, <1>9, <1>10 DEF t, q

LEMMA InstrAnswerFine ==
    ASSUME NEW w, NEW Y, Fine(w, {}, Y, {}, {}, {}, {}), Pending(w, Reqs),
           NEW r \in Reqs, r.kind = "instr", r \in Y
    PROVE  LET z == InstrAnswer(w, r) IN
           Fine(z, {}, Y \ {r}, {}, {}, {}, {}) /\ Pending(z, Reqs) /\ z \in Follow(w)
<1> DEFINE e == EntryOf(r)
           Y1 == Y \ {r}
           y == WithInstrLeft(w, r)
           u == WithState(y, e, "DATA")
           z == InstrAnswer(w, r)
<1>1. w \in Good /\ r.g \in DOMAIN Trace
  BY RequestIs DEF Fine, Sound
<1>2. /\ e \in Used(w) /\ w.cpu.rob[e].g = r.g /\ w.cpu.rob[e].state = "FETCHING"
      /\ e \in Range(w.cpu.fetchEntry)
  BY InstrAwaited
<1>3. /\ Fine(y, {}, Y1, {e}, {}, {}, {}) /\ Pending(y, Reqs) /\ y \in Follow(w)
      /\ y.cpu.rob[e].state = "FETCHING" /\ y.cpu.rob[e].g = r.g
  BY InstrCounted
<1>4. z = IF y.cpu.rob[e].instrLeft > 0 THEN y
          ELSE DoneIfNothingLeft(InTurn(IssueData, u, Requests("data", r.g)), e)
  BY <1>2 DEF InstrAnswer, WithInstrLeft, WithState, WithEntry
<1>5. e \in Used(y)
  BY <1>2, <1>3 DEF Follow, Used
<1> HIDE DEF y, z, Y1, e, u
<1>6. CASE y.cpu.rob[e].instrLeft > 0
  <2>1. Fine(y, {}, Y1, {}, {}, {}, {})
    BY <1>3, <1>6, StillWaits
  <2> QED
    BY <1>3, <1>4, <1>6, <2>1 DEF z, Y1
<1>7. CASE ~(y.cpu.rob[e].instrLeft > 0)
  <2> DEFINE D == DoneIfNothingLeft(InTurn(IssueData, u, Requests("data", r.g)), e)
  <2>1. LET x == WithState(y, e, "DATA") IN
        /\ Fine(x, Range(Requests("data", y.cpu.rob[e].g)), Y1, {e}, {}, {}, {}) /\ Pending(x, Reqs)
        /\ x \in Follow(y) /\ x.cpu.rob[e].state = "DATA"
    BY <1>3, <1>5, <1>7, DataToSend
  <2>2. /\ Fine(u, Range(Requests("data", r.g)), Y1, {e}, {}, {}, {}) /\ Pending(u, Reqs)
        /\ u \in Follow(y) /\ u.cpu.rob[e].state = "DATA"
    BY <1>3, <2>1 DEF u
  <2>3. e \in Used(u) /\ u.cpu.rob[e].g = r.g
    <3>1. Stamps(u) = Stamps(y) /\ e \in Entries
      BY <1>5, <2>2 DEF Follow, Used
    <3> QED
      BY <1>3, <1>5, <3>1, StampIs
  <2>4. Fine(D, {}, Y1, {}, {}, {}, {}) /\ Pending(D, Reqs) /\ D \in Follow(u)
    BY <1>1, <2>2, <2>3, DataIssued
  <2>5. z = D
    BY <1>4, <1>7
  <2> HIDE DEF D
  <2>6. z \in Follow(w)
    BY <1>3, <2>2, <2>4, <2>5 DEF Follow
  <2> QED
    BY <2>4, <2>5, <2>6 DEF z, Y1
<1> QED
  BY <1>6, <1>7

LEMMA ProcessInstrFine ==
    ASSUME NEW w, Fine(w, {}, {}, {}, {}, {}, {}), Pending(w, Reqs)
    PROVE  LET z == ProcessInstr(w) IN Fine(z, {}, {}, {}, {}, {}, {}) /\ Pending(z, Reqs)
<1> DEFINE n == 1 - Slot
           v == [w.cpu.slots[n] EXCEPT !.instr = <<>>]
           y == WithSlot(w, n, v)
           l == w.cpu.slots[n]["instr"]
           S == {r \in Reqs : r.kind = "instr" /\ IsRead(r)}
           T == [m \in 0 .. Len(l) |-> {s \in Good : Fine(s, {}, Rest(l, m), {}, {}, {}, {}) /\ Pending(s, Reqs)}]
           z == ProcessInstr(w)
<1>1. w \in Good /\ w \in Worlds /\ n \in {0, 1} /\ w.cpu.slots[n] \in Slots
  BY CoreIs, SlotsAre DEF Good, Fine, Sound
<1>2. /\ v \in Slots /\ v.scheduled = w.cpu.slots[n].scheduled /\ v["instr"] = <<>>
      /\ \A j \in CacheNames \ {"instr"} : v[j] = w.cpu.slots[n][j]
  <2> DEFINE s == w.cpu.slots[n]
  <2>1. s \in Slots
    BY <1>1
  <2> HIDE DEF s
  <2>2. /\ [s EXCEPT !.instr = <<>>] \in Slots /\ [s EXCEPT !.instr = <<>>].scheduled = s.scheduled
        /\ [s EXCEPT !.instr = <<>>]["instr"] = <<>> /\ [s EXCEPT !.instr = <<>>]["data"] = s["data"]
    <3>1. <<>> \in Seq(Reqs)
      BY EmptySeq
    <3>2. [s EXCEPT !.instr = <<>>] \in Slots
      BY <2>1, <3>1, SlotFields
    <3>3. [s EXCEPT !.instr = <<>>].scheduled = s.scheduled
      BY <2>1 DEF Slots
    <3>4. [s EXCEPT !.instr = <<>>].instr = <<>> /\ [s EXCEPT !.instr = <<>>].data = s.data
      BY <2>1 DEF Slots
    <3> QED
      BY <3>2, <3>3, <3>4
  <2>3. CacheNames \ {"instr"} = {"data"}
    BY DEF CacheNames
  <2> QED
    BY <2>2, <2>3 DEF s
<1> HIDE DEF n
<1>3. z = InTurn(InstrAnswer, y, l)
  BY DEF ProcessInstr, WithSlot, n
<1> HIDE DEF v
<1>4. l \in Seq(S) /\ Injective(l) /\ Fine(y, {}, Range(l), {}, {}, {}, {}) /\ Pending(y, Reqs) /\ y \in Follow(w)
  <2> DEFINE k == "instr"
  <2>1. k \in CacheNames /\ v[k] = <<>> /\ \A j \in CacheNames \ {k} : v[j] = w.cpu.slots[n][j]
    BY <1>2, Constants
  <2> HIDE DEF k
  <2>2. /\ Fine(w, {}, {}, {}, {}, {}, {}) /\ Pending(w, Reqs) /\ n \in {0, 1} /\ v \in Slots
        /\ v.scheduled = w.cpu.slots[n].scheduled
    BY <1>1, <1>2
  <2>3. LET c == w.cpu.slots[n][k]
            x == WithSlot(w, n, v)
        IN /\ c \in Seq({r \in Reqs : r.kind = k /\ IsRead(r)}) /\ Injective(c)
           /\ Fine(x, {}, Range(c), {}, {}, {}, {}) /\ Pending(x, Reqs) /\ x \in Follow(w)
    BY <2>1, <2>2, SlotTaken
  <2> QED
    BY <2>3 DEF k
<1> HIDE DEF y, S, l
<1>5. /\ Len(l) \in Nat /\ Rest(l, 0) = Range(l) /\ Rest(l, Len(l)) = {}
      /\ \A m \in 1 .. Len(l) : l[m] \in S /\ l[m] \in Rest(l, m - 1) /\ Rest(l, m) = Rest(l, m - 1) \ {l[m]}
  BY <1>4, RestIs, RestLess
<1>6. y \in T[0]
  <2>1. Fine(y, {}, Rest(l, 0), {}, {}, {}, {})
    BY <1>4, <1>5
  <2> QED
    BY <1>4, <1>5, <2>1 DEF Follow
<1>7. ASSUME NEW m \in 1 .. Len(l), NEW s \in T[m - 1] PROVE InstrAnswer(s, l[m]) \in T[m]
  <2> DEFINE r == l[m]
             x == InstrAnswer(s, r)
             Y == Rest(l, m - 1)
  <2>1. s \in Good /\ Fine(s, {}, Y, {}, {}, {}, {}) /\ Pending(s, Reqs)
    BY <1>5
  <2>2. r \in Reqs /\ r.kind = "instr" /\ r \in Y
    BY <1>5 DEF S
  <2>3. Y \ {r} = Rest(l, m) /\ m \in 0 .. Len(l)
    BY <1>5
  <2> HIDE DEF r, Y
  <2>4. Fine(x, {}, Y \ {r}, {}, {}, {}, {}) /\ Pending(x, Reqs) /\ x \in Follow(s)
    BY <2>1, <2>2, InstrAnswerFine
  <2> HIDE DEF x
  <2>5. Fine(x, {}, Rest(l, m), {}, {}, {}, {}) /\ x \in Good
    BY <2>3, <2>4 DEF Follow
  <2> QED
    BY <2>3, <2>4, <2>5 DEF x, r
<1>8. z \in T[Len(l)]
  <2> HIDE DEF T, z
  <2> QED
    BY <1>3, <1>5, <1>6, <1>7, InstrAnswerTurns
<1>9. Len(l) \in 0 .. Len(l)
  BY <1>5
<1> HIDE DEF z
<1>10. Fine(z, {}, Rest(l, Len(l)), {}, {}, {}, {}) /\ Pending(z, Reqs)
  BY <1>8, <1>9
<1> QED
  BY <1>5, <1>10 DEF z

\* An answer for a datum finds its entry.
LEMMA DataAwaited ==
    ASSUME NEW w, NEW Y, Fine(w, {}, Y, {}, {}, {}, {}),
           NEW r \in Reqs, r.kind = "data", r \in Y
    PROVE  LET e == EntryOf(r) IN
           /\ e \in Used(w) /\ w.cpu.rob[e].g = r.g /\ w.cpu.rob[e].state = "DATA"
           /\ r \in w.cpu.lsq /\ Load(w, {}, Y, r) = 1 /\ Load(w, {}, Y \ {r}, r) = 0 /\ Sent(w, r) = 0
<1> DEFINE e == EntryOf(r)
           O == {}
<1>1. w \in Good /\ w \in Worlds /\ Placing(w, O, Y) /\ \A d \in Used(w) : Waits(w, O, Y, O, d)
  BY DEF Fine, Sound, Loads, Good
<1> HIDE DEF O
<1>2. /\ Load(w, O, Y, r) \in {0, 1} /\ Sent(w, r) \in Nat
      /\ Load(w, O, Y, r) = Sent(w, r) + One(r \in O) + One(r \in Y) + One(Paused(w, r))
      /\ Load(w, O, Y \ {r}, r) = Sent(w, r) + One(r \in O) + One(r \in Y \ {r}) + One(Paused(w, r))
  BY <1>1, LoadIs DEF Placing
<1>3. Load(w, O, Y, r) = 1 /\ Load(w, O, Y \ {r}, r) = 0 /\ Sent(w, r) = 0 /\ Sent(w, r) + One(r \in Y) = 1
  BY <1>2 DEF One
<1>4. e \in Used(w) /\ w.cpu.rob[e].g = r.g /\ r.i \in Due(w, O, Y, e, "data")
  BY <1>1, <1>3, LoadHas
<1>5. Waits(w, O, Y, O, e) /\ w.cpu.rob[e].state \in States
  BY <1>1, <1>4, UsedIs DEF RobEntries
<1>6. w.cpu.rob[e].state = "DATA"
  BY <1>4, <1>5 DEF Waits, States
<1>7. r \in w.cpu.lsq
  BY <1>1, <1>3 DEF Placing
<1> QED
  BY <1>3, <1>4, <1>6, <1>7 DEF O

WithDataLeft(w, r) ==
    [WithEntry(w, EntryOf(r), [w.cpu.rob[EntryOf(r)] EXCEPT !.dataLeft = @ - 1])
     EXCEPT !.cpu.lsq = w.cpu.lsq \ {r}]

LEMMA DataCounted ==
    ASSUME NEW w, NEW Y, Fine(w, {}, Y, {}, {}, {}, {}), Pending(w, Reqs),
           NEW r \in Reqs, r.kind = "data", r \in Y
    PROVE  LET e == EntryOf(r)
               z == WithDataLeft(w, r)
           IN /\ Fine(z, {}, Y \ {r}, {e}, {}, {}, {}) /\ Pending(z, Reqs) /\ z \in Follow(w)
              /\ z.cpu.rob[e].state = "DATA"
<1> DEFINE e == EntryOf(r)
           t == w.cpu.rob[e]
           v == [t EXCEPT !.dataLeft = @ - 1]
           a == WithEntry(w, e, v)
           q1 == w.cpu.lsq \ {r}
           z == WithDataLeft(w, r)
           Y1 == Y \ {r}
           O == {}
<1>1. /\ w \in Good /\ w \in Worlds /\ Kinds(w) /\ Shaped(w) /\ Loads(w, O, Y, O) /\ Placing(w, O, Y)
      /\ Fine(w, O, Y, O, O, O, O)
  BY DEF Fine, Sound, Loads, Good
<1>2. /\ e \in Used(w) /\ t.g = r.g /\ t.state = "DATA"
      /\ Load(w, O, Y, r) = 1 /\ Load(w, O, Y1, r) = 0 /\ Sent(w, r) = 0
  BY DataAwaited
<1>3. e \in Entries /\ t \in RobEntries /\ q1 \in SUBSET Reqs
  BY <1>1, <1>2, UsedIs, CoreIs
<1>4. /\ v \in RobEntries /\ v.g = t.g /\ v.state = t.state /\ v.instrLeft = t.instrLeft
      /\ v.dataLeft = t.dataLeft - 1 /\ v.instrPause = t.instrPause /\ v.dataPause = t.dataPause
  BY <1>3 DEF RobEntries
<1>5. z = [a EXCEPT !.cpu.lsq = q1]
  BY DEF WithDataLeft
<1> HIDE DEF v, z, O, q1, a
<1>6. /\ a \in Good /\ a \in Worlds /\ Stamps(a) = Stamps(w)
      /\ Queues(a) = Queues(w) /\ Lists(a) = Lists(w) /\ Ring(a) = Ring(w)
      /\ Answers(a) = Answers(w) /\ Turn(a) = Turn(w) /\ Timing(a) = Timing(w)
      /\ a.cpu.rob[e] = v /\ (\A d \in Entries \ {e} : a.cpu.rob[d] = w.cpu.rob[d])
      /\ Kinds(a) /\ \A q \in Reqs : Sent(a, q) = Sent(w, q)
  <2>1. v \in RobEntries /\ v.g = w.cpu.rob[e].g
    BY <1>4
  <2> QED
    BY <1>1, <1>3, <2>1, EntryDoes DEF a
<1>7. /\ z \in Worlds
      /\ Queues(z) = Queues(a) /\ Lists(z) = Lists(a) /\ Ring(z) = Ring(a)
      /\ Buffer(z) = Buffer(a) /\ Turn(z) = Turn(a) /\ Clock(z) = Clock(a)
      /\ z.cpu.lsq = q1 /\ z.cpu.slots = a.cpu.slots /\ z.atCache = a.atCache
  BY <1>3, <1>5, <1>6, SetLsq
<1>8. /\ z \in Good /\ Stamps(z) = Stamps(w) /\ Lists(z) = Lists(w) /\ Ring(z) = Ring(w)
      /\ Turn(z) = Turn(w) /\ Timing(z) = Timing(w)
      /\ z.cpu.rob[e] = v /\ (\A d \in Entries \ {e} : z.cpu.rob[d] = w.cpu.rob[d])
      /\ Kinds(z) /\ \A q \in Reqs : Sent(z, q) = Sent(w, q)
  <2>1. z \in Good
    <3>1. Keeps(z, a)
      BY <1>7, SameStamps DEF Keeps
    <3> QED
      BY <1>6, <3>1, KeepsGood
  <2>2. z.cpu.rob = a.cpu.rob /\ z.cpu.stalled = a.cpu.stalled
    BY <1>7 DEF Buffer, Queues
  <2>3. Timing(z) = Timing(a)
    BY <1>7 DEF Timing, Clock
  <2>4. Kinds(z)
    BY <1>6, <1>7, <2>2 DEF Kinds
  <2>5. \A q \in Reqs : Sent(z, q) = Sent(w, q)
    BY <1>6, <1>7, <2>2 DEF Sent
  <2>6. Stamps(z) = Stamps(a)
    BY <1>7, SameStamps
  <2> QED
    BY <1>6, <1>7, <2>1, <2>2, <2>3, <2>4, <2>5, <2>6
<1>9. ASSUME NEW q \in Reqs PROVE One(Paused(z, q)) = One(Paused(w, q))
  <2>1. EntryOf(q) \in Entries
    BY RequestIs
  <2>2. CASE EntryOf(q) = e
    BY <1>4, <1>8, <2>2 DEF Paused, One
  <2>3. CASE EntryOf(q) # e
    BY <1>8, <2>1, <2>3 DEF Paused, One
  <2> QED
    BY <2>2, <2>3
<1>10. SameLoads(z, O, Y1, w, O, Y, Reqs \ {r}) /\ Load(z, O, Y1, r) = 0
  <2>1. ASSUME NEW q \in Reqs PROVE Load(z, O, Y1, q) = Load(w, O, Y1, q)
    BY <1>8, <1>9 DEF Load
  <2>2. ASSUME NEW q \in Reqs \ {r} PROVE Load(w, O, Y1, q) = Load(w, O, Y, q)
    BY DEF Load, One
  <2> QED
    BY <1>2, <2>1, <2>2 DEF SameLoads
<1>11. SameTallies(z, w, Used(w) \ {e}) /\ CountsOff(z, w, r)
  <2>1. \A d \in Used(w) \ {e} : z.cpu.rob[d] = w.cpu.rob[d]
    BY <1>8 DEF Used
  <2> QED
    BY <1>4, <1>8, <2>1 DEF SameTallies, CountsOff, Tally
<1>12. Awaited(z, Y1)
  <2>1. ASSUME NEW q \in Reqs, q.kind = "data" PROVE Sent(z, q) + One(q \in Y1) = 1 <=> q \in z.cpu.lsq
    <3>1. CASE q = r
      BY <1>2, <1>7, <1>8, <3>1 DEF One, q1
    <3>2. CASE q # r
      <4>1. Sent(z, q) = Sent(w, q) /\ (q \in Y1 <=> q \in Y) /\ (q \in z.cpu.lsq <=> q \in w.cpu.lsq)
        BY <1>7, <1>8, <3>2 DEF q1
      <4> QED
        BY <1>1, <2>1, <4>1 DEF Placing
    <3> QED
      BY <3>1, <3>2
  <2> QED
    BY <2>1 DEF Awaited
<1>13. Loads(z, O, Y1, {e})
  <2>1. Loads(z, O, Y1, O \cup {EntryOf(r)})
    BY <1>1, <1>2, <1>8, <1>10, <1>11, <1>12, LoadsDrop
  <2> QED
    BY <2>1 DEF O
<1>14. ASSUME NEW d \in Used(w)
       PROVE  /\ z.cpu.rob[d].instrPause = w.cpu.rob[d].instrPause
              /\ z.cpu.rob[d].dataPause = w.cpu.rob[d].dataPause
              /\ z.cpu.rob[d].state = w.cpu.rob[d].state
  <2>1. CASE d = e
    BY <1>4, <1>8, <2>1
  <2>2. CASE d # e
    BY <1>8, <2>2 DEF Used
  <2> QED
    BY <2>1, <2>2
<1>15. Fine(z, O, Y1, {e}, O, O, O)
  BY <1>1, <1>8, <1>13, <1>14, FineKept
<1>16. Pending(z, Reqs)
  <2>1. z.cpu.dataPausers = w.cpu.dataPausers
    BY <1>8 DEF Lists
  <2> QED
    BY <1>1, <1>8, <1>14, <2>1, PendingKept
<1>17. z.cpu.rob[e].state = "DATA" /\ z \in Follow(w)
  BY <1>2, <1>4, <1>8 DEF Follow
<1> QED
  BY <1>15, <1>16, <1>17 DEF O, z

LEMMA DataAnswerFine ==
    ASSUME NEW w, NEW Y, Fine(w, {}, Y, {}, {}, {}, {}), Pending(w, Reqs),
           NEW r \in Reqs, r.kind = "data", r \in Y
    PROVE  LET z == DataAnswer(w, r) IN
           Fine(z, {}, Y \ {r}, {}, {}, {}, {}) /\ Pending(z, Reqs) /\ z \in Follow(w)
<1> DEFINE e == EntryOf(r)
           Y1 == Y \ {r}
           y == WithDataLeft(w, r)
           z == DataAnswer(w, r)
           B == {e}
           O == {}
<1>1. w \in Good
  BY DEF Fine, Sound
<1>2. /\ e \in Used(w) /\ w.cpu.rob[e].g = r.g /\ w.cpu.rob[e].state = "DATA" /\ r \in w.cpu.lsq
  BY DataAwaited
<1>3. /\ Fine(y, O, Y1, B, O, O, O) /\ Pending(y, Reqs) /\ y \in Follow(w)
      /\ y.cpu.rob[e].state = "DATA"
  BY DataCounted
<1>4. z = DoneIfNothingLeft(y, e)
  BY <1>2 DEF DataAnswer, WithDataLeft, WithEntry, Fail
<1>5. e \in Used(y)
  BY <1>2, <1>3 DEF Follow, Used
<1> HIDE DEF y, z, Y1, e, O, B
<1>6. LET x == DoneIfNothingLeft(y, e) IN
      /\ Fine(x, O, Y1, B \ {e}, O, O, O) /\ Pending(x, Reqs) /\ x \in Follow(y)
  BY <1>3, <1>5, DoneFine
<1>7. Fine(z, O, Y1, B \ {e}, O, O, O) /\ Pending(z, Reqs) /\ z \in Follow(y)
  BY <1>4, <1>6
<1>8. B \ {e} = O
  BY DEF B, O
<1>9. z \in Follow(w)
  BY <1>3, <1>7 DEF Follow
<1>10. Fine(z, O, Y1, O, O, O, O)
  BY <1>7, <1>8
<1> QED
  BY <1>7, <1>9, <1>10 DEF z, O, Y1

LEMMA ProcessDataFine ==
    ASSUME NEW w, Fine(w, {}, {}, {}, {}, {}, {}), Pending(w, Reqs)
    PROVE  LET z == ProcessData(w) IN Fine(z, {}, {}, {}, {}, {}, {}) /\ Pending(z, Reqs)
<1> DEFINE n == 1 - Slot
           v == [w.cpu.slots[n] EXCEPT !.data = <<>>]
           y == WithSlot(w, n, v)
           l == w.cpu.slots[n]["data"]
           S == {r \in Reqs : r.kind = "data" /\ IsRead(r)}
           T == [m \in 0 .. Len(l) |-> {s \in Good : Fine(s, {}, Rest(l, m), {}, {}, {}, {}) /\ Pending(s, Reqs)}]
           z == ProcessData(w)
<1>1. w \in Good /\ w \in Worlds /\ n \in {0, 1} /\ w.cpu.slots[n] \in Slots
  BY CoreIs, SlotsAre DEF Good, Fine, Sound
<1>2. /\ v \in Slots /\ v.scheduled = w.cpu.slots[n].scheduled /\ v["data"] = <<>>
      /\ \A j \in CacheNames \ {"data"} : v[j] = w.cpu.slots[n][j]
  <2> DEFINE s == w.cpu.slots[n]
  <2>1. s \in Slots
    BY <1>1
  <2> HIDE DEF s
  <2>2. /\ [s EXCEPT !.data = <<>>] \in Slots /\ [s EXCEPT !.data = <<>>].scheduled = s.scheduled
        /\ [s EXCEPT !.data = <<>>]["data"] = <<>> /\ [s EXCEPT !.data = <<>>]["instr"] = s["instr"]
    <3>1. <<>> \in Seq(Reqs)
      BY EmptySeq
    <3>2. [s EXCEPT !.data = <<>>] \in Slots
      BY <2>1, <3>1, SlotFields
    <3>3. [s EXCEPT !.data = <<>>].scheduled = s.scheduled
      BY <2>1 DEF Slots
    <3>4. [s EXCEPT !.data = <<>>].instr = s.instr /\ [s EXCEPT !.data = <<>>].data = <<>>
      BY <2>1 DEF Slots
    <3> QED
      BY <3>2, <3>3, <3>4
  <2>3. CacheNames \ {"data"} = {"instr"}
    BY DEF CacheNames
  <2> QED
    BY <2>2, <2>3 DEF s
<1> HIDE DEF n
<1>3. z = InTurn(DataAnswer, y, l)
  BY DEF ProcessData, WithSlot, n
<1> HIDE DEF v
<1>4. l \in Seq(S) /\ Injective(l) /\ Fine(y, {}, Range(l), {}, {}, {}, {}) /\ Pending(y, Reqs) /\ y \in Follow(w)
  <2> DEFINE k == "data"
  <2>1. k \in CacheNames /\ v[k] = <<>> /\ \A j \in CacheNames \ {k} : v[j] = w.cpu.slots[n][j]
    BY <1>2, Constants
  <2> HIDE DEF k
  <2>2. /\ Fine(w, {}, {}, {}, {}, {}, {}) /\ Pending(w, Reqs) /\ n \in {0, 1} /\ v \in Slots
        /\ v.scheduled = w.cpu.slots[n].scheduled
    BY <1>1, <1>2
  <2>3. LET c == w.cpu.slots[n][k]
            x == WithSlot(w, n, v)
        IN /\ c \in Seq({r \in Reqs : r.kind = k /\ IsRead(r)}) /\ Injective(c)
           /\ Fine(x, {}, Range(c), {}, {}, {}, {}) /\ Pending(x, Reqs) /\ x \in Follow(w)
    BY <2>1, <2>2, SlotTaken
  <2> QED
    BY <2>3 DEF k
<1> HIDE DEF y, S, l
<1>5. /\ Len(l) \in Nat /\ Rest(l, 0) = Range(l) /\ Rest(l, Len(l)) = {}
      /\ \A m \in 1 .. Len(l) : l[m] \in S /\ l[m] \in Rest(l, m - 1) /\ Rest(l, m) = Rest(l, m - 1) \ {l[m]}
  BY <1>4, RestIs, RestLess
<1>6. y \in T[0]
  <2>1. Fine(y, {}, Rest(l, 0), {}, {}, {}, {})
    BY <1>4, <1>5
  <2> QED
    BY <1>4, <1>5, <2>1 DEF Follow
<1>7. ASSUME NEW m \in 1 .. Len(l), NEW s \in T[m - 1] PROVE DataAnswer(s, l[m]) \in T[m]
  <2> DEFINE r == l[m]
             x == DataAnswer(s, r)
             Y == Rest(l, m - 1)
  <2>1. s \in Good /\ Fine(s, {}, Y, {}, {}, {}, {}) /\ Pending(s, Reqs)
    BY <1>5
  <2>2. r \in Reqs /\ r.kind = "data" /\ r \in Y
    BY <1>5 DEF S
  <2>3. Y \ {r} = Rest(l, m) /\ m \in 0 .. Len(l)
    BY <1>5
  <2> HIDE DEF r, Y
  <2>4. Fine(x, {}, Y \ {r}, {}, {}, {}, {}) /\ Pending(x, Reqs) /\ x \in Follow(s)
    BY <2>1, <2>2, DataAnswerFine
  <2> HIDE DEF x
  <2>5. Fine(x, {}, Rest(l, m), {}, {}, {}, {}) /\ x \in Good
    BY <2>3, <2>4 DEF Follow
  <2> QED
    BY <2>3, <2>4, <2>5 DEF x, r
<1>8. z \in T[Len(l)]
  <2> HIDE DEF T, z
  <2> QED
    BY <1>3, <1>5, <1>6, <1>7, DataAnswerTurns
<1>9. Len(l) \in 0 .. Len(l)
  BY <1>5
<1> HIDE DEF z
<1>10. Fine(z, {}, Rest(l, Len(l)), {}, {}, {}, {}) /\ Pending(z, Reqs)
  BY <1>8, <1>9
<1> QED
  BY <1>5, <1>10 DEF z

-----------------------------------------------------------------------------
(* The window of the buffer *)

\* Whether d is between the tail t and the head h.
Between(t, h, full, d) ==
    \/ full
    \/ t <= h /\ t <= d /\ d < h
    \/ h < t /\ (t <= d \/ d < h)

LEMMA ModSmall ==
    ASSUME NEW R \in Nat \ {0}, NEW a \in Nat, a < R + R
    PROVE  a % R = IF a < R THEN a ELSE a - R
<1>1. CASE a < R
  BY <1>1
<1>2. CASE ~(a < R)
  <2>1. a - R \in 0 .. R - 1 /\ a = R * 1 + (a - R)
    BY <1>2
  <2>2. (R * 1 + (a - R)) % R = a - R
    BY <2>1, ModUnique
  <2> QED
    BY <1>2, <2>1, <2>2
<1> QED
  BY <1>1, <1>2

LEMMA ModBehind ==
    ASSUME NEW R \in Nat \ {0}, NEW m \in 0 .. R - 1
    PROVE  (m - R) % R = m
    OBVIOUS

LEMMA Gap ==
    ASSUME NEW R \in Nat \ {0}, NEW t \in 0 .. R - 1, NEW h \in 0 .. R - 1
    PROVE  (h - t) % R = IF t <= h THEN h - t ELSE h - t + R
<1>1. CASE t <= h
  <2> DEFINE a == h - t
  <2>1. a \in Nat /\ a < R /\ a < R + R /\ a = h - t
    BY <1>1
  <2> HIDE DEF a
  <2>2. a % R = a
    BY <2>1, ModSmall
  <2> QED
    BY <1>1, <2>1, <2>2
<1>2. CASE ~(t <= h)
  <2> DEFINE m == h - t + R
  <2>1. m \in 0 .. R - 1 /\ m - R = h - t
    BY <1>2
  <2>2. m = h - t + R
    OBVIOUS
  <2> HIDE DEF m
  <2>3. (m - R) % R = m
    BY <2>1, ModBehind
  <2>4. (h - t) % R = m
    BY <2>1, <2>3
  <2> QED
    BY <1>2, <2>2, <2>4
<1> QED
  BY <1>1, <1>2

LEMMA Reaches ==
    ASSUME NEW R \in Nat \ {0}, NEW t \in 0 .. R - 1, NEW h \in 0 .. R - 1, NEW d \in 0 .. R - 1,
           NEW u \in 0 .. R
    PROVE  (\E n \in 0 .. u - 1 : d = (t + n) % R) <=> IF t <= d THEN d - t < u ELSE d - t + R < u
<1>1. ASSUME NEW n \in 0 .. u - 1 PROVE (t + n) % R = IF t + n < R THEN t + n ELSE t + n - R
  <2> DEFINE a == t + n
  <2>1. a \in Nat /\ a < R + R
    OBVIOUS
  <2> HIDE DEF a
  <2>2. a % R = IF a < R THEN a ELSE a - R
    BY <2>1, ModSmall
  <2> QED
    BY <2>2 DEF a
<1>2. ASSUME NEW n \in 0 .. u - 1, d = (t + n) % R
      PROVE  IF t <= d THEN d - t < u ELSE d - t + R < u
  <2>1. d = IF t + n < R THEN t + n ELSE t + n - R
    BY <1>1, <1>2
  <2> QED
    BY <2>1
<1>3. ASSUME IF t <= d THEN d - t < u ELSE d - t + R < u
      PROVE  \E n \in 0 .. u - 1 : d = (t + n) % R
  <2> DEFINE n == IF t <= d THEN d - t ELSE d - t + R
  <2>1. n \in 0 .. u - 1 /\ d = IF t + n < R THEN t + n ELSE t + n - R
    BY <1>3
  <2> HIDE DEF n
  <2>2. (t + n) % R = IF t + n < R THEN t + n ELSE t + n - R
    BY <1>1, <2>1
  <2>3. d = (t + n) % R
    BY <2>1, <2>2
  <2> QED
    BY <2>1, <2>3
<1> QED
  BY <1>2, <1>3

LEMMA WindowIs ==
    ASSUME NEW w \in Worlds
    PROVE  \A d \in Entries : d \in InWindow(w) <=> Between(w.cpu.tail, w.cpu.head, w.cpu.full, d)
<1> DEFINE t == w.cpu.tail
           h == w.cpu.head
           f == w.cpu.full
           u == IF f THEN RobSize ELSE (h - t) % RobSize
<1>1. RobSize \in Nat \ {0} /\ t \in 0 .. RobSize - 1 /\ h \in 0 .. RobSize - 1 /\ f \in BOOLEAN
  BY Constants, CoreIs DEF Entries
<1>2. InWindow(w) = {(t + n) % RobSize : n \in 0 .. u - 1}
  BY DEF InWindow
<1> HIDE DEF t, h, f
<1>3. u = IF f THEN RobSize ELSE IF t <= h THEN h - t ELSE h - t + RobSize
  BY <1>1, Gap
<1>4. u \in 0 .. RobSize
  <2> HIDE DEF u
  <2> QED
    BY <1>1, <1>3
<1> HIDE DEF u
<1>5. ASSUME NEW d \in 0 .. RobSize - 1 PROVE d \in InWindow(w) <=> Between(t, h, f, d)
  <2>1. d \in InWindow(w) <=> \E n \in 0 .. u - 1 : d = (t + n) % RobSize
    BY <1>2
  <2>2. (\E n \in 0 .. u - 1 : d = (t + n) % RobSize)
        <=> IF t <= d THEN d - t < u ELSE d - t + RobSize < u
    BY <1>1, <1>4, Reaches
  <2>3. CASE f
    BY <1>1, <1>3, <2>1, <2>2, <2>3 DEF Between
  <2>4. CASE ~f /\ t <= h
    BY <1>1, <1>3, <2>1, <2>2, <2>4 DEF Between
  <2>5. CASE ~f /\ h < t
    BY <1>1, <1>3, <2>1, <2>2, <2>5 DEF Between
  <2> QED
    BY <1>1, <2>3, <2>4, <2>5
<1> QED
  BY <1>5 DEF Entries, t, h, f

LEMMA WindowGrows ==
    ASSUME NEW R \in Nat \ {0}, NEW t \in 0 .. R - 1, NEW h \in 0 .. R - 1, NEW d \in 0 .. R - 1
    PROVE  LET n == (h + 1) % R IN
           /\ ~Between(t, h, FALSE, h)
           /\ Between(t, n, n = t, d) <=> Between(t, h, FALSE, d) \/ d = h
<1> DEFINE n == (h + 1) % R
<1>1. n = IF h + 1 < R THEN h + 1 ELSE h + 1 - R
  <2> DEFINE a == h + 1
  <2>1. a \in Nat /\ a < R + R
    OBVIOUS
  <2> HIDE DEF a
  <2>2. a % R = IF a < R THEN a ELSE a - R
    BY <2>1, ModSmall
  <2> QED
    BY <2>2 DEF a
<1> HIDE DEF n
<1>2. ~Between(t, h, FALSE, h) /\ (Between(t, n, n = t, d) <=> Between(t, h, FALSE, d) \/ d = h)
  BY <1>1 DEF Between
<1> QED
  BY <1>2 DEF n

LEMMA WindowShrinks ==
    ASSUME NEW R \in Nat \ {0}, NEW t \in 0 .. R - 1, NEW h \in 0 .. R - 1, NEW d \in 0 .. R - 1,
           NEW f \in BOOLEAN, f => h = t, ~(h = t /\ ~f)
    PROVE  LET n == (t + 1) % R IN
           /\ Between(t, h, f, t)
           /\ Between(n, h, FALSE, d) <=> Between(t, h, f, d) /\ d # t
<1> DEFINE n == (t + 1) % R
<1>1. n = IF t + 1 < R THEN t + 1 ELSE t + 1 - R
  <2> DEFINE a == t + 1
  <2>1. a \in Nat /\ a < R + R
    OBVIOUS
  <2> HIDE DEF a
  <2>2. a % R = IF a < R THEN a ELSE a - R
    BY <2>1, ModSmall
  <2> QED
    BY <2>2 DEF a
<1> HIDE DEF n
<1>2. Between(t, h, f, t) /\ (Between(n, h, FALSE, d) <=> Between(t, h, f, d) /\ d # t)
  BY <1>1 DEF Between
<1> QED
  BY <1>2 DEF n

-----------------------------------------------------------------------------
(* A new entry *)

\* The entry at the head of a buffer that is not full is free.
LEMMA HeadFree ==
    ASSUME NEW w, Fine(w, {}, {}, {}, {}, {}, {}), Pending(w, Reqs), ~w.cpu.full
    PROVE  LET e == w.cpu.head IN
           /\ e \in Entries /\ e \notin InWindow(w)
           /\ e \in Used(w) => w.cpu.rob[e].state = "DONE"
           /\ \A r \in Reqs : EntryOf(r) = e => Load(w, {}, {}, r) = 0 /\ Sent(w, r) = 0 /\ ~Paused(w, r)
           /\ e \notin Range(w.cpu.dataPausers)
<1> DEFINE e == w.cpu.head
           t == w.cpu.tail
           O == {}
<1>1. w \in Good /\ w \in Worlds /\ Placing(w, O, O) /\ \A d \in Used(w) : Waits(w, O, O, O, d)
  BY DEF Fine, Sound, Good, Loads
<1>2. RobSize \in Nat \ {0} /\ e \in 0 .. RobSize - 1 /\ t \in 0 .. RobSize - 1 /\ e \in Entries
  BY <1>1, Constants, CoreIs DEF Entries
<1>3. e \notin InWindow(w)
  <2>1. ~Between(t, e, FALSE, e)
    <3> HIDE DEF e, t
    <3> QED
      BY <1>2, WindowGrows
  <2>2. w.cpu.full = FALSE
    BY <1>1, CoreIs
  <2> QED
    BY <1>1, <1>2, <2>1, <2>2, WindowIs
<1>4. e \in Used(w) => w.cpu.rob[e].state = "DONE"
  BY <1>3 DEF Fine, Alive
<1>5. ASSUME NEW r \in Reqs, EntryOf(r) = e PROVE Load(w, O, O, r) = 0
  <2>1. ASSUME Load(w, O, O, r) = 1 PROVE FALSE
    <3>1. e \in Used(w) /\ r.i \in Due(w, O, O, e, r.kind)
      <4> HIDE DEF O, e
      <4> QED
        BY <1>1, <1>5, <2>1, LoadHas
    <3>2. Due(w, O, O, e, "instr") = {} /\ Due(w, O, O, e, "data") = {}
      BY <1>1, <1>4, <3>1 DEF Waits
    <3>3. r.kind \in {"instr", "data"}
      BY RequestIs DEF CacheNames
    <3> HIDE DEF O, e
    <3> QED
      BY <3>1, <3>2, <3>3
  <2> QED
    BY <1>1, <2>1 DEF Placing
<1>6. ASSUME NEW r \in Reqs, EntryOf(r) = e PROVE Sent(w, r) = 0 /\ ~Paused(w, r)
  <2>1. Load(w, O, O, r) = 0
    BY <1>5, <1>6
  <2>2. Sent(w, r) \in Nat /\ Load(w, O, O, r) = Sent(w, r) + One(r \in O) + One(r \in O) + One(Paused(w, r))
    <3> HIDE DEF O
    <3> QED
      BY <1>1, LoadIs
  <2>3. One(r \in O) \in {0, 1} /\ One(Paused(w, r)) \in {0, 1}
    BY OneIs
  <2>4. Sent(w, r) = 0 /\ One(Paused(w, r)) = 0
    BY <2>1, <2>2, <2>3
  <2> QED
    BY <2>4 DEF One
<1>7. e \notin Range(w.cpu.dataPausers)
  <2> SUFFICES ASSUME e \in Range(w.cpu.dataPausers) PROVE FALSE
    OBVIOUS
  <2>1. PICK i \in w.cpu.rob[e].dataPause : Request("data", w.cpu.rob[e].g, i) \in Reqs
    BY DEF Pending
  <2> DEFINE r == Request("data", w.cpu.rob[e].g, i)
  <2>2. e \in Used(w)
    BY PausedData
  <2>3. r \in Reqs /\ r.kind = "data" /\ r.g = w.cpu.rob[e].g /\ r.i = i
    BY <2>1 DEF Request
  <2> HIDE DEF r
  <2>4. EntryOf(r) = e
    BY <1>1, <2>2, <2>3, ShapedEntry DEF Fine, Sound
  <2>5. Paused(w, r)
    BY <2>1, <2>3, <2>4 DEF Paused
  <2> QED
    BY <1>6, <2>3, <2>4, <2>5
<1> QED
  BY <1>2, <1>3, <1>4, <1>5, <1>6, <1>7

LEMMA NewEntryDoes ==
    ASSUME NEW w \in Good, NEW g, g = w.cpu.read + 1, g \in DOMAIN Trace
    PROVE  LET e == w.cpu.head
               z == WithEntry(w, e, NewEntry(g))
           IN /\ z \in Good /\ z \in Worlds
              /\ e \in Entries /\ (g - 1) % RobSize = e /\ NewEntry(g) \in RobEntries
              /\ Queues(z) = Queues(w) /\ Lists(z) = Lists(w) /\ Ring(z) = Ring(w)
              /\ Answers(z) = Answers(w) /\ Turn(z) = Turn(w) /\ Timing(z) = Timing(w)
              /\ z.cpu.rob[e] = NewEntry(g) /\ \A d \in Entries \ {e} : z.cpu.rob[d] = w.cpu.rob[d]
              /\ Used(z) = Used(w) \cup {e}
              /\ Kinds(w) => Kinds(z)
              /\ SameSent(z, w)
<1> DEFINE e == w.cpu.head
           v == NewEntry(g)
           z == WithEntry(w, e, v)
<1>1. w \in Worlds /\ e \in Entries /\ e = w.cpu.read % RobSize /\ w.cpu.read \in Nat
  BY Constants, CoreIs DEF Good, Placed
<1>2. g \in 0 .. Len(Trace) /\ g # 0 /\ (g - 1) % RobSize = e
  BY <1>1, Constants
<1>3. v \in RobEntries /\ v.g = g
  <2>1. Len(Trace[g].instr) \in Int /\ Len(Trace[g].data) \in Int
    BY TraceIs
  <2> QED
    BY <1>2, <2>1 DEF NewEntry, RobEntries, States
<1> HIDE DEF v
<1>4. /\ z \in Worlds
      /\ Queues(z) = Queues(w) /\ Lists(z) = Lists(w) /\ Ring(z) = Ring(w)
      /\ Answers(z) = Answers(w) /\ Turn(z) = Turn(w) /\ Clock(z) = Clock(w)
      /\ z.cpu.rob = [w.cpu.rob EXCEPT ![e] = v]
  BY <1>1, <1>3, SetEntry
<1> HIDE DEF z
<1>5. z.cpu.rob[e] = v /\ \A x \in Entries \ {e} : z.cpu.rob[x] = w.cpu.rob[x]
  <2>1. w.cpu.rob \in [Entries -> RobEntries]
    BY <1>1, CoreIs
  <2> HIDE DEF e
  <2> QED
    BY <1>1, <1>4, <2>1
<1>6. Used(z) = Used(w) \cup {e}
  BY <1>1, <1>2, <1>3, <1>5 DEF Used, Stamps
<1>7. z \in Good
  <2>1. w.cpu.instrPausers \in Seq(Used(w)) /\ w.cpu.dataPausers \in Seq(Used(w))
    BY DEF Good, Placed
  <2>2. z.cpu.instrPausers \in Seq(Used(z)) /\ z.cpu.dataPausers \in Seq(Used(z))
    BY <1>4, <1>6, <2>1, SeqMonotonic DEF Lists
  <2>3. Placed(z)
    BY <1>4, <2>2 DEF Ring, Placed, Good
  <2>4. Counted(z) /\ \A p \in Pages : PageQuiet(z, p)
    BY <1>4, QueuesKept
  <2> QED
    BY <1>4, <2>3, <2>4 DEF Good
<1>8. Timing(z) = Timing(w) /\ SameSent(z, w) /\ (Kinds(w) => Kinds(z))
  BY <1>4 DEF Timing, Clock, Answers, Queues, SameSent, Sent, Kinds
<1> QED
  BY <1>1, <1>2, <1>3, <1>4, <1>5, <1>6, <1>7, <1>8 DEF z, v

Joins(y, w, g, X) ==
    /\ \A r \in Reqs : Load(y, X, {}, r) = IF r \in X THEN 1 ELSE Load(w, {}, {}, r)
    /\ \A r \in Reqs : r \in X <=> r.kind = "instr" /\ r.g = g
    /\ \A r \in Reqs : r.g = g => EntryOf(r) = w.cpu.head

\* The requests for the blocks of instruction g.
LEMMA BlocksOf ==
    ASSUME NEW g \in DOMAIN Trace
    PROVE  \A r \in Reqs : r \in Range(Requests("instr", g)) <=> r.kind = "instr" /\ r.g = g
<1> DEFINE k == "instr"
<1>1. k \in CacheNames
  BY Constants
<1> HIDE DEF k
<1>2. \A r \in Reqs : r \in Range(Requests(k, g)) <=> r.kind = k /\ r.g = g
  BY <1>1, RequestsInjective
<1> QED
  BY <1>2 DEF k

\* The requests of the new entry are to be sent.
LEMMA NewLoads ==
    ASSUME NEW w, Fine(w, {}, {}, {}, {}, {}, {}), Pending(w, Reqs), ~w.cpu.full,
           NEW g, g = w.cpu.read + 1, g \in DOMAIN Trace
    PROVE  LET y == WithEntry(w, w.cpu.head, NewEntry(g))
           IN Joins(y, w, g, Range(Requests("instr", g)))
<1> DEFINE e == w.cpu.head
           y == WithEntry(w, e, NewEntry(g))
           X == Range(Requests("instr", g))
           O == {}
<1>1. w \in Good /\ w \in Worlds
  BY DEF Fine, Sound, Good
<1>2. /\ y \in Good /\ y \in Worlds
      /\ e \in Entries /\ (g - 1) % RobSize = e
      /\ y.cpu.rob[e] = NewEntry(g) /\ \A d \in Entries \ {e} : y.cpu.rob[d] = w.cpu.rob[d]
      /\ SameSent(y, w)
  BY <1>1, NewEntryDoes
<1>3. \A r \in Reqs : EntryOf(r) = e => Load(w, O, O, r) = 0 /\ Sent(w, r) = 0 /\ ~Paused(w, r)
  BY HeadFree
<1>4. \A r \in Reqs : r \in X <=> r.kind = "instr" /\ r.g = g
  BY BlocksOf
<1>5. \A r \in Reqs : r.g = g => EntryOf(r) = e
  BY <1>2 DEF EntryOf
<1> HIDE DEF X, y, e
<1>6. ASSUME NEW r \in Reqs PROVE Paused(y, r) <=> Paused(w, r)
  <2>1. EntryOf(r) \in Entries
    BY RequestIs
  <2>2. CASE EntryOf(r) = e
    <3>1. y.cpu.rob[e].instrPause = {} /\ y.cpu.rob[e].dataPause = {}
      BY <1>2 DEF NewEntry
    <3> QED
      BY <1>3, <2>2, <3>1 DEF Paused
  <2>3. CASE EntryOf(r) # e
    BY <1>2, <2>1, <2>3 DEF Paused
  <2> QED
    BY <2>2, <2>3
<1>7. ASSUME NEW r \in Reqs PROVE Load(y, X, O, r) = IF r \in X THEN 1 ELSE Load(w, O, O, r)
  <2>1. Load(y, X, O, r) = Sent(w, r) + One(r \in X) + One(r \in O) + One(Paused(w, r))
    BY <1>2, <1>6 DEF Load, SameSent, One
  <2>2. Load(w, O, O, r) = Sent(w, r) + One(r \in O) + One(r \in O) + One(Paused(w, r))
    BY DEF Load
  <2>3. Sent(w, r) \in Nat
    BY <1>1, SentIs
  <2>4. CASE r \in X
    <3>1. Sent(w, r) = 0 /\ ~Paused(w, r)
      BY <1>3, <1>4, <1>5, <2>4
    <3> QED
      BY <2>1, <2>4, <3>1 DEF One
  <2>5. CASE r \notin X
    BY <2>1, <2>2, <2>5 DEF One
  <2> QED
    BY <2>4, <2>5
<1> QED
  BY <1>4, <1>5, <1>7 DEF Joins, X, y, e

LEMMA NewEntryFine ==
    ASSUME NEW w, Fine(w, {}, {}, {}, {}, {}, {}), Pending(w, Reqs), ~w.cpu.full,
           NEW g, g = w.cpu.read + 1, g \in DOMAIN Trace
    PROVE  LET e == w.cpu.head
               y == WithEntry(w, e, NewEntry(g))
           IN Fine(y, Range(Requests("instr", g)), {}, {}, {e}, {}, {}) /\ Pending(y, Reqs)
<1> DEFINE e == w.cpu.head
           y == WithEntry(w, e, NewEntry(g))
           X == Range(Requests("instr", g))
           O == {}
<1>1. /\ w \in Good /\ w \in Worlds /\ Placing(w, O, O) /\ \A d \in Used(w) : Waits(w, O, O, O, d)
      /\ Shaped(w) /\ Kinds(w) /\ Timed(w) /\ w.cpu.failed \in {"", "resume"}
      /\ Alive(w, O) /\ Pausing(w, O, O)
  BY DEF Fine, Sound, Good, Loads
<1>2. /\ y \in Good /\ y \in Worlds
      /\ e \in Entries /\ (g - 1) % RobSize = e
      /\ Lists(y) = Lists(w) /\ Ring(y) = Ring(w)
      /\ Answers(y) = Answers(w) /\ Turn(y) = Turn(w) /\ Timing(y) = Timing(w)
      /\ y.cpu.rob[e] = NewEntry(g) /\ \A d \in Entries \ {e} : y.cpu.rob[d] = w.cpu.rob[d]
      /\ Used(y) = Used(w) \cup {e}
      /\ Kinds(y) /\ SameSent(y, w)
  BY <1>1, NewEntryDoes
<1>3. /\ \A r \in Reqs : EntryOf(r) = e => Load(w, O, O, r) = 0
      /\ e \notin Range(w.cpu.dataPausers)
  BY HeadFree
<1>4. /\ \A r \in Reqs : Load(y, X, O, r) = IF r \in X THEN 1 ELSE Load(w, O, O, r)
      /\ \A r \in Reqs : r \in X <=> r.kind = "instr" /\ r.g = g
      /\ \A r \in Reqs : r.g = g => EntryOf(r) = e
  <2>1. Joins(y, w, g, X)
    BY NewLoads
  <2> QED
    BY <2>1 DEF Joins
<1>5. /\ y.cpu.rob[e].g = g /\ y.cpu.rob[e].instrPause = {} /\ y.cpu.rob[e].dataPause = {}
      /\ y.cpu.rob[e].state = "FETCHING" /\ y.cpu.rob[e].instrLeft = Len(Trace[g].instr)
      /\ y.cpu.rob[e].dataLeft = Len(Trace[g].data)
  <2>1. y.cpu.rob[e] = NewEntry(g)
    BY <1>2
  <2> HIDE DEF y, e
  <2> QED
    BY <2>1 DEF NewEntry
<1>6. \A d \in Used(w) : d \in Entries
  BY DEF Used
<1> HIDE DEF X, y, e, O
<1>7. Placing(y, X, O)
  <2> SUFFICES ASSUME NEW r \in Reqs
               PROVE  /\ Load(y, X, O, r) \in {0, 1}
                      /\ Load(y, X, O, r) = 1 => y.cpu.rob[EntryOf(r)].g = r.g
                      /\ r.kind = "data" => (Sent(y, r) + One(r \in O) = 1 <=> r \in y.cpu.lsq)
    BY DEF Placing
  <2>1. /\ Load(w, O, O, r) \in {0, 1}
        /\ Load(w, O, O, r) = 1 => w.cpu.rob[EntryOf(r)].g = r.g
        /\ r.kind = "data" => (Sent(w, r) + One(r \in O) = 1 <=> r \in w.cpu.lsq)
    BY <1>1 DEF Placing
  <2>2. EntryOf(r) \in Entries
    BY RequestIs
  <2>3. Sent(y, r) = Sent(w, r) /\ y.cpu.lsq = w.cpu.lsq
    BY <1>2 DEF SameSent, Answers
  <2>4. CASE r \in X
    BY <1>4, <1>5, <2>1, <2>3, <2>4
  <2>5. CASE r \notin X
    BY <1>2, <1>3, <1>4, <2>1, <2>2, <2>3, <2>5
  <2> QED
    BY <2>4, <2>5
<1>8. Waits(y, X, O, O, e)
  <2> DEFINE I == Due(y, X, O, e, "instr")
             D == Due(y, X, O, e, "data")
  <2>1. ASSUME NEW k \in CacheNames, NEW i \in DOMAIN Requests(k, g)
        PROVE  /\ Request(k, g, i) \in Reqs
               /\ Load(y, X, O, Request(k, g, i)) = IF k = "instr" THEN 1 ELSE 0
    <3> DEFINE r == Request(k, g, i)
    <3>1. r \in Reqs /\ r.kind = k /\ r.g = g
      BY RequestOf
    <3> HIDE DEF r
    <3>2. EntryOf(r) = e /\ (r \in X <=> k = "instr")
      BY <1>4, <3>1
    <3>3. Load(y, X, O, r) = IF k = "instr" THEN 1 ELSE 0
      BY <1>3, <1>4, <3>1, <3>2
    <3> QED
      BY <3>1, <3>3 DEF r
  <2>2. "instr" \in CacheNames /\ "data" \in CacheNames
    BY Constants
  <2>3. I = DOMAIN Requests("instr", g)
    BY <1>5, <2>1, <2>2 DEF Due
  <2>4. D = {}
    BY <1>5, <2>1, <2>2 DEF Due
  <2>5. Cardinality(I) = Len(Trace[g].instr)
    BY <2>2, <2>3, RequestsDomain
  <2>6. Len(Trace[g].instr) > 0
    <3>1. Trace[g].instr \in Seq(Pages) /\ Trace[g].instr # <<>>
      BY TraceIs, CPUAssumption
    <3> QED
      BY <3>1, EmptySeq, LenProperties
  <2> HIDE DEF I, D
  <2> QED
    BY <1>5, <2>4, <2>5, <2>6 DEF Waits, I, D
<1>9. ASSUME NEW d \in Used(w), d # e PROVE Waits(y, X, O, O, d)
  <2>1. d \in Entries /\ y.cpu.rob[d] = w.cpu.rob[d] /\ Waits(w, O, O, O, d)
    BY <1>1, <1>2, <1>6, <1>9
  <2>2. ASSUME NEW k \in CacheNames PROVE Due(y, X, O, d, k) = Due(w, O, O, d, k)
    <3> DEFINE h == w.cpu.rob[d].g
    <3>1. h \in DOMAIN Trace
      BY <1>1, UsedIs
    <3>2. ASSUME NEW i \in DOMAIN Requests(k, h)
          PROVE  Load(y, X, O, Request(k, h, i)) = Load(w, O, O, Request(k, h, i))
      <4> DEFINE r == Request(k, h, i)
      <4>1. r \in Reqs /\ r.g = h
        <5> HIDE DEF h
        <5> QED
          BY <3>1, RequestOf
      <4> HIDE DEF r
      <4>2. EntryOf(r) = d
        BY <1>1, <4>1, ShapedEntry
      <4>3. r \notin X
        BY <1>4, <1>9, <4>1, <4>2
      <4>4. Load(y, X, O, r) = Load(w, O, O, r)
        BY <1>4, <4>1, <4>3
      <4> QED
        BY <4>4 DEF r
    <3> QED
      BY <2>1, <3>2 DEF Due
  <2>3. "instr" \in CacheNames /\ "data" \in CacheNames
    BY Constants
  <2> QED
    BY <2>1, <2>2, <2>3 DEF Waits
<1>10. Loads(y, X, O, O)
  <2>1. Used(y) = Used(w) \cup {e}
    BY <1>2
  <2>2. \A d \in Used(y) : Waits(y, X, O, O, d)
    BY <1>8, <1>9, <2>1
  <2> QED
    BY <1>7, <2>2 DEF Loads
<1>11. Shaped(y)
  <2>1. ASSUME NEW d \in Used(y)
        PROVE  /\ (y.cpu.rob[d].g - 1) % RobSize = d
               /\ y.cpu.rob[d].instrPause \subseteq DOMAIN Requests("instr", y.cpu.rob[d].g)
               /\ y.cpu.rob[d].dataPause \subseteq DOMAIN Requests("data", y.cpu.rob[d].g)
    <3>1. CASE d = e
      BY <1>2, <1>5, <3>1
    <3>2. CASE d # e
      <4>1. d \in Used(w) /\ y.cpu.rob[d] = w.cpu.rob[d]
        BY <1>2, <1>6, <2>1, <3>2
      <4> QED
        BY <1>1, <4>1 DEF Shaped
    <3> QED
      BY <3>1, <3>2
  <2> QED
    BY <2>1 DEF Shaped
<1>12. Sound(y)
  BY <1>1, <1>2, <1>11, TimedKept DEF Sound, Turn
<1>13. Alive(y, {e})
  <2>1. InWindow(y) = InWindow(w) /\ y.cpu.full = w.cpu.full /\ y.cpu.head = w.cpu.head
        /\ y.cpu.tail = w.cpu.tail /\ y.cpu.read = w.cpu.read /\ y.cpu.fetchEntry = w.cpu.fetchEntry
    BY <1>2 DEF Ring, Turn, InWindow
  <2>2. ASSUME NEW d \in Used(y)
        PROVE  /\ y.cpu.rob[d].state # "DONE" => d \in InWindow(y) \cup {e}
               /\ y.cpu.rob[d].state = "FETCHING" => d \in Range(y.cpu.fetchEntry) \cup {e}
               /\ y.cpu.rob[d].g <= y.cpu.read \/ d \in {e}
    <3>1. CASE d = e
      BY <3>1
    <3>2. CASE d # e
      <4>1. d \in Used(w) /\ y.cpu.rob[d] = w.cpu.rob[d]
        BY <1>2, <1>6, <3>2
      <4> QED
        BY <1>1, <2>1, <4>1 DEF Alive, O
    <3> QED
      BY <3>1, <3>2
  <2> QED
    BY <1>1, <1>2, <2>1, <2>2 DEF Alive
<1>14. Pausing(y, O, O)
  BY <1>1, <1>2, <1>5, <1>6 DEF Pausing, Lists, O
<1>15. Pending(y, Reqs)
  <2> SUFFICES ASSUME NEW d \in Range(y.cpu.dataPausers)
               PROVE  \E i \in y.cpu.rob[d].dataPause : Request("data", y.cpu.rob[d].g, i) \in Reqs
    BY DEF Pending
  <2>1. d \in Range(w.cpu.dataPausers) /\ d # e
    BY <1>2, <1>3 DEF Lists
  <2>2. d \in Used(w)
    BY <2>1, PausedData
  <2>3. y.cpu.rob[d] = w.cpu.rob[d]
    BY <1>2, <1>6, <2>1, <2>2
  <2> QED
    BY <2>1, <2>3 DEF Pending
<1>16. Fine(y, X, O, O, {e}, O, O)
  BY <1>10, <1>12, <1>13, <1>14 DEF Fine
<1> QED
  BY <1>15, <1>16 DEF X, y, e, O

\* The requests of a new entry are sent, or paused.
LEMMA BlocksFetched ==
    ASSUME NEW w, NEW e \in Used(w), NEW g \in DOMAIN Trace,
           Fine(w, Range(Requests("instr", g)), {}, {}, {e}, {}, {}), Pending(w, Reqs)
    PROVE  LET z == InTurn(FetchInstr, w, Requests("instr", g)) IN
           /\ Fine(z, {}, {}, {}, {e}, {}, {}) /\ Pending(z, Reqs) /\ z \in Follow(w)
           /\ Ring(z) = Ring(w)
<1> DEFINE q == Requests("instr", g)
           T == [n \in 0 .. Len(q) |->
                     {s \in Follow(w) : /\ Fine(s, Rest(q, n), {}, {}, {e}, {}, {}) /\ Pending(s, Reqs)
                                        /\ Ring(s) = Ring(w)}]
           t == InTurn(FetchInstr, w, q)
           S == {r \in Reqs : r.kind = "instr" /\ r.g = g}
           E == {e}
           O == {}
<1>1. w \in Good /\ w \in Follow(w)
  BY DEF Fine, Sound, Follow
<1>2. q \in Seq(S) /\ Injective(q)
  <2> DEFINE k == "instr"
  <2>1. k \in CacheNames /\ g \in DOMAIN Trace
    BY Constants
  <2> HIDE DEF k
  <2>2. Requests(k, g) \in Seq({r \in Reqs : r.kind = k /\ r.g = g}) /\ Injective(Requests(k, g))
    BY <2>1, RequestsInjective
  <2> QED
    BY <2>2 DEF k, q, S
<1> HIDE DEF q, S
<1>3. /\ Len(q) \in Nat /\ Rest(q, 0) = Range(q) /\ Rest(q, Len(q)) = {}
      /\ \A n \in 1 .. Len(q) : q[n] \in S /\ q[n] \in Rest(q, n - 1) /\ Rest(q, n) = Rest(q, n - 1) \ {q[n]}
  BY <1>2, RestIs, RestLess
<1>4. w \in T[0]
  <2>1. Fine(w, Rest(q, 0), {}, {}, {e}, {}, {})
    BY <1>3 DEF q
  <2> QED
    BY <1>1, <1>3, <2>1
<1>5. ASSUME NEW n \in 1 .. Len(q), NEW s \in T[n - 1] PROVE FetchInstr(s, q[n]) \in T[n]
  <2> DEFINE r == q[n]
             z == FetchInstr(s, r)
             X == Rest(q, n - 1)
  <2>1. /\ s \in Follow(w) /\ Fine(s, X, {}, {}, {e}, {}, {}) /\ Pending(s, Reqs) /\ Ring(s) = Ring(w)
    BY <1>3
  <2>2. r \in Reqs /\ r.kind = "instr" /\ r \in X
    BY <1>3 DEF S
  <2> HIDE DEF r, X
  <2>3. /\ Fine(z, X \ {r}, O, O, E, O, O) /\ Pending(z, Reqs) /\ z \in Follow(s)
        /\ Ring(z) = Ring(s)
    <3>1. Fine(s, X, O, O, E, O, O)
      BY <2>1
    <3> HIDE DEF O, E
    <3> QED
      BY <2>1, <2>2, <3>1, FetchInstrFine
  <2> HIDE DEF z
  <2>4. z \in Follow(w) /\ Ring(z) = Ring(w) /\ Fine(z, X \ {r}, {}, {}, {e}, {}, {})
    BY <2>1, <2>3 DEF Follow
  <2>5. X \ {r} = Rest(q, n)
    BY <1>3 DEF X, r
  <2>6. Fine(z, Rest(q, n), {}, {}, {e}, {}, {})
    BY <2>4, <2>5
  <2>7. n \in 0 .. Len(q)
    BY <1>3
  <2> QED
    BY <2>3, <2>4, <2>6, <2>7 DEF z, r
<1>6. t \in T[Len(q)]
  <2> HIDE DEF T
  <2> QED
    BY <1>3, <1>4, <1>5, FetchInstrTurns
<1>7. /\ t \in Follow(w) /\ Fine(t, O, O, O, E, O, O) /\ Pending(t, Reqs) /\ Ring(t) = Ring(w)
  <2>1. Len(q) \in 0 .. Len(q)
    BY <1>3
  <2> HIDE DEF t
  <2>2. t \in Follow(w) /\ Fine(t, Rest(q, Len(q)), {}, {}, {e}, {}, {}) /\ Pending(t, Reqs)
        /\ Ring(t) = Ring(w)
    BY <1>6, <2>1
  <2> QED
    BY <1>3, <2>2
<1> HIDE DEF t, T
<1> QED
  BY <1>7 DEF t, q

WithHead(f, g, l, h, b) ==
    [f EXCEPT !.cpu.read = g, !.cpu.fetchEntry = l, !.cpu.head = h, !.cpu.full = b]

LEMMA HeadMoved ==
    ASSUME NEW f \in Worlds, NEW g \in 0 .. Len(Trace), NEW l \in Seq(Entries), NEW h \in Entries,
           NEW b, b \in BOOLEAN
    PROVE  LET z == WithHead(f, g, l, h, b) IN
           /\ z \in Worlds
           /\ Queues(z) = Queues(f) /\ Lists(z) = Lists(f) /\ Buffer(z) = Buffer(f)
           /\ Answers(z) = Answers(f) /\ Clock(z) = Clock(f)
           /\ z.cpu.fetchEntry = l /\ z.cpu.failed = f.cpu.failed
           /\ z.cpu.head = h /\ z.cpu.tail = f.cpu.tail /\ z.cpu.full = b /\ z.cpu.read = g
<1> DEFINE z1 == [f EXCEPT !.cpu.read = g]
           z2 == [z1 EXCEPT !.cpu.fetchEntry = l]
           z3 == [z2 EXCEPT !.cpu.head = h]
           z4 == [z3 EXCEPT !.cpu.full = b]
<1>1. WithHead(f, g, l, h, b) = z4
  BY DEF WithHead
<1>2. /\ z1 \in Worlds /\ Queues(z1) = Queues(f) /\ Lists(z1) = Lists(f) /\ Buffer(z1) = Buffer(f)
      /\ Answers(z1) = Answers(f) /\ Turn(z1) = Turn(f) /\ Clock(z1) = Clock(f)
      /\ z1.cpu.read = g
      /\ z1.cpu.head = f.cpu.head /\ z1.cpu.tail = f.cpu.tail /\ z1.cpu.full = f.cpu.full
  BY SetRead
<1> HIDE DEF z1
<1>3. /\ z2 \in Worlds /\ Queues(z2) = Queues(z1) /\ Lists(z2) = Lists(z1) /\ Buffer(z2) = Buffer(z1)
      /\ Ring(z2) = Ring(z1)
      /\ Answers(z2) = Answers(z1) /\ Clock(z2) = Clock(z1)
      /\ z2.cpu.fetchEntry = l
      /\ z2.cpu.failed = z1.cpu.failed
  BY <1>2, SetFetchEntry
<1> HIDE DEF z2
<1>4. /\ z3 \in Worlds /\ Queues(z3) = Queues(z2) /\ Lists(z3) = Lists(z2) /\ Buffer(z3) = Buffer(z2)
      /\ Answers(z3) = Answers(z2) /\ Turn(z3) = Turn(z2) /\ Clock(z3) = Clock(z2)
      /\ z3.cpu.head = h
      /\ z3.cpu.tail = z2.cpu.tail /\ z3.cpu.full = z2.cpu.full /\ z3.cpu.read = z2.cpu.read
  BY <1>3, SetHead
<1> HIDE DEF z3
<1>5. /\ z4 \in Worlds /\ Queues(z4) = Queues(z3) /\ Lists(z4) = Lists(z3) /\ Buffer(z4) = Buffer(z3)
      /\ Answers(z4) = Answers(z3) /\ Turn(z4) = Turn(z3) /\ Clock(z4) = Clock(z3)
      /\ z4.cpu.full = b
      /\ z4.cpu.head = z3.cpu.head /\ z4.cpu.tail = z3.cpu.tail /\ z4.cpu.read = z3.cpu.read
  BY <1>4, SetFull
<1> HIDE DEF z4
<1>6. /\ z4.cpu.fetchEntry = l /\ z4.cpu.failed = f.cpu.failed
      /\ z4.cpu.head = h /\ z4.cpu.tail = f.cpu.tail /\ z4.cpu.full = b /\ z4.cpu.read = g
  BY <1>2, <1>3, <1>4, <1>5 DEF Turn, Ring
<1>7. /\ z4 \in Worlds /\ Queues(z4) = Queues(f) /\ Lists(z4) = Lists(f) /\ Buffer(z4) = Buffer(f)
      /\ Answers(z4) = Answers(f) /\ Clock(z4) = Clock(f)
  BY <1>2, <1>3, <1>4, <1>5
<1> QED
  BY <1>1, <1>6, <1>7

LEMMA WindowEntries == ASSUME NEW w \in Worlds PROVE InWindow(w) \subseteq Entries
<1>1. w.cpu.tail \in Nat /\ RobSize \in Nat \ {0}
  BY CoreIs, Constants DEF Entries
<1> QED
  BY <1>1 DEF InWindow, Entries

\* What a step leaves as it is that only moves the ends of the buffer.
Moves(z, w) ==
    /\ Queues(z) = Queues(w) /\ Lists(z) = Lists(w) /\ Buffer(z) = Buffer(w)
    /\ Answers(z) = Answers(w) /\ Clock(z) = Clock(w)
    /\ z.cpu.failed \in {"", "resume"}

LEMMA MovesFine ==
    ASSUME NEW w, NEW z \in Good, NEW E, NEW E1, NEW H,
           Fine(w, {}, {}, {}, E, {}, {}), Pending(w, H), Moves(z, w), Alive(z, E1)
    PROVE  Fine(z, {}, {}, {}, E1, {}, {}) /\ Pending(z, H)
<1> DEFINE O == {}
<1>1. /\ w \in Good /\ Loads(w, O, O, O) /\ Placing(w, O, O) /\ Shaped(w) /\ Kinds(w) /\ Timed(w)
      /\ Pausing(w, O, O)
  BY DEF Fine, Sound, Loads
<1>2. Stamps(z) = Stamps(w) /\ Timing(z) = Timing(w) /\ z.cpu.rob = w.cpu.rob
  <2>1. Stamps(z) = Stamps(w) /\ z.cpu.rob = w.cpu.rob
    BY SameStamps DEF Moves, Buffer
  <2>2. Clock(z) = Clock(w) /\ z.cpu.slots = w.cpu.slots
    BY DEF Moves, Answers
  <2>3. Timing(z) = Timing(w)
    BY <2>2 DEF Timing, Clock
  <2> QED
    BY <2>1, <2>3
<1>3. Kinds(z) /\ SameSent(z, w) /\ z.cpu.lsq = w.cpu.lsq
  <2>1. z.cpu.stalled = w.cpu.stalled /\ z.cpu.slots = w.cpu.slots /\ z.atCache = w.atCache
        /\ z.cpu.lsq = w.cpu.lsq
    BY DEF Moves, Queues, Answers
  <2>2. Kinds(z)
    BY <1>1, <2>1 DEF Kinds
  <2>3. SameSent(z, w)
    BY <2>1 DEF SameSent, Sent
  <2> QED
    BY <2>1, <2>2, <2>3
<1> HIDE DEF O
<1>4. SameLoads(z, O, O, w, O, O, Reqs)
  BY <1>2, <1>3 DEF SameLoads, Load, Paused, SameSent
<1>5. SameTallies(z, w, Used(w)) /\ Awaited(z, O)
  BY <1>1, <1>2, <1>3 DEF SameTallies, Tally, Awaited, Placing, SameSent
<1>6. Loads(z, O, O, O)
  BY <1>1, <1>2, <1>4, <1>5, LoadsKept
<1>7. Used(z) = Used(w)
  BY <1>2, StampIs
<1>8. Shaped(z) /\ Pausing(z, O, O)
  BY <1>1, <1>2, <1>7 DEF Shaped, Pausing, Moves, Lists
<1>9. Sound(z)
  BY <1>1, <1>2, <1>3, <1>8, TimedKept DEF Sound, Moves
<1>10. Pending(z, H)
  BY <1>2 DEF Pending, Moves, Lists
<1>11. Fine(z, O, O, O, E1, O, O)
  BY <1>6, <1>8, <1>9 DEF Fine
<1> QED
  BY <1>10, <1>11 DEF O

LEMMA FetchOneFine ==
    ASSUME NEW w, NEW n, Fine(w, {}, {}, {}, {}, {}, {}), Pending(w, Reqs)
    PROVE  LET z == FetchOne(w, n) IN Fine(z, {}, {}, {}, {}, {}, {}) /\ Pending(z, Reqs)
<1> DEFINE g == w.cpu.read + 1
           e == w.cpu.head
           h == (e + 1) % RobSize
           b == h = w.cpu.tail
           v == NewEntry(g)
           y == WithEntry(w, e, v)
           f == InTurn(FetchInstr, y, Requests("instr", g))
           l == Append(f.cpu.fetchEntry, e)
           z == WithHead(f, g, l, h, b)
           O == {}
           E == {e}
<1>1. CASE g \notin DOMAIN Trace \/ w.cpu.full
  BY <1>1 DEF FetchOne
<1>2. CASE ~(g \notin DOMAIN Trace \/ w.cpu.full)
  <2>1. w \in Good /\ w \in Worlds
    BY DEF Fine, Sound, Good
  <2>2. g \in DOMAIN Trace /\ ~w.cpu.full /\ g \in 0 .. Len(Trace)
    BY <1>2, Constants
  <2>3. RobSize \in Nat \ {0} /\ e \in 0 .. RobSize - 1 /\ w.cpu.tail \in 0 .. RobSize - 1
        /\ e \in Entries /\ w.cpu.full = FALSE /\ w.cpu.read \in Nat
    BY <2>1, <2>2, Constants, CoreIs DEF Entries
  <2>4. FetchOne(w, n) = z
    BY <1>2 DEF FetchOne, WithHead, WithEntry
  <2>5. FetchOne(w, n) \in Good
    BY <2>1, FetchOneFollows
  <2>6. /\ y \in Good /\ Ring(y) = Ring(w) /\ Used(y) = Used(w) \cup {e} /\ y.cpu.rob[e] = v
    BY <2>1, <2>2, NewEntryDoes
  <2>7. /\ Fine(y, Range(Requests("instr", g)), O, O, E, O, O) /\ Pending(y, Reqs)
    BY <2>2, NewEntryFine
  <2>8. v.g = g /\ e \in Used(y)
    BY <2>6 DEF NewEntry
  <2>9. /\ Fine(f, O, O, O, E, O, O) /\ Pending(f, Reqs) /\ f \in Follow(y) /\ Ring(f) = Ring(y)
    <3> HIDE DEF g, e, y
    <3> QED
      BY <2>2, <2>7, <2>8, BlocksFetched
  <2>10. h \in Entries /\ b \in BOOLEAN
    BY <2>3 DEF Entries
  <2> HIDE DEF g, v, y, f, h, b
  <2>11. /\ f \in Good /\ f \in Worlds /\ l \in Seq(Entries)
         /\ Range(l) = Range(f.cpu.fetchEntry) \cup {e}
    <3>1. f \in Good /\ f \in Worlds /\ f.cpu.fetchEntry \in Seq(Entries)
      BY <2>9, CoreIs DEF Follow, Good
    <3> HIDE DEF e
    <3> QED
      BY <2>3, <3>1, AppendedIs
  <2> HIDE DEF l
  <2>12. /\ z \in Worlds
         /\ Queues(z) = Queues(f) /\ Lists(z) = Lists(f) /\ Buffer(z) = Buffer(f)
         /\ Answers(z) = Answers(f) /\ Clock(z) = Clock(f)
         /\ z.cpu.fetchEntry = l /\ z.cpu.failed = f.cpu.failed
         /\ z.cpu.head = h /\ z.cpu.tail = f.cpu.tail /\ z.cpu.full = b /\ z.cpu.read = g
    BY <2>2, <2>10, <2>11, HeadMoved
  <2> HIDE DEF z
  <2>13. z.cpu.tail = w.cpu.tail /\ f.cpu.head = e /\ f.cpu.full = FALSE /\ f.cpu.tail = w.cpu.tail
         /\ f.cpu.read = w.cpu.read
    BY <2>3, <2>6, <2>9, <2>12 DEF Ring
  <2>14. /\ Alive(f, E) /\ f.cpu.failed \in {"", "resume"}
    BY <2>9 DEF Fine, Sound
  <2>15. Used(f) = Used(y) /\ Used(z) = Used(f) /\ z.cpu.rob = f.cpu.rob /\ f.cpu.rob[e].g = g
    <3>1. Stamps(z) = Stamps(f) /\ z.cpu.rob = f.cpu.rob
      BY <2>12, SameStamps DEF Buffer
    <3>2. Stamps(f) = Stamps(y)
      BY <2>9 DEF Follow
    <3>3. f.cpu.rob[e].g = y.cpu.rob[e].g
      BY <2>3, <3>2, StampIs
    <3> QED
      BY <2>6, <2>8, <3>1, <3>2, <3>3, StampIs
  <2>16. \A d \in Entries : d \in InWindow(z) <=> d \in InWindow(f) \/ d = e
    <3> SUFFICES ASSUME NEW d \in Entries PROVE d \in InWindow(z) <=> d \in InWindow(f) \/ d = e
      OBVIOUS
    <3>1. d \in InWindow(z) <=> Between(w.cpu.tail, h, b, d)
      BY <2>12, <2>13, WindowIs
    <3>2. d \in InWindow(f) <=> Between(w.cpu.tail, e, FALSE, d)
      BY <2>11, <2>13, WindowIs
    <3>3. Between(w.cpu.tail, h, b, d) <=> Between(w.cpu.tail, e, FALSE, d) \/ d = e
      <4> DEFINE t == w.cpu.tail
      <4>1. d \in 0 .. RobSize - 1 /\ t \in 0 .. RobSize - 1
        BY <2>3 DEF Entries
      <4> HIDE DEF e, t
      <4>2. Between(t, (e + 1) % RobSize, (e + 1) % RobSize = t, d) <=> Between(t, e, FALSE, d) \/ d = e
        BY <2>3, <4>1, WindowGrows
      <4> QED
        BY <4>2 DEF h, b, t
    <3> QED
      BY <3>1, <3>2, <3>3
  <2>17. Alive(z, O)
    <3>1. z.cpu.full => z.cpu.head = z.cpu.tail
      BY <2>12, <2>13 DEF b
    <3>2. InWindow(z) \subseteq Used(z)
      <4>1. InWindow(z) \subseteq Entries
        BY <2>12, WindowEntries
      <4>2. e \in Used(z)
        BY <2>8, <2>15
      <4> QED
        BY <2>14, <2>15, <2>16, <4>1, <4>2 DEF Alive
    <3>3. ASSUME NEW d \in Used(z)
          PROVE  /\ z.cpu.rob[d].state # "DONE" => d \in InWindow(z) \cup O
                 /\ z.cpu.rob[d].state = "FETCHING" => d \in Range(z.cpu.fetchEntry) \cup O
                 /\ z.cpu.rob[d].g <= z.cpu.read \/ d \in O
      <4>1. d \in Used(f) /\ z.cpu.rob[d] = f.cpu.rob[d] /\ d \in Entries
        BY <2>15 DEF Used
      <4>2. /\ f.cpu.rob[d].state # "DONE" => d \in InWindow(f) \cup E
            /\ f.cpu.rob[d].state = "FETCHING" => d \in Range(f.cpu.fetchEntry) \cup E
            /\ f.cpu.rob[d].g <= f.cpu.read \/ d \in E
        BY <2>14, <4>1 DEF Alive
      <4>3. f.cpu.rob[d].g <= g
        <5>1. f.cpu.rob[d].g \in Nat /\ g \in Nat /\ w.cpu.read <= g
          <6>1. f.cpu.rob[d] \in RobEntries
            BY <2>11, <4>1, CoreIs
          <6>2. f.cpu.rob[d].g \in 0 .. Len(Trace)
            BY <6>1 DEF RobEntries
          <6>3. Len(Trace) \in Nat /\ w.cpu.read \in Nat
            BY <2>3, Constants
          <6> QED
            BY <6>2, <6>3 DEF g
        <5>2. CASE d = e
          BY <2>15, <5>1, <5>2
        <5>3. CASE d # e
          <6>1. f.cpu.rob[d].g <= w.cpu.read
            BY <2>13, <4>2, <5>3
          <6> QED
            BY <2>3, <5>1, <6>1
        <5> QED
          BY <5>2, <5>3
      <4> QED
        BY <2>11, <2>12, <2>16, <4>1, <4>2, <4>3
    <3> QED
      BY <3>1, <3>2, <3>3 DEF Alive
  <2>18. z \in Good /\ Moves(z, f)
    BY <2>4, <2>5, <2>12, <2>14 DEF Moves
  <2>19. Fine(z, O, O, O, O, O, O) /\ Pending(z, Reqs)
    <3> HIDE DEF E
    <3> QED
      BY <2>9, <2>17, <2>18, MovesFine
  <2> QED
    BY <2>4, <2>19
<1> QED
  BY <1>1, <1>2

LEMMA FetchFine ==
    ASSUME NEW w, Fine(w, {}, {}, {}, {}, {}, {}), Pending(w, Reqs)
    PROVE  LET z == Fetch(w) IN Fine(z, {}, {}, {}, {}, {}, {}) /\ Pending(z, Reqs)
<1> DEFINE y == [w EXCEPT !.cpu.fetchEntry = <<>>]
           q == [n \in 1 .. IssueWidth |-> n]
           F == {s \in Good : Fine(s, {}, {}, {}, {}, {}, {}) /\ Pending(s, Reqs)}
           O == {}
<1>1. w \in Good /\ w \in Worlds /\ <<>> \in Seq(Entries) /\ q \in Seq(Nat)
  <2>1. w \in Good /\ w \in Worlds
    BY DEF Good, Fine, Sound
  <2>2. <<>> \in Seq(Entries) /\ q \in Seq(Nat)
    BY CPUAssumption
  <2> QED
    BY <2>1, <2>2
<1>2. CASE ~MayFetch(w)
  BY <1>2 DEF Fetch
<1>3. CASE MayFetch(w)
  <2>1. /\ y \in Worlds /\ Queues(y) = Queues(w) /\ Lists(y) = Lists(w) /\ Ring(y) = Ring(w)
        /\ Buffer(y) = Buffer(w) /\ Answers(y) = Answers(w) /\ Clock(y) = Clock(w)
        /\ y.cpu.failed = w.cpu.failed
    BY <1>1, SetFetchEntry
  <2>2. Fetch(w) = InTurn(FetchOne, y, q)
    BY <1>3 DEF Fetch
  <2> HIDE DEF y, q
  <2>3. y \in Good
    <3>1. Keeps(y, w)
      BY <2>1, SameStamps DEF Keeps
    <3> QED
      BY <1>1, <3>1, KeepsGood
  <2>4. Moves(y, w)
    BY <2>1 DEF Moves, Fine, Sound
  <2>5. Alive(y, O)
    <3>1. Alive(w, O)
      BY DEF Fine
    <3>2. Used(y) = Used(w) /\ y.cpu.rob = w.cpu.rob /\ InWindow(y) = InWindow(w)
          /\ y.cpu.full = w.cpu.full /\ y.cpu.head = w.cpu.head /\ y.cpu.tail = w.cpu.tail
          /\ y.cpu.read = w.cpu.read
      BY <2>1, SameStamps, StampIs DEF Buffer, Ring, InWindow
    <3>3. ASSUME NEW d \in Used(w) PROVE w.cpu.rob[d].state # "FETCHING"
      <4>1. \A n \in DOMAIN w.cpu.fetchEntry : w.cpu.rob[w.cpu.fetchEntry[n]].state # "FETCHING"
        BY <1>3 DEF MayFetch
      <4>2. w.cpu.rob[d].state = "FETCHING" => d \in Range(w.cpu.fetchEntry)
        BY <3>1 DEF Alive
      <4> QED
        BY <4>1, <4>2 DEF Range
    <3> QED
      BY <3>1, <3>2, <3>3 DEF Alive
  <2>6. y \in F
    BY <2>3, <2>4, <2>5, MovesFine
  <2>7. \A s \in F, n \in Nat : FetchOne(s, n) \in F
    <3> SUFFICES ASSUME NEW s \in F, NEW n \in Nat PROVE FetchOne(s, n) \in F
      OBVIOUS
    <3>1. LET z == FetchOne(s, n) IN Fine(z, {}, {}, {}, {}, {}, {}) /\ Pending(z, Reqs)
      BY FetchOneFine
    <3> QED
      BY <3>1 DEF Fine, Sound
  <2>8. InTurn(FetchOne, y, q) \in F
    <3> HIDE DEF F
    <3> QED
      BY <1>1, <2>6, <2>7, FetchOneLoop DEF q
  <2> QED
    BY <2>2, <2>8
<1> QED
  BY <1>2, <1>3

-----------------------------------------------------------------------------
(* Commits *)

\* The entry at the tail is committed.
Committed(w) ==
    LET last == w.cpu.read = Len(Trace) /\ w.cpu.tail = (Len(Trace) - 1) % RobSize
        next == (w.cpu.tail + 1) % RobSize
    IN [w EXCEPT !.cpu.tail = next, !.cpu.full = FALSE, !.cpu.commits = @ + 1,
                 !.cpu.finished = IF last THEN @ + 1 ELSE @]

LEMMA TailMoved ==
    ASSUME NEW w \in Worlds
    PROVE  LET z == Committed(w) IN
           /\ z \in Worlds
           /\ Queues(z) = Queues(w) /\ Lists(z) = Lists(w) /\ Buffer(z) = Buffer(w)
           /\ Answers(z) = Answers(w) /\ Turn(z) = Turn(w) /\ Clock(z) = Clock(w)
           /\ z.cpu.head = w.cpu.head /\ z.cpu.tail = (w.cpu.tail + 1) % RobSize
           /\ ~z.cpu.full /\ z.cpu.read = w.cpu.read
<1> DEFINE last == w.cpu.read = Len(Trace) /\ w.cpu.tail = (Len(Trace) - 1) % RobSize
           t == (w.cpu.tail + 1) % RobSize
           f == IF last THEN w.cpu.finished + 1 ELSE w.cpu.finished
           c == w.cpu.commits + 1
           z1 == [w EXCEPT !.cpu.tail = t]
           z2 == [z1 EXCEPT !.cpu.full = FALSE]
           z3 == [z2 EXCEPT !.cpu.commits = c]
           z4 == [z3 EXCEPT !.cpu.finished = f]
<1>1. Committed(w) = z4
  <2> HIDE DEF last, t
  <2>1. Committed(w) = [w EXCEPT !.cpu.tail = t, !.cpu.full = FALSE, !.cpu.commits = @ + 1,
                                 !.cpu.finished = IF last THEN @ + 1 ELSE @]
    BY DEF Committed, last, t
  <2>2. w.cpu.commits = z2.cpu.commits /\ w.cpu.finished = z3.cpu.finished
    BY DEF Worlds, Cores
  <2> QED
    BY <2>1, <2>2
<1>0. t \in Entries /\ f \in Nat /\ c \in Nat
  <2>1. w.cpu.tail \in Entries /\ w.cpu.finished \in Nat /\ w.cpu.commits \in Nat
    BY CoreIs
  <2> QED
    BY <2>1, Constants DEF Entries
<1> HIDE DEF t, f, c
<1>2. /\ z1 \in Worlds /\ Queues(z1) = Queues(w) /\ Lists(z1) = Lists(w) /\ Buffer(z1) = Buffer(w)
      /\ Answers(z1) = Answers(w) /\ Turn(z1) = Turn(w) /\ Clock(z1) = Clock(w)
      /\ z1.cpu.tail = t
      /\ z1.cpu.head = w.cpu.head /\ z1.cpu.full = w.cpu.full /\ z1.cpu.read = w.cpu.read
  BY <1>0, SetTail
<1> HIDE DEF z1
<1>3. /\ z2 \in Worlds /\ Queues(z2) = Queues(z1) /\ Lists(z2) = Lists(z1) /\ Buffer(z2) = Buffer(z1)
      /\ Answers(z2) = Answers(z1) /\ Turn(z2) = Turn(z1) /\ Clock(z2) = Clock(z1)
      /\ z2.cpu.full = FALSE
      /\ z2.cpu.head = z1.cpu.head /\ z2.cpu.tail = z1.cpu.tail /\ z2.cpu.read = z1.cpu.read
  BY <1>2, SetFull
<1> HIDE DEF z2
<1>4. /\ z3 \in Worlds /\ Queues(z3) = Queues(z2) /\ Lists(z3) = Lists(z2) /\ Ring(z3) = Ring(z2)
      /\ Buffer(z3) = Buffer(z2) /\ Answers(z3) = Answers(z2) /\ Turn(z3) = Turn(z2)
      /\ Clock(z3) = Clock(z2)
  BY <1>0, <1>3, SetCommits
<1> HIDE DEF z3
<1>5. /\ z4 \in Worlds /\ Queues(z4) = Queues(z3) /\ Lists(z4) = Lists(z3) /\ Ring(z4) = Ring(z3)
      /\ Buffer(z4) = Buffer(z3) /\ Answers(z4) = Answers(z3) /\ Turn(z4) = Turn(z3)
      /\ Clock(z4) = Clock(z3)
  BY <1>0, <1>4, SetFinished
<1> HIDE DEF z4
<1>6. Ring(z4) = Ring(z2)
  BY <1>4, <1>5
<1>7. /\ z4.cpu.head = w.cpu.head /\ z4.cpu.tail = t /\ ~z4.cpu.full /\ z4.cpu.read = w.cpu.read
  BY <1>2, <1>3, <1>6 DEF Ring
<1>8. /\ z4 \in Worlds
      /\ Queues(z4) = Queues(w) /\ Lists(z4) = Lists(w) /\ Buffer(z4) = Buffer(w)
      /\ Answers(z4) = Answers(w) /\ Turn(z4) = Turn(w) /\ Clock(z4) = Clock(w)
  BY <1>2, <1>3, <1>4, <1>5
<1> QED
  BY <1>1, <1>7, <1>8 DEF t

\* When the last entry of the trace is committed, it is the last in the buffer.
LEMMA LastIsLast ==
    ASSUME NEW w \in Good, InWindow(w) # {}, InWindow(w) \subseteq Used(w),
           w.cpu.read = Len(Trace), w.cpu.tail = (Len(Trace) - 1) % RobSize
    PROVE  w.cpu.head = (w.cpu.tail + 1) % RobSize
<1>1. RobSize \in Nat \ {0} /\ Len(Trace) \in Nat /\ w.cpu.head = Len(Trace) % RobSize
  BY Constants DEF Good, Placed
<1>2. Len(Trace) # 0
  <2>1. PICK e \in Used(w) : TRUE
    OBVIOUS
  <2>2. w.cpu.rob[e].g \in DOMAIN Trace
    BY UsedIs
  <2> QED
    BY <2>2, Constants
<1> DEFINE a == Len(Trace) - 1
<1>3. a \in Nat /\ a + 1 = Len(Trace) /\ w.cpu.tail = a % RobSize
  BY <1>1, <1>2
<1> HIDE DEF a
<1>4. ((a % RobSize) + 1) % RobSize = (a + 1) % RobSize
  BY <1>1, <1>3, ModNext
<1> QED
  BY <1>1, <1>3, <1>4

LEMMA CommitOneFine ==
    ASSUME NEW w, NEW n, Fine(w, {}, {}, {}, {}, {}, {}), Pending(w, Reqs)
    PROVE  LET z == CommitOne(w, n) IN Fine(z, {}, {}, {}, {}, {}, {}) /\ Pending(z, Reqs)
<1> DEFINE last == w.cpu.read = Len(Trace) /\ w.cpu.tail = (Len(Trace) - 1) % RobSize
           next == (w.cpu.tail + 1) % RobSize
           ok == last => w.cpu.head = next
           z == Committed(w)
           none == (w.cpu.head = w.cpu.tail /\ ~w.cpu.full) \/ w.cpu.rob[w.cpu.tail].state # "DONE"
           O == {}
<1>1. CASE none
  BY <1>1 DEF CommitOne
<1>2. CASE ~none
  <2>1. w \in Good /\ w \in Worlds /\ Alive(w, O)
    BY DEF Fine, Sound, Good
  <2>2. /\ RobSize \in Nat \ {0} /\ w.cpu.tail \in Entries /\ w.cpu.head \in Entries
        /\ w.cpu.full \in BOOLEAN
    BY <2>1, Constants, CoreIs
  <2>4. ASSUME NEW d \in Entries
        PROVE  /\ w.cpu.tail \in InWindow(w)
               /\ Between(next, w.cpu.head, FALSE, d) <=> d \in InWindow(w) /\ d # w.cpu.tail
    <3> DEFINE t == w.cpu.tail
               h == w.cpu.head
               u == w.cpu.full
    <3>1. t \in 0 .. RobSize - 1 /\ h \in 0 .. RobSize - 1 /\ d \in 0 .. RobSize - 1 /\ u \in BOOLEAN
      BY <2>2 DEF Entries
    <3>2. (u => h = t) /\ ~(h = t /\ ~u)
      BY <1>2, <2>1 DEF Alive
    <3>3. (t \in InWindow(w) <=> Between(t, h, u, t)) /\ (d \in InWindow(w) <=> Between(t, h, u, d))
      BY <2>1, <2>2, WindowIs
    <3> HIDE DEF t, h, u
    <3>4. /\ Between(t, h, u, t)
          /\ Between((t + 1) % RobSize, h, FALSE, d) <=> Between(t, h, u, d) /\ d # t
      <4>1. CASE u = TRUE
        <5>1. TRUE \in BOOLEAN /\ (TRUE => h = t) /\ ~(h = t /\ ~TRUE)
          BY <3>2, <4>1
        <5>2. /\ Between(t, h, TRUE, t)
              /\ Between((t + 1) % RobSize, h, FALSE, d) <=> Between(t, h, TRUE, d) /\ d # t
          BY <2>2, <3>1, <5>1, WindowShrinks
        <5> QED
          BY <4>1, <5>2
      <4>2. CASE u = FALSE
        <5>1. FALSE \in BOOLEAN /\ (FALSE => h = t) /\ ~(h = t /\ ~FALSE)
          BY <3>2, <4>2
        <5>2. /\ Between(t, h, FALSE, t)
              /\ Between((t + 1) % RobSize, h, FALSE, d) <=> Between(t, h, FALSE, d) /\ d # t
          BY <2>2, <3>1, <5>1, WindowShrinks
        <5> QED
          BY <4>2, <5>2
      <4> QED
        BY <3>1, <4>1, <4>2
    <3> QED
      BY <3>3, <3>4 DEF t, h, u
  <2>5. w.cpu.tail \in InWindow(w)
    BY <2>2, <2>4
  <2>6. ok
    BY <2>1, <2>5, LastIsLast DEF Alive
  <2>7. CommitOne(w, n) = z
    <3>1. CommitOne(w, n) = Fail(z, "commit", ok)
      BY <1>2 DEF CommitOne, Committed
    <3> HIDE DEF z, ok
    <3> QED
      BY <2>6, <3>1 DEF Fail
  <2>8. CommitOne(w, n) \in Good
    BY <2>1, CommitOneFollows
  <2> HIDE DEF next
  <2>9. /\ z \in Worlds
        /\ Queues(z) = Queues(w) /\ Lists(z) = Lists(w) /\ Buffer(z) = Buffer(w)
        /\ Answers(z) = Answers(w) /\ Turn(z) = Turn(w) /\ Clock(z) = Clock(w)
        /\ z.cpu.head = w.cpu.head /\ z.cpu.tail = next /\ ~z.cpu.full /\ z.cpu.read = w.cpu.read
    BY <2>1, TailMoved DEF next
  <2> HIDE DEF z
  <2>10. \A d \in Entries : d \in InWindow(z) <=> d \in InWindow(w) /\ d # w.cpu.tail
    <3>1. \A d \in Entries : d \in InWindow(z) <=> Between(next, w.cpu.head, FALSE, d)
      <4>1. z.cpu.full = FALSE
        BY <2>9, CoreIs
      <4> QED
        BY <2>9, <4>1, WindowIs
    <3> QED
      BY <2>4, <3>1
  <2>11. z.cpu.rob = w.cpu.rob /\ Used(z) = Used(w) /\ z.cpu.fetchEntry = w.cpu.fetchEntry
         /\ z.cpu.failed = w.cpu.failed
    BY <2>9, SameStamps, StampIs DEF Buffer, Turn
  <2>12. Alive(z, O)
    <3>1. InWindow(z) \subseteq Used(z)
      <4>1. InWindow(z) \subseteq Entries
        BY <2>9, WindowEntries
      <4> QED
        BY <2>1, <2>10, <2>11, <4>1 DEF Alive
    <3>2. ASSUME NEW d \in Used(z)
          PROVE  /\ z.cpu.rob[d].state # "DONE" => d \in InWindow(z) \cup O
                 /\ z.cpu.rob[d].state = "FETCHING" => d \in Range(z.cpu.fetchEntry) \cup O
                 /\ z.cpu.rob[d].g <= z.cpu.read \/ d \in O
      <4>1. d \in Used(w) /\ d \in Entries
        BY <2>11 DEF Used
      <4>2. w.cpu.rob[w.cpu.tail].state = "DONE"
        BY <1>2
      <4> QED
        BY <2>1, <2>9, <2>10, <2>11, <4>1, <4>2 DEF Alive
    <3> QED
      BY <2>9, <3>1, <3>2 DEF Alive
  <2>13. z \in Good /\ Moves(z, w)
    BY <2>7, <2>8, <2>9, <2>11 DEF Moves, Fine, Sound
  <2>14. Fine(z, O, O, O, O, O, O) /\ Pending(z, Reqs)
    BY <2>12, <2>13, MovesFine
  <2> QED
    BY <2>7, <2>14
<1> QED
  BY <1>1, <1>2

\* What a step leaves as it is that only changes events, flags and lists outside.
Stays(z, w) ==
    /\ Buffer(z) = Buffer(w) /\ Lists(z) = Lists(w) /\ Ring(z) = Ring(w) /\ Turn(z) = Turn(w)
    /\ z.cpu.stalled = w.cpu.stalled /\ z.cpu.lsq = w.cpu.lsq /\ z.atCache.reads = w.atCache.reads
    /\ \A m \in {0, 1}, k \in CacheNames : z.cpu.slots[m][k] = w.cpu.slots[m][k]

LEMMA StaysFine ==
    ASSUME NEW w, NEW z \in Good, NEW H,
           Fine(w, {}, {}, {}, {}, {}, {}), Pending(w, H), Stays(z, w), Timed(z)
    PROVE  Fine(z, {}, {}, {}, {}, {}, {}) /\ Pending(z, H)
<1> DEFINE O == {}
<1>1. /\ w \in Good /\ Loads(w, O, O, O) /\ Placing(w, O, O) /\ Shaped(w) /\ Kinds(w)
      /\ Pausing(w, O, O) /\ Alive(w, O) /\ w.cpu.failed \in {"", "resume"}
  BY DEF Fine, Sound, Loads
<1>2. Stamps(z) = Stamps(w) /\ z.cpu.rob = w.cpu.rob
  BY SameStamps DEF Stays, Buffer
<1>3. Kinds(z)
  <2>1. /\ z.cpu.stalled = w.cpu.stalled /\ z.atCache.reads = w.atCache.reads
        /\ \A m \in {0, 1}, k \in CacheNames : z.cpu.slots[m][k] = w.cpu.slots[m][k]
    BY DEF Stays
  <2>2. Kinds(w)
    BY <1>1
  <2> QED
    BY <2>1, <2>2 DEF Kinds
<1>4. SameSent(z, w) /\ z.cpu.lsq = w.cpu.lsq
  <2>1. ASSUME NEW q \in Reqs PROVE Sent(z, q) = Sent(w, q)
    <3>1. q.kind \in CacheNames
      BY RequestIs
    <3> QED
      BY <3>1 DEF Stays, Sent
  <2> QED
    BY <2>1 DEF SameSent, Stays
<1> HIDE DEF O
<1>5. SameLoads(z, O, O, w, O, O, Reqs)
  BY <1>2, <1>4 DEF SameLoads, Load, Paused, SameSent
<1>6. SameTallies(z, w, Used(w)) /\ Awaited(z, O)
  BY <1>1, <1>2, <1>4 DEF SameTallies, Tally, Awaited, Placing, SameSent
<1>7. Loads(z, O, O, O)
  BY <1>1, <1>2, <1>5, <1>6, LoadsKept
<1>8. Used(z) = Used(w)
  BY <1>2, StampIs
<1>9. Shaped(z) /\ Pausing(z, O, O)
  BY <1>1, <1>2, <1>8 DEF Shaped, Pausing, Stays, Lists, O
<1>10. Alive(z, O)
  <2>1. /\ Ring(z) = Ring(w) /\ z.cpu.fetchEntry = w.cpu.fetchEntry
        /\ \A e \in Used(w) : z.cpu.rob[e].state # w.cpu.rob[e].state =>
               w.cpu.rob[e].state # "DONE" /\ z.cpu.rob[e].state # "FETCHING"
    BY <1>2 DEF Stays, Turn
  <2> QED
    BY <1>1, <1>2, <2>1, AliveKept
<1>11. Sound(z)
  BY <1>1, <1>3, <1>9 DEF Sound, Stays, Turn
<1>12. Pending(z, H)
  BY <1>2 DEF Pending, Stays, Lists
<1>13. Fine(z, O, O, O, O, O, O)
  BY <1>7, <1>9, <1>10, <1>11 DEF Fine
<1> QED
  BY <1>12, <1>13 DEF O

\* scheduleEvent keeps one event for the slot.
LEMMA ScheduleFine ==
    ASSUME NEW w, NEW H, Fine(w, {}, {}, {}, {}, {}, {}), Pending(w, H)
    PROVE  LET z == ScheduleEvent(w) IN Fine(z, {}, {}, {}, {}, {}, {}) /\ Pending(z, H)
<1> DEFINE n == Slot
           v == [w.cpu.slots[n] EXCEPT !.scheduled = TRUE]
           y == WithSlot(w, n, v)
           m == [y.cpu.next EXCEPT !.process = @ + 1]
           z == [y EXCEPT !.cpu.next = m]
<1>1. CASE w.cpu.slots[n].scheduled
  BY <1>1 DEF ScheduleEvent
<1>2. CASE ~w.cpu.slots[n].scheduled
  <2>1. w \in Good /\ w \in Worlds /\ Timed(w)
    BY DEF Fine, Sound, Good
  <2>2. n \in {0, 1} /\ 1 - n \in {0, 1} /\ 1 - n # n /\ w.cpu.slots[n] \in Slots
    <3>1. n \in {0, 1} /\ 1 - n \in {0, 1}
      BY SlotsAre
    <3> HIDE DEF n
    <3> QED
      BY <2>1, <3>1, CoreIs
  <2>3. ScheduleEvent(w) = z /\ ScheduleEvent(w) \in Good
    <3>1. ScheduleEvent(w) = z
      BY <1>2 DEF ScheduleEvent, WithSlot
    <3>2. Keeps(ScheduleEvent(w), w)
      BY <2>1, ScheduleKeeps
    <3> QED
      BY <2>1, <3>1, <3>2, KeepsGood
  <2> HIDE DEF n
  <2>4. v \in Slots /\ v.scheduled /\ \A k \in CacheNames : v[k] = w.cpu.slots[n][k]
    BY <2>2 DEF Slots, CacheNames
  <2> HIDE DEF v
  <2>5. /\ y \in Worlds
        /\ Queues(y) = Queues(w) /\ Lists(y) = Lists(w) /\ Ring(y) = Ring(w)
        /\ Buffer(y) = Buffer(w) /\ Turn(y) = Turn(w) /\ Clock(y) = Clock(w)
        /\ y.cpu.lsq = w.cpu.lsq /\ y.atCache = w.atCache
        /\ y.cpu.slots[n] = v /\ \A j \in {0, 1} : j # n => y.cpu.slots[j] = w.cpu.slots[j]
    <3>1. w \in Good /\ n \in {0, 1} /\ v \in Slots
      BY <2>1, <2>2, <2>4
    <3> QED
      BY <3>1, SlotDoes
  <2> HIDE DEF y
  <2>6. m \in Counts /\ m.process = w.cpu.next.process + 1 /\ m.drain = y.cpu.next.drain
    <3>1. y.cpu.next \in Counts /\ y.cpu.next = w.cpu.next
      BY <2>5, CoreIs DEF Clock
    <3> QED
      BY <3>1 DEF Counts
  <2> HIDE DEF m
  <2>7. /\ z \in Worlds
        /\ Queues(z) = Queues(y) /\ Lists(z) = Lists(y) /\ Ring(z) = Ring(y)
        /\ Buffer(z) = Buffer(y) /\ Answers(z) = Answers(y) /\ Turn(z) = Turn(y)
        /\ z.cpu.next = m
        /\ z.cpu.now = y.cpu.now
    BY <2>5, <2>6, SetNext
  <2> HIDE DEF z
  <2>8. z.cpu.slots = y.cpu.slots /\ z.atCache = w.atCache /\ z.cpu.lsq = w.cpu.lsq
        /\ z.cpu.stalled = w.cpu.stalled
    BY <2>5, <2>7 DEF Answers, Queues
  <2>9. Timed(z)
    <3>1. w.cpu.next.process = 0 /\ w.cpu.now.process = One(w.cpu.slots[1 - n].scheduled)
      BY <1>2, <2>1 DEF Timed, One, n
    <3>2. z.cpu.slots[n].scheduled /\ z.cpu.slots[1 - n] = w.cpu.slots[1 - n]
      BY <2>2, <2>4, <2>5, <2>8
    <3>3. z.cpu.now = w.cpu.now /\ z.cpu.next.process = 1
      BY <2>5, <2>6, <2>7, <3>1 DEF Clock
    <3> QED
      BY <3>1, <3>2, <3>3 DEF Timed, One, n
  <2>10. Stays(z, w)
    <3>1. ASSUME NEW j \in {0, 1}, NEW k \in CacheNames PROVE z.cpu.slots[j][k] = w.cpu.slots[j][k]
      <4>1. CASE j = n
        BY <2>4, <2>5, <2>8, <4>1
      <4>2. CASE j # n
        BY <2>5, <2>8, <4>2
      <4> QED
        BY <4>1, <4>2
    <3> QED
      BY <2>5, <2>7, <2>8, <3>1 DEF Stays
  <2>11. Fine(z, {}, {}, {}, {}, {}, {}) /\ Pending(z, H)
    BY <2>3, <2>9, <2>10, StaysFine
  <2> QED
    BY <2>3, <2>11
<1> QED
  BY <1>1, <1>2

LEMMA CommitFine ==
    ASSUME NEW w, Fine(w, {}, {}, {}, {}, {}, {}), Pending(w, Reqs)
    PROVE  LET z == Commit(w) IN Fine(z, {}, {}, {}, {}, {}, {}) /\ Pending(z, Reqs)
<1> DEFINE y == [w EXCEPT !.cpu.commits = 0]
           q == [n \in 1 .. IssueWidth |-> n]
           c == InTurn(CommitOne, y, q)
           F == {s \in Good : Fine(s, {}, {}, {}, {}, {}, {}) /\ Pending(s, Reqs)}
<1>1. w \in Good /\ w \in Worlds /\ Timed(w) /\ w.cpu.failed \in {"", "resume"}
  BY DEF Good, Fine, Sound
<1>2. q \in Seq(Nat)
  BY CPUAssumption
<1>3. y \in F
  <2>1. /\ y \in Worlds /\ Queues(y) = Queues(w) /\ Lists(y) = Lists(w) /\ Ring(y) = Ring(w)
        /\ Buffer(y) = Buffer(w) /\ Answers(y) = Answers(w) /\ Turn(y) = Turn(w) /\ Clock(y) = Clock(w)
    BY <1>1, SetCommits
  <2> HIDE DEF y
  <2>2. Keeps(y, w)
    BY <2>1, SameStamps DEF Keeps
  <2>3. y \in Good
    BY <1>1, <2>2, KeepsGood
  <2>4. Stays(y, w)
    BY <2>1 DEF Stays, Queues, Answers
  <2>5. Timed(y)
    BY <1>1, <2>1 DEF Timed, Clock, Answers
  <2> QED
    BY <2>3, <2>4, <2>5, StaysFine
<1>4. \A s \in F, n \in Nat : CommitOne(s, n) \in F
  <2> SUFFICES ASSUME NEW s \in F, NEW n \in Nat PROVE CommitOne(s, n) \in F
    OBVIOUS
  <2>1. LET z == CommitOne(s, n) IN Fine(z, {}, {}, {}, {}, {}, {}) /\ Pending(z, Reqs)
    BY CommitOneFine
  <2> QED
    BY <2>1 DEF Fine, Sound
<1>5. c \in F
  <2> HIDE DEF F, y, q
  <2> QED
    BY <1>2, <1>3, <1>4, CommitOneLoop
<1>6. Commit(w) = c \/ Commit(w) = ScheduleEvent(c)
  BY DEF Commit
<1> HIDE DEF c
<1>7. LET z == ScheduleEvent(c) IN Fine(z, {}, {}, {}, {}, {}, {}) /\ Pending(z, Reqs)
  BY <1>5, ScheduleFine
<1> QED
  BY <1>5, <1>6, <1>7

-----------------------------------------------------------------------------
(* The PROCESS event *)

Unscheduled(w) == WithSlot(w, 1 - Slot, [w.cpu.slots[1 - Slot] EXCEPT !.scheduled = FALSE])

LEMMA ProcessSlotFine ==
    ASSUME NEW w, w.cpu.slots[1 - Slot].scheduled,
           Fine(Unscheduled(w), {}, {}, {}, {}, {}, {}), Pending(Unscheduled(w), Reqs)
    PROVE  LET z == ProcessSlot(w) IN Fine(z, {}, {}, {}, {}, {}, {}) /\ Pending(z, Reqs)
<1> DEFINE w0 == Unscheduled(w)
           w1 == ResumePrivate(w0)
           w2 == Unstall(w1, "instr")
           w3 == Unstall(w2, "data")
           w4 == ProcessInstr(w3)
           w5 == Fetch(w4)
           w6 == ProcessData(w5)
           w7 == Commit(w6)
           F == {s \in Good : Fine(s, {}, {}, {}, {}, {}, {}) /\ Pending(s, Reqs)}
<1>1. ProcessSlot(w) = w7
  BY DEF ProcessSlot, Unscheduled, WithSlot, Fail
<1>2. ASSUME NEW s, Fine(s, {}, {}, {}, {}, {}, {}), Pending(s, Reqs) PROVE s \in F
  BY <1>2 DEF Fine, Sound
<1>3. w0 \in F
  BY <1>2
<1> HIDE DEF w0
<1>4. w1 \in F
  <2>1. LET z == w1 IN Fine(z, {}, {}, {}, {}, {}, {}) /\ Pending(z, Reqs)
    BY <1>3, ResumeFine
  <2> QED
    BY <1>2, <2>1
<1> HIDE DEF w1
<1>5. w2 \in F
  <2>1. LET z == w2 IN Fine(z, {}, {}, {}, {}, {}, {}) /\ Pending(z, Reqs)
    BY <1>4, Constants, UnstallFine
  <2> QED
    BY <1>2, <2>1
<1> HIDE DEF w2
<1>6. w3 \in F
  <2>1. LET z == w3 IN Fine(z, {}, {}, {}, {}, {}, {}) /\ Pending(z, Reqs)
    BY <1>5, Constants, UnstallFine
  <2> QED
    BY <1>2, <2>1
<1> HIDE DEF w3
<1>7. w4 \in F
  <2>1. LET z == w4 IN Fine(z, {}, {}, {}, {}, {}, {}) /\ Pending(z, Reqs)
    BY <1>6, ProcessInstrFine
  <2> QED
    BY <1>2, <2>1
<1> HIDE DEF w4
<1>8. w5 \in F
  <2>1. LET z == w5 IN Fine(z, {}, {}, {}, {}, {}, {}) /\ Pending(z, Reqs)
    BY <1>7, FetchFine
  <2> QED
    BY <1>2, <2>1
<1> HIDE DEF w5
<1>9. w6 \in F
  <2>1. LET z == w6 IN Fine(z, {}, {}, {}, {}, {}, {}) /\ Pending(z, Reqs)
    BY <1>8, ProcessDataFine
  <2> QED
    BY <1>2, <2>1
<1> HIDE DEF w6
<1>10. LET z == w7 IN Fine(z, {}, {}, {}, {}, {}, {}) /\ Pending(z, Reqs)
  BY <1>9, CommitFine
<1> QED
  BY <1>1, <1>10

-----------------------------------------------------------------------------
(* The invariant in the next state *)

LEMMA NowFine ==
    ASSUME AInv
    PROVE  /\ Now \in Good /\ Now \in Worlds /\ Now.cpu = cpu
           /\ Fine(Now, {}, {}, {}, {}, {}, {}) /\ Pending(Now, Reqs)
    BY DEF AInv, IInv, Answered, Fine, Sound, Good, Now

LEMMA FineAnswered ==
    ASSUME NEW z, Fine(z, {}, {}, {}, {}, {}, {}), Pending(z, Reqs)
    PROVE  Answered(z) /\ Timed(z) /\ z \in Good
    BY DEF Fine, Sound, Answered

LEMMA AnsweredNext == ASSUME NEW z, Answered(z), Now' = z PROVE Answered(Now)'
    OBVIOUS

\* A step of the cycle.
LEMMA SameCycle ==
    ASSUME IInv', NEW z, Fine(z, {}, {}, {}, {}, {}, {}), Pending(z, Reqs), Now' = z, odd' = odd
    PROVE  AInv'
<1>1. Answered(z) /\ Timed(z)
  BY FineAnswered
<1>2. Answered(Now)'
  BY <1>1, AnsweredNext
<1>3. Timed(Now)'
  BY <1>1 DEF Timed, Slot
<1> QED
  BY <1>2, <1>3 DEF AInv

\* Nothing that the invariant is about has changed.
LEMMA AsideFine ==
    ASSUME NEW w, NEW z \in Worlds, NEW H, Fine(w, {}, {}, {}, {}, {}, {}), Pending(w, H),
           Queues(z) = Queues(w), Lists(z) = Lists(w), Ring(z) = Ring(w),
           Buffer(z) = Buffer(w), Answers(z) = Answers(w), Turn(z) = Turn(w), Clock(z) = Clock(w)
    PROVE  Fine(z, {}, {}, {}, {}, {}, {}) /\ Pending(z, H)
<1>1. w \in Good /\ Timed(w)
  BY DEF Fine, Sound
<1>2. z \in Good
  <2>1. Keeps(z, w)
    BY SameStamps DEF Keeps
  <2> QED
    BY <1>1, <2>1, KeepsGood
<1>3. Stays(z, w)
  BY DEF Stays, Queues, Answers
<1>4. Timed(z)
  BY <1>1 DEF Timed, Clock, Answers
<1> QED
  BY <1>2, <1>3, <1>4, StaysFine

LEMMA ProcessAnswers == ASSUME AInv, Process PROVE AInv'
<1>1. PICK quota \in [CacheNames -> Accepts] :
          Becomes([ProcessSlot([Now EXCEPT !.cpu.quota = quota, !.cpu.now.process = @ - 1])
                   EXCEPT !.cpu.quota = [k \in CacheNames |-> 0], !.cpu.commits = 0])
  BY DEF Process
<1> DEFINE a == [Now EXCEPT !.cpu.quota = quota]
           m == [a.cpu.now EXCEPT !.process = @ - 1]
           b == [a EXCEPT !.cpu.now = m]
           none == [k \in CacheNames |-> 0]
           s == ProcessSlot(b)
           y == [s EXCEPT !.cpu.quota = none]
           z == [y EXCEPT !.cpu.commits = 0]
           n == 1 - Slot
           v == [b.cpu.slots[n] EXCEPT !.scheduled = FALSE]
           u == WithSlot(b, n, v)
<1>2. /\ Now \in Good /\ Now \in Worlds /\ Now.cpu = cpu
      /\ Fine(Now, {}, {}, {}, {}, {}, {}) /\ Pending(Now, Reqs) /\ Timed(Now)
  BY NowFine DEF AInv
<1>3. quota \in [CacheNames -> Nat] /\ none \in [CacheNames -> Nat] /\ n \in {0, 1} /\ Slot \in {0, 1} /\ n # Slot
  <2>1. Slot \in {0, 1} /\ n \in {0, 1} /\ n # Slot
    BY SlotsAre
  <2> QED
    BY <2>1, CPUAssumption
<1>4. /\ a \in Worlds /\ Queues(a) = Queues(Now) /\ Lists(a) = Lists(Now) /\ Ring(a) = Ring(Now)
      /\ Buffer(a) = Buffer(Now) /\ Answers(a) = Answers(Now) /\ Turn(a) = Turn(Now)
      /\ Clock(a) = Clock(Now)
  BY <1>2, <1>3, SetQuota
<1>5. /\ m \in Counts /\ cpu.now.process > 0 /\ m.process = cpu.now.process - 1
      /\ m.drain = a.cpu.now.drain
  <2>1. a.cpu.now = cpu.now /\ cpu.now.process > 0
    BY <1>2, <1>4 DEF Process, Clock
  <2>2. a.cpu.now \in Counts
    BY <1>4, CoreIs
  <2> QED
    BY <2>1, <2>2 DEF Counts
<1> HIDE DEF a
<1>6. /\ b \in Worlds /\ Queues(b) = Queues(a) /\ Lists(b) = Lists(a) /\ Ring(b) = Ring(a)
      /\ Buffer(b) = Buffer(a) /\ Answers(b) = Answers(a) /\ Turn(b) = Turn(a)
      /\ b.cpu.now = m /\ b.cpu.next = a.cpu.next
  <2> HIDE DEF m
  <2> QED
    BY <1>4, <1>5, SetNow
<1>7. Becomes(z)
  BY <1>1 DEF a
<1>8. u = Unscheduled(b)
  BY DEF Unscheduled
<1> HIDE DEF b, m
<1>9. b \in Good
  <2>1. Keeps(b, Now)
    BY <1>4, <1>6, SameStamps DEF Keeps
  <2> QED
    BY <1>2, <2>1, KeepsGood
<1>10. b.cpu.slots[n].scheduled
  <2>1. Now.cpu.now.process = One(Now.cpu.slots[n].scheduled)
    BY <1>2 DEF Timed
  <2> QED
    BY <1>2, <1>4, <1>5, <1>6, <2>1 DEF Answers, One
<1>11. b.cpu.slots[n].scheduled = TRUE /\ b.cpu.slots[1 - Slot].scheduled
  <2>1. b.cpu.slots[n].scheduled \in BOOLEAN
    BY <1>3, <1>6, SlotIs
  <2> QED
    BY <1>10, <2>1
<1> HIDE DEF n
<1>12. v \in Slots /\ v.scheduled = FALSE /\ \A k \in CacheNames : v[k] = b.cpu.slots[n][k]
  <2>1. b.cpu.slots[n] \in Slots
    BY <1>3, <1>6, SlotIs
  <2> QED
    BY <2>1 DEF Slots, CacheNames
<1> HIDE DEF v
<1>13. /\ u \in Good /\ u \in Worlds
       /\ Queues(u) = Queues(b) /\ Lists(u) = Lists(b) /\ Ring(u) = Ring(b)
       /\ Buffer(u) = Buffer(b) /\ Turn(u) = Turn(b) /\ Clock(u) = Clock(b)
       /\ u.cpu.lsq = b.cpu.lsq /\ u.atCache = b.atCache
       /\ u.cpu.slots[n] = v /\ \A j \in {0, 1} : j # n => u.cpu.slots[j] = b.cpu.slots[j]
  BY <1>3, <1>9, <1>12, SlotDoes
<1> HIDE DEF u
<1>14. /\ b.cpu.slots = Now.cpu.slots /\ b.cpu.lsq = Now.cpu.lsq /\ b.atCache = Now.atCache
       /\ u.cpu.stalled = Now.cpu.stalled
  BY <1>4, <1>6, <1>13 DEF Answers, Queues
<1>15. Stays(u, Now)
  <2>1. ASSUME NEW j \in {0, 1}, NEW k \in CacheNames PROVE u.cpu.slots[j][k] = Now.cpu.slots[j][k]
    <3>1. CASE j = n
      BY <1>12, <1>13, <1>14, <3>1
    <3>2. CASE j # n
      BY <1>13, <1>14, <3>2
    <3> QED
      BY <3>1, <3>2
  <2> QED
    BY <1>4, <1>6, <1>13, <1>14, <2>1 DEF Stays
<1>16. Timed(u)
  <2>1. /\ u.cpu.now.process = cpu.now.process - 1 /\ u.cpu.next = Now.cpu.next
    BY <1>4, <1>5, <1>6, <1>13 DEF Clock
  <2>2. u.cpu.slots[Slot] = Now.cpu.slots[Slot] /\ u.cpu.slots[n].scheduled = FALSE
    BY <1>3, <1>12, <1>13, <1>14
  <2>3. cpu.now.process = 1 /\ Now.cpu.next.process = One(Now.cpu.slots[Slot].scheduled)
    BY <1>2, <1>5 DEF Timed, One
  <2> QED
    BY <2>1, <2>2, <2>3 DEF Timed, One, n
<1>17. Fine(u, {}, {}, {}, {}, {}, {}) /\ Pending(u, Reqs)
  BY <1>2, <1>13, <1>15, <1>16, StaysFine
<1>18. Fine(s, {}, {}, {}, {}, {}, {}) /\ Pending(s, Reqs)
  <2>1. LET q == ProcessSlot(b) IN Fine(q, {}, {}, {}, {}, {}, {}) /\ Pending(q, Reqs)
    BY <1>8, <1>11, <1>17, ProcessSlotFine
  <2> QED
    BY <2>1
<1> HIDE DEF s, none
<1>19. Fine(y, {}, {}, {}, {}, {}, {}) /\ Pending(y, Reqs)
  <2>1. s \in Worlds
    BY <1>18 DEF Fine, Sound, Good
  <2>2. /\ y \in Worlds /\ Queues(y) = Queues(s) /\ Lists(y) = Lists(s) /\ Ring(y) = Ring(s)
        /\ Buffer(y) = Buffer(s) /\ Answers(y) = Answers(s) /\ Turn(y) = Turn(s)
        /\ Clock(y) = Clock(s)
    BY <1>3, <2>1, SetQuota
  <2> HIDE DEF y
  <2> QED
    BY <1>18, <2>2, AsideFine
<1> HIDE DEF y
<1>20. z \in Worlds /\ Fine(z, {}, {}, {}, {}, {}, {}) /\ Pending(z, Reqs)
  <2>1. y \in Worlds
    BY <1>19 DEF Fine, Sound, Good
  <2>2. /\ z \in Worlds /\ Queues(z) = Queues(y) /\ Lists(z) = Lists(y) /\ Ring(z) = Ring(y)
        /\ Buffer(z) = Buffer(y) /\ Answers(z) = Answers(y) /\ Turn(z) = Turn(y)
        /\ Clock(z) = Clock(y)
    BY <2>1, SetCommits
  <2> HIDE DEF z
  <2> QED
    BY <1>19, <2>2, AsideFine
<1> HIDE DEF z
<1>21. Now' = z
  BY <1>7, <1>20, BecomesIs
<1>22. IInv'
  BY ProcessStep DEF AInv
<1> QED
  BY <1>20, <1>21, <1>22, SameCycle DEF Process

LEMMA UnstallAnswers == ASSUME AInv, NEW kind \in CacheNames, UnstallCPU(kind) PROVE AInv'
<1> DEFINE n == Slot
           us == Now.atCache.unstall \ {kind}
           a == [Now EXCEPT !.atCache.unstall = us]
           v == [a.cpu.slots[n] EXCEPT !.unstall[kind] = TRUE]
           b == WithSlot(a, n, v)
           z == ScheduleEvent(b)
<1>1. /\ Now \in Good /\ Now \in Worlds
      /\ Fine(Now, {}, {}, {}, {}, {}, {}) /\ Pending(Now, Reqs) /\ Timed(Now)
  BY NowFine DEF AInv
<1>2. us \in SUBSET CacheNames /\ n \in {0, 1}
  <2>1. Now.atCache.unstall \in SUBSET CacheNames
    BY <1>1, CoreIs
  <2> QED
    BY <2>1, SlotsAre
<1>3. Becomes(z)
  BY DEF UnstallCPU, WithSlot
<1> HIDE DEF n, us
<1>4. /\ a \in Worlds /\ Queues(a) = Queues(Now) /\ Lists(a) = Lists(Now) /\ Ring(a) = Ring(Now)
      /\ Buffer(a) = Buffer(Now) /\ Turn(a) = Turn(Now) /\ Clock(a) = Clock(Now)
      /\ a.cpu.lsq = Now.cpu.lsq /\ a.cpu.slots = Now.cpu.slots /\ a.atCache.reads = Now.atCache.reads
  BY <1>1, <1>2, SetUnstall
<1> HIDE DEF a
<1>5. a \in Good
  <2>1. Keeps(a, Now)
    BY <1>4, SameStamps DEF Keeps
  <2> QED
    BY <1>1, <2>1, KeepsGood
<1>6. /\ v \in Slots /\ v.scheduled = a.cpu.slots[n].scheduled
      /\ v.instr = a.cpu.slots[n].instr /\ v.data = a.cpu.slots[n].data
  <2>1. a.cpu.slots[n] \in Slots
    BY <1>2, <1>4, SlotIs
  <2> QED
    BY <2>1 DEF Slots
<1> HIDE DEF v
<1>7. Fine(a, {}, {}, {}, {}, {}, {}) /\ Pending(a, Reqs)
  <2>1. Stays(a, Now)
    BY <1>4 DEF Stays, Queues
  <2>2. Timed(a)
    BY <1>1, <1>4 DEF Timed, Clock
  <2> QED
    BY <1>1, <1>5, <2>1, <2>2, StaysFine
<1>8. b \in Good /\ Calm(b, a) /\ Kinds(b) /\ SameSent(b, a)
  <2>1. Kinds(a)
    BY <1>7 DEF Fine, Sound
  <2> QED
    BY <1>2, <1>5, <1>6, <2>1, FlagDoes
<1> HIDE DEF b
<1>9. Fine(b, {}, {}, {}, {}, {}, {}) /\ Pending(b, Reqs)
  BY <1>7, <1>8, SentFine
<1>10. Fine(z, {}, {}, {}, {}, {}, {}) /\ Pending(z, Reqs)
  BY <1>9, ScheduleFine
<1> HIDE DEF z
<1>11. Now' = z
  <2>1. z \in Worlds
    BY <1>10 DEF Fine, Sound, Good
  <2> QED
    BY <1>3, <2>1, BecomesIs
<1>12. IInv'
  BY UnstallStep DEF AInv
<1> QED
  BY <1>10, <1>11, <1>12, SameCycle DEF UnstallCPU

\* An answer goes from the cache to the slot that fills.
LEMMA CompleteAnswers == ASSUME AInv, NEW r \in atCache.reads, Complete(r) PROVE AInv'
<1> DEFINE n == Slot
           rs == Now.atCache.reads \ {r}
           a == [Now EXCEPT !.atCache.reads = rs]
           v == [a.cpu.slots[n] EXCEPT ![r.kind] = Append(@, r)]
           b == WithSlot(a, n, v)
           z == ScheduleEvent(b)
<1>1. /\ Now \in Good /\ Now \in Worlds
      /\ Fine(Now, {}, {}, {}, {}, {}, {}) /\ Pending(Now, Reqs) /\ Timed(Now) /\ Kinds(Now)
  BY NowFine DEF AInv, Answered
<1>2. /\ r \in Reqs /\ rs \in SUBSET Reqs /\ n \in {0, 1} /\ r.kind \in CacheNames
      /\ r \in Now.atCache.reads /\ IsRead(r)
  <2>1. Now.atCache.reads \in SUBSET Reqs /\ r \in Now.atCache.reads
    BY <1>1, CoreIs DEF Now
  <2>2. Kinds(Now)
    BY <1>1
  <2>3. IsRead(r)
    BY <2>1, <2>2 DEF Kinds
  <2> QED
    BY <2>1, <2>3, SlotsAre, RequestIs
<1>3. Becomes(z)
  BY DEF Complete, WithSlot
<1>4. \A q : q \in rs <=> q \in Now.atCache.reads /\ q # r
  OBVIOUS
<1> HIDE DEF n, rs
<1>5. /\ a \in Worlds /\ Queues(a) = Queues(Now) /\ Lists(a) = Lists(Now) /\ Ring(a) = Ring(Now)
      /\ Buffer(a) = Buffer(Now) /\ Turn(a) = Turn(Now) /\ Clock(a) = Clock(Now)
      /\ a.cpu.lsq = Now.cpu.lsq /\ a.cpu.slots = Now.cpu.slots /\ a.atCache.reads = rs
  BY <1>1, <1>2, SetReads
<1> HIDE DEF a
<1>6. a \in Good
  <2>1. Keeps(a, Now)
    BY <1>5, SameStamps DEF Keeps
  <2> QED
    BY <1>1, <2>1, KeepsGood
<1> DEFINE s == Now.cpu.slots[n]
<1>7. s \in Slots /\ s.instr \in Seq(Reqs) /\ s.data \in Seq(Reqs) /\ s[r.kind] \in Seq(Reqs)
  BY <1>1, <1>2, SlotIs
<1>8. /\ v.scheduled = s.scheduled /\ v[r.kind] = Append(s[r.kind], r)
      /\ \A k \in CacheNames \ {r.kind} : v[k] = s[k]
  <2>1. v = [s EXCEPT ![r.kind] = Append(s[r.kind], r)]
    BY <1>5
  <2> HIDE DEF s, v
  <2>2. DOMAIN s = {"scheduled", "resumed", "unstall", "instr", "data"} /\ s = [x \in DOMAIN s |-> s[x]]
    BY <1>7 DEF Slots
  <2> QED
    BY <1>2, <2>1, <2>2 DEF CacheNames
<1>9. v \in Slots
  <2>1. Append(s.instr, r) \in Seq(Reqs) /\ Append(s.data, r) \in Seq(Reqs)
    BY <1>2, <1>7, AppendProperties
  <2>2. v = [s EXCEPT !.instr = Append(s.instr, r)] \/ v = [s EXCEPT !.data = Append(s.data, r)]
    BY <1>2, <1>5 DEF CacheNames
  <2> HIDE DEF s, v
  <2> QED
    BY <1>7, <2>1, <2>2, SlotFields
<1> HIDE DEF v, s
<1>10. /\ b \in Good /\ b \in Worlds
       /\ Queues(b) = Queues(a) /\ Lists(b) = Lists(a) /\ Ring(b) = Ring(a)
       /\ Buffer(b) = Buffer(a) /\ Turn(b) = Turn(a) /\ Clock(b) = Clock(a)
       /\ b.cpu.lsq = a.cpu.lsq /\ b.atCache = a.atCache
       /\ b.cpu.slots[n] = v /\ \A m \in {0, 1} : m # n => b.cpu.slots[m] = a.cpu.slots[m]
  BY <1>2, <1>6, <1>9, SlotDoes
<1> HIDE DEF b
<1>11. /\ b.cpu.stalled = Now.cpu.stalled /\ b.cpu.now = Now.cpu.now /\ b.cpu.next = Now.cpu.next
       /\ b.atCache.reads = rs
  BY <1>5, <1>10 DEF Queues, Clock
<1>12. ASSUME NEW m \in {0, 1}
       PROVE  /\ b.cpu.slots[m].scheduled = Now.cpu.slots[m].scheduled
              /\ \A k \in CacheNames : b.cpu.slots[m][k] =
                     IF m = n /\ k = r.kind THEN Append(Now.cpu.slots[m][k], r) ELSE Now.cpu.slots[m][k]
  <2>1. CASE m = n
    BY <1>8, <1>10, <2>1 DEF s
  <2>2. CASE m # n
    BY <1>5, <1>10, <2>2
  <2> QED
    BY <2>1, <2>2
<1>13. Calm(b, Now)
  <2>1. Timing(b) = Timing(Now)
    BY <1>11, <1>12 DEF Timing
  <2> QED
    BY <1>5, <1>10, <2>1 DEF Calm
<1>14. Kinds(b)
  <2>1. ASSUME NEW m \in {0, 1}, NEW k \in CacheNames, NEW j \in DOMAIN b.cpu.slots[m][k]
        PROVE  b.cpu.slots[m][k][j].kind = k /\ IsRead(b.cpu.slots[m][k][j])
    <3> DEFINE l == Now.cpu.slots[m][k]
    <3>1. l \in Seq(Reqs) /\ Kinds(Now)
      BY <1>1, SlotIs
    <3>2. \A i \in DOMAIN l : l[i].kind = k /\ IsRead(l[i])
      BY <3>1 DEF Kinds
    <3>3. b.cpu.slots[m][k] = IF m = n /\ k = r.kind THEN Append(l, r) ELSE l
      BY <1>12
    <3> HIDE DEF l
    <3>4. CASE m = n /\ k = r.kind
      BY <1>2, <2>1, <3>1, <3>2, <3>3, <3>4, AppendedIs
    <3>5. CASE ~(m = n /\ k = r.kind)
      BY <2>1, <3>2, <3>3, <3>5
    <3> QED
      BY <3>4, <3>5
  <2>2. Kinds(Now)
    BY <1>1
  <2> QED
    BY <1>4, <1>11, <2>1, <2>2 DEF Kinds
<1>15. SameSent(b, Now)
  <2>1. ASSUME NEW q \in Reqs PROVE Sent(b, q) = Sent(Now, q)
    <3>1. q.kind \in CacheNames
      BY RequestIs
    <3>2. CASE q # r
      <4>1. \A m \in {0, 1} : Times(b.cpu.slots[m][q.kind], q) = Times(Now.cpu.slots[m][q.kind], q)
        <5> SUFFICES ASSUME NEW m \in {0, 1}
                     PROVE  Times(b.cpu.slots[m][q.kind], q) = Times(Now.cpu.slots[m][q.kind], q)
          OBVIOUS
        <5>1. Now.cpu.slots[m][q.kind] \in Seq(Reqs)
          BY <1>1, <3>1, SlotIs
        <5>2. Times(Append(Now.cpu.slots[m][q.kind], r), q) = Times(Now.cpu.slots[m][q.kind], q) + 0
          BY <1>2, <3>2, <5>1, TimesAppended
        <5>3. Times(Now.cpu.slots[m][q.kind], q) \in Nat
          BY <5>1, TimesIs
        <5> QED
          BY <1>12, <3>1, <5>2, <5>3
      <4>2. One(q \in b.atCache.reads) = One(q \in Now.atCache.reads)
        BY <1>4, <1>11, <3>2 DEF One
      <4> QED
        BY <1>11, <4>1, <4>2 DEF Sent
    <3>3. CASE q = r
      <4> DEFINE t(m) == Times(Now.cpu.slots[m][r.kind], r)
      <4>1. t(0) \in Nat /\ t(1) \in Nat /\ Times(Now.cpu.stalled[r.kind], r) \in Nat
        BY <1>1, <1>2, SentIs
      <4>2. Times(b.cpu.slots[n][r.kind], r) = t(n) + 1
        <5>1. Now.cpu.slots[n][r.kind] \in Seq(Reqs)
          BY <1>1, <1>2, SlotIs
        <5>2. Times(Append(Now.cpu.slots[n][r.kind], r), r) = t(n) + 1
          BY <1>2, <5>1, TimesAppended
        <5> QED
          BY <1>2, <1>12, <5>2
      <4>3. \A m \in {0, 1} : m # n => Times(b.cpu.slots[m][r.kind], r) = t(m)
        BY <1>2, <1>12
      <4>4. One(r \in b.atCache.reads) = 0 /\ One(r \in Now.atCache.reads) = 1
        BY <1>2, <1>4, <1>11 DEF One
      <4>5. /\ Sent(Now, r) = Times(Now.cpu.stalled[r.kind], r) + 1 + t(0) + t(1)
            /\ Sent(b, r) = Times(Now.cpu.stalled[r.kind], r) + 0 + Times(b.cpu.slots[0][r.kind], r)
                            + Times(b.cpu.slots[1][r.kind], r)
        BY <1>2, <1>11, <4>4 DEF Sent
      <4> HIDE DEF t
      <4>6. CASE n = 0
        BY <4>1, <4>2, <4>3, <4>5, <4>6, <3>3
      <4>7. CASE n = 1
        BY <4>1, <4>2, <4>3, <4>5, <4>7, <3>3
      <4> QED
        BY <1>2, <4>6, <4>7
    <3> QED
      BY <3>2, <3>3
  <2> QED
    BY <2>1 DEF SameSent
<1>16. Fine(b, {}, {}, {}, {}, {}, {}) /\ Pending(b, Reqs)
  BY <1>1, <1>10, <1>13, <1>14, <1>15, SentFine
<1>17. Fine(z, {}, {}, {}, {}, {}, {}) /\ Pending(z, Reqs)
  BY <1>16, ScheduleFine
<1> HIDE DEF z
<1>18. Now' = z
  <2>1. z \in Worlds
    BY <1>17 DEF Fine, Sound, Good
  <2> QED
    BY <1>3, <2>1, BecomesIs
<1>19. IInv'
  BY CompleteStep DEF AInv
<1> QED
  BY <1>17, <1>18, <1>19, SameCycle DEF Complete

\* A page is free: a listed core is resumed in the next cycle.
LEMMA FreeAnswers == ASSUME AInv, NEW p \in Pages, Free(p) PROVE AInv'
<1> DEFINE n == Slot
           v == [Now.cpu.slots[n] EXCEPT !.resumed = TRUE]
           u == Now.waiting \ {p}
           a == WithSlot(Now, n, v)
           b == [a EXCEPT !.waiting = u]
           z == IF p \notin waiting THEN Now ELSE ScheduleEvent(b)
<1>1. /\ Now \in Good /\ Now \in Worlds /\ Kinds(Now)
      /\ Fine(Now, {}, {}, {}, {}, {}, {}) /\ Pending(Now, Reqs)
  BY NowFine DEF AInv, Answered
<1>2. n \in {0, 1} /\ Now.cpu.slots[n] \in Slots /\ u \in SUBSET Pages
  BY <1>1, CoreIs, SlotsAre
<1>3. Becomes(z)
  <2>1. a.waiting = Now.waiting
    BY <1>1 DEF Worlds, WithSlot
  <2> QED
    BY <2>1 DEF Free, WithSlot
<1> HIDE DEF u, n
<1>4. /\ v \in Slots /\ v.scheduled = Now.cpu.slots[n].scheduled
      /\ v.instr = Now.cpu.slots[n].instr /\ v.data = Now.cpu.slots[n].data
  BY <1>2 DEF Slots
<1> HIDE DEF v
<1>5. a \in Good /\ Calm(a, Now) /\ Kinds(a) /\ SameSent(a, Now)
  BY <1>1, <1>2, <1>4, FlagDoes
<1> HIDE DEF a
<1>6. a \in Worlds /\ Fine(a, {}, {}, {}, {}, {}, {}) /\ Pending(a, Reqs)
  BY <1>1, <1>5, SentFine DEF Good
<1>7. /\ b \in Worlds /\ Queues(b) = Queues(a) /\ Lists(b) = Lists(a) /\ Ring(b) = Ring(a)
      /\ Buffer(b) = Buffer(a) /\ Answers(b) = Answers(a) /\ Turn(b) = Turn(a) /\ Clock(b) = Clock(a)
  BY <1>2, <1>6, SetWaiting
<1> HIDE DEF b
<1>8. Fine(b, {}, {}, {}, {}, {}, {}) /\ Pending(b, Reqs)
  BY <1>6, <1>7, AsideFine
<1>9. Fine(z, {}, {}, {}, {}, {}, {}) /\ Pending(z, Reqs)
  <2>1. LET s == ScheduleEvent(b) IN Fine(s, {}, {}, {}, {}, {}, {}) /\ Pending(s, Reqs)
    BY <1>8, ScheduleFine
  <2> QED
    BY <1>1, <2>1
<1> HIDE DEF z
<1>10. Now' = z
  <2>1. z \in Worlds
    BY <1>9 DEF Fine, Sound, Good
  <2> QED
    BY <1>3, <2>1, BecomesIs
<1>11. IInv'
  BY FreeStep DEF AInv
<1> QED
  BY <1>9, <1>10, <1>11, SameCycle DEF Free

\* What only changes the drains and the events leaves the answers as they are.
LEMMA SameAnswered ==
    ASSUME NEW w, NEW z, Answered(w),
           Buffer(z) = Buffer(w), Lists(z) = Lists(w), Ring(z) = Ring(w), Turn(z) = Turn(w),
           Answers(z) = Answers(w), z.cpu.stalled = w.cpu.stalled
    PROVE  Answered(z)
<1> DEFINE O == {}
<1>1. /\ z.cpu.rob = w.cpu.rob /\ z.cpu.slots = w.cpu.slots /\ z.atCache = w.atCache
      /\ z.cpu.lsq = w.cpu.lsq /\ z.cpu.instrPausers = w.cpu.instrPausers
      /\ z.cpu.dataPausers = w.cpu.dataPausers /\ z.cpu.fetchEntry = w.cpu.fetchEntry
      /\ z.cpu.head = w.cpu.head /\ z.cpu.tail = w.cpu.tail /\ z.cpu.full = w.cpu.full
      /\ z.cpu.read = w.cpu.read /\ z.cpu.failed = w.cpu.failed
  BY DEF Buffer, Answers, Lists, Ring, Turn
<1>2. /\ Shaped(w) /\ Kinds(w) /\ w.cpu.failed \in {"", "resume"}
      /\ Loads(w, O, O, O) /\ Alive(w, O) /\ Pausing(w, O, O) /\ Pending(w, Reqs)
  BY DEF Answered
<1> HIDE DEF O
<1>3. Used(z) = Used(w) /\ InWindow(z) = InWindow(w)
  BY <1>1 DEF Used, Stamps, InWindow
<1>4. ASSUME NEW r PROVE Sent(z, r) = Sent(w, r) /\ Load(z, O, O, r) = Load(w, O, O, r)
  <2>1. Sent(z, r) = Sent(w, r)
    BY <1>1 DEF Sent
  <2> QED
    BY <1>1, <2>1 DEF Load, Paused
<1>5. ASSUME NEW e, NEW k PROVE Due(z, O, O, e, k) = Due(w, O, O, e, k)
  BY <1>1, <1>4 DEF Due
<1>6. Loads(z, O, O, O)
  <2>1. Placing(z, O, O)
    BY <1>1, <1>2, <1>4 DEF Loads, Placing
  <2>2. ASSUME NEW e \in Used(z) PROVE Waits(z, O, O, O, e)
    <3>1. Waits(w, O, O, O, e)
      BY <1>2, <1>3 DEF Loads
    <3> QED
      BY <1>1, <1>5, <3>1 DEF Waits
  <2> QED
    BY <2>1, <2>2 DEF Loads
<1>7. Shaped(z) /\ Pending(z, Reqs)
  BY <1>1, <1>2, <1>3 DEF Shaped, Pending
<1>8. Kinds(z)
  <2>1. Kinds(w)
    BY <1>2
  <2> QED
    BY <1>1, <2>1 DEF Kinds
<1>9. Alive(z, O)
  BY <1>1, <1>2, <1>3 DEF Alive
<1>10. Pausing(z, O, O)
  BY <1>1, <1>2, <1>3 DEF Pausing
<1> QED
  BY <1>1, <1>2, <1>6, <1>7, <1>8, <1>9, <1>10 DEF Answered, O

\* The manager holds a page: a drain and its event are added.
LEMMA HoldAnswers == ASSUME AInv, NEW p \in Pages, Hold(p) PROVE AInv'
<1>1. /\ cpu'.rob = cpu.rob /\ cpu'.slots = cpu.slots /\ cpu'.lsq = cpu.lsq
      /\ cpu'.instrPausers = cpu.instrPausers /\ cpu'.dataPausers = cpu.dataPausers
      /\ cpu'.fetchEntry = cpu.fetchEntry /\ cpu'.head = cpu.head /\ cpu'.tail = cpu.tail
      /\ cpu'.full = cpu.full /\ cpu'.read = cpu.read /\ cpu'.failed = cpu.failed
      /\ cpu'.stalled = cpu.stalled /\ cpu'.now = cpu.now
      /\ cpu'.next.process = cpu.next.process
  <2>1. cpu \in Cores /\ cpu.next \in Counts
    BY CoreIs DEF AInv, IInv, Good, Worlds, Now
  <2> DEFINE hits == Hits(cpu.stalled.instr, p) + Hits(cpu.stalled.data, p)
             d == [q \in DOMAIN cpu.drains \cup {p} |-> IF q = p THEN hits ELSE cpu.drains[q]]
             m == [cpu.next EXCEPT !.drain = IF hits = 0 THEN @ + 1 ELSE @]
  <2>2. cpu' = [cpu EXCEPT !.drains = d, !.next = m]
    BY HoldIs DEF AInv
  <2>3. m.process = cpu.next.process
    BY <2>1 DEF Counts
  <2> HIDE DEF d, m, hits
  <2> QED
    BY <2>1, <2>2, <2>3 DEF Cores
<1>2. Answered(Now') /\ Timed(Now')
  <2>1. Answered(Now) /\ Timed(Now)
    BY DEF AInv
  <2>2. /\ Buffer(Now') = Buffer(Now) /\ Lists(Now') = Lists(Now) /\ Ring(Now') = Ring(Now)
        /\ Turn(Now') = Turn(Now) /\ Answers(Now') = Answers(Now)
        /\ Now'.cpu.stalled = Now.cpu.stalled
    BY <1>1 DEF Hold, Now, Buffer, Lists, Ring, Turn, Answers
  <2>3. Timed(Now')
    BY <1>1, <2>1 DEF Timed, Now
  <2> DEFINE z == Now'
  <2> HIDE DEF z
  <2>4. Answered(z)
    BY <2>1, <2>2, SameAnswered DEF z
  <2> QED
    BY <2>3, <2>4 DEF z
<1>3. Answered(Now)' /\ Timed(Now)'
  BY <1>2 DEF Hold, Timed, Slot
<1> QED
  BY <1>3, HoldStep DEF AInv

\* The cycle and its slots change when the cycle ends; drains and their events do not.
LEMMA DrainAnswers == ASSUME AInv, DrainEvent PROVE AInv'
<1>1. /\ cpu'.rob = cpu.rob /\ cpu'.slots = cpu.slots /\ cpu'.lsq = cpu.lsq
      /\ cpu'.instrPausers = cpu.instrPausers /\ cpu'.dataPausers = cpu.dataPausers
      /\ cpu'.fetchEntry = cpu.fetchEntry /\ cpu'.head = cpu.head /\ cpu'.tail = cpu.tail
      /\ cpu'.full = cpu.full /\ cpu'.read = cpu.read /\ cpu'.failed = cpu.failed
      /\ cpu'.stalled = cpu.stalled /\ cpu'.next = cpu.next
      /\ cpu'.now.process = cpu.now.process
  <2>1. cpu \in Cores /\ cpu.now \in Counts
    BY CoreIs DEF AInv, IInv, Good, Worlds, Now
  <2>2. PICK p \in DOMAIN cpu.drains :
            cpu' = [cpu EXCEPT !.now.drain = @ - 1, !.drains = [q \in DOMAIN @ \ {p} |-> @[q]]]
    BY DrainFound DEF AInv
  <2> DEFINE m == [cpu.now EXCEPT !.drain = @ - 1]
             d == [q \in DOMAIN cpu.drains \ {p} |-> cpu.drains[q]]
  <2>3. cpu' = [cpu EXCEPT !.now = m, !.drains = d]
    <3>1. [cpu EXCEPT !.now = m].drains = cpu.drains
      BY <2>1 DEF Cores
    <3> QED
      BY <2>2, <3>1
  <2>4. m.process = cpu.now.process
    BY <2>1 DEF Counts
  <2> HIDE DEF d, m
  <2> QED
    BY <2>1, <2>3, <2>4 DEF Cores
<1>2. Answered(Now') /\ Timed(Now')
  <2>1. Answered(Now) /\ Timed(Now)
    BY DEF AInv
  <2>2. /\ Buffer(Now') = Buffer(Now) /\ Lists(Now') = Lists(Now) /\ Ring(Now') = Ring(Now)
        /\ Turn(Now') = Turn(Now) /\ Answers(Now') = Answers(Now)
        /\ Now'.cpu.stalled = Now.cpu.stalled
    BY <1>1 DEF DrainEvent, Now, Buffer, Lists, Ring, Turn, Answers
  <2>3. Timed(Now')
    BY <1>1, <2>1 DEF Timed, Now
  <2> DEFINE z == Now'
  <2> HIDE DEF z
  <2>4. Answered(z)
    BY <2>1, <2>2, SameAnswered DEF z
  <2> QED
    BY <2>3, <2>4 DEF z
<1>3. Answered(Now)' /\ Timed(Now)'
  BY <1>2 DEF DrainEvent, Timed, Slot
<1> QED
  BY <1>3, DrainStep DEF AInv

\* The slots change places: that of the cycle that ends is empty.
LEMMA TickAnswers == ASSUME AInv, Tick PROVE AInv'
<1>1. /\ cpu'.rob = cpu.rob /\ cpu'.slots = cpu.slots /\ cpu'.lsq = cpu.lsq
      /\ cpu'.instrPausers = cpu.instrPausers /\ cpu'.dataPausers = cpu.dataPausers
      /\ cpu'.fetchEntry = cpu.fetchEntry /\ cpu'.head = cpu.head /\ cpu'.tail = cpu.tail
      /\ cpu'.full = cpu.full /\ cpu'.read = cpu.read /\ cpu'.failed = cpu.failed
      /\ cpu'.stalled = cpu.stalled
      /\ cpu'.now = cpu.next /\ cpu'.next.process = 0 /\ cpu.now.process = 0
  <2>1. cpu \in Cores
    BY DEF AInv, IInv, Good, Worlds, Now
  <2> QED
    BY <2>1 DEF Tick, Cores
<1>2. Answered(Now')
  <2>1. Answered(Now)
    BY DEF AInv
  <2>2. /\ Buffer(Now') = Buffer(Now) /\ Lists(Now') = Lists(Now) /\ Ring(Now') = Ring(Now)
        /\ Turn(Now') = Turn(Now) /\ Answers(Now') = Answers(Now)
        /\ Now'.cpu.stalled = Now.cpu.stalled
    BY <1>1 DEF Tick, Now, Buffer, Lists, Ring, Turn, Answers
  <2> DEFINE z == Now'
  <2> HIDE DEF z
  <2>3. Answered(z)
    BY <2>1, <2>2, SameAnswered DEF z
  <2> QED
    BY <2>3 DEF z
<1>3. Timed(Now)'
  <2>1. /\ cpu.now.process = One(cpu.slots[1 - Slot].scheduled)
        /\ cpu.next.process = One(cpu.slots[Slot].scheduled)
    BY DEF AInv, Timed, Now
  <2>2. odd \in BOOLEAN /\ odd' = ~odd
    BY DEF AInv, IInv, Tick
  <2>3. Slot' = 1 - Slot /\ 1 - Slot' = Slot
    <3>1. CASE odd
      <4>1. Slot = 1 /\ Slot' = 0
        BY <2>2, <3>1 DEF Slot
      <4> QED
        BY <4>1
    <3>2. CASE ~odd
      <4>1. Slot = 0 /\ Slot' = 1
        BY <2>2, <3>2 DEF Slot
      <4> QED
        BY <4>1
    <3> QED
      BY <3>1, <3>2
  <2>4. /\ cpu'.now.process = One(cpu'.slots[1 - Slot'].scheduled)
        /\ cpu'.next.process = One(cpu'.slots[Slot'].scheduled)
    BY <1>1, <2>1, <2>3
  <2> QED
    BY <2>4 DEF Timed, Now
<1>4. Answered(Now)'
  BY <1>2
<1> QED
  BY <1>3, <1>4, TickStep DEF AInv

\* No entry of the buffer has a timestamp.
LEMMA InitAnswers == Init => AInv
<1> SUFFICES ASSUME Init PROVE AInv
  OBVIOUS
<1> DEFINE O == {}
           f == ""
           slots == [n \in {0, 1} |-> [EmptySlot EXCEPT !.scheduled = n = 0]]
           empty == [k \in CacheNames |-> <<>>]
<1>1. PICK states \in [Entries -> States] :
           cpu = [rob |-> [e \in Entries |-> [g |-> 0, instrPause |-> {}, dataPause |-> {}, instrLeft |-> 0,
                                              dataLeft |-> 0, state |-> states[e]]],
                  head |-> 0, tail |-> 0, full |-> FALSE, fetchEntry |-> <<>>, read |-> 0, lsq |-> {},
                  instrPausers |-> <<>>, dataPausers |-> <<>>, stalled |-> empty,
                  drains |-> [p \in {} |-> 0], slots |-> slots,
                  now |-> [process |-> 0, drain |-> 0], next |-> [process |-> 1, drain |-> 0],
                  quota |-> [k \in CacheNames |-> 0], commits |-> 0, finished |-> 0, failed |-> f]
  BY DEF Init
<1>2. odd = FALSE /\ atCache.reads = {}
  BY DEF Init
<1>3. f \in {"", "resume"}
  OBVIOUS
<1> HIDE DEF f, slots, empty, Init
<1>4. /\ \A e \in Entries : cpu.rob[e].g = 0
      /\ cpu.head = 0 /\ cpu.tail = 0 /\ cpu.full = FALSE
      /\ cpu.dataPausers = <<>> /\ cpu.failed = f /\ cpu.stalled = empty /\ cpu.slots = slots
      /\ cpu.lsq = {}
      /\ cpu.now = [process |-> 0, drain |-> 0] /\ cpu.next = [process |-> 1, drain |-> 0]
  BY <1>1
<1>5. /\ \A k \in CacheNames : empty[k] = <<>>
      /\ \A n \in {0, 1} : slots[n].scheduled = (n = 0)
      /\ \A n \in {0, 1}, k \in CacheNames : slots[n][k] = <<>>
  BY DEF EmptySlot, CacheNames, slots, empty
<1>6. DOMAIN <<>> = {}
  OBVIOUS
<1>7. Used(Now) = {}
  BY <1>4 DEF Used, Stamps, Now
<1>8. Kinds(Now)
  BY <1>2, <1>4, <1>5, <1>6 DEF Kinds, Now
<1>9. Placing(Now, O, O)
  <2> SUFFICES ASSUME NEW r \in Reqs
               PROVE  Sent(Now, r) = 0 /\ Load(Now, O, O, r) = 0
    BY <1>4 DEF Placing, One, Now
  <2>1. r.kind \in CacheNames /\ r.g # 0 /\ EntryOf(r) \in Entries
    BY RequestIs, Constants
  <2>2. Sent(Now, r) = 0
    <3>1. /\ Now.cpu.stalled[r.kind] = <<>> /\ Now.cpu.slots[0][r.kind] = <<>>
          /\ Now.cpu.slots[1][r.kind] = <<>> /\ r \notin Now.atCache.reads
      BY <1>2, <1>4, <1>5, <2>1 DEF Now
    <3> QED
      BY <3>1, TimesEmpty DEF Sent, One
  <2>3. ~Paused(Now, r)
    BY <1>4, <2>1 DEF Paused, Now
  <2> QED
    BY <2>2, <2>3 DEF Load, One
<1>10. Loads(Now, O, O, O) /\ Shaped(Now) /\ Pausing(Now, O, O)
  BY <1>7, <1>9 DEF Loads, Shaped, Pausing
<1>11. InWindow(Now) = {}
  <2>1. (0 - 0) % RobSize = 0
    BY Constants
  <2>2. Now.cpu.head = 0 /\ Now.cpu.tail = 0 /\ Now.cpu.full = FALSE
    BY <1>4 DEF Now
  <2>3. InWindow(Now) = {(0 + n) % RobSize : n \in 0 .. 0 - 1}
    BY <2>1, <2>2 DEF InWindow
  <2>4. 0 .. 0 - 1 = {}
    OBVIOUS
  <2> QED
    BY <2>3, <2>4
<1>12. Alive(Now, O)
  BY <1>4, <1>7, <1>11 DEF Alive, Now
<1>13. Pending(Now, Reqs)
  BY <1>4, <1>6 DEF Pending, Range, Now
<1>14. Timed(Now)
  <2>1. Slot = 0 /\ 1 - Slot = 1
    BY <1>2 DEF Slot
  <2>2. Now.cpu.now.process = 0 /\ Now.cpu.next.process = 1
    BY <1>4 DEF Now
  <2>3. ~Now.cpu.slots[1].scheduled /\ Now.cpu.slots[0].scheduled
    <3>1. slots[1].scheduled = FALSE /\ slots[0].scheduled = TRUE
      <4>1. slots[1].scheduled = (1 = 0) /\ slots[0].scheduled = (0 = 0)
        BY <1>5
      <4>2. (1 = 0) = FALSE /\ (0 = 0) = TRUE
        OBVIOUS
      <4> QED
        BY <4>1, <4>2
    <3>2. Now.cpu.slots = slots
      BY <1>4 DEF Now
    <3> QED
      BY <3>1, <3>2
  <2> QED
    BY <2>1, <2>2, <2>3 DEF Timed, One
<1>15. Now.cpu.failed \in {"", "resume"}
  BY <1>3, <1>4 DEF Now
<1>16. Answered(Now)
  BY <1>8, <1>10, <1>12, <1>13, <1>15 DEF Answered
<1> QED
  BY <1>14, <1>16, InitIInv DEF AInv

LEMMA NextAnswers == AInv /\ [Next]_vars => AInv'
<1> SUFFICES ASSUME AInv, [Next]_vars PROVE AInv'
  OBVIOUS
<1>1. CASE Process
  BY <1>1, ProcessAnswers
<1>2. CASE DrainEvent
  BY <1>2, DrainAnswers
<1>3. CASE Tick
  BY <1>3, TickAnswers
<1>4. ASSUME NEW r \in atCache.reads, Complete(r) PROVE AInv'
  BY <1>4, CompleteAnswers
<1>5. ASSUME NEW kind \in CacheNames, UnstallCPU(kind) PROVE AInv'
  BY <1>5, UnstallAnswers
<1>6. ASSUME NEW p \in Pages, Hold(p) PROVE AInv'
  BY <1>6, HoldAnswers
<1>7. ASSUME NEW p \in Pages, Free(p) PROVE AInv'
  BY <1>7, FreeAnswers
<1>8. CASE UNCHANGED vars
  <2>1. IInv'
    BY <1>8, NextIInv DEF AInv
  <2>2. Now' = Now /\ odd' = odd
    BY <1>8 DEF vars, Now
  <2>3. Fine(Now, {}, {}, {}, {}, {}, {}) /\ Pending(Now, Reqs)
    BY NowFine
  <2> QED
    BY <2>1, <2>2, <2>3, SameCycle
<1> QED
  BY <1>1, <1>2, <1>3, <1>4, <1>5, <1>6, <1>7, <1>8 DEF Next

-----------------------------------------------------------------------------
(* What the invariant says of the entries and the answers *)

\* A request that is under way is in one of the places that the properties name.
LEMMA UnderWay ==
    ASSUME AInv, NEW r \in Reqs
    PROVE  /\ Sent(Now, r) \in {0, 1}
           /\ Sent(Now, r) = 1 <=> IsRead(r) /\ r \in Stalled \cup atCache.reads \cup Messages
<1> DEFINE k == r.kind
           l == cpu.stalled[k]
           a == cpu.slots[0][k]
           b == cpu.slots[1][k]
<1>1. /\ Now \in Good /\ Now \in Worlds /\ Now.cpu = cpu /\ Now.atCache = atCache
      /\ Kinds(Now) /\ Placing(Now, {}, {}) /\ k \in CacheNames
  BY NowFine, RequestIs DEF AInv, Answered, Loads, Now
<1>2. Sent(Now, r) \in {0, 1}
  <2>1. Load(Now, {}, {}, r) \in {0, 1}
    BY <1>1 DEF Placing
  <2>2. /\ Sent(Now, r) \in Nat
        /\ Load(Now, {}, {}, r) = Sent(Now, r) + One(r \in {}) + One(r \in {}) + One(Paused(Now, r))
    BY <1>1, LoadIs
  <2> QED
    BY <2>1, <2>2 DEF One
<1>3. \A q \in CacheNames : cpu.stalled[q] \in Seq(Reqs)
  BY <1>1, CoreIs
<1>4. \A m \in {0, 1}, q \in CacheNames : cpu.slots[m][q] \in Seq(Reqs)
  BY <1>1, SlotIs
<1>5. ASSUME NEW s \in Seq(Reqs) PROVE Times(s, r) \in Nat /\ (Times(s, r) = 0 <=> r \notin Range(s))
  BY TimesIs DEF Range
<1>6. r \in Stalled <=> r \in Range(l)
  <2>1. Kinds(Now)
    BY <1>1
  <2>2. \A q \in CacheNames : \A n \in DOMAIN cpu.stalled[q] : cpu.stalled[q][n].kind = q
    BY <1>1, <2>1 DEF Kinds
  <2>3. \A q \in CacheNames : r \in Range(cpu.stalled[q]) => q = k
    BY <2>2 DEF Range
  <2>4. Stalled = Range(cpu.stalled["instr"]) \cup Range(cpu.stalled["data"])
    BY DEF Stalled
  <2> QED
    BY <1>1, <2>3, <2>4 DEF CacheNames
<1>7. r \in Messages <=> r \in Range(a) \/ r \in Range(b)
  <2>1. Kinds(Now)
    BY <1>1
  <2>2. \A m \in {0, 1}, q \in CacheNames : \A n \in DOMAIN cpu.slots[m][q] : cpu.slots[m][q][n].kind = q
    BY <1>1, <2>1 DEF Kinds
  <2>3. \A m \in {0, 1}, q \in CacheNames : r \in Range(cpu.slots[m][q]) => q = k
    BY <2>2 DEF Range
  <2>4. r \in Messages <=> \E m \in {0, 1}, q \in CacheNames : r \in Range(cpu.slots[m][q])
    BY DEF Messages, CacheNames
  <2> QED
    BY <1>1, <2>3, <2>4
<1> DEFINE x == Times(l, r)
           y == Times(a, r)
           z == Times(b, r)
           o == One(r \in atCache.reads)
<1>8. /\ x \in Nat /\ y \in Nat /\ z \in Nat /\ o \in {0, 1}
      /\ x = 0 <=> r \notin Range(l)
      /\ y = 0 <=> r \notin Range(a)
      /\ z = 0 <=> r \notin Range(b)
      /\ o = 1 <=> r \in atCache.reads
  BY <1>1, <1>3, <1>4, <1>5 DEF One
<1>9. Sent(Now, r) = IF ~IsRead(r) THEN 0 ELSE x + o + y + z
  BY <1>1 DEF Sent
<1> HIDE DEF x, y, z, o, l, a, b
<1> QED
  BY <1>2, <1>6, <1>7, <1>8, <1>9

PauseOf(e, k) == IF k = "instr" THEN cpu.rob[e].instrPause ELSE cpu.rob[e].dataPause

\* What an entry waits for is outstanding or paused.
LEMMA OutstandingIs ==
    ASSUME AInv, NEW e \in Used(Now), NEW k \in CacheNames
    PROVE  LET D == Due(Now, {}, {}, e, k) IN
           /\ IsFiniteSet(D) /\ Cardinality(D) \in Nat /\ (Cardinality(D) = 0 <=> D = {})
           /\ Cardinality(D) = Cardinality(Outstanding(e, k)) + Cardinality(PauseOf(e, k))
           /\ D = {} => Outstanding(e, k) = {} /\ PauseOf(e, k) = {}
           /\ \A r \in Outstanding(e, k) : r \in Reqs /\ r.kind = k /\ Sent(Now, r) = 1
<1> DEFINE D == Due(Now, {}, {}, e, k)
           g == cpu.rob[e].g
           A == Outstanding(e, k)
           P == PauseOf(e, k)
           I == {i \in D : Request(k, g, i) \in A}
           f == [i \in I |-> Request(k, g, i)]
<1>1. /\ Now \in Good /\ Now \in Worlds /\ Now.cpu = cpu /\ Now.atCache = atCache
      /\ Shaped(Now) /\ Kinds(Now) /\ Placing(Now, {}, {})
  BY NowFine DEF AInv, Answered, Loads, Now
<1>2. /\ D \subseteq DOMAIN Requests(k, g)
      /\ IsFiniteSet(D) /\ Cardinality(D) \in Nat /\ (Cardinality(D) = 0 <=> D = {})
      /\ \A r \in Reqs : r.kind = k /\ r.g = g => (r.i \in D <=> Load(Now, {}, {}, r) = 1)
  BY <1>1, DueIs
<1>3. g \in DOMAIN Trace /\ P \subseteq DOMAIN Requests(k, g)
  <2>1. g \in DOMAIN Trace
    BY <1>1, UsedIs
  <2>2. /\ cpu.rob[e].instrPause \subseteq DOMAIN Requests("instr", g)
        /\ cpu.rob[e].dataPause \subseteq DOMAIN Requests("data", g)
    BY <1>1 DEF Shaped
  <2> QED
    BY <2>1, <2>2 DEF PauseOf, CacheNames
<1>4. ASSUME NEW i \in DOMAIN Requests(k, g)
      PROVE  LET r == Request(k, g, i) IN
             /\ r \in Reqs /\ r.kind = k /\ r.g = g /\ r.i = i
             /\ Load(Now, {}, {}, r) \in {0, 1}
             /\ Load(Now, {}, {}, r) = Sent(Now, r) + IF i \in P THEN 1 ELSE 0
             /\ Sent(Now, r) \in {0, 1}
             /\ Sent(Now, r) = 1 <=> r \in A
             /\ i \in D <=> Load(Now, {}, {}, r) = 1
  <2> DEFINE r == Request(k, g, i)
  <2>1. r \in Reqs /\ r.kind = k /\ r.g = g /\ r.i = i
    BY <1>3, RequestOf
  <2> HIDE DEF r
  <2>2. EntryOf(r) = e
    BY <1>1, <2>1, ShapedEntry
  <2>3. Paused(Now, r) <=> i \in P
    BY <1>1, <2>1, <2>2 DEF Paused, PauseOf
  <2>4. Load(Now, {}, {}, r) \in {0, 1}
    BY <1>1, <2>1 DEF Placing
  <2>5. /\ Sent(Now, r) \in Nat
        /\ Load(Now, {}, {}, r) = Sent(Now, r) + One(r \in {}) + One(r \in {}) + One(Paused(Now, r))
    BY <1>1, <2>1, LoadIs
  <2>6. /\ Sent(Now, r) \in {0, 1}
        /\ Sent(Now, r) = 1 <=> IsRead(r) /\ r \in Stalled \cup atCache.reads \cup Messages
    BY <2>1, UnderWay
  <2>7. Sent(Now, r) = 1 <=> r \in A
    BY <2>1, <2>6 DEF Outstanding
  <2>8. i \in D <=> Load(Now, {}, {}, r) = 1
    BY <1>2, <2>1
  <2>9. Load(Now, {}, {}, r) = Sent(Now, r) + IF i \in P THEN 1 ELSE 0
    BY <2>3, <2>5 DEF One
  <2> HIDE DEF A, P, D
  <2> QED
    BY <2>1, <2>4, <2>6, <2>7, <2>8, <2>9 DEF r
<1>5. ASSUME NEW r \in A
      PROVE  r \in Reqs /\ r.kind = k /\ Sent(Now, r) = 1 /\ r.i \in I /\ r = Request(k, g, r.i)
  <2>1. r.kind = k /\ IsRead(r) /\ r.g = g /\ r \in Stalled \cup atCache.reads \cup Messages
    BY DEF Outstanding
  <2>2. r \in Reqs
    <3>1. \A q \in CacheNames : cpu.stalled[q] \in Seq(Reqs)
      BY <1>1, CoreIs
    <3>2. \A m \in {0, 1}, q \in CacheNames : cpu.slots[m][q] \in Seq(Reqs)
      BY <1>1, SlotIs
    <3>3. ASSUME NEW s \in Seq(Reqs) PROVE Range(s) \subseteq Reqs
      BY ElementOfSeq, LenProperties DEF Range
    <3>4. Stalled \subseteq Reqs
      <4>1. Stalled = Range(cpu.stalled["instr"]) \cup Range(cpu.stalled["data"])
        BY DEF Stalled
      <4> QED
        BY <3>1, <3>3, <4>1 DEF CacheNames
    <3>5. Messages \subseteq Reqs
      <4>1. ASSUME NEW q \in Messages PROVE \E m \in {0, 1}, j \in CacheNames : q \in Range(cpu.slots[m][j])
        BY DEF Messages, CacheNames
      <4> QED
        BY <3>2, <3>3, <4>1
    <3>6. atCache.reads \subseteq Reqs
      BY <1>1, CoreIs
    <3> QED
      BY <2>1, <3>4, <3>5, <3>6
  <2>3. r = Request(k, g, r.i) /\ r.i \in DOMAIN Requests(k, g)
    BY <2>1, <2>2, RequestHas
  <2>4. Sent(Now, r) = 1
    BY <2>1, <2>2, UnderWay
  <2>5. r.i \in D
    <3>1. /\ Load(Now, {}, {}, r) \in {0, 1}
          /\ Load(Now, {}, {}, r) = Sent(Now, r) + IF r.i \in P THEN 1 ELSE 0
          /\ r.i \in D <=> Load(Now, {}, {}, r) = 1
      BY <1>4, <2>3
    <3> HIDE DEF D, P
    <3> QED
      BY <2>4, <3>1
  <2> HIDE DEF D, A
  <2> QED
    BY <2>1, <2>2, <2>3, <2>4, <2>5
<1>6. I \cup P = D /\ I \cap P = {}
  <2> HIDE DEF D, A, P
  <2>1. ASSUME NEW i \in P PROVE i \in D /\ i \notin I
    BY <1>3, <1>4
  <2>2. ASSUME NEW i \in D, i \notin P PROVE i \in I
    BY <1>2, <1>4, <2>2
  <2> QED
    BY <2>1, <2>2
<1> HIDE DEF D, A, P
<1>7. IsFiniteSet(I) /\ IsFiniteSet(P)
  BY <1>2, <1>6, FS_Subset
<1>8. f \in Bijection(I, A)
  <2>1. ASSUME NEW i \in I PROVE f[i] \in A /\ f[i].i = i
    BY <1>2, <1>4
  <2>2. ASSUME NEW r \in A PROVE \E i \in I : f[i] = r
    BY <1>5
  <2>3. f \in [I -> A]
    BY <2>1
  <2>4. \A i, j \in I : f[i] = f[j] => i = j
    BY <2>1
  <2> HIDE DEF f, I
  <2> QED
    BY <2>2, <2>3, <2>4 DEF Bijection, Injection, Surjection, IsInjective
<1>9. Cardinality(A) = Cardinality(I) /\ IsFiniteSet(A)
  <2>1. ExistsBijection(I, A)
    BY <1>8 DEF ExistsBijection
  <2> QED
    BY <1>7, <2>1, FS_Bijection
<1>10. Cardinality(D) = Cardinality(A) + Cardinality(P)
  <2>1. Cardinality(I \cup P) = Cardinality(I) + Cardinality(P) - Cardinality(I \cap P)
    BY <1>7, FS_Union
  <2>2. Cardinality(I \cap P) = 0 /\ Cardinality(I) \in Nat /\ Cardinality(P) \in Nat
    BY <1>6, <1>7, FS_EmptySet, FS_CardinalityType
  <2> HIDE DEF I
  <2>3. I \cup P = D
    BY <1>6
  <2>4. Cardinality(D) = Cardinality(I) + Cardinality(P) - Cardinality(I \cap P)
    BY <2>1, <2>3, Zenon
  <2> DEFINE x == Cardinality(I)
             y == Cardinality(P)
             z == Cardinality(I \cap P)
  <2>5. Cardinality(D) = x + y - z /\ x \in Nat /\ y \in Nat /\ z = 0 /\ Cardinality(A) = x
    BY <1>9, <2>2, <2>4
  <2> HIDE DEF x, y, z
  <2>6. Cardinality(D) = Cardinality(A) + y
    BY <2>5
  <2> QED
    BY <2>6 DEF y
<1>11. D = {} => A = {} /\ P = {}
  <2> HIDE DEF I
  <2>1. \A r \in A : r.i \in I
    BY <1>5
  <2> QED
    BY <1>6, <2>1
<1> QED
  BY <1>2, <1>5, <1>10, <1>11 DEF A, P, D

LEMMA EntryKept == ASSUME AInv, NEW e \in Window PROVE EntryAgrees(e)
<1> DEFINE I == Due(Now, {}, {}, e, "instr")
           D == Due(Now, {}, {}, e, "data")
           t == cpu.rob[e]
           asked == Outstanding(e, "instr")
           reads == Outstanding(e, "data")
           O == {}
<1>1. /\ Now \in Good /\ Now.cpu = cpu /\ Now.atCache = atCache
      /\ Loads(Now, O, O, O) /\ Alive(Now, O) /\ Pausing(Now, O, O)
  BY NowFine DEF AInv, Answered, Now
<1>2. e \in Used(Now)
  <2>1. e \in InWindow(Now)
    BY <1>1 DEF Window, InWindow
  <2> QED
    BY <1>1, <2>1 DEF Alive
<1>3. /\ t.state = "FETCHING" => t.instrLeft = Cardinality(I) /\ t.instrLeft > 0 /\ D = {}
      /\ t.state = "DATA" => I = {} /\ t.dataLeft = Cardinality(D) /\ t.dataLeft > 0
      /\ t.state = "DONE" => I = {} /\ D = {}
  <2>1. Waits(Now, O, O, O, e)
    BY <1>1, <1>2 DEF Loads
  <2> QED
    BY <1>1, <2>1 DEF Waits
<1>4. /\ Cardinality(I) = Cardinality(asked) + Cardinality(t.instrPause)
      /\ I = {} => asked = {}
  <2>1. /\ Cardinality(I) = Cardinality(asked) + Cardinality(PauseOf(e, "instr"))
        /\ I = {} => asked = {}
    BY <1>2, Constants, OutstandingIs
  <2> QED
    BY <2>1 DEF PauseOf
<1>5. /\ Cardinality(D) = Cardinality(reads) + Cardinality(t.dataPause)
      /\ D = {} => reads = {} /\ t.dataPause = {}
      /\ \A r \in reads : r \in Reqs /\ r.kind = "data" /\ Sent(Now, r) = 1
  <2>1. /\ Cardinality(D) = Cardinality(reads) + Cardinality(PauseOf(e, "data"))
        /\ D = {} => reads = {} /\ PauseOf(e, "data") = {}
        /\ \A r \in reads : r \in Reqs /\ r.kind = "data" /\ Sent(Now, r) = 1
    BY <1>2, Constants, OutstandingIs
  <2> QED
    BY <2>1 DEF PauseOf
<1>6. reads \subseteq cpu.lsq
  <2> SUFFICES ASSUME NEW r \in reads PROVE r \in cpu.lsq
    OBVIOUS
  <2>1. r \in Reqs /\ r.kind = "data" /\ Sent(Now, r) + One(r \in O) = 1
    BY <1>5 DEF One
  <2>2. Placing(Now, O, O)
    BY <1>1 DEF Loads
  <2> HIDE DEF O
  <2> QED
    BY <1>1, <2>1, <2>2 DEF Placing
<1>7. /\ t.instrPause # {} => e \in Range(cpu.instrPausers)
      /\ t.dataPause # {} => e \in Range(cpu.dataPausers)
  BY <1>1, <1>2 DEF Pausing
<1> HIDE DEF I, D, asked, reads, t
<1>8. /\ t.state = "FETCHING" =>
             /\ t.instrLeft = Cardinality(asked) + Cardinality(t.instrPause)
             /\ t.instrLeft > 0 /\ reads = {}
             /\ t.instrPause # {} => e \in Range(cpu.instrPausers)
      /\ t.state = "DATA" =>
             /\ asked = {} /\ reads \subseteq cpu.lsq
             /\ t.dataLeft = Cardinality(reads) + Cardinality(t.dataPause)
             /\ t.dataLeft > 0
             /\ t.dataPause # {} => e \in Range(cpu.dataPausers)
      /\ t.state = "DONE" => asked = {} /\ reads = {} /\ t.dataPause = {}
  BY <1>3, <1>4, <1>5, <1>6, <1>7
<1> QED
  BY <1>8 DEF EntryAgrees, asked, reads, t

\* An answer under way has its entry, which waits for it and so is not yet committed.
LEMMA HasEntryKept == ASSUME AInv, NEW r \in atCache.reads \cup Messages PROVE HasEntry(r)
<1> DEFINE e == EntryOf(r)
           O == {}
           I == Due(Now, O, O, e, "instr")
           D == Due(Now, O, O, e, "data")
<1>1. /\ Now \in Good /\ Now \in Worlds /\ Now.cpu = cpu /\ Now.atCache = atCache /\ Kinds(Now)
      /\ Loads(Now, O, O, O) /\ Placing(Now, O, O) /\ Alive(Now, O)
  BY NowFine DEF AInv, Answered, Loads, Now
<1>2. r \in Reqs /\ IsRead(r)
  <2>1. CASE r \in atCache.reads
    <3>1. Kinds(Now) /\ Now.atCache.reads \in SUBSET Reqs
      BY <1>1, CoreIs
    <3> QED
      BY <1>1, <2>1, <3>1 DEF Kinds
  <2>2. CASE r \in Messages
    <3>1. PICK m \in {0, 1}, k \in CacheNames : r \in Range(cpu.slots[m][k])
      BY <2>2 DEF Messages, CacheNames
    <3>2. cpu.slots[m][k] \in Seq(Reqs) /\ Kinds(Now)
      BY <1>1, SlotIs
    <3>3. PICK n \in DOMAIN cpu.slots[m][k] : r = cpu.slots[m][k][n]
      BY <3>1 DEF Range
    <3>4. r \in Reqs
      BY <3>2, <3>3, ElementOfSeq, LenProperties
    <3>5. IsRead(r)
      BY <1>1, <3>2, <3>3 DEF Kinds
    <3> QED
      BY <3>4, <3>5
  <2> QED
    BY <2>1, <2>2
<1>3. Load(Now, O, O, r) = 1
  <2>1. Sent(Now, r) = 1
    BY <1>2, UnderWay
  <2>2. Load(Now, O, O, r) \in {0, 1}
    BY <1>1, <1>2 DEF Placing
  <2>3. Load(Now, O, O, r) = Sent(Now, r) + One(r \in O) + One(r \in O) + One(Paused(Now, r))
    BY <1>1, <1>2, LoadIs
  <2> QED
    BY <2>1, <2>2, <2>3, OneIs DEF One
<1>4. e \in Used(Now) /\ cpu.rob[e].g = r.g /\ r.i \in Due(Now, O, O, e, r.kind)
  BY <1>1, <1>2, <1>3, LoadHas
<1>5. cpu.rob[e].state # "DONE"
  <2>1. Waits(Now, O, O, O, e)
    BY <1>1, <1>4 DEF Loads
  <2>2. cpu.rob[e].state = "DONE" => I = {} /\ D = {}
    BY <1>1, <2>1 DEF Waits
  <2>3. r.i \in I \/ r.i \in D
    BY <1>2, <1>4, RequestIs DEF CacheNames
  <2> QED
    BY <2>2, <2>3
<1>6. e \in InWindow(Now)
  BY <1>1, <1>4, <1>5 DEF Alive
<1>7. InWindow(Now) = Window
  BY <1>1 DEF InWindow, Window
<1> QED
  BY <1>4, <1>6, <1>7 DEF HasEntry

\* None of the assertions that OOOCPU!AssertionsHold names fails: a PROCESS event
\* finds its slot scheduled (CPU.cpp:134) and a DRAIN event a drain with nothing left
\* (162); a page has one drain (218), which counts what is left (320, 344); a load is
\* put into its queue once (278, 420) and is there when it is answered, with its entry
\* in wait (393, 456, 475, 482); the last entry is the last of the trace (584).
THEOREM AssertionsKept == Spec => []AssertionsHold
<1>1. AInv => AssertionsHold
  <2> SUFFICES ASSUME AInv PROVE AssertionsHold
    OBVIOUS
  <2>1. cpu.failed \in {"", "resume"}
    BY DEF AInv, Answered, Now
  <2> QED
    BY <2>1 DEF AssertionsHold
<1> QED
  BY InitAnswers, NextAnswers, <1>1, PTL DEF Spec

\* Every answer that an entry of the reorder buffer waits for is under way exactly once,
\* and every answer that is under way has its entry, whatever the trace, the size of the
\* buffer, the order of the answers and the requests that the caches refuse.
THEOREM EntriesKept == Spec => []EntriesAgree
<1>1. AInv => EntriesAgree
  <2> SUFFICES ASSUME AInv PROVE EntriesAgree
    OBVIOUS
  <2>1. \A e \in Window : EntryAgrees(e)
    BY EntryKept
  <2>2. \A r \in atCache.reads \cup Messages : HasEntry(r)
    BY HasEntryKept
  <2> QED
    BY <2>1, <2>2 DEF EntriesAgree
<1> QED
  BY InitAnswers, NextAnswers, <1>1, PTL DEF Spec
=============================================================================
