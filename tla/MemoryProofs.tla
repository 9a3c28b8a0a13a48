---------------------------- MODULE MemoryProofs ----------------------------
(***************************************************************************)
(* Proofs about Memory, for any number of banks, inputs, settings and      *)
(* requests.  The bus is the one BusProofs is about: its invariant is kept *)
(* because the banks use the bus as Bus requires, and so what is proved of *)
(* Bus holds of the memory.  Of each bank Body says what it has, what it   *)
(* waits for and that its row fits; the lemmas on Body are about one bank, *)
(* the requests rq, the number t of its transfers and n of its BANK        *)
(* events, and what each step of a bank changes of these.                  *)
(***************************************************************************)
EXTENDS Memory, TLAPS, FiniteSetTheorems, SequenceTheorems

busP == INSTANCE BusProofs WITH
    Latency <- BusLatency,
    Delays <- {0, AccessLatency},
    Start <- BusLatency,
    MaxTransfers <- MaxRequests,
    now <- IF now < BusLatency THEN BusLatency ELSE now,
    queue <- slots, count <- transfers, completed <- over

Request == [bank : Banks, row : Nat, column : Nat, read : BOOLEAN, priority : Priorities]
Queues == IF setting.globalQueue THEN {NoBank} ELSE Banks

Injective(s) == \A m, n \in DOMAIN s : s[m] = s[n] => m = n
Started(k) == Range(k.pipeline) \cup ({k.current} \ {0})

\* A request of a bank is in one place of the bank.
Mine(b, k, rq) ==
    /\ \A i \in Queued(k) \cup Started(k) \cup k.notifications :
          i \in DOMAIN rq /\ rq[i].bank = b
    /\ \A p \in Priorities : Injective(k.queue[p])
    /\ Injective(k.pipeline) /\ k.current \notin Range(k.pipeline)
    /\ Queued(k) \cap Started(k) = {}
    /\ k.notifications \cap (Queued(k) \cup Started(k)) = {}

\* What OneStepAhead says of a bank with t transfers and n BANK events.
Ahead(k, rq, t, n) ==
    /\ k.state = "CLOSED" => k.current = 0
    /\ k.state = "OPENING" => k.current # 0 /\ n = 1
    /\ k.state = "CLOSING" => n = 1
    /\ ~IsOpen(k) => t = 0
    /\ ~IsOpen(k) \/ k.current = 0 => k.pipeline = <<>>
    /\ IsOpen(k) /\ k.current = 0 => t = 0
    /\ k.state # "OPENING" /\ k.state # "CLOSING" /\ k.current = 0 =>
          n = IF Queued(k) = {} THEN 0 ELSE 1
    /\ IsOpen(k) /\ k.current # 0 =>
          /\ t + n = 1 + Len(k.pipeline)
          /\ rq[k.current].read => n = 0

\* What RowsAgree says of it, and that the row that is being opened is the request's.
Rows(k, rq) ==
    /\ IsOpen(k) => \A i, j \in Started(k) : rq[i].row = k.row /\ rq[i].read = rq[j].read
    /\ (k.dirty # {}) <=> (k.state = "OPEN_DIRTY")
    /\ IsOpen(k) => \A i \in Started(k) : rq[i].read \/ rq[i].column \in k.dirty
    /\ k.state = "OPENING" => \A i \in Started(k) : rq[i].row = k.row

Body(b, k, rq, t, n) ==
    /\ k \in Bank /\ IsFiniteSet(k.dirty)
    /\ Mine(b, k, rq) /\ Ahead(k, rq, t, n) /\ Rows(k, rq)

BanksInv == \A b \in Banks : Body(b, bank[b], requests, Transfers(b), BankEvents(b))

Typed ==
    /\ TypeOK
    /\ requests \in [DOMAIN requests -> Request]
    /\ DOMAIN queueSizes = Queues
    /\ Len(owner) = transfers
    /\ \A b \in Banks : IsFiniteSet(BankCopies(events, b))

\* No row is open before BusLatency.
Timed ==
    /\ \A b \in Banks : bank[b].state \notin {"CLOSED", "OPENING"} => now >= BusLatency
    /\ \A e \in BagToSet(events) :
          e.kind = "BANK" /\ bank[e.bank].state = "OPENING" => e.time >= BusLatency
    /\ now < BusLatency => transfers = 0

\* Only the last queue that took a request can be full.
Sizes ==
    /\ SizesAgree
    /\ \A q, r \in DOMAIN queueSizes : Full(queueSizes[q]) /\ Full(queueSizes[r]) => q = r

IInv == Typed /\ busP!IInv /\ Timed /\ Sizes /\ BanksInv /\ ReadsSeeWrites

-----------------------------------------------------------------------------
(* Sequences of requests *)

\* A request is put at the end.
LEMMA Appending ==
    ASSUME NEW q \in Seq(Nat), Injective(q), NEW l \in Nat, l \notin Range(q)
    PROVE  /\ Append(q, l) \in Seq(Nat) /\ Injective(Append(q, l))
           /\ Len(Append(q, l)) = Len(q) + 1
           /\ Range(Append(q, l)) = Range(q) \cup {l}
<1> DEFINE r == Append(q, l)
<1>1. /\ r \in Seq(Nat) /\ Len(r) = Len(q) + 1 /\ Len(q) \in Nat
      /\ r[Len(q) + 1] = l /\ \A i \in 1 .. Len(q) : r[i] = q[i]
    BY AppendProperties
<1>2. DOMAIN q = 1 .. Len(q) /\ DOMAIN r = 1 .. (Len(q) + 1)
    BY <1>1
<1> HIDE DEF r
<1>3. \A i \in 1 .. Len(q) : q[i] # l
    BY <1>2 DEF Range
<1>4. Injective(r)
    BY <1>1, <1>2, <1>3 DEF Injective
<1>5. ASSUME NEW x
      PROVE  x \in Range(r) <=> x \in Range(q) \cup {l}
    <2>1. x \in Range(r) <=> \E i \in 1 .. (Len(q) + 1) : x = r[i]
        BY <1>2 DEF Range
    <2>2. x \in Range(q) <=> \E i \in 1 .. Len(q) : x = q[i]
        BY <1>2 DEF Range
    <2>3. ASSUME NEW i \in 1 .. (Len(q) + 1) PROVE i \in 1 .. Len(q) \/ i = Len(q) + 1
        BY <1>1
    <2>4. 1 .. Len(q) \subseteq 1 .. (Len(q) + 1) /\ Len(q) + 1 \in 1 .. (Len(q) + 1)
        BY <1>1
    <2> QED
        BY <1>1, <2>1, <2>2, <2>3, <2>4
<1> QED
    BY <1>1, <1>4, <1>5 DEF r

\* The request at a position is removed.
LEMMA Leaving ==
    ASSUME NEW q \in Seq(Nat), Injective(q), NEW k \in DOMAIN q
    PROVE  /\ RemoveAt(q, k) \in Seq(Nat) /\ Injective(RemoveAt(q, k))
           /\ Len(RemoveAt(q, k)) = Len(q) - 1
           /\ Range(RemoveAt(q, k)) = Range(q) \ {q[k]}
<1> DEFINE r == RemoveAt(q, k)
           n == Len(q)
<1>1. n \in Nat /\ DOMAIN q = 1 .. n /\ k \in 1 .. n
    OBVIOUS
<1>2. /\ r \in Seq(Nat) /\ Len(r) = n - 1
      /\ \A i \in 1 .. (n - 1) : r[i] = IF i < k THEN q[i] ELSE q[i + 1]
    <2> DEFINE a == SubSeq(q, 1, k - 1)
               b == SubSeq(q, k + 1, n)
    <2>1. a \in Seq(Nat) /\ Len(a) = k - 1 /\ \A i \in 1 .. (k - 1) : a[i] = q[i]
        BY <1>1, SubSeqProperties
    <2>2. b \in Seq(Nat) /\ Len(b) = n - k /\ \A i \in 1 .. (n - k) : b[i] = q[k + i]
        <3>1. k + 1 \in 1 .. n + 1 /\ n \in k .. n /\ n - (k + 1) + 1 = n - k
            BY <1>1
        <3>2. /\ b \in Seq(Nat)
              /\ Len(b) = IF k + 1 <= n THEN n - (k + 1) + 1 ELSE 0
              /\ \A i \in 1 .. Len(b) : b[i] = q[(k + 1) + i - 1]
            <4>1. k + 1 \in Int /\ n \in Int /\ \A i \in k + 1 .. n : q[i] \in Nat
                BY <1>1
            <4>2. n - (k + 1) + 1 = IF k + 1 <= n THEN n - (k + 1) + 1 ELSE 0
                BY <1>1, <3>1
            <4> HIDE DEF n
            <4>3. /\ SubSeq(q, k + 1, n) \in Seq(Nat)
                  /\ Len(SubSeq(q, k + 1, n)) = IF k + 1 <= n THEN n - (k + 1) + 1 ELSE 0
                  /\ \A i \in 1 .. n - (k + 1) + 1 : SubSeq(q, k + 1, n)[i] = q[(k + 1) + i - 1]
                BY <4>1, SubSeqProperties
            <4> QED
                BY <4>2, <4>3
        <3>3. Len(b) = n - k
            BY <1>1, <3>1, <3>2
        <3>4. \A i \in 1 .. (n - k) : (k + 1) + i - 1 = k + i
            BY <1>1
        <3> QED
            BY <3>2, <3>3, <3>4
    <2>3. r = a \o b
        BY DEF RemoveAt
    <2> HIDE DEF a, b, r, n
    <2>4. /\ r \in Seq(Nat) /\ Len(r) = Len(a) + Len(b)
          /\ \A i \in 1 .. (Len(a) + Len(b)) : r[i] = IF i <= Len(a) THEN a[i] ELSE b[i - Len(a)]
        BY <2>1, <2>2, <2>3, ConcatProperties
    <2>5. ASSUME NEW i \in 1 .. (n - 1)
          PROVE  r[i] = IF i < k THEN q[i] ELSE q[i + 1]
        <3>1. CASE i < k
            <4>1. i \in 1 .. (k - 1) /\ i <= Len(a) /\ i \in 1 .. (Len(a) + Len(b))
                BY <1>1, <2>1, <2>2, <3>1
            <4> QED
                BY <2>1, <2>4, <3>1, <4>1
        <3>2. CASE ~(i < k)
            <4>1. i - (k - 1) \in 1 .. (n - k) /\ ~(i <= Len(a)) /\ i \in 1 .. (Len(a) + Len(b))
                <5>1. Len(a) = k - 1 /\ Len(b) = n - k
                    BY <2>1, <2>2
                <5>2. k \in Int /\ i \in Int /\ 1 <= i /\ i <= n - 1 /\ k <= i /\ 1 <= k /\ k <= n
                    BY <1>1, <3>2
                <5> QED
                    BY <1>1, <5>1, <5>2
            <4>2. r[i] = b[i - (k - 1)]
                BY <2>1, <2>4, <4>1
            <4>3. k + (i - (k - 1)) = i + 1
                BY <1>1
            <4> QED
                BY <2>2, <3>2, <4>1, <4>2, <4>3
        <3> QED
            BY <3>1, <3>2
    <2> QED
        BY <1>1, <2>1, <2>2, <2>4, <2>5
<1>3. DOMAIN r = 1 .. (n - 1)
    BY <1>2
<1> HIDE DEF r, n
<1> DEFINE From(i) == IF i < k THEN i ELSE i + 1
<1>4. \A i \in 1 .. (n - 1) : From(i) \in 1 .. n /\ From(i) # k /\ r[i] = q[From(i)]
    BY <1>1, <1>2
<1>5. \A i, j \in 1 .. (n - 1) : From(i) = From(j) => i = j
    BY <1>1
<1>6. ASSUME NEW m \in 1 .. n, m # k PROVE \E i \in 1 .. (n - 1) : From(i) = m
    <2>1. CASE m < k
        <3>1. m \in 1 .. (n - 1) /\ From(m) = m
            BY <1>1, <2>1
        <3> QED
            BY <3>1
    <2>2. CASE ~(m < k)
        <3>1. m - 1 \in 1 .. (n - 1) /\ From(m - 1) = m
            BY <1>1, <1>6, <2>2
        <3> QED
            BY <3>1
    <2> QED
        BY <2>1, <2>2
<1> HIDE DEF From
<1>7. Injective(r)
    BY <1>1, <1>3, <1>4, <1>5 DEF Injective
<1>8. ASSUME NEW x
      PROVE  x \in Range(r) <=> (x \in Range(q) /\ x # q[k])
    <2>1. x \in Range(r) <=> \E i \in 1 .. (n - 1) : x = r[i]
        BY <1>3 DEF Range
    <2>2. x \in Range(q) <=> \E i \in 1 .. n : x = q[i]
        BY <1>1 DEF Range
    <2>3. \A i \in 1 .. n : i # k => q[i] # q[k]
        BY <1>1 DEF Injective
    <2> QED
        BY <1>4, <1>6, <2>1, <2>2, <2>3
<1> QED
    BY <1>2, <1>7, <1>8 DEF r, n

\* A request is removed wherever it is.
LEMMA WithoutIs ==
    ASSUME NEW q \in Seq(Nat), Injective(q), NEW i
    PROVE  /\ Without(q, i) \in Seq(Nat) /\ Injective(Without(q, i))
           /\ Range(Without(q, i)) = Range(q) \ {i}
<1>1. CASE i \in Range(q)
    <2> DEFINE k == CHOOSE n \in DOMAIN q : q[n] = i
    <2>1. k \in DOMAIN q /\ q[k] = i
        BY <1>1 DEF Range
    <2>2. Without(q, i) = RemoveAt(q, k)
        BY <1>1 DEF Without
    <2> HIDE DEF k
    <2> QED
        BY <2>1, <2>2, Leaving
<1>2. CASE i \notin Range(q)
    BY <1>2 DEF Without
<1> QED
    BY <1>1, <1>2

\* The first request is taken.
LEMMA Taking ==
    ASSUME NEW q \in Seq(Nat), Injective(q), q # <<>>
    PROVE  /\ Head(q) \in Range(q) /\ Head(q) \in Nat
           /\ Tail(q) \in Seq(Nat) /\ Injective(Tail(q)) /\ Len(Tail(q)) = Len(q) - 1
           /\ Range(Tail(q)) = Range(q) \ {Head(q)}
<1>1. Len(q) \in Nat /\ Len(q) > 0 /\ DOMAIN q = 1 .. Len(q) /\ 1 \in DOMAIN q /\ Head(q) = q[1]
    OBVIOUS
<1> DEFINE r == Tail(q)
<1>2. r \in Seq(Nat) /\ Len(r) = Len(q) - 1 /\ \A n \in 1 .. (Len(q) - 1) : r[n] = q[n + 1]
    BY <1>1
<1>3. DOMAIN r = 1 .. (Len(q) - 1)
    BY <1>2
<1> HIDE DEF r
<1>4. Injective(r)
    <2> SUFFICES ASSUME NEW m \in 1 .. (Len(q) - 1), NEW n \in 1 .. (Len(q) - 1), r[m] = r[n]
                 PROVE  m = n
        BY <1>3 DEF Injective
    <2>1. m + 1 \in DOMAIN q /\ n + 1 \in DOMAIN q /\ q[m + 1] = q[n + 1]
        BY <1>1, <1>2
    <2>2. m + 1 = n + 1
        BY <2>1 DEF Injective
    <2> QED
        BY <1>1, <2>2
<1>5. Head(q) \in Range(q) /\ Head(q) \in Nat
    BY <1>1 DEF Range
<1>6. ASSUME NEW x
      PROVE  x \in Range(r) <=> x \in Range(q) /\ x # q[1]
    <2>1. x \in Range(r) <=> \E n \in 1 .. (Len(q) - 1) : x = r[n]
        BY <1>3 DEF Range
    <2>2. x \in Range(q) <=> \E n \in 1 .. Len(q) : x = q[n]
        BY <1>1 DEF Range
    <2>3. \A n \in 1 .. (Len(q) - 1) : n + 1 \in 1 .. Len(q) /\ n + 1 # 1
        BY <1>1
    <2>4. \A n \in 1 .. Len(q) : n # 1 => n - 1 \in 1 .. (Len(q) - 1) /\ (n - 1) + 1 = n
        BY <1>1
    <2>5. \A n \in 1 .. Len(q) : n # 1 => q[n] # q[1]
        BY <1>1 DEF Injective
    <2>6. \A n \in 1 .. (Len(q) - 1) : r[n] = q[n + 1]
        BY <1>2
    <2>7. ASSUME x \in Range(r) PROVE x \in Range(q) /\ x # q[1]
        <3>1. PICK n \in 1 .. (Len(q) - 1) : x = r[n]
            BY <2>1, <2>7
        <3>2. x = q[n + 1] /\ n + 1 \in 1 .. Len(q) /\ n + 1 # 1
            BY <2>3, <2>6, <3>1
        <3> QED
            BY <2>2, <2>5, <3>2
    <2>8. ASSUME x \in Range(q), x # q[1] PROVE x \in Range(r)
        <3>1. PICK n \in 1 .. Len(q) : x = q[n]
            BY <2>2, <2>8
        <3>2. n # 1
            BY <2>8, <3>1
        <3>3. n - 1 \in 1 .. (Len(q) - 1) /\ x = r[n - 1]
            BY <2>4, <2>6, <3>1, <3>2
        <3> QED
            BY <2>1, <3>3
    <2> QED
        BY <2>7, <2>8
<1> QED
    BY <1>1, <1>2, <1>4, <1>5, <1>6 DEF r

-----------------------------------------------------------------------------
(* Events *)

IsBank(e, b) == e.bank = b /\ e.kind = "BANK"

\* What the copies of a bank's BANK events are.
LEMMA CopiesAre ==
    ASSUME NEW B, IsABag(B), NEW b, NEW x
    PROVE  x \in BankCopies(B, b) <=>
              \E e \in DOMAIN B, n \in Nat : x = <<e, n>> /\ IsBank(e, b) /\ n \in 1 .. B[e]
<1>1. \A e \in DOMAIN B : B[e] \in Nat
    BY DEF IsABag
<1> QED
    BY <1>1 DEF BankCopies, BagToSet, IsBank

\* Events come.
LEMMA BagPlus ==
    ASSUME NEW B, IsABag(B), NEW S
    PROVE  LET C == B (+) SetToBag(S) IN
           /\ IsABag(C) /\ DOMAIN C = DOMAIN B \cup S
           /\ \A e \in DOMAIN B : C[e] = IF e \in S THEN B[e] + 1 ELSE B[e]
           /\ \A e \in S \ DOMAIN B : C[e] = 1
BY DEF IsABag, (+), SetToBag

\* One event goes.
LEMMA BagMinus ==
    ASSUME NEW B, IsABag(B), NEW e \in DOMAIN B
    PROVE  LET C == B (-) SetToBag({e}) IN
           /\ IsABag(C)
           /\ DOMAIN C = IF B[e] = 1 THEN DOMAIN B \ {e} ELSE DOMAIN B
           /\ \A f \in DOMAIN C : C[f] = IF f = e THEN B[f] - 1 ELSE B[f]
<1>1. \A f \in DOMAIN B : B[f] \in Nat /\ B[f] > 0
    BY DEF IsABag
<1> DEFINE D == [f \in DOMAIN B |-> IF f \in DOMAIN SetToBag({e}) THEN B[f] - SetToBag({e})[f] ELSE B[f]]
           C == [f \in {d \in DOMAIN D : D[d] > 0} |-> D[f]]
<1>2. \A f \in DOMAIN B : D[f] = IF f = e THEN B[f] - 1 ELSE B[f]
    BY DEF SetToBag
<1>3. B (-) SetToBag({e}) = C
    BY DEF (-)
<1>4. DOMAIN C = {d \in DOMAIN B : D[d] > 0} /\ \A f \in DOMAIN C : C[f] = D[f]
    OBVIOUS
<1> HIDE DEF D
<1>5. C = [f \in DOMAIN C |-> C[f]]
    OBVIOUS
<1> HIDE DEF C
<1>6. DOMAIN C = IF B[e] = 1 THEN DOMAIN B \ {e} ELSE DOMAIN B
    BY <1>1, <1>2, <1>4
<1>7. \A f \in DOMAIN C : C[f] \in {n \in Nat : n > 0}
    BY <1>1, <1>2, <1>4
<1>8. IsABag(C)
    BY <1>5, <1>7, Zenon DEF IsABag
<1>9. \A f \in DOMAIN C : C[f] = IF f = e THEN B[f] - 1 ELSE B[f]
    BY <1>2, <1>4
<1> QED
    BY <1>3, <1>6, <1>8, <1>9, Zenon

\* Events that are not BANK events of b come.
LEMMA OthersCome ==
    ASSUME NEW B, IsABag(B), NEW b, NEW S, \A e \in S : ~IsBank(e, b)
    PROVE  BankCopies(B (+) SetToBag(S), b) = BankCopies(B, b)
<1> DEFINE C == B (+) SetToBag(S)
<1>1. /\ IsABag(C) /\ DOMAIN C = DOMAIN B \cup S
      /\ \A e \in DOMAIN B : C[e] = IF e \in S THEN B[e] + 1 ELSE B[e]
    BY BagPlus
<1> HIDE DEF C
<1>2. ASSUME NEW x PROVE x \in BankCopies(C, b) <=> x \in BankCopies(B, b)
    <2>1. x \in BankCopies(C, b) <=>
              \E e \in DOMAIN C, n \in Nat : x = <<e, n>> /\ IsBank(e, b) /\ n \in 1 .. C[e]
        BY <1>1, CopiesAre
    <2>2. x \in BankCopies(B, b) <=>
              \E e \in DOMAIN B, n \in Nat : x = <<e, n>> /\ IsBank(e, b) /\ n \in 1 .. B[e]
        BY CopiesAre
    <2>3. \A e : IsBank(e, b) => (e \in DOMAIN C <=> e \in DOMAIN B) /\ C[e] = C[e]
        BY <1>1
    <2>4. \A e \in DOMAIN B : IsBank(e, b) => C[e] = B[e]
        BY <1>1
    <2> QED
        BY <2>1, <2>2, <2>3, <2>4
<1> QED
    BY <1>2 DEF C

\* An event that is not a BANK event of b goes.
LEMMA OtherGoes ==
    ASSUME NEW B, IsABag(B), NEW b, NEW f \in DOMAIN B, ~IsBank(f, b)
    PROVE  BankCopies(B (-) SetToBag({f}), b) = BankCopies(B, b)
<1> DEFINE C == B (-) SetToBag({f})
<1>1. /\ IsABag(C) /\ DOMAIN C = IF B[f] = 1 THEN DOMAIN B \ {f} ELSE DOMAIN B
      /\ \A e \in DOMAIN C : C[e] = IF e = f THEN B[e] - 1 ELSE B[e]
    BY BagMinus
<1> HIDE DEF C
<1>2. ASSUME NEW x PROVE x \in BankCopies(C, b) <=> x \in BankCopies(B, b)
    <2>1. x \in BankCopies(C, b) <=>
              \E e \in DOMAIN C, n \in Nat : x = <<e, n>> /\ IsBank(e, b) /\ n \in 1 .. C[e]
        BY <1>1, CopiesAre
    <2>2. x \in BankCopies(B, b) <=>
              \E e \in DOMAIN B, n \in Nat : x = <<e, n>> /\ IsBank(e, b) /\ n \in 1 .. B[e]
        BY CopiesAre
    <2>3. \A e : IsBank(e, b) => (e \in DOMAIN C <=> e \in DOMAIN B)
        BY <1>1
    <2>4. \A e \in DOMAIN C : IsBank(e, b) => C[e] = B[e]
        BY <1>1
    <2> QED
        BY <2>1, <2>2, <2>3, <2>4
<1> QED
    BY <1>2 DEF C

\* One BANK event of b comes, with others or not.
LEMMA BankComes ==
    ASSUME NEW B, IsABag(B), NEW b, NEW S, NEW f \in S, IsBank(f, b),
           \A e \in S : IsBank(e, b) => e = f, IsFiniteSet(BankCopies(B, b))
    PROVE  /\ IsFiniteSet(BankCopies(B (+) SetToBag(S), b))
           /\ Cardinality(BankCopies(B (+) SetToBag(S), b)) = Cardinality(BankCopies(B, b)) + 1
<1> DEFINE C == B (+) SetToBag(S)
           m == IF f \in DOMAIN B THEN B[f] + 1 ELSE 1
<1>1. /\ IsABag(C) /\ DOMAIN C = DOMAIN B \cup S
      /\ \A e \in DOMAIN B : C[e] = IF e \in S THEN B[e] + 1 ELSE B[e]
      /\ C[f] = m
    BY BagPlus
<1>2. \A e \in DOMAIN B : B[e] \in Nat /\ B[e] > 0
    BY DEF IsABag
<1>3. m \in Nat /\ m > 0 /\ (f \in DOMAIN B => B[f] = m - 1) /\ (f \notin DOMAIN B => m = 1)
    BY <1>2
<1> HIDE DEF C, m
<1>4. ASSUME NEW x PROVE x \in BankCopies(C, b) <=> x \in BankCopies(B, b) \cup {<<f, m>>}
    <2>1. x \in BankCopies(C, b) <=>
              \E e \in DOMAIN C, n \in Nat : x = <<e, n>> /\ IsBank(e, b) /\ n \in 1 .. C[e]
        BY <1>1, CopiesAre
    <2>2. x \in BankCopies(B, b) <=>
              \E e \in DOMAIN B, n \in Nat : x = <<e, n>> /\ IsBank(e, b) /\ n \in 1 .. B[e]
        BY CopiesAre
    <2>3. ASSUME NEW e, NEW n \in Nat, IsBank(e, b), e # f
          PROVE  (e \in DOMAIN C /\ n \in 1 .. C[e]) <=> (e \in DOMAIN B /\ n \in 1 .. B[e])
        BY <1>1, <2>3
    <2>4. ASSUME NEW n \in Nat
          PROVE  (f \in DOMAIN C /\ n \in 1 .. C[f]) <=>
                    (f \in DOMAIN B /\ n \in 1 .. B[f]) \/ n = m
        BY <1>1, <1>3
    <2> QED
        BY <1>3, <2>1, <2>2, <2>3, <2>4
<1>5. <<f, m>> \notin BankCopies(B, b)
    <2>1. ASSUME NEW e \in DOMAIN B, NEW n \in Nat, <<f, m>> = <<e, n>>, n \in 1 .. B[e]
          PROVE  FALSE
        BY <1>3, <2>1
    <2> QED
        BY <2>1, CopiesAre
<1>6. BankCopies(C, b) = BankCopies(B, b) \cup {<<f, m>>}
    BY <1>4
<1> QED
    BY <1>5, <1>6, FS_AddElement DEF C

\* A BANK event of b goes.
LEMMA BankGoes ==
    ASSUME NEW B, IsABag(B), NEW b, NEW f \in DOMAIN B, IsBank(f, b),
           IsFiniteSet(BankCopies(B, b))
    PROVE  /\ IsFiniteSet(BankCopies(B (-) SetToBag({f}), b))
           /\ Cardinality(BankCopies(B (-) SetToBag({f}), b)) = Cardinality(BankCopies(B, b)) - 1
<1> DEFINE C == B (-) SetToBag({f})
<1>1. /\ IsABag(C) /\ DOMAIN C = IF B[f] = 1 THEN DOMAIN B \ {f} ELSE DOMAIN B
      /\ \A e \in DOMAIN C : C[e] = IF e = f THEN B[e] - 1 ELSE B[e]
    BY BagMinus
<1>2. \A e \in DOMAIN B : B[e] \in Nat /\ B[e] > 0
    BY DEF IsABag
<1> HIDE DEF C
<1>3. ASSUME NEW x PROVE x \in BankCopies(C, b) <=> x \in BankCopies(B, b) \ {<<f, B[f]>>}
    <2>1. x \in BankCopies(C, b) <=>
              \E e \in DOMAIN C, n \in Nat : x = <<e, n>> /\ IsBank(e, b) /\ n \in 1 .. C[e]
        BY <1>1, CopiesAre
    <2>2. x \in BankCopies(B, b) <=>
              \E e \in DOMAIN B, n \in Nat : x = <<e, n>> /\ IsBank(e, b) /\ n \in 1 .. B[e]
        BY CopiesAre
    <2>3. ASSUME NEW e, NEW n \in Nat, e # f
          PROVE  (e \in DOMAIN C /\ n \in 1 .. C[e]) <=> (e \in DOMAIN B /\ n \in 1 .. B[e])
        BY <1>1, <2>3
    <2>4. ASSUME NEW n \in Nat
          PROVE  (f \in DOMAIN C /\ n \in 1 .. C[f]) <=> (n \in 1 .. B[f] /\ n # B[f])
        BY <1>1, <1>2
    <2> QED
        BY <1>2, <2>1, <2>2, <2>3, <2>4
<1>4. <<f, B[f]>> \in BankCopies(B, b)
    <2>1. B[f] \in Nat /\ B[f] \in 1 .. B[f]
        BY <1>2
    <2> QED
        BY <2>1, CopiesAre
<1>5. BankCopies(C, b) = BankCopies(B, b) \ {<<f, B[f]>>}
    BY <1>3
<1> QED
    BY <1>4, <1>5, FS_RemoveElement DEF C

\* While a bank has no BANK event, none is pending.
LEMMA NoCopies ==
    ASSUME NEW B, IsABag(B), NEW b, IsFiniteSet(BankCopies(B, b)),
           Cardinality(BankCopies(B, b)) = 0
    PROVE  \A e \in DOMAIN B : ~IsBank(e, b)
<1>1. BankCopies(B, b) = {}
    BY FS_EmptySet
<1>2. ASSUME NEW e \in DOMAIN B, IsBank(e, b) PROVE <<e, 1>> \in BankCopies(B, b)
    <2>1. B[e] \in Nat /\ B[e] > 0
        BY DEF IsABag
    <2>2. 1 \in Nat /\ 1 \in 1 .. B[e]
        BY <2>1
    <2> QED
        BY <1>2, <2>2, CopiesAre
<1> QED
    BY <1>1, <1>2

-----------------------------------------------------------------------------
(* What a bank selects *)

LEMMA MinIn ==
    ASSUME NEW S \in SUBSET Nat, S # {}
    PROVE  Min(S) \in S
<1>1. Min(S) = busP!Min(S)
    BY DEF Min, busP!Min
<1>2. busP!BusAssumption
    BY MemoryAssumption DEF busP!BusAssumption
<1>3. busP!Min(S) \in S
    BY <1>2, busP!MinNat, Zenon
<1> QED
    BY <1>1, <1>3

LEMMA QueuedIs ==
    ASSUME NEW k, NEW i
    PROVE  i \in Queued(k) <=> \E p \in Priorities : i \in Range(k.queue[p])
BY DEF Queued

\* What a bank's fields are.
LEMMA BankFields ==
    ASSUME NEW k \in Bank
    PROVE  /\ k.queue \in [Priorities -> Seq(Nat)] /\ k.pipeline \in Seq(Nat) /\ k.current \in Nat
           /\ k.row \in Nat /\ k.dirty \in SUBSET Nat /\ k.nextPipelineEvent \in Nat
           /\ k.notifications \in SUBSET Nat
           /\ k.state \in {"CLOSED", "OPENING", "OPEN_CLEAN", "OPEN_DIRTY", "CLOSING"}
BY DEF Bank

\* A member of the list of the highest priority is queued.
LEMMA BestIs ==
    ASSUME NEW k \in Bank, Queued(k) # {}
    PROVE  /\ Best(k) \in Seq(Nat) /\ Best(k) # <<>>
           /\ \A m \in DOMAIN Best(k) : Best(k)[m] \in Queued(k)
<1> DEFINE S == {p \in Priorities : k.queue[p] # <<>>}
<1>1. k.queue \in [Priorities -> Seq(Nat)]
    BY BankFields
<1>2. S \in SUBSET Nat /\ S \subseteq Priorities
    BY DEF Priorities
<1>3. S # {}
    <2>1. PICK i : i \in Queued(k)
        OBVIOUS
    <2>2. PICK p \in Priorities : i \in Range(k.queue[p])
        BY <2>1, QueuedIs
    <2>3. k.queue[p] # <<>>
        BY <2>2 DEF Range
    <2> QED
        BY <2>3
<1>4. Min(S) \in S
    BY <1>2, <1>3, MinIn
<1>5. Best(k) = k.queue[Min(S)]
    BY DEF Best
<1> DEFINE p == Min(S)
<1>6. p \in Priorities /\ k.queue[p] # <<>> /\ Best(k) = k.queue[p]
    BY <1>4, <1>5
<1> HIDE DEF p
<1>7. Best(k) \in Seq(Nat)
    BY <1>1, <1>6
<1>8. ASSUME NEW m \in DOMAIN Best(k) PROVE Best(k)[m] \in Queued(k)
    <2>1. Best(k)[m] \in Range(k.queue[p])
        BY <1>6 DEF Range
    <2> QED
        BY <1>6, <2>1, QueuedIs
<1> QED
    BY <1>6, <1>7, <1>8

\* What is selected was queued.
LEMMA SelectedIs ==
    ASSUME NEW k \in Bank, Queued(k) # {}
    PROVE  Selected(k) \in Queued(k) /\ Selected(k) \in Nat
<1>1. /\ Best(k) \in Seq(Nat) /\ Best(k) # <<>>
      /\ \A m \in DOMAIN Best(k) : Best(k)[m] \in Queued(k)
    BY BestIs
<1>2. \A m \in DOMAIN Best(k) : Best(k)[m] \in Nat
    BY <1>1
<1>3. 1 \in DOMAIN Best(k) /\ Head(Best(k)) = Best(k)[1] /\ DOMAIN Best(k) \subseteq Nat
    BY <1>1
<1>4. Hits(k) \subseteq DOMAIN Best(k)
    BY DEF Hits
<1>5. CASE IsOpen(k) /\ Hits(k) # {}
    <2>1. Min(Hits(k)) \in Hits(k)
        BY <1>3, <1>4, <1>5, MinIn
    <2> QED
        BY <1>1, <1>2, <1>4, <1>5, <2>1 DEF Selected
<1>6. CASE ~(IsOpen(k) /\ Hits(k) # {})
    BY <1>1, <1>2, <1>3, <1>6 DEF Selected
<1> QED
    BY <1>5, <1>6

\* What is taken for the pipeline was queued, hits the row and is of the same kind.
LEMMA AlikeIs ==
    ASSUME NEW k \in Bank, NEW prev, Queued(k) # {}, Alike(k, prev) # {}
    PROVE  LET i == Best(k)[Min(Alike(k, prev))]
           IN /\ i \in Queued(k) /\ requests[i].row = k.row
              /\ requests[i].read = requests[prev].read
<1>1. /\ Best(k) \in Seq(Nat) /\ \A m \in DOMAIN Best(k) : Best(k)[m] \in Queued(k)
    BY BestIs
<1>2. DOMAIN Best(k) \subseteq Nat
    BY <1>1
<1>3. Alike(k, prev) \subseteq DOMAIN Best(k)
    BY DEF Alike, Hits
<1>4. Min(Alike(k, prev)) \in Alike(k, prev)
    BY <1>2, <1>3, MinIn
<1> QED
    BY <1>1, <1>3, <1>4 DEF Alike, Hits, IsHit

\* A request leaves the queue.
LEMMA UnqueuedIs ==
    ASSUME NEW k \in Bank, NEW i, \A p \in Priorities : Injective(k.queue[p])
    PROVE  /\ Unqueued(k, i) = [k EXCEPT !.queue = Unqueued(k, i).queue]
           /\ Unqueued(k, i).queue \in [Priorities -> Seq(Nat)]
           /\ \A p \in Priorities : Injective(Unqueued(k, i).queue[p])
           /\ \A p \in Priorities : Range(Unqueued(k, i).queue[p]) = Range(k.queue[p]) \ {i}
<1> DEFINE q == [p \in Priorities |-> Without(k.queue[p], i)]
<1>1. k.queue \in [Priorities -> Seq(Nat)]
    BY BankFields
<1>2. \A p \in Priorities : /\ Without(k.queue[p], i) \in Seq(Nat)
                            /\ Injective(Without(k.queue[p], i))
                            /\ Range(Without(k.queue[p], i)) = Range(k.queue[p]) \ {i}
    BY <1>1, WithoutIs
<1>3. Unqueued(k, i) = [k EXCEPT !.queue = q]
    BY DEF Unqueued
<1> HIDE DEF q
<1>4. Unqueued(k, i).queue = q
    BY <1>3 DEF Bank
<1>5. Unqueued(k, i) = [k EXCEPT !.queue = Unqueued(k, i).queue]
    BY <1>3, <1>4
<1> QED
    BY <1>2, <1>4, <1>5 DEF q

LEMMA UnqueuedQueued ==
    ASSUME NEW k \in Bank, NEW i, NEW k2, k2.queue = Unqueued(k, i).queue,
           \A p \in Priorities : Injective(k.queue[p])
    PROVE  Queued(k2) = Queued(k) \ {i}
<1>0. \A p \in Priorities : Range(Unqueued(k, i).queue[p]) = Range(k.queue[p]) \ {i}
    BY UnqueuedIs, Zenon
<1>1. \A p \in Priorities : Range(k2.queue[p]) = Range(k.queue[p]) \ {i}
    BY <1>0
<1>2. ASSUME NEW j PROVE j \in Queued(k2) <=> j \in Queued(k) /\ j # i
    BY <1>1, QueuedIs
<1> QED
    BY <1>2

-----------------------------------------------------------------------------
(* The places of a bank's requests *)

Requests(rq) == rq \in [DOMAIN rq -> Request] /\ DOMAIN rq \subseteq Nat \ {0}
Kept(k, k2) == k2.queue = k.queue /\ k2.current = k.current
               /\ k2.pipeline = k.pipeline /\ k2.notifications = k.notifications

LEMMA StartedIs ==
    ASSUME NEW k, NEW j
    PROVE  j \in Started(k) <=> j \in Range(k.pipeline) \/ (j = k.current /\ j # 0)
BY DEF Started

LEMMA MineSame ==
    ASSUME NEW b, NEW k, NEW rq, NEW k2, Kept(k, k2), Mine(b, k, rq)
    PROVE  Mine(b, k2, rq) /\ Started(k2) = Started(k) /\ Queued(k2) = Queued(k)
<1>1. Started(k2) = Started(k) /\ Queued(k2) = Queued(k)
    BY DEF Kept, Started, Queued
<1> QED
    BY <1>1 DEF Kept, Mine

\* A request is started by a bank that has started none, or stays the one it has.
LEMMA MineStart ==
    ASSUME NEW rq, Requests(rq), NEW b, NEW k \in Bank, Mine(b, k, rq), k.pipeline = <<>>,
           NEW i, (k.current = 0 /\ i \in Queued(k)) \/ (k.current = i /\ i # 0),
           NEW k2, k2.queue = Unqueued(k, i).queue, k2.current = i, k2.pipeline = <<>>,
           k2.notifications = k.notifications
    PROVE  /\ Mine(b, k2, rq) /\ Started(k2) = {i} /\ Queued(k2) = Queued(k) \ {i}
           /\ i \in DOMAIN rq /\ i \in Nat \ {0}
<1>1. \A p \in Priorities : Injective(k.queue[p])
    BY DEF Mine
<1>2. \A p \in Priorities : Injective(k2.queue[p])
    BY <1>1, UnqueuedIs, Zenon
<1>3. Queued(k2) = Queued(k) \ {i}
    BY <1>1, UnqueuedQueued
<1>4. Range(k.pipeline) = {} /\ Range(k2.pipeline) = {}
    BY DEF Range
<1>5. k.current = i => i \in Started(k)
    <2>1. i # 0
        BY DEF Mine, Requests
    <2> QED
        BY <2>1, StartedIs
<1>6. i \in DOMAIN rq /\ rq[i].bank = b /\ i \in Nat \ {0}
    BY <1>5 DEF Mine, Requests
<1>7. Started(k2) = {i}
    BY <1>4, <1>6 DEF Started
<1>8. i \notin k.notifications
    BY <1>5 DEF Mine
<1> QED
    BY <1>2, <1>3, <1>4, <1>6, <1>7, <1>8 DEF Mine

\* A request is started behind others.
LEMMA MinePipe ==
    ASSUME NEW rq, Requests(rq), NEW b, NEW k \in Bank, Mine(b, k, rq), k.current # 0,
           NEW i \in Queued(k),
           NEW k2, k2.queue = Unqueued(k, i).queue, k2.current = k.current,
           k2.pipeline = Append(k.pipeline, i), k2.notifications = k.notifications
    PROVE  /\ Mine(b, k2, rq) /\ Started(k2) = Started(k) \cup {i} /\ Queued(k2) = Queued(k) \ {i}
           /\ Len(k2.pipeline) = Len(k.pipeline) + 1 /\ k2.pipeline \in Seq(Nat)
           /\ i \in DOMAIN rq /\ i \in Nat \ {0}
<1>1. \A p \in Priorities : Injective(k.queue[p])
    BY DEF Mine
<1>2. \A p \in Priorities : Injective(k2.queue[p])
    BY <1>1, UnqueuedIs, Zenon
<1>3. Queued(k2) = Queued(k) \ {i}
    BY <1>1, UnqueuedQueued
<1>4. i \in DOMAIN rq /\ rq[i].bank = b /\ i \in Nat \ {0} /\ i \notin Started(k)
      /\ i \notin k.notifications
    BY DEF Mine, Requests
<1>5. i \notin Range(k.pipeline) /\ i # k.current
    BY <1>4, StartedIs
<1>6. k.pipeline \in Seq(Nat) /\ Injective(k.pipeline)
    BY BankFields DEF Mine
<1>7. /\ k2.pipeline \in Seq(Nat) /\ Injective(k2.pipeline)
      /\ Len(k2.pipeline) = Len(k.pipeline) + 1
      /\ Range(k2.pipeline) = Range(k.pipeline) \cup {i}
    BY <1>4, <1>5, <1>6, Appending
<1>8. Started(k2) = Started(k) \cup {i}
    BY <1>4, <1>7 DEF Started
<1> QED
    BY <1>2, <1>3, <1>4, <1>5, <1>7, <1>8 DEF Mine

\* The current request is completed.
LEMMA MineFree ==
    ASSUME NEW rq, Requests(rq), NEW b, NEW k \in Bank, Mine(b, k, rq),
           NEW k2, k2.queue = k.queue, k2.current = 0, k2.pipeline = k.pipeline,
           k2.notifications = k.notifications,
           NEW rq2, rq2 = Restrict(rq, DOMAIN rq \ ({k.current} \ {0}))
    PROVE  /\ Requests(rq2) /\ Mine(b, k2, rq2) /\ Queued(k2) = Queued(k)
           /\ Started(k2) = Range(k.pipeline) /\ Started(k2) \subseteq Started(k)
           /\ \A j \in Started(k2) : rq2[j] = rq[j]
<1>1. /\ DOMAIN rq2 = DOMAIN rq \ ({k.current} \ {0})
      /\ \A j \in DOMAIN rq2 : rq2[j] = rq[j]
      /\ rq2 = [j \in DOMAIN rq2 |-> rq[j]]
    BY DEF Restrict
<1>2. Requests(rq2)
    <2>1. \A j \in DOMAIN rq2 : rq[j] \in Request
        BY <1>1 DEF Requests
    <2>2. rq2 \in [DOMAIN rq2 -> Request]
        BY <1>1, <2>1
    <2>3. DOMAIN rq2 \subseteq Nat \ {0}
        BY <1>1 DEF Requests
    <2> QED
        BY <2>2, <2>3 DEF Requests
<1>3. Queued(k2) = Queued(k)
    BY DEF Queued
<1>4. k.current \notin Range(k.pipeline)
    BY DEF Mine
<1>5. 0 \notin Range(k.pipeline)
    BY StartedIs DEF Mine, Requests
<1>6. Started(k2) = Range(k.pipeline)
    BY DEF Started
<1>7. Started(k2) \subseteq Started(k) /\ k.current \notin Started(k2)
    BY <1>4, <1>6, StartedIs
<1>8. k.current # 0 => k.current \in Started(k)
    BY StartedIs
<1>9. k.current # 0 => k.current \notin Queued(k) /\ k.current \notin k.notifications
    BY <1>8 DEF Mine
<1>10. \A j \in Queued(k2) \cup Started(k2) \cup k2.notifications : j \in DOMAIN rq2 /\ rq2[j].bank = b
    BY <1>1, <1>3, <1>7, <1>9 DEF Mine
<1>11. k2.current \notin Range(k2.pipeline)
    BY <1>5
<1> QED
    BY <1>1, <1>2, <1>3, <1>6, <1>7, <1>10, <1>11 DEF Mine

\* The next request of the pipeline becomes the current one.
LEMMA MineHead ==
    ASSUME NEW rq, Requests(rq), NEW b, NEW k \in Bank, Mine(b, k, rq), k.current = 0,
           k.pipeline # <<>>,
           NEW k2, k2.queue = k.queue, k2.current = Head(k.pipeline),
           k2.pipeline = Tail(k.pipeline), k2.notifications = k.notifications
    PROVE  /\ Mine(b, k2, rq) /\ Queued(k2) = Queued(k) /\ Started(k2) = Started(k)
           /\ k2.pipeline \in Seq(Nat) /\ Len(k2.pipeline) = Len(k.pipeline) - 1
           /\ k2.current \in Nat \ {0} /\ k2.current \in Started(k)
<1>1. k.pipeline \in Seq(Nat) /\ Injective(k.pipeline)
    BY BankFields DEF Mine
<1>2. /\ k2.current \in Range(k.pipeline) /\ k2.current \in Nat
      /\ k2.pipeline \in Seq(Nat) /\ Injective(k2.pipeline)
      /\ Len(k2.pipeline) = Len(k.pipeline) - 1
      /\ Range(k2.pipeline) = Range(k.pipeline) \ {k2.current}
    BY <1>1, Taking
<1>3. k2.current \in Started(k) /\ k2.current # 0
    BY <1>2, StartedIs DEF Mine, Requests
<1>4. Started(k2) = Started(k)
    BY <1>2, <1>3 DEF Started
<1>5. Queued(k2) = Queued(k)
    BY DEF Queued
<1>6. k2.current \notin Range(k2.pipeline)
    BY <1>2
<1> QED
    BY <1>2, <1>3, <1>4, <1>5, <1>6 DEF Mine

\* The answered reads are completed.
LEMMA MineNotify ==
    ASSUME NEW rq, Requests(rq), NEW b, NEW k \in Bank, Mine(b, k, rq),
           NEW k2, k2.queue = k.queue, k2.current = k.current, k2.pipeline = k.pipeline,
           k2.notifications = {},
           NEW rq2, rq2 = Restrict(rq, DOMAIN rq \ k.notifications)
    PROVE  /\ Requests(rq2) /\ Mine(b, k2, rq2) /\ Queued(k2) = Queued(k) /\ Started(k2) = Started(k)
           /\ \A j \in Started(k) : rq2[j] = rq[j]
<1>1. /\ DOMAIN rq2 = DOMAIN rq \ k.notifications
      /\ \A j \in DOMAIN rq2 : rq2[j] = rq[j]
      /\ rq2 = [j \in DOMAIN rq2 |-> rq[j]]
    BY DEF Restrict
<1>2. Requests(rq2)
    <2>1. \A j \in DOMAIN rq2 : rq[j] \in Request
        BY <1>1 DEF Requests
    <2>2. rq2 \in [DOMAIN rq2 -> Request]
        BY <1>1, <2>1
    <2>3. DOMAIN rq2 \subseteq Nat \ {0}
        BY <1>1 DEF Requests
    <2> QED
        BY <2>2, <2>3 DEF Requests
<1>3. Queued(k2) = Queued(k) /\ Started(k2) = Started(k)
    BY DEF Queued, Started
<1>4. \A j \in Queued(k) \cup Started(k) : j \in DOMAIN rq2 /\ rq2[j] = rq[j] /\ rq2[j].bank = b
    BY <1>1 DEF Mine
<1> QED
    BY <1>2, <1>3, <1>4 DEF Mine

\* A new request.
LEMMA NewRequest ==
    ASSUME NEW rq, Requests(rq), NEW i \in Nat \ {0}, i \notin DOMAIN rq, NEW input \in Request,
           NEW rq2, rq2 = [j \in DOMAIN rq \cup {i} |-> IF j = i THEN input ELSE rq[j]]
    PROVE  /\ Requests(rq2) /\ DOMAIN rq2 = DOMAIN rq \cup {i} /\ rq2[i] = input
           /\ \A j \in DOMAIN rq : rq2[j] = rq[j]
<1>1. /\ DOMAIN rq2 = DOMAIN rq \cup {i} /\ rq2[i] = input /\ \A j \in DOMAIN rq : rq2[j] = rq[j]
    OBVIOUS
<1>2. \A j \in DOMAIN rq : rq[j] \in Request
    BY DEF Requests
<1>3. rq2 \in [DOMAIN rq2 -> Request]
    BY <1>1, <1>2
<1> QED
    BY <1>1, <1>3 DEF Requests

\* It is answered from a queued write.
LEMMA MineForward ==
    ASSUME NEW rq, Requests(rq), NEW b, NEW k \in Bank, Mine(b, k, rq),
           NEW i, i \notin DOMAIN rq, NEW rq2, i \in DOMAIN rq2, rq2[i].bank = b,
           \A j \in DOMAIN rq : j \in DOMAIN rq2 /\ rq2[j] = rq[j],
           NEW k2, k2.queue = k.queue, k2.current = k.current, k2.pipeline = k.pipeline,
           k2.notifications = k.notifications \cup {i}
    PROVE  Mine(b, k2, rq2) /\ Queued(k2) = Queued(k) /\ Started(k2) = Started(k)
<1>1. Queued(k2) = Queued(k) /\ Started(k2) = Started(k)
    BY DEF Queued, Started
<1>2. i \notin Queued(k) /\ i \notin Started(k)
    BY DEF Mine
<1> QED
    BY <1>1, <1>2 DEF Mine

IsEnqueued(b, k, rq2, i, k2) ==
    /\ Mine(b, k2, rq2) /\ Queued(k2) = Queued(k) \cup {i} /\ Started(k2) = Started(k)
    /\ k2.queue \in [Priorities -> Seq(Nat)]

\* It is queued.
LEMMA MineEnqueue ==
    ASSUME NEW rq, Requests(rq), NEW b, NEW k \in Bank, Mine(b, k, rq),
           NEW i \in Nat, i \notin DOMAIN rq, NEW rq2, i \in DOMAIN rq2, rq2[i].bank = b,
           \A j \in DOMAIN rq : j \in DOMAIN rq2 /\ rq2[j] = rq[j],
           NEW p \in Priorities,
           NEW k2, k2.queue = [k.queue EXCEPT ![p] = Append(k.queue[p], i)],
           k2.current = k.current, k2.pipeline = k.pipeline, k2.notifications = k.notifications
    PROVE  IsEnqueued(b, k, rq2, i, k2)
<1>1. k.queue \in [Priorities -> Seq(Nat)]
    BY BankFields
<1>2. i \notin Queued(k) /\ i \notin Started(k) /\ i \notin k.notifications
    BY DEF Mine
<1>3. i \notin Range(k.queue[p]) /\ Injective(k.queue[p]) /\ k.queue[p] \in Seq(Nat)
    BY <1>1, <1>2, QueuedIs DEF Mine
<1>4. /\ Append(k.queue[p], i) \in Seq(Nat) /\ Injective(Append(k.queue[p], i))
      /\ Range(Append(k.queue[p], i)) = Range(k.queue[p]) \cup {i}
    BY <1>3, Appending
<1>5. \A r \in Priorities : k2.queue[r] = IF r = p THEN Append(k.queue[p], i) ELSE k.queue[r]
    BY <1>1
<1>6. k2.queue \in [Priorities -> Seq(Nat)]
    BY <1>1, <1>4
<1>7. \A r \in Priorities : Injective(k2.queue[r])
    BY <1>4, <1>5 DEF Mine
<1>8. ASSUME NEW j PROVE j \in Queued(k2) <=> j \in Queued(k) \/ j = i
    <2>1. /\ j \in Queued(k) <=> \E r \in Priorities : j \in Range(k.queue[r])
          /\ j \in Queued(k2) <=> \E r \in Priorities : j \in Range(k2.queue[r])
        BY QueuedIs
    <2>2. \A r \in Priorities : j \in Range(k2.queue[r]) <=> j \in Range(k.queue[r]) \/ (r = p /\ j = i)
        BY <1>4, <1>5
    <2> QED
        BY <2>1, <2>2
<1>9. Queued(k2) = Queued(k) \cup {i}
    BY <1>8
<1>10. Started(k2) = Started(k)
    BY DEF Started
<1> QED
    BY <1>2, <1>6, <1>7, <1>9, <1>10 DEF Mine, IsEnqueued

-----------------------------------------------------------------------------
(* What a step does to a bank *)

\* The record of a bank of which one request has left the queue to be the current one.
LEMMA StartingIs ==
    ASSUME NEW k \in Bank, NEW i \in Nat, \A p \in Priorities : Injective(k.queue[p])
    PROVE  LET k2 == [Unqueued(k, i) EXCEPT !.current = i]
           IN /\ k2 \in Bank /\ k2.queue = Unqueued(k, i).queue /\ k2.current = i
              /\ k2.pipeline = k.pipeline /\ k2.notifications = k.notifications
              /\ k2.state = k.state /\ k2.row = k.row /\ k2.dirty = k.dirty
<1> DEFINE q == Unqueued(k, i).queue
<1>1. q \in [Priorities -> Seq(Nat)]
    BY UnqueuedIs, Zenon
<1>2. Unqueued(k, i) = [k EXCEPT !.queue = q]
    BY UnqueuedIs, Zenon
<1> HIDE DEF q
<1>3. [Unqueued(k, i) EXCEPT !.current = i] = [[k EXCEPT !.queue = q] EXCEPT !.current = i]
    BY <1>2
<1> QED
    BY <1>1, <1>2, <1>3 DEF Bank, q

\* And of which one has left it for the pipeline.
LEMMA PipingIs ==
    ASSUME NEW k \in Bank, NEW i \in Nat, \A p \in Priorities : Injective(k.queue[p])
    PROVE  LET k2 == [Unqueued(k, i) EXCEPT !.pipeline = Append(k.pipeline, i)]
           IN /\ k2 \in Bank /\ k2.queue = Unqueued(k, i).queue /\ k2.current = k.current
              /\ k2.pipeline = Append(k.pipeline, i) /\ k2.notifications = k.notifications
              /\ k2.state = k.state /\ k2.row = k.row /\ k2.dirty = k.dirty
<1> DEFINE q == Unqueued(k, i).queue
<1>1. q \in [Priorities -> Seq(Nat)]
    BY UnqueuedIs, Zenon
<1>2. Unqueued(k, i) = [k EXCEPT !.queue = q]
    BY UnqueuedIs, Zenon
<1> HIDE DEF q
<1> DEFINE a == Append(k.pipeline, i)
<1>3. a \in Seq(Nat)
    BY BankFields
<1> HIDE DEF a
<1>4. [Unqueued(k, i) EXCEPT !.pipeline = a] = [[k EXCEPT !.queue = q] EXCEPT !.pipeline = a]
    BY <1>2
<1>5. LET k2 == [[k EXCEPT !.queue = q] EXCEPT !.pipeline = a]
      IN /\ k2 \in Bank /\ k2.queue = q /\ k2.current = k.current
         /\ k2.pipeline = a /\ k2.notifications = k.notifications
         /\ k2.state = k.state /\ k2.row = k.row /\ k2.dirty = k.dirty
    BY <1>1, <1>3 DEF Bank
<1> QED
    BY <1>4, <1>5 DEF a, q

\* Transferring, with the pipeline time x.
Put(k, rq, i, x) ==
    IF rq[i].read THEN [k EXCEPT !.nextPipelineEvent = x]
    ELSE [k EXCEPT !.state = "OPEN_DIRTY", !.dirty = k.dirty \cup {rq[i].column}]

IsPut(k, rq, i, k2) ==
    /\ k2 \in Bank /\ Kept(k, k2) /\ k2.row = k.row
    /\ k2.dirty = IF rq[i].read THEN k.dirty ELSE k.dirty \cup {rq[i].column}
    /\ k2.state = IF rq[i].read THEN k.state ELSE "OPEN_DIRTY"

LEMMA PutIs ==
    ASSUME NEW k \in Bank, NEW rq, NEW i, rq[i] \in Request, NEW x \in Nat
    PROVE  IsPut(k, rq, i, Put(k, rq, i, x))
<1>1. rq[i].column \in Nat /\ rq[i].read \in BOOLEAN
    BY DEF Request
<1>2. CASE rq[i].read
    BY <1>2 DEF Put, Bank, Kept, IsPut
<1>3. CASE ~rq[i].read
    <2> DEFINE d == k.dirty \cup {rq[i].column}
    <2>1. d \in SUBSET Nat
        BY <1>1, BankFields
    <2>2. Put(k, rq, i, x) = [k EXCEPT !.state = "OPEN_DIRTY", !.dirty = d]
        BY <1>3 DEF Put
    <2> HIDE DEF d
    <2>3. LET k2 == [k EXCEPT !.state = "OPEN_DIRTY", !.dirty = d]
          IN /\ k2 \in Bank /\ Kept(k, k2) /\ k2.row = k.row /\ k2.dirty = d /\ k2.state = "OPEN_DIRTY"
        BY <2>1 DEF Bank, Kept
    <2> QED
        BY <1>3, <2>2, <2>3 DEF d, IsPut
<1> QED
    BY <1>2, <1>3

\* A request of an open row gets the bus.
LEMMA BodyPut ==
    ASSUME NEW b, NEW rq, Requests(rq), NEW k \in Bank, IsFiniteSet(k.dirty), Mine(b, k, rq),
           IsOpen(k), k.current # 0, NEW i \in Started(k), NEW x \in Nat,
           (k.dirty # {}) <=> (k.state = "OPEN_DIRTY"),
           \A j \in Started(k) : rq[j].row = k.row /\ rq[j].read = rq[i].read,
           \A j \in Started(k) \ {i} : rq[j].read \/ rq[j].column \in k.dirty,
           NEW t, NEW n, t + n = 1 + Len(k.pipeline), rq[k.current].read => n = 0
    PROVE  Body(b, Put(k, rq, i, x), rq, t, n)
<1> DEFINE k2 == Put(k, rq, i, x)
<1>1. i \in DOMAIN rq
    BY DEF Mine
<1>2. rq[i] \in Request
    BY <1>1 DEF Requests
<1>3. /\ k2 \in Bank /\ Kept(k, k2) /\ k2.row = k.row
      /\ k2.dirty = IF rq[i].read THEN k.dirty ELSE k.dirty \cup {rq[i].column}
      /\ k2.state = IF rq[i].read THEN k.state ELSE "OPEN_DIRTY"
    <2>1. IsPut(k, rq, i, k2)
        BY <1>2, PutIs
    <2> QED
        BY <2>1 DEF IsPut
<1> HIDE DEF k2
<1>4. Mine(b, k2, rq) /\ Started(k2) = Started(k) /\ Queued(k2) = Queued(k)
    BY <1>3, MineSame
<1>5. IsOpen(k2)
    BY <1>3 DEF IsOpen
<1>6. k2.pipeline = k.pipeline /\ k2.current = k.current
    BY <1>3 DEF Kept
<1>7. Ahead(k2, rq, t, n)
    BY <1>5, <1>6 DEF Ahead, IsOpen
<1>8. Rows(k2, rq)
    <2>1. \A j, m \in Started(k2) : rq[j].row = k2.row /\ rq[j].read = rq[m].read
        BY <1>3, <1>4
    <2>2. (k2.dirty # {}) <=> (k2.state = "OPEN_DIRTY")
        BY <1>3
    <2>3. \A j \in Started(k2) : rq[j].read \/ rq[j].column \in k2.dirty
        BY <1>3, <1>4
    <2> QED
        BY <2>1, <2>2, <2>3 DEF Rows
<1>9. IsFiniteSet(k2.dirty)
    <2>1. IsFiniteSet(k.dirty \cup {rq[i].column})
        BY FS_AddElement
    <2> QED
        BY <1>3, <2>1
<1> QED
    BY <1>3, <1>4, <1>7, <1>8, <1>9 DEF Body, k2

\* A bank that is not open.
LEMMA BodyShut ==
    ASSUME NEW b, NEW rq, NEW k \in Bank, Mine(b, k, rq), k.pipeline = <<>>, k.dirty = {},
           NEW n,
           \/ k.state = "CLOSING" /\ n = 1
           \/ k.state = "OPENING" /\ k.current # 0 /\ n = 1 /\ rq[k.current].row = k.row
           \/ k.state = "CLOSED" /\ k.current = 0 /\ n = IF Queued(k) = {} THEN 0 ELSE 1
    PROVE  Body(b, k, rq, 0, n)
<1>1. Ahead(k, rq, 0, n)
    BY DEF Ahead, IsOpen
<1>2. k.state = "OPENING" => \A j \in Started(k) : rq[j].row = k.row
    BY DEF Started, Range
<1>3. Rows(k, rq)
    BY <1>2 DEF Rows, IsOpen
<1>4. IsFiniteSet(k.dirty)
    BY FS_EmptySet
<1> QED
    BY <1>1, <1>3, <1>4 DEF Body

\* A bank may start the request it has, or one that is queued.
Chosen(k, i) == (k.current = 0 /\ i \in Queued(k)) \/ (k.current = i /\ i # 0)

Reopened(k, i, r) == [[Unqueued(k, i) EXCEPT !.current = i] EXCEPT !.state = "OPENING", !.row = r]

IsReopened(b, k, rq, i, k2) ==
    /\ Body(b, k2, rq, 0, 1) /\ Queued(k2) = Queued(k) \ {i}
    /\ k2.state = "OPENING" /\ k2.notifications = k.notifications

\* The row of a request is opened.
LEMMA BodyOpening ==
    ASSUME NEW b, NEW rq, Requests(rq), NEW k \in Bank, Mine(b, k, rq), k.pipeline = <<>>, k.dirty = {},
           NEW i, Chosen(k, i),
           NEW r, r = rq[i].row
    PROVE  IsReopened(b, k, rq, i, Reopened(k, i, r))
<1> DEFINE k1 == [Unqueued(k, i) EXCEPT !.current = i]
           k2 == [k1 EXCEPT !.state = "OPENING", !.row = r]
<1>1. \A p \in Priorities : Injective(k.queue[p])
    BY DEF Mine
<1>2. i \in Nat
    BY BankFields DEF Mine, Requests, Chosen
<1>3. /\ k1 \in Bank /\ k1.queue = Unqueued(k, i).queue /\ k1.current = i
      /\ k1.pipeline = <<>> /\ k1.notifications = k.notifications /\ k1.dirty = {}
    BY <1>1, <1>2, StartingIs
<1> HIDE DEF k1
<1> r \in Nat
    BY DEF Chosen, Mine, Requests, Request, Started
<1>4. /\ k2 \in Bank /\ k2.queue = Unqueued(k, i).queue /\ k2.current = i /\ k2.state = "OPENING"
      /\ k2.pipeline = <<>> /\ k2.notifications = k.notifications /\ k2.dirty = {} /\ k2.row = r
    BY <1>3 DEF Bank
<1> HIDE DEF k2
<1>5. Mine(b, k2, rq) /\ i # 0 /\ Queued(k2) = Queued(k) \ {i}
    BY <1>4, MineStart DEF Chosen
<1>6. Body(b, k2, rq, 0, 1)
    BY <1>4, <1>5, BodyShut
<1> QED
    BY <1>4, <1>5, <1>6 DEF k2, k1, Reopened, IsReopened

\* The row is closed, for a request or not.
LEMMA BodyClosing ==
    ASSUME NEW b, NEW rq, NEW k \in Bank, Mine(b, k, rq), k.pipeline = <<>>,
           (k.dirty # {}) <=> (k.state = "OPEN_DIRTY")
    PROVE  /\ Body(b, Closing(k), rq, 0, 1) /\ Queued(Closing(k)) = Queued(k)
           /\ Closing(k).state = "CLOSING" /\ Closing(k).notifications = k.notifications
<1> DEFINE k2 == Closing(k)
<1>1. /\ k2 \in Bank /\ Kept(k, k2) /\ k2.state = "CLOSING" /\ k2.dirty = {}
    BY DEF Closing, Bank, Kept
<1> HIDE DEF k2
<1>2. Mine(b, k2, rq) /\ Queued(k2) = Queued(k) /\ k2.pipeline = <<>>
    BY <1>1, MineSame DEF Kept
<1>3. k2.notifications = k.notifications
    BY <1>1 DEF Kept
<1>4. Body(b, k2, rq, 0, 1)
    BY <1>1, <1>2, BodyShut
<1> QED
    BY <1>1, <1>2, <1>3, <1>4 DEF k2

\* An open bank that has completed its current request, with t transfers and n BANK events left.
Free(b, k, rq, t, n) ==
    /\ k \in Bank /\ IsFiniteSet(k.dirty) /\ Requests(rq) /\ Mine(b, k, rq) /\ Rows(k, rq)
    /\ IsOpen(k) /\ k.current = 0 /\ t + n = Len(k.pipeline)
    /\ \A i \in Range(k.pipeline) : rq[i].read => n = 0

\* A read is completed at the end of its transfer, a write by the BANK event, which
\* wakes up an idle bank too.
LEMMA BodyFree ==
    ASSUME NEW b, NEW rq, Requests(rq), NEW k, NEW t \in Nat, NEW n \in Nat, Body(b, k, rq, t, n),
           NEW t2 \in Nat, NEW n2 \in Nat,
           \/ t = t2 + 1 /\ n = n2 /\ rq[k.current].read
           \/ /\ t = t2 /\ n = n2 + 1 /\ IsOpen(k)
              /\ k.current # 0 => ~rq[k.current].read,
           NEW rq2, rq2 = Restrict(rq, DOMAIN rq \ ({k.current} \ {0}))
    PROVE  LET k2 == [k EXCEPT !.current = 0]
           IN /\ Free(b, k2, rq2, t2, n2) /\ Queued(k2) = Queued(k)
              /\ k2.notifications = k.notifications
<1> DEFINE k2 == [k EXCEPT !.current = 0]
<1>1. k \in Bank /\ IsFiniteSet(k.dirty) /\ Mine(b, k, rq) /\ Ahead(k, rq, t, n) /\ Rows(k, rq)
    BY DEF Body
<1>2. /\ k2 \in Bank /\ k2.current = 0 /\ k2.queue = k.queue /\ k2.pipeline = k.pipeline
      /\ k2.notifications = k.notifications
      /\ k2.dirty = k.dirty /\ k2.state = k.state /\ k2.row = k.row
    BY <1>1 DEF Bank
<1> HIDE DEF k2
<1>3. /\ Requests(rq2) /\ Mine(b, k2, rq2) /\ Queued(k2) = Queued(k)
      /\ Started(k2) = Range(k.pipeline) /\ Started(k2) \subseteq Started(k)
      /\ \A j \in Started(k2) : rq2[j] = rq[j]
    BY <1>1, <1>2, MineFree
<1>4. IsOpen(k) /\ (IsOpen(k) => IsOpen(k2))
    BY <1>1, <1>2 DEF IsOpen, Ahead
<1>5. \A i, j \in Started(k) : rq[i].row = k.row /\ rq[i].read = rq[j].read
    BY <1>1, <1>4 DEF Rows
<1>6. Rows(k2, rq2)
    <2>1. \A i, j \in Started(k2) : rq2[i].row = k2.row /\ rq2[i].read = rq2[j].read
        BY <1>2, <1>3, <1>5
    <2>2. \A i \in Started(k2) : rq2[i].read \/ rq2[i].column \in k2.dirty
        BY <1>1, <1>2, <1>3, <1>4 DEF Rows
    <2> QED
        BY <1>1, <1>2, <2>1, <2>2 DEF Rows
<1>7. k.pipeline \in Seq(Nat) /\ Len(k.pipeline) \in Nat
    BY <1>1, BankFields
<1>8. t2 + n2 = Len(k2.pipeline)
    <2>1. CASE k.current # 0
        BY <1>1, <1>2, <1>4, <1>7, <2>1 DEF Ahead
    <2>2. CASE k.current = 0
        <3>1. k.pipeline = <<>> /\ Len(k.pipeline) = 0 /\ t = 0 /\ n \in {0, 1}
            BY <1>1, <1>4, <2>2 DEF Ahead, IsOpen
        <3> QED
            BY <1>2, <3>1
    <2> QED
        BY <2>1, <2>2
<1>9. ASSUME NEW i \in Range(k2.pipeline), rq2[i].read PROVE n2 = 0
    <2>1. i \in Started(k2) /\ i \in Started(k) /\ rq[i].read
        BY <1>2, <1>3, <1>9
    <2>2. k.current # 0
        <3>1. k.pipeline # <<>>
            BY <1>2, <1>9 DEF Range
        <3> QED
            BY <1>1, <1>4, <3>1 DEF Ahead
    <2>3. k.current \in Started(k)
        BY <2>2, StartedIs
    <2>4. rq[k.current].read
        BY <1>5, <2>1, <2>3
    <2>5. n = 0
        BY <1>1, <1>4, <2>2, <2>4 DEF Ahead
    <2> QED
        BY <2>2, <2>4, <2>5
<1>10. Free(b, k2, rq2, t2, n2)
    BY <1>1, <1>2, <1>3, <1>4, <1>6, <1>8, <1>9 DEF Free
<1> QED
    BY <1>2, <1>3, <1>10 DEF k2

\* Nothing is queued that was not, and no answered read is forgotten.
Loses(k, k2) == Queued(k2) \subseteq Queued(k) /\ k.notifications \subseteq k2.notifications

\* What follows a completed request: the next of the pipeline,
LEMMA FreeHead ==
    ASSUME NEW b, NEW k, NEW rq, NEW t \in Nat, NEW n \in Nat, Free(b, k, rq, t, n), k.pipeline # <<>>
    PROVE  LET k2 == [k EXCEPT !.current = Head(k.pipeline), !.pipeline = Tail(k.pipeline)]
           IN Body(b, k2, rq, t, n) /\ Loses(k, k2) /\ IsOpen(k2)
<1> DEFINE h == Head(k.pipeline)
           l == Tail(k.pipeline)
           k2 == [k EXCEPT !.current = h, !.pipeline = l]
<1>1. k \in Bank /\ Mine(b, k, rq) /\ Requests(rq) /\ Rows(k, rq) /\ IsOpen(k) /\ k.current = 0
      /\ t + n = Len(k.pipeline) /\ IsFiniteSet(k.dirty)
    BY DEF Free
<1>2. k.pipeline \in Seq(Nat) /\ Injective(k.pipeline)
    BY <1>1, BankFields DEF Mine
<1>3. h \in Nat /\ l \in Seq(Nat) /\ h \in Range(k.pipeline)
    BY <1>2, Taking
<1> HIDE DEF h, l
<1>4. /\ k2 \in Bank /\ k2.current = h /\ k2.pipeline = l /\ k2.queue = k.queue
      /\ k2.notifications = k.notifications /\ k2.state = k.state /\ k2.dirty = k.dirty
      /\ k2.row = k.row
    BY <1>1, <1>3 DEF Bank
<1> HIDE DEF k2
<1>5. /\ Mine(b, k2, rq) /\ Queued(k2) = Queued(k) /\ Started(k2) = Started(k)
      /\ Len(l) = Len(k.pipeline) - 1 /\ h # 0
    BY <1>1, <1>4, MineHead DEF h, l
<1>6. IsOpen(k2)
    BY <1>1, <1>4 DEF IsOpen
<1>7. Len(l) \in Nat /\ Len(k.pipeline) \in Nat
    BY <1>2, <1>3
<1>8. rq[h].read => n = 0
    BY <1>3 DEF Free
<1>9. Ahead(k2, rq, t, n)
    BY <1>1, <1>4, <1>5, <1>6, <1>7, <1>8 DEF Ahead, IsOpen
<1>10. Rows(k2, rq)
    BY <1>1, <1>4, <1>5, <1>6 DEF Rows
<1>11. Body(b, k2, rq, t, n)
    BY <1>1, <1>4, <1>5, <1>9, <1>10 DEF Body
<1>12. Loses(k, k2)
    BY <1>4, <1>5 DEF Loses
<1> QED
    BY <1>6, <1>11, <1>12 DEF k2, h, l

\* one that hits the open row,
LEMMA FreeHit ==
    ASSUME NEW b, NEW k, NEW rq, NEW t \in Nat, NEW n \in Nat, Free(b, k, rq, t, n), k.pipeline = <<>>,
           NEW i \in Queued(k), rq[i].row = k.row, NEW x \in Nat
    PROVE  LET k2 == Put([Unqueued(k, i) EXCEPT !.current = i], rq, i, x)
           IN Body(b, k2, rq, t + 1, n) /\ Loses(k, k2) /\ IsOpen(k2)
<1> DEFINE k1 == [Unqueued(k, i) EXCEPT !.current = i]
           k2 == Put(k1, rq, i, x)
<1>1. k \in Bank /\ Mine(b, k, rq) /\ Requests(rq) /\ Rows(k, rq) /\ IsOpen(k) /\ k.current = 0
      /\ t + n = Len(k.pipeline) /\ IsFiniteSet(k.dirty)
    BY DEF Free
<1>2. i \in DOMAIN rq /\ i \in Nat /\ i # 0 /\ rq[i] \in Request
    BY <1>1 DEF Mine, Requests
<1>3. \A p \in Priorities : Injective(k.queue[p])
    BY <1>1 DEF Mine
<1>4. /\ k1 \in Bank /\ k1.queue = Unqueued(k, i).queue /\ k1.current = i
      /\ k1.pipeline = <<>> /\ k1.notifications = k.notifications
      /\ k1.state = k.state /\ k1.row = k.row /\ k1.dirty = k.dirty
    BY <1>1, <1>2, <1>3, StartingIs
<1> HIDE DEF k1
<1>5. Mine(b, k1, rq) /\ Started(k1) = {i} /\ Queued(k1) = Queued(k) \ {i}
    BY <1>1, <1>4, MineStart
<1>6. IsOpen(k1)
    BY <1>1, <1>4 DEF IsOpen
<1>7. t = 0 /\ n = 0 /\ Len(k1.pipeline) = 0
    BY <1>1, <1>4
<1>8. (k1.dirty # {}) <=> (k1.state = "OPEN_DIRTY")
    BY <1>1, <1>4 DEF Rows
<1>9. Body(b, k2, rq, t + 1, n)
    <2>1. \A j \in Started(k1) : rq[j].row = k1.row /\ rq[j].read = rq[i].read
        BY <1>4, <1>5
    <2>2. \A j \in Started(k1) \ {i} : rq[j].read \/ rq[j].column \in k1.dirty
        BY <1>5
    <2>3. (t + 1) + n = 1 + Len(k1.pipeline) /\ (rq[k1.current].read => n = 0)
        BY <1>7
    <2>4. IsFiniteSet(k1.dirty) /\ k1.current # 0 /\ i \in Started(k1)
        BY <1>1, <1>2, <1>4, <1>5
    <2> QED
        BY <1>1, <1>4, <1>5, <1>6, <1>8, <2>1, <2>2, <2>3, <2>4, BodyPut
<1>10. IsPut(k1, rq, i, k2)
    BY <1>2, <1>4, PutIs
<1> HIDE DEF k2
<1>11. Queued(k2) = Queued(k1) /\ k2.notifications = k1.notifications
    BY <1>10 DEF IsPut, Kept, Queued
<1>12. IsOpen(k2)
    BY <1>6, <1>10 DEF IsPut, IsOpen
<1>13. Loses(k, k2)
    BY <1>4, <1>5, <1>11 DEF Loses
<1> QED
    BY <1>9, <1>12, <1>13 DEF k2, k1

\* one for which the row is closed first,
LEMMA FreeClose ==
    ASSUME NEW b, NEW k, NEW rq, NEW t \in Nat, NEW n \in Nat, Free(b, k, rq, t, n), k.pipeline = <<>>,
           NEW i \in Queued(k)
    PROVE  LET k2 == Closing([Unqueued(k, i) EXCEPT !.current = i])
           IN Body(b, k2, rq, t, n + 1) /\ Loses(k, k2) /\ k2.state = "CLOSING"
<1> DEFINE k1 == [Unqueued(k, i) EXCEPT !.current = i]
           k2 == Closing(k1)
<1>1. k \in Bank /\ Mine(b, k, rq) /\ Requests(rq) /\ Rows(k, rq) /\ IsOpen(k) /\ k.current = 0
      /\ t + n = Len(k.pipeline) /\ IsFiniteSet(k.dirty)
    BY DEF Free
<1>2. i \in DOMAIN rq /\ i \in Nat /\ i # 0
    BY <1>1 DEF Mine, Requests
<1>3. \A p \in Priorities : Injective(k.queue[p])
    BY <1>1 DEF Mine
<1>4. /\ k1 \in Bank /\ k1.queue = Unqueued(k, i).queue /\ k1.current = i
      /\ k1.pipeline = <<>> /\ k1.notifications = k.notifications
      /\ k1.state = k.state /\ k1.row = k.row /\ k1.dirty = k.dirty
    BY <1>1, <1>2, <1>3, StartingIs
<1> HIDE DEF k1
<1>5. Mine(b, k1, rq) /\ Queued(k1) = Queued(k) \ {i}
    BY <1>1, <1>4, MineStart
<1>6. (k1.dirty # {}) <=> (k1.state = "OPEN_DIRTY")
    BY <1>1, <1>4 DEF Rows
<1>7. /\ Body(b, k2, rq, 0, 1) /\ Queued(k2) = Queued(k1)
      /\ k2.state = "CLOSING" /\ k2.notifications = k1.notifications
    BY <1>4, <1>5, <1>6, BodyClosing
<1>8. t = 0 /\ n + 1 = 1
    BY <1>1
<1> HIDE DEF k2
<1>9. Loses(k, k2)
    BY <1>4, <1>5, <1>7 DEF Loses
<1> QED
    BY <1>7, <1>8, <1>9 DEF k2, k1

\* one whose row is opened at once,
LEMMA FreeOpen ==
    ASSUME NEW b, NEW k, NEW rq, NEW t \in Nat, NEW n \in Nat, Free(b, k, rq, t, n), k.pipeline = <<>>,
           NEW i \in Queued(k), k.state # "OPEN_DIRTY", NEW r, r = rq[i].row
    PROVE  LET k2 == Reopened(k, i, r)
           IN /\ Body(b, k2, rq, t, n + 1) /\ Loses(k, k2) /\ k2.state = "OPENING" /\ t = 0 /\ n = 0
<1> DEFINE k2 == Reopened(k, i, r)
<1>1. k \in Bank /\ Mine(b, k, rq) /\ Requests(rq) /\ Rows(k, rq) /\ k.current = 0
      /\ t + n = Len(k.pipeline)
    BY DEF Free
<1>2. k.dirty = {}
    BY <1>1 DEF Rows
<1>3. /\ Body(b, k2, rq, 0, 1) /\ Queued(k2) = Queued(k) \ {i}
      /\ k2.state = "OPENING" /\ k2.notifications = k.notifications
    <2>1. Chosen(k, i)
        BY <1>1, <1>2 DEF Chosen
    <2>2. k \in Bank /\ Mine(b, k, rq) /\ Requests(rq) /\ k.pipeline = <<>> /\ k.dirty = {}
        BY <1>1, <1>2
    <2>3. IsReopened(b, k, rq, i, k2)
        BY <2>1, <2>2, BodyOpening
    <2> QED
        BY <2>3 DEF IsReopened
<1> HIDE DEF k2
<1>4. t = 0 /\ n = 0 /\ n + 1 = 1
    BY <1>1
<1>5. Loses(k, k2)
    BY <1>3 DEF Loses
<1> QED
    BY <1>3, <1>4, <1>5 DEF k2

\* or none, and the row is closed or stays open.
LEMMA FreeIdle ==
    ASSUME NEW b, NEW k, NEW rq, NEW t \in Nat, NEW n \in Nat, Free(b, k, rq, t, n), k.pipeline = <<>>,
           Queued(k) = {}
    PROVE  /\ Body(b, Closing(k), rq, t, n + 1) /\ Loses(k, Closing(k)) /\ Closing(k).state = "CLOSING"
           /\ Body(b, k, rq, t, n) /\ Loses(k, k) /\ IsOpen(k)
<1>1. k \in Bank /\ Mine(b, k, rq) /\ Rows(k, rq) /\ IsOpen(k) /\ k.current = 0
      /\ t + n = Len(k.pipeline) /\ IsFiniteSet(k.dirty)
    BY DEF Free
<1>2. t = 0 /\ n = 0 /\ n + 1 = 1
    BY <1>1
<1>3. /\ Body(b, Closing(k), rq, 0, 1) /\ Queued(Closing(k)) = Queued(k)
      /\ Closing(k).state = "CLOSING" /\ Closing(k).notifications = k.notifications
    BY <1>1, BodyClosing DEF Rows
<1>4. Ahead(k, rq, 0, 0)
    BY <1>1 DEF Ahead, IsOpen
<1>5. Body(b, k, rq, 0, 0)
    BY <1>1, <1>4 DEF Body
<1> QED
    BY <1>1, <1>2, <1>3, <1>5 DEF Loses

\* An idle bank starts a request.
LEMMA BodyOpen ==
    ASSUME NEW b, NEW rq, Requests(rq), NEW k, NEW t \in Nat, NEW n \in Nat, Body(b, k, rq, t, n),
           k.state = "CLOSED", n > 0, NEW i \in Queued(k), NEW r, r = rq[i].row
    PROVE  LET k2 == Reopened(k, i, r)
           IN Body(b, k2, rq, t, n) /\ Loses(k, k2) /\ k2.state = "OPENING" /\ n = 1
<1> DEFINE k2 == Reopened(k, i, r)
<1>1. k \in Bank /\ Mine(b, k, rq) /\ Ahead(k, rq, t, n) /\ Rows(k, rq)
    BY DEF Body
<1>2. k.dirty = {} /\ k.current = 0 /\ k.pipeline = <<>> /\ t = 0 /\ n = 1
    BY <1>1 DEF Rows, Ahead, IsOpen
<1>3. /\ Body(b, k2, rq, 0, 1) /\ Queued(k2) = Queued(k) \ {i}
      /\ k2.state = "OPENING" /\ k2.notifications = k.notifications
    <2>1. Chosen(k, i)
        BY <1>1, <1>2 DEF Chosen
    <2>2. k \in Bank /\ Mine(b, k, rq) /\ Requests(rq) /\ k.pipeline = <<>> /\ k.dirty = {}
        BY <1>1, <1>2
    <2>3. IsReopened(b, k, rq, i, k2)
        BY <2>1, <2>2, BodyOpening
    <2> QED
        BY <2>3 DEF IsReopened
<1> HIDE DEF k2
<1>4. Loses(k, k2)
    BY <1>3 DEF Loses
<1> QED
    BY <1>2, <1>3, <1>4 DEF k2

\* A row that was closed is followed by the one of the current or of a queued request, or by none.
LEMMA BodyReopen ==
    ASSUME NEW b, NEW rq, Requests(rq), NEW k, NEW t \in Nat, NEW n \in Nat, Body(b, k, rq, t, n),
           k.state = "CLOSING", NEW i, NEW r, r = rq[i].row,
           Chosen(k, i)
    PROVE  LET k2 == Reopened(k, i, r)
           IN Body(b, k2, rq, t, n) /\ Loses(k, k2) /\ k2.state = "OPENING" /\ n = 1
<1> DEFINE k2 == Reopened(k, i, r)
<1>1. k \in Bank /\ Mine(b, k, rq) /\ Ahead(k, rq, t, n) /\ Rows(k, rq)
    BY DEF Body
<1>2. k.dirty = {} /\ k.pipeline = <<>> /\ t = 0 /\ n = 1
    BY <1>1 DEF Rows, Ahead, IsOpen
<1>3. /\ Body(b, k2, rq, 0, 1) /\ Queued(k2) = Queued(k) \ {i}
      /\ k2.state = "OPENING" /\ k2.notifications = k.notifications
    <2>1. IsReopened(b, k, rq, i, k2)
        BY <1>1, <1>2, BodyOpening
    <2> QED
        BY <2>1 DEF IsReopened
<1> HIDE DEF k2
<1>4. Loses(k, k2)
    BY <1>3 DEF Loses
<1> QED
    BY <1>2, <1>3, <1>4 DEF k2

LEMMA BodyClosed ==
    ASSUME NEW b, NEW rq, NEW k, NEW t \in Nat, NEW n \in Nat, Body(b, k, rq, t, n),
           k.state = "CLOSING", k.current = 0, Queued(k) = {}
    PROVE  LET k2 == [k EXCEPT !.state = "CLOSED"]
           IN Body(b, k2, rq, t, n - 1) /\ Loses(k, k2) /\ k2.state = "CLOSED" /\ n = 1
<1> DEFINE k2 == [k EXCEPT !.state = "CLOSED"]
<1>1. k \in Bank /\ Mine(b, k, rq) /\ Ahead(k, rq, t, n) /\ Rows(k, rq)
    BY DEF Body
<1>2. k.dirty = {} /\ k.pipeline = <<>> /\ t = 0 /\ n = 1 /\ n - 1 = 0
    BY <1>1 DEF Rows, Ahead, IsOpen
<1>3. k2 \in Bank /\ Kept(k, k2) /\ k2.dirty = k.dirty /\ k2.state = "CLOSED"
    BY <1>1 DEF Bank, Kept
<1> HIDE DEF k2
<1>4. Mine(b, k2, rq) /\ Queued(k2) = Queued(k)
    BY <1>1, <1>3, MineSame
<1>5. Body(b, k2, rq, 0, 0)
    BY <1>2, <1>3, <1>4, BodyShut DEF Kept
<1>6. Loses(k, k2)
    BY <1>3, <1>4 DEF Loses, Kept
<1> QED
    BY <1>2, <1>3, <1>5, <1>6 DEF k2

\* A row is open and its request gets the bus.
LEMMA BodyOpened ==
    ASSUME NEW b, NEW rq, Requests(rq), NEW k, NEW t \in Nat, NEW n \in Nat, Body(b, k, rq, t, n),
           k.state = "OPENING", NEW x \in Nat
    PROVE  LET k2 == Put([k EXCEPT !.state = "OPEN_CLEAN"], rq, k.current, x)
           IN Body(b, k2, rq, t + 1, n - 1) /\ Loses(k, k2) /\ IsOpen(k2)
<1> DEFINE k1 == [k EXCEPT !.state = "OPEN_CLEAN"]
           i == k.current
           k2 == Put(k1, rq, i, x)
<1>1. k \in Bank /\ Mine(b, k, rq) /\ Ahead(k, rq, t, n) /\ Rows(k, rq)
    BY DEF Body
<1>2. k.dirty = {} /\ k.pipeline = <<>> /\ t = 0 /\ n = 1 /\ i # 0
    BY <1>1 DEF Rows, Ahead, IsOpen
<1>3. k1 \in Bank /\ Kept(k, k1) /\ k1.dirty = {} /\ k1.state = "OPEN_CLEAN" /\ k1.row = k.row
    BY <1>1, <1>2 DEF Bank, Kept
<1> HIDE DEF k1
<1>4. Mine(b, k1, rq) /\ Started(k1) = Started(k) /\ Queued(k1) = Queued(k)
    BY <1>1, <1>3, MineSame
<1>5. k1.current = i /\ k1.pipeline = <<>> /\ k1.notifications = k.notifications
    BY <1>2, <1>3 DEF Kept
<1>6. Started(k1) = {i}
    BY <1>2, <1>5 DEF Started, Range
<1>7. i \in DOMAIN rq /\ rq[i] \in Request
    BY <1>4, <1>6 DEF Mine, Requests
<1>8. IsOpen(k1) /\ IsFiniteSet(k1.dirty)
    BY <1>3, FS_EmptySet DEF IsOpen
<1>9. Body(b, k2, rq, t + 1, n - 1)
    <2>1. \A j \in Started(k1) : rq[j].row = k1.row /\ rq[j].read = rq[i].read
        BY <1>1, <1>3, <1>4, <1>6 DEF Rows
    <2>2. \A j \in Started(k1) \ {i} : rq[j].read \/ rq[j].column \in k1.dirty
        BY <1>6
    <2>3. (t + 1) + (n - 1) = 1 + Len(k1.pipeline) /\ n - 1 = 0
        BY <1>2, <1>5
    <2>4. k1.current # 0 /\ i \in Started(k1) /\ ((k1.dirty # {}) <=> (k1.state = "OPEN_DIRTY"))
        BY <1>2, <1>3, <1>5, <1>6
    <2> HIDE DEF i
    <2> QED
        BY <1>3, <1>4, <1>8, <2>1, <2>2, <2>3, <2>4, BodyPut
<1>10. IsPut(k1, rq, i, k2)
    BY <1>3, <1>7, PutIs
<1> HIDE DEF k2
<1>11. Queued(k2) = Queued(k1) /\ k2.notifications = k1.notifications
    BY <1>10 DEF IsPut, Kept, Queued
<1>12. IsOpen(k2)
    BY <1>8, <1>10 DEF IsPut, IsOpen
<1>13. Loses(k, k2)
    BY <1>4, <1>5, <1>11 DEF Loses
<1> QED
    BY <1>9, <1>12, <1>13 DEF k2, k1

\* A request is put in the pipeline.
LEMMA BodyPipe ==
    ASSUME NEW b, NEW rq, Requests(rq), NEW k, NEW t \in Nat, NEW n \in Nat, Body(b, k, rq, t, n),
           IsOpen(k), k.current # 0, NEW i \in Queued(k), rq[i].row = k.row,
           rq[i].read = rq[k.current].read, NEW x \in Nat
    PROVE  LET k2 == Put([Unqueued(k, i) EXCEPT !.pipeline = Append(k.pipeline, i)], rq, i, x)
           IN Body(b, k2, rq, t + 1, n) /\ Loses(k, k2) /\ IsOpen(k2)
<1> DEFINE k1 == [Unqueued(k, i) EXCEPT !.pipeline = Append(k.pipeline, i)]
           k2 == Put(k1, rq, i, x)
<1>1. k \in Bank /\ Mine(b, k, rq) /\ Ahead(k, rq, t, n) /\ Rows(k, rq) /\ IsFiniteSet(k.dirty)
    BY DEF Body
<1>2. i \in DOMAIN rq /\ i \in Nat /\ i # 0 /\ rq[i] \in Request
    BY <1>1 DEF Mine, Requests
<1>3. \A p \in Priorities : Injective(k.queue[p])
    BY <1>1 DEF Mine
<1>4. /\ k1 \in Bank /\ k1.queue = Unqueued(k, i).queue /\ k1.current = k.current
      /\ k1.pipeline = Append(k.pipeline, i) /\ k1.notifications = k.notifications
      /\ k1.state = k.state /\ k1.row = k.row /\ k1.dirty = k.dirty
    BY <1>1, <1>2, <1>3, PipingIs
<1> HIDE DEF k1
<1>5. /\ Mine(b, k1, rq) /\ Started(k1) = Started(k) \cup {i} /\ Queued(k1) = Queued(k) \ {i}
      /\ Len(k1.pipeline) = Len(k.pipeline) + 1
    BY <1>1, <1>4, MinePipe
<1>6. IsOpen(k1)
    BY <1>4 DEF IsOpen
<1>7. Len(k.pipeline) \in Nat
    BY <1>1, BankFields
<1>8. Body(b, k2, rq, t + 1, n)
    <2>1. k.current \in Started(k)
        BY StartedIs
    <2>2. \A j \in Started(k1) : rq[j].row = k1.row /\ rq[j].read = rq[i].read
        BY <1>1, <1>4, <1>5, <2>1 DEF Rows
    <2>3. \A j \in Started(k1) \ {i} : rq[j].read \/ rq[j].column \in k1.dirty
        BY <1>1, <1>4, <1>5 DEF Rows
    <2>4. (t + 1) + n = 1 + Len(k1.pipeline) /\ (rq[k1.current].read => n = 0)
        BY <1>1, <1>4, <1>5, <1>7 DEF Ahead
    <2>5. k1.current # 0 /\ i \in Started(k1) /\ ((k1.dirty # {}) <=> (k1.state = "OPEN_DIRTY"))
          /\ IsFiniteSet(k1.dirty)
        BY <1>1, <1>4, <1>5 DEF Rows
    <2> QED
        BY <1>4, <1>5, <1>6, <2>2, <2>3, <2>4, <2>5, BodyPut
<1>9. IsPut(k1, rq, i, k2)
    BY <1>2, <1>4, PutIs
<1> HIDE DEF k2
<1>10. Queued(k2) = Queued(k1) /\ k2.notifications = k1.notifications
    BY <1>9 DEF IsPut, Kept, Queued
<1>11. IsOpen(k2)
    BY <1>6, <1>9 DEF IsPut, IsOpen
<1>12. Loses(k, k2)
    BY <1>4, <1>5, <1>10 DEF Loses
<1> QED
    BY <1>8, <1>11, <1>12 DEF k2, k1

\* What is said of a bank depends on its requests only, and these may be known to others.
LEMMA SameRequests ==
    ASSUME NEW k, NEW rq, NEW rq2, \A j \in Started(k) : rq2[j] = rq[j], NEW t, NEW n
    PROVE  /\ Ahead(k, rq, t, n) => Ahead(k, rq2, t, n)
           /\ Rows(k, rq) => Rows(k, rq2)
<1>1. k.current # 0 => k.current \in Started(k)
    BY StartedIs
<1>2. Ahead(k, rq, t, n) => Ahead(k, rq2, t, n)
    BY <1>1 DEF Ahead
<1>3. Rows(k, rq) => Rows(k, rq2)
    BY DEF Rows
<1> QED
    BY <1>2, <1>3

\* And on nothing but these fields.
LEMMA SameBank ==
    ASSUME NEW k, NEW k2, Kept(k, k2), k2.state = k.state, k2.row = k.row, k2.dirty = k.dirty,
           NEW rq, NEW t, NEW n
    PROVE  /\ Ahead(k, rq, t, n) => Ahead(k2, rq, t, n)
           /\ Rows(k, rq) => Rows(k2, rq)
<1>1. Started(k2) = Started(k) /\ Queued(k2) = Queued(k) /\ (IsOpen(k2) <=> IsOpen(k))
    BY DEF Kept, Started, Queued, IsOpen
<1>2. Ahead(k, rq, t, n) => Ahead(k2, rq, t, n)
    BY <1>1 DEF Ahead, Kept
<1>3. Rows(k, rq) => Rows(k2, rq)
    BY <1>1 DEF Rows
<1> QED
    BY <1>2, <1>3

\* A bank to which nothing happens.
LEMMA BodyKept ==
    ASSUME NEW b, NEW k, NEW rq, NEW t, NEW n, Body(b, k, rq, t, n), NEW rq2,
           \A j \in DOMAIN rq : rq[j].bank = b => j \in DOMAIN rq2 /\ rq2[j] = rq[j]
    PROVE  Body(b, k, rq2, t, n)
<1>1. \A j \in Queued(k) \cup Started(k) \cup k.notifications :
         j \in DOMAIN rq2 /\ rq2[j] = rq[j] /\ rq2[j].bank = b
    BY DEF Body, Mine
<1>2. Mine(b, k, rq2)
    BY <1>1 DEF Body, Mine
<1>3. Ahead(k, rq2, t, n) /\ Rows(k, rq2)
    BY <1>1, SameRequests DEF Body
<1> QED
    BY <1>2, <1>3 DEF Body

\* The answered reads are completed.
LEMMA BodyNotify ==
    ASSUME NEW b, NEW rq, Requests(rq), NEW k, NEW t, NEW n, Body(b, k, rq, t, n),
           NEW rq2, rq2 = Restrict(rq, DOMAIN rq \ k.notifications)
    PROVE  LET k2 == [k EXCEPT !.notifications = {}]
           IN Body(b, k2, rq2, t, n) /\ Queued(k2) = Queued(k) /\ k2.state = k.state
<1> DEFINE k2 == [k EXCEPT !.notifications = {}]
<1>1. k \in Bank /\ Mine(b, k, rq) /\ Ahead(k, rq, t, n) /\ Rows(k, rq) /\ IsFiniteSet(k.dirty)
    BY DEF Body
<1>2. /\ k2 \in Bank /\ k2.queue = k.queue /\ k2.current = k.current /\ k2.pipeline = k.pipeline
      /\ k2.notifications = {} /\ k2.state = k.state /\ k2.row = k.row /\ k2.dirty = k.dirty
    BY <1>1 DEF Bank
<1> HIDE DEF k2
<1>3. /\ Mine(b, k2, rq2) /\ Queued(k2) = Queued(k) /\ Started(k2) = Started(k)
      /\ \A j \in Started(k) : rq2[j] = rq[j]
    BY <1>1, <1>2, MineNotify
<1>4. Ahead(k, rq2, t, n) /\ Rows(k, rq2)
    BY <1>1, <1>3, SameRequests
<1>5. IsOpen(k2) <=> IsOpen(k)
    BY <1>2 DEF IsOpen
<1>6. Ahead(k2, rq2, t, n)
    BY <1>2, <1>3, <1>4, <1>5 DEF Ahead
<1>7. Rows(k2, rq2)
    BY <1>2, <1>3, <1>4, <1>5 DEF Rows
<1> QED
    BY <1>1, <1>2, <1>3, <1>6, <1>7 DEF Body, k2

\* A read is answered from a queued write.
LEMMA BodyForward ==
    ASSUME NEW b, NEW rq, Requests(rq), NEW k, NEW t, NEW n, Body(b, k, rq, t, n),
           NEW i \in Nat \ {0}, i \notin DOMAIN rq, NEW rq2, i \in DOMAIN rq2, rq2[i].bank = b,
           \A j \in DOMAIN rq : j \in DOMAIN rq2 /\ rq2[j] = rq[j]
    PROVE  LET k2 == [k EXCEPT !.notifications = k.notifications \cup {i}]
           IN /\ Body(b, k2, rq2, t, n) /\ Queued(k2) = Queued(k) /\ k2.state = k.state
              /\ k2.notifications = k.notifications \cup {i}
<1> DEFINE s == k.notifications \cup {i}
           k2 == [k EXCEPT !.notifications = s]
<1>1. k \in Bank /\ Mine(b, k, rq) /\ Ahead(k, rq, t, n) /\ Rows(k, rq) /\ IsFiniteSet(k.dirty)
    BY DEF Body
<1>2. s \in SUBSET Nat
    BY <1>1, BankFields
<1> HIDE DEF s
<1>3. /\ k2 \in Bank /\ k2.queue = k.queue /\ k2.current = k.current /\ k2.pipeline = k.pipeline
      /\ k2.notifications = s /\ k2.state = k.state /\ k2.row = k.row /\ k2.dirty = k.dirty
    BY <1>1, <1>2 DEF Bank
<1> HIDE DEF k2
<1>4. Mine(b, k2, rq2) /\ Queued(k2) = Queued(k) /\ Started(k2) = Started(k)
    BY <1>1, <1>3, MineForward DEF s
<1>5. \A j \in Started(k) : rq2[j] = rq[j]
    BY <1>1 DEF Mine
<1>6. Ahead(k, rq2, t, n) /\ Rows(k, rq2)
    BY <1>1, <1>5, SameRequests
<1>7. IsOpen(k2) <=> IsOpen(k)
    BY <1>3 DEF IsOpen
<1>8. Ahead(k2, rq2, t, n)
    BY <1>3, <1>4, <1>6, <1>7 DEF Ahead
<1>9. Rows(k2, rq2)
    BY <1>3, <1>4, <1>6, <1>7 DEF Rows
<1> QED
    BY <1>1, <1>3, <1>4, <1>8, <1>9 DEF Body, k2, s

IsQueued(b, k, rq2, i, k2, t, n) ==
    /\ Body(b, k2, rq2, t, n) /\ Queued(k2) = Queued(k) \cup {i} /\ k2.state = k.state
    /\ k2.notifications = k.notifications

\* A request is queued, and an idle bank woken up.
LEMMA BodyEnqueue ==
    ASSUME NEW b, NEW rq, Requests(rq), NEW k, NEW t \in Nat, NEW n \in Nat, Body(b, k, rq, t, n),
           NEW i \in Nat \ {0}, i \notin DOMAIN rq, NEW rq2, i \in DOMAIN rq2, rq2[i].bank = b,
           \A j \in DOMAIN rq : j \in DOMAIN rq2 /\ rq2[j] = rq[j],
           NEW p \in Priorities, NEW x \in Nat
    PROVE  LET k2 == [k EXCEPT !.queue = [k.queue EXCEPT ![p] = Append(k.queue[p], i)],
                               !.nextPipelineEvent = x]
           IN IsQueued(b, k, rq2, i, k2, t, IF Wakes(k) THEN n + 1 ELSE n)
<1> DEFINE q == [k.queue EXCEPT ![p] = Append(k.queue[p], i)]
           k2 == [k EXCEPT !.queue = q, !.nextPipelineEvent = x]
           m == IF Wakes(k) THEN n + 1 ELSE n
<1>1. k \in Bank /\ Mine(b, k, rq) /\ Ahead(k, rq, t, n) /\ Rows(k, rq) /\ IsFiniteSet(k.dirty)
    BY DEF Body
<1>2. q \in [Priorities -> Seq(Nat)]
    <2>1. k.queue \in [Priorities -> Seq(Nat)]
        BY <1>1, BankFields
    <2>2. Append(k.queue[p], i) \in Seq(Nat)
        BY <2>1
    <2> QED
        BY <2>1, <2>2
<1> HIDE DEF q
<1>3. /\ k2 \in Bank /\ k2.queue = q /\ k2.current = k.current /\ k2.pipeline = k.pipeline
      /\ k2.notifications = k.notifications /\ k2.state = k.state /\ k2.row = k.row
      /\ k2.dirty = k.dirty
    BY <1>1, <1>2 DEF Bank
<1> HIDE DEF k2
<1>4. Mine(b, k2, rq2) /\ Queued(k2) = Queued(k) \cup {i} /\ Started(k2) = Started(k)
    <2>1. k2.queue = [k.queue EXCEPT ![p] = Append(k.queue[p], i)] /\ i \in Nat
        BY <1>3 DEF q
    <2>2. /\ k \in Bank /\ Mine(b, k, rq) /\ k2.current = k.current /\ k2.pipeline = k.pipeline
          /\ k2.notifications = k.notifications
        BY <1>1, <1>3
    <2>3. IsEnqueued(b, k, rq2, i, k2)
        BY <2>1, <2>2, MineEnqueue
    <2> QED
        BY <2>3 DEF IsEnqueued
<1>5. \A j \in Started(k) : rq2[j] = rq[j]
    BY <1>1 DEF Mine
<1>6. Ahead(k, rq2, t, n) /\ Rows(k, rq2)
    BY <1>1, <1>5, SameRequests
<1>7. IsOpen(k2) <=> IsOpen(k)
    BY <1>3 DEF IsOpen
<1>8. Queued(k2) # {}
    BY <1>4
<1>9. k.state \in {"CLOSED", "OPENING", "OPEN_CLEAN", "OPEN_DIRTY", "CLOSING"}
    BY <1>1, BankFields
<1>10. Ahead(k2, rq2, t, m)
    <2>1. CASE Wakes(k)
        <3>1. m = 1 /\ n = 0 /\ k.current = 0 /\ k.state # "OPENING" /\ k.state # "CLOSING"
            BY <1>6, <2>1 DEF Ahead, Wakes
        <3> QED
            BY <1>3, <1>6, <1>7, <1>8, <3>1 DEF Ahead
    <2>2. CASE ~Wakes(k)
        <3>1. m = n
            BY <2>2
        <3>2. k.state # "OPENING" /\ k.state # "CLOSING" /\ k.current = 0 => Queued(k) # {} /\ n = 1
            BY <1>6, <1>9, <2>2 DEF Ahead, Wakes
        <3> HIDE DEF m
        <3> QED
            BY <1>3, <1>6, <1>7, <1>8, <3>1, <3>2 DEF Ahead
    <2> QED
        BY <2>1, <2>2
<1>11. Rows(k2, rq2)
    BY <1>3, <1>4, <1>6, <1>7 DEF Rows
<1> HIDE DEF m
<1>12. Body(b, k2, rq2, t, m)
    BY <1>1, <1>3, <1>4, <1>10, <1>11 DEF Body
<1> QED
    BY <1>3, <1>4, <1>12 DEF k2, q, m, IsQueued

\* The transfer of a write is over: a while later the BANK event completes it.
LEMMA BodyWritten ==
    ASSUME NEW b, NEW rq, NEW k, NEW t \in Nat, NEW n \in Nat, Body(b, k, rq, t, n), t > 0,
           ~rq[k.current].read, NEW x \in Nat
    PROVE  LET k2 == [k EXCEPT !.nextPipelineEvent = x]
           IN Body(b, k2, rq, t - 1, n + 1) /\ Loses(k, k2) /\ k2.state = k.state /\ IsOpen(k2)
<1> DEFINE k2 == [k EXCEPT !.nextPipelineEvent = x]
<1>1. k \in Bank /\ Mine(b, k, rq) /\ Ahead(k, rq, t, n) /\ Rows(k, rq) /\ IsFiniteSet(k.dirty)
    BY DEF Body
<1>2. /\ k2 \in Bank /\ Kept(k, k2) /\ k2.state = k.state /\ k2.row = k.row /\ k2.dirty = k.dirty
    BY <1>1 DEF Bank, Kept
<1> HIDE DEF k2
<1>3. Mine(b, k2, rq) /\ Queued(k2) = Queued(k)
    BY <1>1, <1>2, MineSame
<1>4. IsOpen(k) /\ k.current # 0
    BY <1>1 DEF Ahead
<1>5. Len(k.pipeline) \in Nat
    BY <1>1, BankFields
<1>6. Ahead(k, rq, t - 1, n + 1)
    BY <1>1, <1>4, <1>5 DEF Ahead, IsOpen
<1>7. Ahead(k2, rq, t - 1, n + 1) /\ Rows(k2, rq)
    BY <1>1, <1>2, <1>6, SameBank
<1>8. Loses(k, k2) /\ IsOpen(k2)
    BY <1>2, <1>3, <1>4 DEF Loses, Kept, IsOpen
<1> QED
    BY <1>1, <1>2, <1>3, <1>7, <1>8 DEF Body, k2

-----------------------------------------------------------------------------
(* The events, the bus and the queues *)

N(B, c) == Cardinality(BankCopies(B, c))
Counted(B) == IsABag(B) /\ \A c \in Banks : IsFiniteSet(BankCopies(B, c))
Events == [time : Nat, bank : Banks, kind : {"BANK", "QUEUE", "PIPELINE"}]

\* The number of BANK events is a natural number, and not 0 while one is pending.
LEMMA CountIs ==
    ASSUME NEW B, Counted(B), NEW c \in Banks
    PROVE  /\ N(B, c) \in Nat
           /\ (\E e \in DOMAIN B : IsBank(e, c)) => N(B, c) > 0
<1>1. IsABag(B) /\ IsFiniteSet(BankCopies(B, c))
    BY DEF Counted
<1>2. N(B, c) \in Nat
    BY <1>1, FS_CardinalityType DEF N
<1>3. N(B, c) = 0 => \A e \in DOMAIN B : ~IsBank(e, c)
    BY <1>1, NoCopies DEF N
<1> QED
    BY <1>2, <1>3

\* An event of bank b is processed.
LEMMA CountGoes ==
    ASSUME NEW B, Counted(B), NEW b \in Banks, NEW f \in DOMAIN B, f.bank = b
    PROVE  LET C == B (-) SetToBag({f}) IN
           /\ Counted(C) /\ DOMAIN C \subseteq DOMAIN B
           /\ \A c \in Banks : c # b => N(C, c) = N(B, c)
           /\ N(C, b) = IF f.kind = "BANK" THEN N(B, b) - 1 ELSE N(B, b)
<1> DEFINE C == B (-) SetToBag({f})
<1>1. IsABag(B) /\ \A c \in Banks : IsFiniteSet(BankCopies(B, c))
    BY DEF Counted
<1>2. IsABag(C) /\ DOMAIN C = IF B[f] = 1 THEN DOMAIN B \ {f} ELSE DOMAIN B
    BY <1>1, BagMinus
<1>3. ASSUME NEW c \in Banks, ~IsBank(f, c) PROVE BankCopies(C, c) = BankCopies(B, c)
    BY <1>1, <1>3, OtherGoes
<1>4. ASSUME IsBank(f, b)
      PROVE  IsFiniteSet(BankCopies(C, b)) /\ N(C, b) = N(B, b) - 1
    BY <1>1, <1>4, BankGoes DEF N
<1> HIDE DEF C
<1>5. \A c \in Banks : c # b => ~IsBank(f, c)
    BY DEF IsBank
<1>6. IsBank(f, b) <=> f.kind = "BANK"
    BY DEF IsBank
<1>7. \A c \in Banks : c # b => N(C, c) = N(B, c) /\ IsFiniteSet(BankCopies(C, c))
    BY <1>1, <1>3, <1>5 DEF N
<1>8. /\ N(C, b) = IF f.kind = "BANK" THEN N(B, b) - 1 ELSE N(B, b)
      /\ IsFiniteSet(BankCopies(C, b))
    <2>1. CASE IsBank(f, b)
        BY <1>4, <1>6, <2>1
    <2>2. CASE ~IsBank(f, b)
        BY <1>1, <1>3, <1>6, <2>2 DEF N
    <2> QED
        BY <2>1, <2>2
<1>9. Counted(C)
    BY <1>2, <1>7, <1>8 DEF Counted
<1>10. DOMAIN C \subseteq DOMAIN B
    BY <1>2
<1> QED
    BY <1>7, <1>8, <1>9, <1>10 DEF C

\* Events of bank b come, among them at most one BANK event.
LEMMA CountComes ==
    ASSUME NEW B, Counted(B), NEW b \in Banks, NEW S, \A e \in S : e.bank = b,
           \A e, f \in S : e.kind = "BANK" /\ f.kind = "BANK" => e = f
    PROVE  LET C == B (+) SetToBag(S) IN
           /\ Counted(C) /\ DOMAIN C = DOMAIN B \cup S
           /\ \A c \in Banks : c # b => N(C, c) = N(B, c)
           /\ N(C, b) = IF \E e \in S : e.kind = "BANK" THEN N(B, b) + 1 ELSE N(B, b)
<1> DEFINE C == B (+) SetToBag(S)
           one == \E e \in S : e.kind = "BANK"
<1>1. IsABag(B) /\ \A c \in Banks : IsFiniteSet(BankCopies(B, c))
    BY DEF Counted
<1>2. IsABag(C) /\ DOMAIN C = DOMAIN B \cup S
    BY <1>1, BagPlus
<1>3. ASSUME NEW c \in Banks, \A e \in S : ~IsBank(e, c) PROVE BankCopies(C, c) = BankCopies(B, c)
    BY <1>1, <1>3, OthersCome
<1>4. ASSUME NEW f \in S, IsBank(f, b)
      PROVE  IsFiniteSet(BankCopies(C, b)) /\ N(C, b) = N(B, b) + 1
    <2>1. \A e \in S : IsBank(e, b) => e = f
        BY <1>4 DEF IsBank
    <2> QED
        BY <1>1, <1>4, <2>1, BankComes DEF N
<1> HIDE DEF C
<1>5. \A c \in Banks : c # b => \A e \in S : ~IsBank(e, c)
    BY DEF IsBank
<1>6. \A e \in S : IsBank(e, b) <=> e.kind = "BANK"
    BY DEF IsBank
<1>7. \A c \in Banks : c # b => N(C, c) = N(B, c) /\ IsFiniteSet(BankCopies(C, c))
    BY <1>1, <1>3, <1>5 DEF N
<1>8. N(C, b) = (IF one THEN N(B, b) + 1 ELSE N(B, b)) /\ IsFiniteSet(BankCopies(C, b))
    <2>1. CASE one
        <3>1. PICK f \in S : f.kind = "BANK"
            BY <2>1
        <3> QED
            BY <1>4, <1>6, <2>1, <3>1
    <2>2. CASE ~one
        <3>1. \A e \in S : ~IsBank(e, b)
            BY <1>6, <2>2
        <3>2. BankCopies(C, b) = BankCopies(B, b)
            BY <1>3, <3>1
        <3> QED
            BY <1>1, <2>2, <3>2 DEF N
    <2> QED
        BY <2>1, <2>2
<1>9. Counted(C)
    BY <1>2, <1>7, <1>8 DEF Counted
<1> QED
    BY <1>2, <1>7, <1>8, <1>9 DEF C

LEMMA SameMin == ASSUME NEW S PROVE bus!Min(S) = busP!Min(S) /\ Min(S) = bus!Min(S)
BY DEF bus!Min, busP!Min, Min

LEMMA SameRestrict == ASSUME NEW f, NEW S PROVE bus!Restrict(f, S) = busP!Restrict(f, S)
BY DEF bus!Restrict, busP!Restrict

LEMMA SameSlot == ASSUME NEW s PROVE bus!FreeSlot(s) = busP!FreeSlot(s)
BY SameMin DEF bus!FreeSlot, busP!FreeSlot, bus!Candidates, busP!Candidates,
               bus!Booked, busP!Booked, bus!StopsAt, busP!StopsAt

LEMMA BusConstants == busP!BusAssumption
BY MemoryAssumption DEF busP!BusAssumption

\* Nothing happens to the bus.
LEMMA BusSame ==
    ASSUME busP!IInv, UNCHANGED <<now, slots, wakeups, transfers, requested, granted, over>>
    PROVE  busP!IInv'
<1>1. UNCHANGED busP!vars
    BY DEF busP!vars
<1> QED
    BY <1>1, BusConstants, busP!NextIInv

\* A slot that is free is not before the one that is asked for.
LEMMA SlotIs ==
    ASSUME busP!IInv, NEW s \in Nat, s >= BusLatency
    PROVE  bus!FreeSlot(s) \in Nat /\ bus!FreeSlot(s) >= s
<1>1. /\ busP!Booked \subseteq Nat /\ \E b \in Nat : \A k \in busP!Booked : k <= b
      /\ \A a, b \in busP!Booked : a # b => a >= b + BusLatency \/ b >= a + BusLatency
    <2>1. /\ busP!TypeOK /\ busP!QueueInv /\ busP!NoOverlap
          /\ \E b \in Nat : \A k \in busP!Booked : k <= b
        BY DEF busP!IInv
    <2>2. \A k \in busP!Booked : slots[k] \in busP!Transfers /\ granted[slots[k]] = k
        BY <2>1 DEF busP!QueueInv, busP!Open
    <2>3. \A a, b \in busP!Booked : a # b => slots[a] # slots[b]
        BY <2>2
    <2>4. ASSUME NEW a \in busP!Booked, NEW b \in busP!Booked, a # b
          PROVE  a >= b + BusLatency \/ b >= a + BusLatency
        BY <2>1, <2>2, <2>3, <2>4 DEF busP!NoOverlap
    <2> QED
        BY <2>1, <2>4 DEF busP!TypeOK
<1>2. busP!FreeSlot(s) \in Nat /\ busP!FreeSlot(s) >= s
    BY <1>1, BusConstants, busP!FreeSlotIsFree
<1> QED
    BY <1>2, SameSlot

\* A bank books the bus.
LEMMA BusBooked ==
    ASSUME busP!IInv, NEW d \in {0, AccessLatency}, bus!Schedule(d)
    PROVE  busP!IInv' /\ transfers \in Nat /\ transfers' = transfers + 1 /\ over' = over
           /\ over \subseteq 1 .. transfers
<1>1. busP!Schedule(d)
    BY SameSlot DEF bus!Schedule, busP!Schedule, bus!Booked, busP!Booked
<1>2. busP!IInv'
    BY <1>1, BusConstants, busP!ScheduleStep
<1>3. transfers \in Nat /\ over \subseteq 1 .. transfers
    BY DEF busP!IInv, busP!TypeOK, busP!Transfers
<1> QED
    BY <1>2, <1>3 DEF bus!Schedule

\* The bus calls a bank back, whose transfer is over.
LEMMA BusOver ==
    ASSUME busP!IInv, bus!Process
    PROVE  LET t == slots[Min(DOMAIN slots)] IN
           /\ busP!IInv' /\ t \in 1 .. transfers /\ t \notin over /\ over' = over \cup {t}
           /\ transfers' = transfers /\ transfers > 0 /\ transfers \in Nat
<1> DEFINE m == bus!Min(DOMAIN slots)
<1>1. busP!Process
    BY SameMin, SameRestrict DEF bus!Process, busP!Process, bus!Booked, busP!Booked
<1>2. busP!IInv'
    BY <1>1, BusConstants, busP!ProcessStep
<1>3. DOMAIN slots # {} /\ DOMAIN slots \in SUBSET Nat
    BY DEF bus!Process, bus!Booked, busP!IInv, busP!TypeOK, busP!Booked
<1>4. m = Min(DOMAIN slots) /\ m \in DOMAIN slots
    <2>1. Min(DOMAIN slots) \in DOMAIN slots
        BY <1>3, MinIn
    <2> QED
        BY <2>1, SameMin
<1>5. over' = over \cup {slots[m]} /\ transfers' = transfers
    BY DEF bus!Process, bus!Booked
<1> HIDE DEF m
<1>6. slots[m] \in 1 .. transfers /\ slots[m] \notin over
    BY <1>4 DEF busP!IInv, busP!QueueInv, busP!Booked, busP!Open, busP!Transfers
<1>7. transfers \in Nat
    BY DEF busP!IInv, busP!TypeOK
<1>8. transfers > 0
    BY <1>6, <1>7
<1> QED
    BY <1>2, <1>4, <1>5, <1>6, <1>7, <1>8

\* The transfers of a bank that are not over.
OpenOf(n, done, own, c) == {t \in 1 .. n : t \notin done /\ own[t] = c}

LEMMA OpenCount ==
    ASSUME NEW n \in Nat, NEW done, NEW own, NEW c
    PROVE  IsFiniteSet(OpenOf(n, done, own, c)) /\ Cardinality(OpenOf(n, done, own, c)) \in Nat
<1>1. IsFiniteSet(1 .. n)
    BY FS_Interval
<1>2. IsFiniteSet(OpenOf(n, done, own, c))
    BY <1>1, FS_Subset DEF OpenOf
<1> QED
    BY <1>2, FS_CardinalityType

\* A bank has booked another.
LEMMA OpenBooked ==
    ASSUME NEW n \in Nat, NEW done \in SUBSET (1 .. n), NEW own \in Seq(Banks), Len(own) = n,
           NEW b \in Banks, NEW c
    PROVE  /\ Append(own, b) \in Seq(Banks) /\ Len(Append(own, b)) = n + 1
           /\ Cardinality(OpenOf(n + 1, done, Append(own, b), c)) =
                 IF c = b THEN Cardinality(OpenOf(n, done, own, c)) + 1
                 ELSE Cardinality(OpenOf(n, done, own, c))
<1> DEFINE o == Append(own, b)
<1>1. /\ o \in Seq(Banks) /\ Len(o) = n + 1 /\ o[n + 1] = b
      /\ \A t \in 1 .. n : o[t] = own[t]
    BY AppendProperties
<1> HIDE DEF o
<1>2. n + 1 \notin 1 .. n /\ 1 .. (n + 1) = 1 .. n \cup {n + 1} /\ n + 1 \notin done
    <2>1. \A t : t \in 1 .. (n + 1) <=> t \in 1 .. n \/ t = n + 1
        OBVIOUS
    <2> QED
        BY <2>1
<1>3. OpenOf(n + 1, done, o, c) = IF c = b THEN OpenOf(n, done, own, c) \cup {n + 1}
                                  ELSE OpenOf(n, done, own, c)
    BY <1>1, <1>2 DEF OpenOf
<1>4. n + 1 \notin OpenOf(n, done, own, c)
    BY <1>2 DEF OpenOf
<1>5. IsFiniteSet(OpenOf(n, done, own, c))
    BY OpenCount
<1>6. Cardinality(OpenOf(n, done, own, c) \cup {n + 1}) = Cardinality(OpenOf(n, done, own, c)) + 1
    BY <1>4, <1>5, FS_AddElement
<1> QED
    BY <1>1, <1>3, <1>6 DEF o

\* One is over.
LEMMA OpenOver ==
    ASSUME NEW n \in Nat, NEW done, NEW own, NEW t \in 1 .. n, t \notin done, NEW c
    PROVE  Cardinality(OpenOf(n, done \cup {t}, own, c)) =
              IF own[t] = c THEN Cardinality(OpenOf(n, done, own, c)) - 1
              ELSE Cardinality(OpenOf(n, done, own, c))
<1>1. OpenOf(n, done \cup {t}, own, c) = OpenOf(n, done, own, c) \ {t}
    BY DEF OpenOf
<1>2. t \in OpenOf(n, done, own, c) <=> own[t] = c
    BY DEF OpenOf
<1>3. IsFiniteSet(OpenOf(n, done, own, c))
    BY OpenCount
<1>4. CASE own[t] = c
    BY <1>1, <1>2, <1>3, <1>4, FS_RemoveElement
<1>5. CASE own[t] # c
    <2>1. OpenOf(n, done, own, c) \ {t} = OpenOf(n, done, own, c)
        BY <1>2, <1>5
    <2> QED
        BY <1>1, <1>5, <2>1
<1> QED
    BY <1>4, <1>5

\* What the transfers of a bank are.
LEMMA TransfersAre ==
    ASSUME NEW c
    PROVE
    Transfers(c) = Cardinality(OpenOf(transfers, over, owner, c)) + (IF calling = c THEN 1 ELSE 0)
BY DEF Transfers, OpenOf

-----------------------------------------------------------------------------
(* The queues' sizes *)

InQueue(rq, q) == {i \in DOMAIN rq : QueueOf(rq[i].bank) = q}

LEMMA QueueIs ==
    ASSUME NEW b \in Banks
    PROVE  QueueOf(b) \in Queues
BY DEF QueueOf, Queues

\* The requests are finitely many.
LEMMA FewRequests ==
    ASSUME Typed
    PROVE  /\ IsFiniteSet(DOMAIN requests) /\ Requests(requests) /\ count \in Nat
           /\ count + 1 \notin DOMAIN requests /\ count + 1 \in Nat \ {0}
           /\ \A q : IsFiniteSet(InQueue(requests, q)) /\ Cardinality(InQueue(requests, q)) \in Nat
<1>1. count \in Nat /\ DOMAIN requests \subseteq 1 .. count /\ MaxRequests \in Nat
    BY MemoryAssumption DEF Typed, TypeOK
<1>2. IsFiniteSet(1 .. count)
    BY <1>1, FS_Interval
<1>3. IsFiniteSet(DOMAIN requests)
    BY <1>1, <1>2, FS_Subset
<1>4. ASSUME NEW q PROVE IsFiniteSet(InQueue(requests, q)) /\ Cardinality(InQueue(requests, q)) \in Nat
    <2>1. IsFiniteSet(InQueue(requests, q))
        BY <1>3, FS_Subset DEF InQueue
    <2> QED
        BY <2>1, FS_CardinalityType
<1>5. Requests(requests)
    BY <1>1 DEF Requests, Typed
<1> QED
    BY <1>1, <1>3, <1>4, <1>5

\* What the sizes are, of all queues or of the others.
LEMMA SizesAre ==
    ASSUME Typed, Sizes, NEW q \in Queues
    PROVE  /\ queueSizes[q] = Cardinality(InQueue(requests, q)) /\ queueSizes[q] \in Nat
           /\ queueSizes[q] <= setting.maxQueueSize /\ setting.maxQueueSize \in Nat \ {0}
<1>1. q \in DOMAIN queueSizes /\ queueSizes[q] \in 0 .. setting.maxQueueSize
    BY DEF Typed, TypeOK
<1>2. queueSizes[q] = Cardinality(InQueue(requests, q))
    BY <1>1 DEF Sizes, SizesAgree, InQueue
<1>3. setting.maxQueueSize \in Nat \ {0}
    BY MemoryAssumption DEF Typed, TypeOK
<1> QED
    BY <1>1, <1>2, <1>3

\* A request is accepted: its queue may be the only one that is full.
LEMMA SizesAccess ==
    ASSUME Typed, Sizes, NEW input \in Inputs, Access(input)
    PROVE  /\ Sizes' /\ Queues' = Queues /\ DOMAIN queueSizes' = Queues /\ stalled' \in BOOLEAN
           /\ \A q \in Queues : queueSizes'[q] \in 0 .. setting.maxQueueSize
<1> DEFINE i == count + 1
           b == input.bank
           o == QueueOf(b)
<1>1. /\ ~stalled /\ setting' = setting /\ stalledCallers' = stalledCallers
      /\ requests' = [j \in DOMAIN requests \cup {i} |-> IF j = i THEN input ELSE requests[j]]
      /\ queueSizes' = [queueSizes EXCEPT ![o] = queueSizes[o] + 1]
      /\ stalled' = Full(queueSizes[o] + 1)
    BY DEF Access
<1>2. input \in Request /\ b \in Banks
    BY MemoryAssumption DEF Request
<1>3. o \in Queues /\ Queues' = Queues
    BY <1>1, <1>2, QueueIs DEF Queues
<1>4. DOMAIN queueSizes = Queues
    BY DEF Typed
<1>5. \A q \in Queues : queueSizes'[q] = IF q = o THEN queueSizes[q] + 1 ELSE queueSizes[q]
    BY <1>1, <1>3, <1>4
<1>6. DOMAIN queueSizes' = Queues
    BY <1>1, <1>4
<1>7. \A q \in Queues : ~Full(queueSizes[q])
    BY <1>1, <1>4 DEF Sizes, SizesAgree
<1>8. /\ i \notin DOMAIN requests /\ \A q : IsFiniteSet(InQueue(requests, q))
      /\ Requests(requests) /\ i \in Nat \ {0}
    BY FewRequests
<1>9. /\ DOMAIN requests' = DOMAIN requests \cup {i} /\ requests'[i] = input
      /\ \A j \in DOMAIN requests : requests'[j] = requests[j]
    BY <1>1, <1>8
<1> HIDE DEF i, b, o
<1>10. ASSUME NEW q PROVE (QueueOf(q))' = QueueOf(q)
    BY <1>1 DEF QueueOf
<1>11. ASSUME NEW q \in Queues
       PROVE  InQueue(requests', q) = IF q = o THEN InQueue(requests, q) \cup {i} ELSE InQueue(requests, q)
    <2>1. QueueOf(requests'[i].bank) = o
        BY <1>9 DEF b, o
    <2> QED
        BY <1>8, <1>9, <2>1 DEF InQueue
<1>12. \A q \in Queues : queueSizes'[q] = Cardinality(InQueue(requests', q))
    <2> SUFFICES ASSUME NEW q \in Queues PROVE queueSizes'[q] = Cardinality(InQueue(requests', q))
        OBVIOUS
    <2>1. queueSizes[q] = Cardinality(InQueue(requests, q))
        BY SizesAre
    <2>2. i \notin InQueue(requests, q) /\ IsFiniteSet(InQueue(requests, q))
        BY <1>8 DEF InQueue
    <2>3. Cardinality(InQueue(requests, q) \cup {i}) = Cardinality(InQueue(requests, q)) + 1
        BY <2>2, FS_AddElement
    <2> QED
        BY <1>5, <1>11, <2>1, <2>3
<1>13. \A q \in Queues : queueSizes'[q] \in 0 .. setting.maxQueueSize
    <2> SUFFICES ASSUME NEW q \in Queues PROVE queueSizes'[q] \in 0 .. setting.maxQueueSize
        OBVIOUS
    <2>1. /\ queueSizes[q] \in Nat /\ queueSizes[q] <= setting.maxQueueSize
          /\ setting.maxQueueSize \in Nat
        BY SizesAre
    <2>2. queueSizes[q] # setting.maxQueueSize
        BY <1>7 DEF Full
    <2> QED
        BY <1>5, <2>1, <2>2
<1>14. (stalled <=> \E q \in DOMAIN queueSizes : Full(queueSizes[q]))'
    <2>1. \A q \in Queues : (queueSizes'[q] = setting.maxQueueSize) <=>
                               (q = o /\ queueSizes[q] + 1 = setting.maxQueueSize)
        BY <1>5, <1>7 DEF Full
    <2> QED
        BY <1>1, <1>3, <1>6, <2>1 DEF Full
<1>15. (\A q, r \in DOMAIN queueSizes : Full(queueSizes[q]) /\ Full(queueSizes[r]) => q = r)'
    <2>1. \A q \in Queues : queueSizes'[q] = setting.maxQueueSize => q = o
        BY <1>5, <1>7 DEF Full
    <2> QED
        BY <1>1, <1>6, <2>1 DEF Full
<1>16. stalledCallers' = {}
    BY <1>1 DEF Sizes, SizesAgree
<1>17. SizesAgree'
    <2>1. (\A q \in DOMAIN queueSizes : queueSizes[q] = Cardinality({j \in DOMAIN requests : QueueOf(requests[j].bank) = q}))'
        BY <1>1, <1>6, <1>12 DEF InQueue, QueueOf
    <2> QED
        BY <1>14, <1>16, <2>1 DEF SizesAgree
<1>18. stalled' \in BOOLEAN
    BY <1>1 DEF Full
<1> QED
    BY <1>3, <1>6, <1>13, <1>15, <1>17, <1>18 DEF Sizes

\* Requests of a bank are completed: if their queue was full it is not any more, and those
\* who wait are called.
LEMMA SizesComplete ==
    ASSUME Typed, Sizes, NEW b \in Banks, NEW S, S \subseteq DOMAIN requests,
           \A i \in S : requests[i].bank = b, Complete(b, S), setting' = setting
    PROVE  /\ Sizes' /\ Queues' = Queues /\ DOMAIN queueSizes' = Queues /\ stalled' \in BOOLEAN
           /\ \A q \in Queues : queueSizes'[q] \in 0 .. setting.maxQueueSize
           /\ requests' = Restrict(requests, DOMAIN requests \ S)
           /\ stalledCallers' \subseteq stalledCallers
<1> DEFINE o == QueueOf(b)
           n == Cardinality(S)
<1>1. /\ requests' = Restrict(requests, DOMAIN requests \ S)
      /\ queueSizes' = [queueSizes EXCEPT ![o] = queueSizes[o] - n]
      /\ stalled' = (stalled /\ ~Unstalls(b, S))
      /\ stalledCallers' = IF Unstalls(b, S) THEN {} ELSE stalledCallers
    BY DEF Complete
<1>2. o \in Queues /\ Queues' = Queues
    BY QueueIs DEF Queues
<1>3. DOMAIN queueSizes = Queues
    BY DEF Typed
<1>4. \A q \in Queues : queueSizes'[q] = IF q = o THEN queueSizes[q] - n ELSE queueSizes[q]
    BY <1>1, <1>2, <1>3
<1>5. DOMAIN queueSizes' = Queues
    BY <1>1, <1>3
<1>6. S \subseteq InQueue(requests, o) /\ IsFiniteSet(InQueue(requests, o))
    BY FewRequests DEF InQueue
<1>7. IsFiniteSet(S) /\ n \in Nat /\ n <= Cardinality(InQueue(requests, o)) /\ (S # {} => n > 0)
    <2>1. IsFiniteSet(S) /\ n <= Cardinality(InQueue(requests, o))
        BY <1>6, FS_Subset
    <2>2. n \in Nat /\ (n = 0 <=> S = {})
        BY <2>1, FS_CardinalityType, FS_EmptySet
    <2> QED
        BY <2>1, <2>2
<1>8. /\ DOMAIN requests' = DOMAIN requests \ S
      /\ \A j \in DOMAIN requests' : requests'[j] = requests[j]
    BY <1>1 DEF Restrict
<1> HIDE DEF o, n
<1>9. ASSUME NEW q \in Queues
      PROVE  InQueue(requests', q) = IF q = o THEN InQueue(requests, q) \ S ELSE InQueue(requests, q)
    <2>1. \A i \in S : QueueOf(requests[i].bank) = o
        BY DEF o
    <2> QED
        BY <1>8, <2>1 DEF InQueue
<1>10. \A q \in Queues : queueSizes'[q] = Cardinality(InQueue(requests', q))
    <2> SUFFICES ASSUME NEW q \in Queues PROVE queueSizes'[q] = Cardinality(InQueue(requests', q))
        OBVIOUS
    <2>1. queueSizes[q] = Cardinality(InQueue(requests, q))
        BY SizesAre
    <2>2. CASE q = o
        <3>1. InQueue(requests, o) \cap S = S
            BY <1>6
        <3>2. Cardinality(InQueue(requests, o) \ S) = Cardinality(InQueue(requests, o)) - n
            BY <1>6, <3>1, FS_Difference DEF n
        <3> QED
            BY <1>4, <1>9, <2>1, <2>2, <3>2
    <2>3. CASE q # o
        BY <1>4, <1>9, <2>1, <2>3
    <2> QED
        BY <2>2, <2>3
<1>11. \A q \in Queues : queueSizes'[q] \in 0 .. setting.maxQueueSize
    <2> SUFFICES ASSUME NEW q \in Queues PROVE queueSizes'[q] \in 0 .. setting.maxQueueSize
        OBVIOUS
    <2>1. /\ queueSizes[q] \in Nat /\ queueSizes[q] <= setting.maxQueueSize
          /\ setting.maxQueueSize \in Nat /\ queueSizes[q] = Cardinality(InQueue(requests, q))
        BY SizesAre
    <2> QED
        BY <1>4, <1>7, <2>1
<1>12. /\ stalled <=> \E q \in Queues : queueSizes[q] = setting.maxQueueSize
       /\ \A q, r \in Queues : queueSizes[q] = setting.maxQueueSize /\ queueSizes[r] = setting.maxQueueSize => q = r
       /\ stalledCallers # {} => stalled
    BY <1>3 DEF Sizes, SizesAgree, Full
<1>13. \A q \in Queues : queueSizes'[q] = setting.maxQueueSize <=>
                             queueSizes[q] = setting.maxQueueSize /\ (q = o => S = {})
    <2> SUFFICES ASSUME NEW q \in Queues
                 PROVE  queueSizes'[q] = setting.maxQueueSize <=>
                             queueSizes[q] = setting.maxQueueSize /\ (q = o => S = {})
        OBVIOUS
    <2>1. /\ queueSizes[q] \in Nat /\ queueSizes[q] <= setting.maxQueueSize
          /\ setting.maxQueueSize \in Nat
        BY SizesAre
    <2>2. S = {} => n = 0
        BY FS_EmptySet DEF n
    <2> QED
        BY <1>4, <1>7, <2>1, <2>2
<1>14. Unstalls(b, S) <=> S # {} /\ queueSizes[o] = setting.maxQueueSize
    BY DEF Unstalls, Full, o
<1>15. stalled' <=> \E q \in Queues : queueSizes'[q] = setting.maxQueueSize
    BY <1>1, <1>2, <1>12, <1>13, <1>14
<1>16. (\A q, r \in DOMAIN queueSizes : Full(queueSizes[q]) /\ Full(queueSizes[r]) => q = r)'
    BY <1>5, <1>12, <1>13 DEF Full
<1>17. SizesAgree'
    <2>1. (\A q \in DOMAIN queueSizes : queueSizes[q] = Cardinality({j \in DOMAIN requests : QueueOf(requests[j].bank) = q}))'
        BY <1>5, <1>10 DEF InQueue, QueueOf
    <2>2. (stalled <=> \E q \in DOMAIN queueSizes : Full(queueSizes[q]))'
        BY <1>5, <1>15 DEF Full
    <2>3. (stalledCallers # {} => stalled)'
        BY <1>1, <1>12
    <2> QED
        BY <2>1, <2>2, <2>3 DEF SizesAgree
<1>18. stalled' \in BOOLEAN
    BY <1>1 DEF Typed, TypeOK
<1>19. stalledCallers' \subseteq stalledCallers
    BY <1>1
<1> QED
    BY <1>1, <1>2, <1>5, <1>11, <1>16, <1>17, <1>18, <1>19 DEF Sizes

-----------------------------------------------------------------------------
(* What a step is *)

\* Requests of bank b only are completed.
MemoryStep(b) ==
    /\ Sizes' /\ count' = count /\ Requests(requests') /\ DOMAIN requests' \subseteq DOMAIN requests
    /\ \A j \in DOMAIN requests' : requests'[j] = requests[j]
    /\ \A j \in DOMAIN requests : requests[j].bank # b => j \in DOMAIN requests'
    /\ Queues' = Queues /\ DOMAIN queueSizes' = Queues
    /\ \A q \in Queues : queueSizes'[q] \in 0 .. setting.maxQueueSize
    /\ stalled' \in BOOLEAN /\ stalledCallers' \subseteq stalledCallers

\* The bank has t transfers after it,
BusStep(b, t) ==
    /\ busP!IInv' /\ owner' \in Seq(Banks) /\ Len(owner') = transfers'
    /\ calling' \in Banks \cup {NoBank}
    /\ \A c \in Banks : Transfers(c)' = IF c = b THEN t ELSE Transfers(c)
    /\ transfers' = transfers \/ now >= BusLatency

\* and n BANK events.
EventStep(b, n) ==
    /\ Counted(events') /\ DOMAIN events' \subseteq Events
    /\ \A e \in DOMAIN events' : e.bank # b => e \in DOMAIN events
    /\ \A c \in Banks : N(events', c) = IF c = b THEN n ELSE N(events, c)

BankStep(b) ==
    /\ bank' = [bank EXCEPT ![b] = bank'[b]]
    /\ Queued(bank'[b]) \subseteq Queued(bank[b])
    /\ \A i \in DOMAIN requests' : i \in bank[b].notifications => i \in bank'[b].notifications
    /\ bank'[b].state \notin {"CLOSED", "OPENING"} => now >= BusLatency
    /\ bank'[b].state = "OPENING" => \A e \in DOMAIN events' : IsBank(e, b) => e.time >= BusLatency

\* What IInv says of a bank.
LEMMA BankIs ==
    ASSUME IInv, NEW b \in Banks
    PROVE  /\ Body(b, bank[b], requests, Transfers(b), N(events, b)) /\ bank[b] \in Bank
           /\ Transfers(b) \in Nat /\ N(events, b) \in Nat /\ Requests(requests) /\ Counted(events)
           /\ now \in Nat /\ calling \in Banks \cup {NoBank} /\ NoBank \notin Banks
           /\ DOMAIN events \subseteq Events /\ owner \in Seq(Banks) /\ Len(owner) = transfers
           /\ transfers \in Nat /\ bank \in [Banks -> Bank]
<1>1. Counted(events)
    BY DEF IInv, Typed, TypeOK, Counted
<1>2. Body(b, bank[b], requests, Transfers(b), N(events, b))
    BY DEF IInv, BanksInv, N, BankEvents
<1>3. N(events, b) \in Nat
    BY <1>1, CountIs
<1>4. transfers \in Nat
    BY DEF IInv, busP!IInv, busP!TypeOK
<1>5. Transfers(b) \in Nat
    BY <1>4, OpenCount, TransfersAre
<1>6. Requests(requests)
    BY FewRequests DEF IInv
<1> QED
    BY <1>1, <1>2, <1>3, <1>4, <1>5, <1>6, MemoryAssumption DEF IInv, Typed, TypeOK, Events, BagToSet

\* The other banks do not notice.
LEMMA OneBank ==
    ASSUME IInv, NEW b \in Banks, bank' = [bank EXCEPT ![b] = bank'[b]],
           Body(b, bank'[b], requests', Transfers(b)', N(events', b)),
           \A c \in Banks : c # b => Transfers(c)' = Transfers(c) /\ N(events', c) = N(events, c),
           \A j \in DOMAIN requests : requests[j].bank # b =>
               j \in DOMAIN requests' /\ requests'[j] = requests[j]
    PROVE  BanksInv' /\ (\A c \in Banks : c # b => bank'[c] = bank[c])
<1>1. bank \in [Banks -> Bank]
    BY BankIs
<1>2. \A c \in Banks : c # b => bank'[c] = bank[c]
    BY <1>1
<1>3. ASSUME NEW c \in Banks, c # b PROVE Body(c, bank'[c], requests', Transfers(c)', N(events', c))
    <2>1. Body(c, bank[c], requests, Transfers(c), N(events, c))
        BY BankIs
    <2>2. \A j \in DOMAIN requests : requests[j].bank = c => j \in DOMAIN requests' /\ requests'[j] = requests[j]
        BY <1>3
    <2>3. Body(c, bank[c], requests', Transfers(c), N(events, c))
        BY <2>1, <2>2, BodyKept
    <2> QED
        BY <1>2, <1>3, <2>3
<1>4. \A c \in Banks : Body(c, bank'[c], requests', Transfers(c)', N(events', c))
    BY <1>3
<1> QED
    BY <1>2, <1>4 DEF BanksInv, N, BankEvents

\* The invariant is kept when the parts of a step fit together.
LEMMA Glue ==
    ASSUME IInv, NEW b \in Banks, NEW t, NEW n, setting' = setting, now' = now,
           MemoryStep(b), BusStep(b, t), EventStep(b, n), BankStep(b),
           Body(b, bank'[b], requests', t, n)
    PROVE  IInv'
<1>1. /\ bank \in [Banks -> Bank] /\ NoBank \notin Banks /\ now \in Nat /\ Requests(requests)
    BY BankIs
<1>2. Transfers(b)' = t /\ N(events', b) = n
    BY DEF BusStep, EventStep
<1>3. \A c \in Banks : c # b => Transfers(c)' = Transfers(c) /\ N(events', c) = N(events, c)
    BY DEF BusStep, EventStep
<1>4. bank' = [bank EXCEPT ![b] = bank'[b]]
    BY DEF BankStep
<1>5. \A j \in DOMAIN requests : requests[j].bank # b => j \in DOMAIN requests' /\ requests'[j] = requests[j]
    BY DEF MemoryStep
<1>6. Body(b, bank'[b], requests', Transfers(b)', N(events', b))
    BY <1>2
<1>7. BanksInv' /\ \A c \in Banks : c # b => bank'[c] = bank[c]
    BY <1>3, <1>4, <1>5, <1>6, OneBank
<1>8. bank' \in [Banks -> Bank]
    <2>1. bank'[b] \in Bank
        BY <1>6 DEF Body
    <2> QED
        BY <1>1, <1>4, <2>1
<1>9. Typed'
    <2>1. TypeOK
        BY DEF IInv, Typed
    <2>2. DOMAIN requests' \subseteq 1 .. count
        BY <2>1 DEF MemoryStep, TypeOK
    <2>3. IsABag(events') /\ BagToSet(events') \subseteq Events
        BY DEF EventStep, Counted, BagToSet
    <2>4. \A q \in DOMAIN queueSizes' : queueSizes'[q] \in 0 .. setting'.maxQueueSize
        BY DEF MemoryStep
    <2>5. stalled' \in BOOLEAN /\ stalledCallers' \subseteq Callers /\ count' = count
        BY <2>1 DEF MemoryStep, TypeOK
    <2>6. calling' \in Banks \cup {NoBank} /\ owner' \in Seq(Banks) /\ Len(owner') = transfers'
        BY DEF BusStep
    <2>7. TypeOK'
        BY <1>8, <2>1, <2>2, <2>3, <2>4, <2>5, <2>6 DEF TypeOK, Events
    <2>8. requests' \in [DOMAIN requests' -> Request] /\ (DOMAIN queueSizes = Queues)'
        BY DEF MemoryStep, Requests
    <2>9. \A c \in Banks : IsFiniteSet(BankCopies(events', c))
        BY DEF EventStep, Counted
    <2> QED
        BY <2>6, <2>7, <2>8, <2>9 DEF Typed
<1>10. Timed'
    <2>1. Timed
        BY DEF IInv
    <2>2. \A c \in Banks : bank'[c].state \notin {"CLOSED", "OPENING"} => now >= BusLatency
        BY <1>7, <2>1 DEF BankStep, Timed
    <2>3. ASSUME NEW f \in DOMAIN events', f.kind = "BANK", bank'[f.bank].state = "OPENING"
          PROVE  f.time >= BusLatency
        <3>1. f.bank \in Banks
            BY DEF EventStep, Events
        <3>2. CASE f.bank = b
            BY <2>3, <3>2 DEF BankStep, IsBank
        <3>3. CASE f.bank # b
            <4>1. f \in DOMAIN events /\ bank[f.bank].state = "OPENING"
                BY <1>7, <2>3, <3>1, <3>3 DEF EventStep
            <4> QED
                BY <2>1, <2>3, <4>1 DEF Timed, BagToSet
        <3> QED
            BY <3>2, <3>3
    <2>4. now < BusLatency => transfers' = 0
        BY <1>1, <2>1, MemoryAssumption DEF BusStep, Timed
    <2> QED
        BY <2>2, <2>3, <2>4 DEF Timed, BagToSet
<1>11. ReadsSeeWrites'
    <2>1. ReadsSeeWrites
        BY DEF IInv
    <2> SUFFICES ASSUME NEW i \in DOMAIN requests', NEW w \in DOMAIN requests', w < i,
                        requests'[i].read, ~requests'[w].read,
                        requests'[i].bank = requests'[w].bank,
                        SameBlock(requests'[i], requests'[w]),
                        w \in Queued(bank'[requests'[w].bank])
                 PROVE  i \in bank'[requests'[i].bank].notifications
        BY DEF ReadsSeeWrites
    <2>2. /\ i \in DOMAIN requests /\ w \in DOMAIN requests
          /\ requests'[i] = requests[i] /\ requests'[w] = requests[w]
        BY DEF MemoryStep
    <2>3. requests[i].bank \in Banks
        BY <1>1, <2>2 DEF Requests, Request
    <2> DEFINE c == requests[i].bank
    <2>4. Queued(bank'[c]) \subseteq Queued(bank[c])
        BY <1>7, <2>3 DEF BankStep
    <2>5. i \in bank[c].notifications
        BY <2>1, <2>2, <2>4 DEF ReadsSeeWrites
    <2> QED
        BY <1>7, <2>2, <2>3, <2>5 DEF BankStep
<1>12. busP!IInv' /\ Sizes'
    BY DEF BusStep, MemoryStep
<1> QED
    BY <1>7, <1>9, <1>10, <1>11, <1>12 DEF IInv

\* The requests stay as they are, or some of the bank's are completed.
LEMMA MemorySame ==
    ASSUME IInv, UNCHANGED <<setting, count, memVars>>, NEW b
    PROVE  MemoryStep(b)
<1>1. Typed /\ Sizes
    BY DEF IInv
<1>2. UNCHANGED <<setting, count, requests, queueSizes, stalled, stalledCallers>>
    BY DEF memVars
<1>3. Requests(requests)
    BY <1>1, FewRequests
<1>4. Queues' = Queues
    BY <1>2 DEF Queues
<1>5. Sizes'
    BY <1>1, <1>2 DEF Sizes, SizesAgree, Full, QueueOf
<1>6. DOMAIN queueSizes = Queues /\ \A q \in DOMAIN queueSizes : queueSizes[q] \in 0 .. setting.maxQueueSize
    BY <1>1 DEF Typed, TypeOK
<1>7. stalled' \in BOOLEAN
    BY <1>1, <1>2 DEF Typed, TypeOK
<1> QED
    BY <1>2, <1>3, <1>4, <1>5, <1>6, <1>7 DEF MemoryStep

LEMMA MemoryCompletes ==
    ASSUME IInv, NEW b \in Banks, NEW S, S \subseteq DOMAIN requests,
           \A i \in S : requests[i].bank = b, Complete(b, S), UNCHANGED <<setting, count>>
    PROVE  MemoryStep(b) /\ requests' = Restrict(requests, DOMAIN requests \ S)
<1>1. Typed /\ Sizes
    BY DEF IInv
<1>2. /\ Sizes' /\ Queues' = Queues /\ DOMAIN queueSizes' = Queues /\ stalled' \in BOOLEAN
      /\ \A q \in Queues : queueSizes'[q] \in 0 .. setting.maxQueueSize
      /\ requests' = Restrict(requests, DOMAIN requests \ S)
      /\ stalledCallers' \subseteq stalledCallers
    BY <1>1, SizesComplete
<1>3. /\ DOMAIN requests' = DOMAIN requests \ S
      /\ \A j \in DOMAIN requests' : requests'[j] = requests[j]
      /\ requests' = [j \in DOMAIN requests' |-> requests[j]]
    BY <1>2 DEF Restrict
<1>4. Requests(requests)
    BY <1>1, FewRequests
<1>5. Requests(requests')
    <2>1. \A j \in DOMAIN requests' : requests[j] \in Request
        BY <1>3, <1>4 DEF Requests
    <2>2. requests' \in [DOMAIN requests' -> Request]
        BY <1>3, <2>1
    <2>3. DOMAIN requests' \subseteq Nat \ {0}
        BY <1>3, <1>4 DEF Requests
    <2> QED
        BY <2>2, <2>3 DEF Requests
<1>6. \A j \in DOMAIN requests : requests[j].bank # b => j \in DOMAIN requests'
    BY <1>3
<1> QED
    BY <1>2, <1>3, <1>5, <1>6 DEF MemoryStep

\* The bus goes on as it was, or the bank returns from its call; t is what is left to it.
Returns(b, t) ==
    \/ calling' = calling /\ t = Transfers(b)
    \/ calling = b /\ calling' = NoBank /\ t = Transfers(b) - 1

LEMMA ReturnsIs ==
    ASSUME IInv, NEW b \in Banks, NEW t, Returns(b, t)
    PROVE  /\ t \in Nat /\ calling' \in Banks \cup {NoBank}
           /\ \A c \in Banks :
                 Cardinality(OpenOf(transfers, over, owner, c)) + (IF calling' = c THEN 1 ELSE 0) =
                    IF c = b THEN t ELSE Transfers(c)
<1>1. calling \in Banks \cup {NoBank} /\ transfers \in Nat /\ NoBank \notin Banks
    BY BankIs
<1>2. \A c \in Banks : /\ Cardinality(OpenOf(transfers, over, owner, c)) \in Nat
                      /\ Transfers(c) = Cardinality(OpenOf(transfers, over, owner, c))
                                            + (IF calling = c THEN 1 ELSE 0)
    BY <1>1, OpenCount, TransfersAre
<1> QED
    BY <1>1, <1>2 DEF Returns

LEMMA BusUntouched ==
    ASSUME IInv, NEW b \in Banks, UNCHANGED <<now, busVars>>, NEW t, Returns(b, t)
    PROVE  BusStep(b, t) /\ t \in Nat
<1>1. UNCHANGED <<now, slots, wakeups, transfers, requested, granted, over, owner>>
    BY DEF busVars
<1>2. busP!IInv'
    BY <1>1, BusSame DEF IInv
<1>3. owner \in Seq(Banks) /\ Len(owner) = transfers
    BY BankIs
<1>4. \A c \in Banks : Transfers(c)' = Cardinality(OpenOf(transfers, over, owner, c))
                                         + (IF calling' = c THEN 1 ELSE 0)
    BY <1>1 DEF Transfers, OpenOf
<1> QED
    BY <1>1, <1>2, <1>3, <1>4, ReturnsIs DEF BusStep

\* The bus books a transfer of the bank.
LEMMA BusTakes ==
    ASSUME IInv, NEW b \in Banks, NEW i, requests[i].read \in BOOLEAN, Transfer(b, i),
           now >= BusLatency, NEW t, Returns(b, t)
    PROVE  BusStep(b, t + 1) /\ t \in Nat
<1> DEFINE d == IF requests[i].read THEN AccessLatency ELSE 0
<1>1. bus!Schedule(d) /\ owner' = Append(owner, b) /\ d \in {0, AccessLatency} /\ now' = now
    BY DEF Transfer
<1>2. busP!IInv
    BY DEF IInv
<1> HIDE DEF d
<1>3. /\ busP!IInv' /\ transfers \in Nat /\ transfers' = transfers + 1 /\ over' = over
      /\ over \subseteq 1 .. transfers
    BY <1>1, <1>2, BusBooked
<1>4. owner \in Seq(Banks) /\ Len(owner) = transfers
    BY BankIs
<1>5. owner' \in Seq(Banks) /\ Len(owner') = transfers'
    BY <1>1, <1>3, <1>4, OpenBooked
<1>6. /\ t \in Nat /\ calling' \in Banks \cup {NoBank}
      /\ \A c \in Banks :
            Cardinality(OpenOf(transfers, over, owner, c)) + (IF calling' = c THEN 1 ELSE 0) =
               IF c = b THEN t ELSE Transfers(c)
    BY ReturnsIs
<1>7. ASSUME NEW c \in Banks
      PROVE  Transfers(c)' = IF c = b THEN t + 1 ELSE Transfers(c)
    <2>1. Cardinality(OpenOf(transfers + 1, over, Append(owner, b), c)) =
              IF c = b THEN Cardinality(OpenOf(transfers, over, owner, c)) + 1
              ELSE Cardinality(OpenOf(transfers, over, owner, c))
        BY <1>3, <1>4, OpenBooked
    <2>2. Transfers(c)' = Cardinality(OpenOf(transfers + 1, over, Append(owner, b), c))
                            + (IF calling' = c THEN 1 ELSE 0)
        BY <1>1, <1>3 DEF Transfers, OpenOf
    <2>3. Cardinality(OpenOf(transfers, over, owner, c)) \in Nat
        BY <1>3, OpenCount
    <2> QED
        BY <1>6, <2>1, <2>2, <2>3
<1> QED
    BY <1>1, <1>3, <1>5, <1>6, <1>7 DEF BusStep

LEMMA PipelineTimeIs ==
    ASSUME IInv
    PROVE  now >= BusLatency => PipelineTime \in Nat
<1> SUFFICES ASSUME now >= BusLatency PROVE PipelineTime \in Nat
    OBVIOUS
<1>1. now \in Nat
    BY DEF IInv, Typed, TypeOK
<1>2. now + AccessLatency \in Nat /\ now + AccessLatency >= BusLatency /\ AccessLatency \in Nat
      /\ BusLatency \in Nat
    BY <1>1, MemoryAssumption
<1>3. /\ bus!FreeSlot(now + AccessLatency) \in Nat
      /\ bus!FreeSlot(now + AccessLatency) >= now + AccessLatency
    BY <1>2, SlotIs DEF IInv
<1> QED
    BY <1>1, <1>2, <1>3 DEF PipelineTime
-----------------------------------------------------------------------------
(* The steps *)

\* base is what is left of the events, m BANK events of the bank among them.
Left(b, base, m) ==
    /\ Counted(base) /\ DOMAIN base \subseteq DOMAIN events
    /\ \A c \in Banks : N(base, c) = IF c = b THEN m ELSE N(events, c)

\* The events that a step of the bank adds.
Adds(b, S) == S \subseteq Events /\ (\A e \in S : e.bank = b)
              /\ (\A e, f \in S : e.kind = "BANK" /\ f.kind = "BANK" => e = f)

LEMMA EventNone ==
    ASSUME IInv, NEW b \in Banks
    PROVE  Left(b, events, N(events, b))
BY BankIs DEF Left

LEMMA EventLeft ==
    ASSUME IInv, NEW b \in Banks, NEW kind \in {"BANK", "QUEUE", "PIPELINE"}, Due(b, kind)
    PROVE  LET base == events (-) SetToBag({Event(0, b, kind)})
               m == IF kind = "BANK" THEN N(events, b) - 1 ELSE N(events, b)
           IN Left(b, base, m) /\ m \in Nat
<1> DEFINE f == Event(0, b, kind)
           base == events (-) SetToBag({f})
<1>1. Counted(events)
    BY BankIs
<1>2. f \in DOMAIN events /\ f.bank = b /\ f.kind = kind
    BY DEF Due, Event, BagIn, BagToSet
<1> HIDE DEF f
<1>3. /\ Counted(base) /\ DOMAIN base \subseteq DOMAIN events
      /\ \A c \in Banks : c # b => N(base, c) = N(events, c)
      /\ N(base, b) = IF f.kind = "BANK" THEN N(events, b) - 1 ELSE N(events, b)
    BY <1>1, <1>2, CountGoes
<1>4. N(base, b) \in Nat
    BY <1>3, CountIs
<1> QED
    BY <1>2, <1>3, <1>4 DEF Left, f

LEMMA EventsCome ==
    ASSUME IInv, NEW b \in Banks, NEW base, NEW m, Left(b, base, m), NEW S, Adds(b, S),
           events' = base (+) SetToBag(S)
    PROVE  /\ EventStep(b, IF \E e \in S : e.kind = "BANK" THEN m + 1 ELSE m)
           /\ DOMAIN events' = DOMAIN base \cup S
           /\ m = 0 => \A e \in DOMAIN events' : IsBank(e, b) => e \in S
<1>1. /\ Counted(base) /\ DOMAIN base \subseteq DOMAIN events
      /\ \A c \in Banks : N(base, c) = IF c = b THEN m ELSE N(events, c)
    BY DEF Left
<1>2. S \subseteq Events /\ (\A e \in S : e.bank = b)
      /\ (\A e, f \in S : e.kind = "BANK" /\ f.kind = "BANK" => e = f)
    BY DEF Adds
<1>3. /\ Counted(events') /\ DOMAIN events' = DOMAIN base \cup S
      /\ \A c \in Banks : c # b => N(events', c) = N(base, c)
      /\ N(events', b) = IF \E e \in S : e.kind = "BANK" THEN N(base, b) + 1 ELSE N(base, b)
    BY <1>1, <1>2, CountComes
<1>4. DOMAIN events \subseteq Events
    BY BankIs
<1>5. ASSUME m = 0, NEW e \in DOMAIN base PROVE ~IsBank(e, b)
    <2>1. ~(N(base, b) > 0)
        BY <1>1, <1>5
    <2> QED
        BY <1>1, <2>1, CountIs
<1>6. EventStep(b, IF \E e \in S : e.kind = "BANK" THEN m + 1 ELSE m)
    BY <1>1, <1>2, <1>3, <1>4 DEF EventStep
<1> QED
    BY <1>3, <1>5, <1>6

\* No event is added.
LEMMA EventsLeft ==
    ASSUME IInv, NEW b \in Banks, NEW base, NEW m, Left(b, base, m), events' = base (+) SetToBag({})
    PROVE  /\ EventStep(b, m) /\ DOMAIN events' = DOMAIN base
           /\ m = 0 => \A e \in DOMAIN events' : ~IsBank(e, b)
<1> DEFINE S == {}
<1>1. Adds(b, S) /\ events' = base (+) SetToBag(S) /\ \A e : e \notin S
    BY DEF Adds
<1> HIDE DEF S
<1>2. /\ EventStep(b, IF \E e \in S : e.kind = "BANK" THEN m + 1 ELSE m)
      /\ DOMAIN events' = DOMAIN base \cup S
      /\ m = 0 => \A e \in DOMAIN events' : IsBank(e, b) => e \in S
    BY <1>1, EventsCome
<1>3. ~\E e \in S : e.kind = "BANK"
    BY <1>1
<1> QED
    BY <1>1, <1>2, <1>3

\* The BANK event of a bank that has none left.
LEMMA EventsNext ==
    ASSUME IInv, NEW b \in Banks, NEW base, NEW m, Left(b, base, m), NEW d \in Nat,
           events' = base (+) SetToBag({Event(d, b, "BANK")})
    PROVE  /\ EventStep(b, m + 1)
           /\ m = 0 => \A e \in DOMAIN events' : IsBank(e, b) => e.time = now + d
<1> DEFINE S == {Event(d, b, "BANK")}
<1>1. now \in Nat
    BY BankIs
<1>2. Adds(b, S)
    BY <1>1 DEF Adds, Events, Event
<1>3. (\E e \in S : e.kind = "BANK") /\ \A e \in S : e.time = now + d
    BY DEF Event
<1>4. events' = base (+) SetToBag(S)
    OBVIOUS
<1> HIDE DEF S
<1>5. /\ EventStep(b, m + 1)
      /\ m = 0 => \A e \in DOMAIN events' : IsBank(e, b) => e \in S
    <2>1. /\ EventStep(b, IF \E e \in S : e.kind = "BANK" THEN m + 1 ELSE m)
          /\ m = 0 => \A e \in DOMAIN events' : IsBank(e, b) => e \in S
        BY <1>2, <1>4, EventsCome
    <2> QED
        BY <1>3, <2>1
<1> QED
    BY <1>3, <1>5

\* The PIPELINE event of a read that was put on the bus.
LEMMA EventsPipe ==
    ASSUME IInv, NEW b \in Banks, NEW base, NEW m, Left(b, base, m), NEW i,
           PipelineTime \in Nat, events' = base (+) SetToBag(TransferEvents(b, i))
    PROVE  EventStep(b, m)
<1>1. Adds(b, TransferEvents(b, i)) /\ \A e \in TransferEvents(b, i) : e.kind # "BANK"
    BY DEF Adds, Events, TransferEvents
<1> QED
    BY <1>1, EventsCome

\* When the BANK event of a bank is due the row is or can be open.
LEMMA DueIs ==
    ASSUME IInv, NEW b \in Banks, Due(b, "BANK") \/ bank[b].state # "OPENING"
    PROVE  bank[b].state # "CLOSED" => now >= BusLatency
<1>1. Due(b, "BANK") => \E e \in DOMAIN events : IsBank(e, b) /\ e.time = now
    <2>1. Event(0, b, "BANK").time = now
        BY BankIs DEF Event
    <2> QED
        BY <2>1 DEF Due, BagIn, BagToSet, Event, IsBank
<1> QED
    BY <1>1 DEF IInv, Timed, BagToSet, IsBank

\* What becomes of the banks.
LEMMA BankBecomes ==
    ASSUME IInv, NEW b \in Banks, NEW k, bank' = [bank EXCEPT ![b] = k]
    PROVE  bank'[b] = k /\ bank' = [bank EXCEPT ![b] = bank'[b]]
BY BankIs

LEMMA BankStepIs ==
    ASSUME IInv, NEW b \in Banks, NEW k, bank' = [bank EXCEPT ![b] = k], Loses(bank[b], k),
           \/ k.state = "CLOSED"
           \/ k.state # "OPENING" /\ now >= BusLatency
           \/ k.state = "OPENING" /\ \A e \in DOMAIN events' : IsBank(e, b) => e.time >= BusLatency
    PROVE  BankStep(b) /\ bank'[b] = k
<1>1. bank'[b] = k /\ bank' = [bank EXCEPT ![b] = bank'[b]]
    BY BankBecomes
<1> QED
    BY <1>1 DEF BankStep, Loses

\* What the code writes for a request that is started.
LEMMA OpeningIs ==
    ASSUME NEW k \in Bank, NEW i \in Nat, \A p \in Priorities : Injective(k.queue[p])
    PROVE  Opening([Unqueued(k, i) EXCEPT !.current = i]) = Reopened(k, i, requests[i].row)
<1>1. [Unqueued(k, i) EXCEPT !.current = i].current = i
    BY StartingIs
<1> QED
    BY <1>1 DEF Opening, Reopened

LEMMA TransferringIs ==
    ASSUME NEW k, NEW i, NEW rq, rq[i] = requests[i]
    PROVE  Transferring(k, i) = Put(k, rq, i, PipelineTime)
BY DEF Transferring, Put
\* A bank that goes on to open a row has no BANK event but the one it adds.
LEMMA RowOpens ==
    ASSUME IInv, NEW b \in Banks, NEW base, Left(b, base, 0), events' = base (+) SetToBag(OpenEvent(b))
    PROVE  EventStep(b, 1) /\ \A e \in DOMAIN events' : IsBank(e, b) => e.time >= BusLatency
<1>1. OpenLatency \in Nat /\ now \in Nat /\ BusLatency \in Nat /\ BusLatency <= OpenLatency
    BY MemoryAssumption, BankIs
<1>2. events' = base (+) SetToBag({Event(OpenLatency, b, "BANK")})
    BY DEF OpenEvent
<1>3. EventStep(b, 0 + 1) /\ \A e \in DOMAIN events' : IsBank(e, b) => e.time = now + OpenLatency
    BY <1>1, <1>2, EventsNext
<1> QED
    BY <1>1, <1>3

LEMMA OpenStep ==
    ASSUME IInv, NEW b \in Banks, Open(b)
    PROVE  IInv'
<1> DEFINE k == bank[b]
           i == Selected(k)
           t == Transfers(b)
           n == N(events, b)
           base == events (-) SetToBag({Event(0, b, "BANK")})
<1>1. /\ Body(b, k, requests, t, n) /\ k \in Bank /\ t \in Nat /\ n \in Nat /\ Requests(requests)
    BY BankIs
<1>2. /\ Due(b, "BANK") /\ k.state = "CLOSED"
      /\ bank' = [bank EXCEPT ![b] = Opening([Unqueued(k, i) EXCEPT !.current = i])]
      /\ events' = base (+) SetToBag(OpenEvent(b))
      /\ UNCHANGED <<setting, now, count, calling, memVars, busVars>>
    BY DEF Open, Process
<1>3. Left(b, base, n - 1) /\ n - 1 \in Nat
    BY <1>2, EventLeft
<1> HIDE DEF base
<1> n > 0
    BY <1>1, <1>3
<1>4. Queued(k) # {} /\ i \in Queued(k) /\ i \in Nat /\ \A p \in Priorities : Injective(k.queue[p])
    BY <1>1, <1>2, <1>3, SelectedIs DEF Body, Ahead, Mine
<1> DEFINE k2 == Reopened(k, i, requests[i].row)
<1>5. bank' = [bank EXCEPT ![b] = k2]
    BY <1>1, <1>2, <1>4, OpeningIs
<1>6. Body(b, k2, requests, t, n) /\ Loses(k, k2) /\ k2.state = "OPENING" /\ n = 1
    BY <1>1, <1>2, <1>3, <1>4, BodyOpen
<1> HIDE DEF k2
<1>7. EventStep(b, n) /\ \A e \in DOMAIN events' : IsBank(e, b) => e.time >= BusLatency
    BY <1>2, <1>3, <1>6, RowOpens
<1>8. BankStep(b) /\ bank'[b] = k2
    BY <1>5, <1>6, <1>7, BankStepIs
<1>9. BusStep(b, t)
    BY <1>2, BusUntouched DEF Returns
<1>10. MemoryStep(b) /\ requests' = requests
    BY <1>2, MemorySame DEF memVars
<1> QED
    BY <1>2, <1>6, <1>7, <1>8, <1>9, <1>10, Glue

LEMMA ClosedStep ==
    ASSUME IInv, NEW b \in Banks, Closed(b)
    PROVE  IInv'
<1> DEFINE k == bank[b]
           i == IF k.current # 0 THEN k.current ELSE Selected(k)
           opens == k.current # 0 \/ Queued(k) # {}
           t == Transfers(b)
           n == N(events, b)
           base == events (-) SetToBag({Event(0, b, "BANK")})
<1>1. /\ Body(b, k, requests, t, n) /\ k \in Bank /\ t \in Nat /\ n \in Nat /\ Requests(requests)
    BY BankIs
<1>2. /\ Due(b, "BANK") /\ k.state = "CLOSING"
      /\ bank' = [bank EXCEPT ![b] = IF opens THEN Opening([Unqueued(k, i) EXCEPT !.current = i])
                                     ELSE [k EXCEPT !.state = "CLOSED"]]
      /\ events' = base (+) SetToBag(IF opens THEN OpenEvent(b) ELSE {})
      /\ UNCHANGED <<setting, now, count, calling, memVars, busVars>>
    BY DEF Closed, Process
<1>3. Left(b, base, n - 1) /\ n = 1
    BY <1>1, <1>2, EventLeft DEF Body, Ahead
<1> HIDE DEF base
<1>4. BusStep(b, t)
    BY <1>2, BusUntouched DEF Returns
<1>5. MemoryStep(b) /\ requests' = requests
    BY <1>2, MemorySame DEF memVars
<1>6. CASE opens
    <2>1. Chosen(k, i) /\ i \in Nat /\ \A p \in Priorities : Injective(k.queue[p])
        BY <1>1, <1>6, SelectedIs, BankFields DEF Chosen, Body, Mine
    <2> DEFINE k2 == Reopened(k, i, requests[i].row)
    <2>2. bank' = [bank EXCEPT ![b] = k2]
        BY <1>1, <1>2, <1>6, <2>1, OpeningIs
    <2>3. Body(b, k2, requests, t, n) /\ Loses(k, k2) /\ k2.state = "OPENING"
        BY <1>1, <1>2, <2>1, BodyReopen
    <2> HIDE DEF k2
    <2>4. EventStep(b, n) /\ \A e \in DOMAIN events' : IsBank(e, b) => e.time >= BusLatency
        BY <1>2, <1>3, <1>6, RowOpens
    <2>5. BankStep(b) /\ bank'[b] = k2
        BY <2>2, <2>3, <2>4, BankStepIs
    <2> QED
        BY <1>2, <1>4, <1>5, <2>3, <2>4, <2>5, Glue
<1>7. CASE ~opens
    <2> DEFINE k2 == [k EXCEPT !.state = "CLOSED"]
    <2>1. bank' = [bank EXCEPT ![b] = k2] /\ events' = base (+) SetToBag({})
        BY <1>2, <1>7
    <2>2. Body(b, k2, requests, t, n - 1) /\ Loses(k, k2) /\ k2.state = "CLOSED"
        BY <1>1, <1>2, <1>7, BodyClosed
    <2> HIDE DEF k2
    <2>3. EventStep(b, n - 1)
        BY <1>3, <2>1, EventsLeft
    <2>4. BankStep(b) /\ bank'[b] = k2
        BY <2>1, <2>2, BankStepIs
    <2> QED
        BY <1>2, <1>4, <1>5, <2>2, <2>3, <2>4, Glue
<1> QED
    BY <1>6, <1>7

LEMMA OpenedStep ==
    ASSUME IInv, NEW b \in Banks, Opened(b)
    PROVE  IInv'
<1> DEFINE k == bank[b]
           i == k.current
           t == Transfers(b)
           n == N(events, b)
           base == events (-) SetToBag({Event(0, b, "BANK")})
           k1 == [k EXCEPT !.state = "OPEN_CLEAN"]
<1>1. /\ Body(b, k, requests, t, n) /\ k \in Bank /\ t \in Nat /\ n \in Nat /\ Requests(requests)
    BY BankIs
<1>2. /\ Due(b, "BANK") /\ k.state = "OPENING"
      /\ bank' = [bank EXCEPT ![b] = Transferring(k1, i)]
      /\ Transfer(b, i)
      /\ events' = base (+) SetToBag(TransferEvents(b, i))
      /\ UNCHANGED <<setting, now, count, calling, memVars>>
    BY DEF Opened, Process, Transfer
<1>3. Left(b, base, n - 1)
    BY <1>2, EventLeft
<1> HIDE DEF base
<1>4. now >= BusLatency /\ PipelineTime \in Nat
    BY <1>2, DueIs, PipelineTimeIs
<1>5. requests[i].read \in BOOLEAN
    BY <1>1, <1>2 DEF Body, Ahead, Mine, Started, Requests, Request
<1> DEFINE k2 == Put(k1, requests, i, PipelineTime)
<1>6. bank' = [bank EXCEPT ![b] = k2]
    BY <1>2, TransferringIs
<1>7. Body(b, k2, requests, t + 1, n - 1) /\ Loses(k, k2) /\ IsOpen(k2)
    BY <1>1, <1>2, <1>4, BodyOpened
<1> HIDE DEF k2
<1>8. EventStep(b, n - 1)
    BY <1>2, <1>3, <1>4, EventsPipe
<1>9. BankStep(b) /\ bank'[b] = k2
    BY <1>4, <1>6, <1>7, BankStepIs DEF IsOpen
<1>10. BusStep(b, t + 1)
    BY <1>2, <1>4, <1>5, BusTakes DEF Returns
<1>11. MemoryStep(b) /\ requests' = requests
    BY <1>2, MemorySame DEF memVars
<1> QED
    BY <1>2, <1>7, <1>8, <1>9, <1>10, <1>11, Glue

LEMMA PipelineStep ==
    ASSUME IInv, NEW b \in Banks, Pipeline(b)
    PROVE  IInv'
<1> DEFINE k == bank[b]
           prev == IF k.pipeline = <<>> THEN k.current ELSE k.pipeline[Len(k.pipeline)]
           starts == /\ IsOpen(k) /\ k.current # 0 /\ k.nextPipelineEvent = now
                     /\ Queued(k) # {} /\ Alike(k, prev) # {}
           i == Best(k)[Min(Alike(k, prev))]
           t == Transfers(b)
           n == N(events, b)
           base == events (-) SetToBag({Event(0, b, "PIPELINE")})
           k1 == [Unqueued(k, i) EXCEPT !.pipeline = Append(k.pipeline, i)]
<1>1. /\ Body(b, k, requests, t, n) /\ k \in Bank /\ t \in Nat /\ n \in Nat /\ Requests(requests)
    BY BankIs
<1>2. Due(b, "PIPELINE") /\ UNCHANGED <<setting, now, count, calling, memVars>>
    BY DEF Pipeline
<1>3. Left(b, base, n)
    BY <1>2, EventLeft
<1>4. MemoryStep(b) /\ requests' = requests
    BY <1>2, MemorySame DEF memVars
<1>5. CASE starts
    <2>1. Transfer(b, i) /\ events' = base (+) SetToBag(TransferEvents(b, i))
        BY <1>5 DEF Pipeline, Process
    <2>2. bank' = [bank EXCEPT ![b] =
                Transferring([Unqueued(k, i) EXCEPT !.pipeline = Append(@, i)], i)]
        BY <1>5 DEF Pipeline
    <2>3. /\ i \in Queued(k) /\ requests[i].row = k.row /\ requests[i].read = requests[prev].read
        BY <1>1, <1>5, AlikeIs
    <2>4. prev \in Started(k) /\ k.current \in Started(k)
        <3>1. k.pipeline \in Seq(Nat) /\ k.current \in Started(k)
            BY <1>1, <1>5, BankFields, StartedIs
        <3>2. k.pipeline # <<>> => k.pipeline[Len(k.pipeline)] \in Range(k.pipeline)
            BY <3>1 DEF Range
        <3> QED
            BY <3>1, <3>2, StartedIs
    <2>5. requests[i].read = requests[k.current].read
        BY <1>1, <1>5, <2>3, <2>4 DEF Body, Rows
    <2>6. \A p \in Priorities : Injective(k.queue[p])
        BY <1>1 DEF Body, Mine
    <2>7. Unqueued(k, i).pipeline = k.pipeline
        <3>1. Unqueued(k, i) = [k EXCEPT !.queue = Unqueued(k, i).queue]
            BY <1>1, <2>6, UnqueuedIs, Zenon
        <3> QED
            BY <1>1, <3>1 DEF Unqueued, Bank
    <2>8. requests[i].read \in BOOLEAN /\ IsOpen(k) /\ k.current # 0
        BY <1>1, <1>5, <2>3 DEF Body, Mine, Requests, Request
    <2>9. now >= BusLatency /\ PipelineTime \in Nat
        BY <2>8, DueIs, PipelineTimeIs DEF IsOpen
    <2> DEFINE k2 == Put(k1, requests, i, PipelineTime)
    <2>10. bank' = [bank EXCEPT ![b] = k2]
        BY <2>2, <2>7, TransferringIs
    <2> HIDE DEF i, base, prev, starts
    <2>11. Body(b, k2, requests, t + 1, n) /\ Loses(k, k2) /\ IsOpen(k2)
        BY <1>1, <2>3, <2>5, <2>8, <2>9, BodyPipe
    <2> HIDE DEF k2
    <2>12. EventStep(b, n)
        BY <1>3, <2>1, <2>9, EventsPipe
    <2>13. BankStep(b) /\ bank'[b] = k2
        BY <2>9, <2>10, <2>11, BankStepIs DEF IsOpen
    <2>14. BusStep(b, t + 1)
        BY <1>2, <2>1, <2>8, <2>9, BusTakes DEF Returns
    <2> QED
        BY <1>2, <1>4, <2>11, <2>12, <2>13, <2>14, Glue
<1>6. CASE ~starts
    <2>1. bank' = bank /\ UNCHANGED busVars /\ events' = base (+) SetToBag({})
        BY <1>6 DEF Pipeline, Process
    <2> HIDE DEF base, starts
    <2>2. EventStep(b, n) /\ DOMAIN events' = DOMAIN base /\ DOMAIN base \subseteq DOMAIN events
        BY <1>3, <2>1, EventsLeft DEF Left
    <2>3. BankStep(b)
        BY <1>2, <2>1, <2>2, BankIs DEF BankStep, IInv, Timed, IsBank, BagToSet
    <2>4. BusStep(b, t)
        BY <1>2, <2>1, BusUntouched DEF Returns
    <2> QED
        BY <1>1, <1>2, <1>4, <2>1, <2>2, <2>3, <2>4, Glue
<1> QED
    BY <1>5, <1>6

LEMMA NotifyStep ==
    ASSUME IInv, NEW b \in Banks, Notify(b)
    PROVE  IInv'
<1> DEFINE k == bank[b]
           S == k.notifications
           k2 == [k EXCEPT !.notifications = {}]
           t == Transfers(b)
           n == N(events, b)
           base == events (-) SetToBag({Event(0, b, "QUEUE")})
<1>1. /\ Body(b, k, requests, t, n) /\ k \in Bank /\ t \in Nat /\ n \in Nat /\ Requests(requests)
    BY BankIs
<1>2. /\ Due(b, "QUEUE") /\ bank' = [bank EXCEPT ![b] = k2]
      /\ events' = base (+) SetToBag({}) /\ Complete(b, S)
      /\ UNCHANGED <<setting, now, count, calling, busVars>>
    BY DEF Notify, Process
<1>3. Left(b, base, n)
    BY <1>2, EventLeft
<1> HIDE DEF base
<1>4. S \subseteq DOMAIN requests /\ \A i \in S : requests[i].bank = b
    BY <1>1 DEF Body, Mine
<1>5. MemoryStep(b) /\ requests' = Restrict(requests, DOMAIN requests \ S)
    BY <1>2, <1>4, MemoryCompletes
<1>6. Body(b, k2, requests', t, n) /\ Queued(k2) = Queued(k) /\ k2.state = k.state
    BY <1>1, <1>5, BodyNotify
<1>7. DOMAIN requests' = DOMAIN requests \ S
    BY <1>5 DEF Restrict
<1> HIDE DEF k2
<1>8. EventStep(b, n) /\ DOMAIN events' = DOMAIN base /\ DOMAIN base \subseteq DOMAIN events
    BY <1>2, <1>3, EventsLeft DEF Left
<1>9. bank'[b] = k2 /\ bank' = [bank EXCEPT ![b] = bank'[b]]
    BY <1>2, BankBecomes
<1>10. BankStep(b)
    BY <1>2, <1>6, <1>7, <1>8, <1>9 DEF BankStep, IInv, Timed, IsBank, BagToSet
<1>11. BusStep(b, t)
    BY <1>2, BusUntouched DEF Returns
<1> QED
    BY <1>2, <1>5, <1>6, <1>8, <1>9, <1>10, <1>11, Glue
\* The end of a step of which k is what becomes of the bank.
LEMMA StepEnds ==
    ASSUME IInv, NEW b \in Banks, NEW t, NEW n, setting' = setting, now' = now,
           MemoryStep(b), BusStep(b, t), EventStep(b, n), NEW k, bank' = [bank EXCEPT ![b] = k],
           Body(b, k, requests', t, n), NEW k1, Loses(k1, k), Queued(k1) = Queued(bank[b]),
           k1.notifications = bank[b].notifications,
           \/ k.state # "OPENING" /\ now >= BusLatency
           \/ k.state = "OPENING" /\ \A e \in DOMAIN events' : IsBank(e, b) => e.time >= BusLatency
    PROVE  IInv'
<1>1. Loses(bank[b], k)
    BY DEF Loses
<1>2. BankStep(b) /\ bank'[b] = k
    BY <1>1, BankStepIs
<1> QED
    BY <1>2, Glue

LEMMA CloseTimeIs ==
    ASSUME NEW k, IsFiniteSet(k.dirty)
    PROVE  CloseTime(k) \in Nat
<1>1. Cardinality(k.dirty) \in Nat /\ CloseLatency \in Nat
    BY FS_CardinalityType, MemoryAssumption
<1>2. \A x, y \in Nat : x * y \in Nat
    OBVIOUS
<1> QED
    BY <1>1, <1>2 DEF CloseTime

LEMMA NextRequestStep ==
    ASSUME IInv, NEW b \in Banks, NEW base, NEW t2 \in Nat, NEW n2 \in Nat, Left(b, base, n2),
           Returns(b, t2), now >= BusLatency, NextRequest(b, base),
           \/ /\ Transfers(b) = t2 + 1 /\ N(events, b) = n2
              /\ requests[bank[b].current].read
           \/ /\ Transfers(b) = t2 /\ N(events, b) = n2 + 1 /\ IsOpen(bank[b])
              /\ bank[b].current # 0 => ~requests[bank[b].current].read
    PROVE  IInv'
<1> DEFINE old == bank[b].current
           S == {old} \ {0}
           k == [bank[b] EXCEPT !.current = 0]
           i == Selected(k)
           next == [Unqueued(k, i) EXCEPT !.current = i]
           idle == k.pipeline = <<>> /\ Queued(k) = {}
           selects == k.pipeline = <<>> /\ Queued(k) # {}
           head == [k EXCEPT !.current = Head(k.pipeline), !.pipeline = Tail(k.pipeline)]
           Becomes(new, later) == bank' = [bank EXCEPT ![b] = new] /\ events' = base (+) SetToBag(later)
<1>1. Complete(b, S) /\ UNCHANGED <<setting, now, count>>
    BY DEF NextRequest
<1>2. \/ k.pipeline # <<>> /\ Becomes(head, {}) /\ UNCHANGED busVars
      \/ /\ selects /\ IsHit(k, i) /\ Becomes(Transferring(next, i), TransferEvents(b, i))
         /\ Transfer(b, i)
      \/ /\ selects /\ ~IsHit(k, i) /\ NeedsClose(k)
         /\ Becomes(Closing(next), {Event(CloseTime(k), b, "BANK")}) /\ UNCHANGED busVars
      \/ /\ selects /\ ~IsHit(k, i) /\ ~NeedsClose(k) /\ Becomes(Opening(next), OpenEvent(b))
         /\ UNCHANGED busVars
      \/ /\ idle /\ Becomes(Closing(k), {Event(CloseTime(k), b, "BANK")}) /\ UNCHANGED busVars
      \/ /\ idle /\ Becomes(k, {}) /\ UNCHANGED busVars
    BY DEF NextRequest
<1>3. /\ Body(b, bank[b], requests, Transfers(b), N(events, b)) /\ bank[b] \in Bank
      /\ Transfers(b) \in Nat /\ N(events, b) \in Nat /\ Requests(requests)
    BY BankIs
<1>4. S \subseteq DOMAIN requests /\ \A j \in S : requests[j].bank = b
    BY <1>3, StartedIs DEF Body, Mine
<1>5. MemoryStep(b) /\ requests' = Restrict(requests, DOMAIN requests \ S)
    BY <1>1, <1>4, MemoryCompletes
<1>6. /\ Free(b, k, requests', t2, n2) /\ Queued(k) = Queued(bank[b])
      /\ k.notifications = bank[b].notifications
    <2> DEFINE K == bank[b]
               t == Transfers(b)
               n == N(events, b)
    <2>1. /\ Body(b, K, requests, t, n) /\ t \in Nat /\ n \in Nat /\ Requests(requests)
          /\ \/ t = t2 + 1 /\ n = n2 /\ requests[K.current].read
             \/ /\ t = t2 /\ n = n2 + 1 /\ IsOpen(K)
                /\ K.current # 0 => ~requests[K.current].read
          /\ requests' = Restrict(requests, DOMAIN requests \ ({K.current} \ {0}))
        BY <1>3, <1>5
    <2> HIDE DEF K, t, n, k, S, old
    <2>2. LET k2 == [K EXCEPT !.current = 0]
          IN /\ Free(b, k2, requests', t2, n2) /\ Queued(k2) = Queued(K)
             /\ k2.notifications = K.notifications
        BY <2>1, BodyFree
    <2> QED
        BY <2>2 DEF K, k
<1> HIDE DEF k, S, old
<1>7. /\ k \in Bank /\ IsFiniteSet(k.dirty) /\ IsOpen(k) /\ Rows(k, requests')
      /\ Mine(b, k, requests') /\ \A p \in Priorities : Injective(k.queue[p])
    BY <1>6 DEF Free, Mine
<1>8. selects => /\ i \in Queued(k) /\ i \in Nat /\ i \in DOMAIN requests'
                 /\ requests'[i] = requests[i] /\ requests[i] \in Request
    <2>1. selects => i \in Queued(k) /\ i \in Nat
        BY <1>7, SelectedIs
    <2>2. \A j \in DOMAIN requests' : requests'[j] = requests[j] /\ j \in DOMAIN requests
        BY <1>5 DEF MemoryStep
    <2> QED
        BY <1>3, <1>7, <2>1, <2>2 DEF Mine, Requests
<1>9. CloseTime(k) \in Nat /\ PipelineTime \in Nat
    BY <1>7, CloseTimeIs, PipelineTimeIs
<1> HIDE DEF i
<1>10. CASE k.pipeline # <<>> /\ Becomes(head, {}) /\ UNCHANGED busVars
    <2>1. Body(b, head, requests', t2, n2) /\ Loses(k, head) /\ IsOpen(head)
        BY <1>6, <1>10, FreeHead
    <2>2. EventStep(b, n2) /\ bank' = [bank EXCEPT ![b] = head]
        BY <1>10, EventsLeft
    <2>3. BusStep(b, t2)
        BY <1>1, <1>10, BusUntouched
    <2> HIDE DEF head
    <2> QED
        BY <1>1, <1>5, <1>6, <2>1, <2>2, <2>3, StepEnds DEF IsOpen
<1>11. CASE selects /\ IsHit(k, i) /\ Becomes(Transferring(next, i), TransferEvents(b, i))
            /\ Transfer(b, i)
    <2> DEFINE k2 == Put(next, requests', i, PipelineTime)
    <2>1. Body(b, k2, requests', t2 + 1, n2) /\ Loses(k, k2) /\ IsOpen(k2)
        BY <1>6, <1>8, <1>9, <1>11, FreeHit DEF IsHit
    <2>2. bank' = [bank EXCEPT ![b] = k2]
        BY <1>8, <1>11, TransferringIs
    <2> HIDE DEF k2
    <2>3. EventStep(b, n2)
        BY <1>9, <1>11, EventsPipe
    <2>4. BusStep(b, t2 + 1)
        BY <1>8, <1>11, BusTakes DEF Request
    <2> QED
        BY <1>1, <1>5, <1>6, <2>1, <2>2, <2>3, <2>4, StepEnds DEF IsOpen
<1>12. CASE selects /\ Becomes(Closing(next), {Event(CloseTime(k), b, "BANK")}) /\ UNCHANGED busVars
    <2> DEFINE k2 == Closing(next)
    <2>1. Body(b, k2, requests', t2, n2 + 1) /\ Loses(k, k2) /\ k2.state = "CLOSING"
        BY <1>6, <1>8, <1>12, FreeClose
    <2>2. bank' = [bank EXCEPT ![b] = k2]
        BY <1>12
    <2> HIDE DEF k2
    <2>3. EventStep(b, n2 + 1)
        BY <1>9, <1>12, EventsNext
    <2>4. BusStep(b, t2)
        BY <1>1, <1>12, BusUntouched
    <2> QED
        BY <1>1, <1>5, <1>6, <2>1, <2>2, <2>3, <2>4, StepEnds
<1>13. CASE selects /\ ~NeedsClose(k) /\ Becomes(Opening(next), OpenEvent(b)) /\ UNCHANGED busVars
    <2> DEFINE k2 == Reopened(k, i, requests'[i].row)
    <2>1. /\ Body(b, k2, requests', t2, n2 + 1) /\ Loses(k, k2) /\ k2.state = "OPENING"
          /\ n2 = 0
        BY <1>6, <1>8, <1>13, FreeOpen DEF NeedsClose
    <2>2. bank' = [bank EXCEPT ![b] = k2]
        BY <1>7, <1>8, <1>13, OpeningIs
    <2> HIDE DEF k2
    <2>3. EventStep(b, n2 + 1) /\ \A e \in DOMAIN events' : IsBank(e, b) => e.time >= BusLatency
        BY <1>13, <2>1, RowOpens
    <2>4. BusStep(b, t2)
        BY <1>1, <1>13, BusUntouched
    <2> QED
        BY <1>1, <1>5, <1>6, <2>1, <2>2, <2>3, <2>4, StepEnds
<1>14. CASE idle /\ Becomes(Closing(k), {Event(CloseTime(k), b, "BANK")}) /\ UNCHANGED busVars
    <2>1. Body(b, Closing(k), requests', t2, n2 + 1) /\ Loses(k, Closing(k)) /\ Closing(k).state = "CLOSING"
        BY <1>6, <1>14, FreeIdle
    <2>2. EventStep(b, n2 + 1) /\ bank' = [bank EXCEPT ![b] = Closing(k)]
        BY <1>9, <1>14, EventsNext
    <2>3. BusStep(b, t2)
        BY <1>1, <1>14, BusUntouched
    <2> QED
        BY <1>1, <1>5, <1>6, <2>1, <2>2, <2>3, StepEnds
<1>15. CASE idle /\ Becomes(k, {}) /\ UNCHANGED busVars
    <2>1. Body(b, k, requests', t2, n2) /\ Loses(k, k)
        BY <1>6, <1>15, FreeIdle
    <2>2. EventStep(b, n2) /\ bank' = [bank EXCEPT ![b] = k]
        BY <1>15, EventsLeft
    <2>3. BusStep(b, t2)
        BY <1>1, <1>15, BusUntouched
    <2> QED
        BY <1>1, <1>5, <1>6, <1>7, <2>1, <2>2, <2>3, StepEnds DEF IsOpen
<1> QED
    BY <1>2, <1>10, <1>11, <1>12, <1>13, <1>14, <1>15

LEMMA ContinueStep ==
    ASSUME IInv, NEW b \in Banks, Continue(b)
    PROVE  IInv'
<1> DEFINE base == events (-) SetToBag({Event(0, b, "BANK")})
           t == Transfers(b)
           n == N(events, b)
<1>1. /\ Due(b, "BANK") /\ IsOpen(bank[b]) /\ calling' = calling
      /\ bank[b].current # 0 => ~requests[bank[b].current].read
      /\ NextRequest(b, base)
    BY DEF Continue
<1>2. Left(b, base, n - 1) /\ n - 1 \in Nat
    BY <1>1, EventLeft
<1> HIDE DEF base
<1>3. t \in Nat /\ n \in Nat
    BY BankIs
<1>4. now >= BusLatency
    BY <1>1, DueIs DEF IsOpen
<1>5. Returns(b, t)
    BY <1>1 DEF Returns
<1>6. Transfers(b) = t /\ N(events, b) = (n - 1) + 1
    BY <1>3
<1> HIDE DEF t, n
<1> QED
    BY <1>1, <1>2, <1>3, <1>4, <1>5, <1>6, NextRequestStep

LEMMA TransferCompletedStep ==
    ASSUME IInv, NEW b \in Banks, TransferCompleted(b)
    PROVE  IInv'
<1> DEFINE k == bank[b]
           t == Transfers(b)
           n == N(events, b)
<1>1. calling = b /\ calling' = NoBank
    BY DEF TransferCompleted
<1>2. /\ Body(b, k, requests, t, n) /\ k \in Bank /\ t \in Nat /\ n \in Nat /\ Requests(requests)
    BY BankIs
<1>3. Returns(b, t - 1) /\ t - 1 \in Nat
    BY <1>1, ReturnsIs DEF Returns
<1>4. IsOpen(k) /\ now >= BusLatency
    <2>1. IsOpen(k)
        BY <1>2, <1>3 DEF Body, Ahead
    <2> QED
        BY <2>1, DueIs DEF IsOpen
<1>5. now \in Nat /\ NoBank \notin Banks /\ AccessLatency \in Nat
    BY BankIs, MemoryAssumption
<1>6. CASE requests[k.current].read
    <2>1. NextRequest(b, events)
        BY <1>6 DEF TransferCompleted
    <2>2. Left(b, events, n)
        BY EventNone
    <2>3. Transfers(b) = (t - 1) + 1 /\ N(events, b) = n
        BY <1>2
    <2> HIDE DEF t, n
    <2> QED
        BY <1>2, <1>3, <1>4, <1>6, <2>1, <2>2, <2>3, NextRequestStep
<1>7. CASE ~requests[k.current].read
    <2> DEFINE k2 == [k EXCEPT !.nextPipelineEvent = now]
               S == {Event(AccessLatency, b, "BANK"), Event(0, b, "PIPELINE")}
    <2>1. /\ bank' = [bank EXCEPT ![b] = k2] /\ events' = events (+) SetToBag(S)
          /\ UNCHANGED <<setting, now, count, memVars, busVars>>
        BY <1>7 DEF TransferCompleted
    <2>2. Body(b, k2, requests, t - 1, n + 1) /\ Loses(k, k2) /\ IsOpen(k2)
        <3>1. t > 0
            BY <1>2, <1>3
        <3> HIDE DEF t, n, k
        <3> QED
            BY <1>2, <1>5, <1>7, <3>1, BodyWritten
    <2> HIDE DEF k2
    <2>3. Adds(b, S) /\ \E e \in S : e.kind = "BANK"
        BY <1>5 DEF Adds, Events, Event
    <2> HIDE DEF S
    <2>4. EventStep(b, n + 1)
        <3>1. EventStep(b, IF \E e \in S : e.kind = "BANK" THEN n + 1 ELSE n)
            <4>1. Left(b, events, n)
                BY EventNone
            <4> HIDE DEF n
            <4> QED
                BY <2>1, <2>3, <4>1, EventsCome
        <3> QED
            BY <2>3, <3>1
    <2>5. BusStep(b, t - 1)
        BY <1>3, <2>1, BusUntouched
    <2>6. MemoryStep(b) /\ requests' = requests
        BY <2>1, MemorySame DEF memVars
    <2> QED
        BY <1>4, <2>1, <2>2, <2>4, <2>5, <2>6, StepEnds DEF IsOpen
<1> QED
    BY <1>6, <1>7
\* The banks, their events and their requests stay as they are.
LEMMA StillSame ==
    ASSUME IInv, UNCHANGED <<setting, events, bank, count, requests, queueSizes, stalled, owner, transfers>>,
           busP!IInv', now' \in Nat, now' >= now, calling' \in Banks \cup {NoBank},
           \A c \in Banks : Transfers(c)' = Transfers(c),
           stalledCallers' \subseteq Callers, stalledCallers' # {} => stalled
    PROVE  IInv'
<1>1. Typed /\ Sizes /\ Timed /\ BanksInv /\ ReadsSeeWrites
    BY DEF IInv
<1>2. Queues' = Queues
    BY DEF Queues
<1>3. TypeOK'
    BY <1>1 DEF Typed, TypeOK
<1>4. Typed'
    BY <1>1, <1>2, <1>3 DEF Typed
<1>5. Sizes'
    BY <1>1 DEF Sizes, SizesAgree, Full, QueueOf
<1>6. Timed'
    <2>1. now \in Nat /\ BusLatency \in Nat
        BY BankIs, <1>1, MemoryAssumption DEF Typed, TypeOK
    <2>2. now >= BusLatency => now' >= BusLatency
        BY <2>1
    <2>3. now' < BusLatency => now < BusLatency
        BY <2>1
    <2> QED
        BY <1>1, <2>2, <2>3 DEF Timed
<1>7. BanksInv'
    BY <1>1 DEF BanksInv, BankEvents
<1>8. ReadsSeeWrites'
    BY <1>1 DEF ReadsSeeWrites
<1> QED
    BY <1>4, <1>5, <1>6, <1>7, <1>8 DEF IInv

LEMMA RefuseStep ==
    ASSUME IInv, NEW c \in Callers, Refuse(c)
    PROVE  IInv'
<1>1. /\ stalled /\ stalledCallers' = stalledCallers \cup {c}
      /\ UNCHANGED <<setting, now, events, bank, count, calling, requests, queueSizes, stalled>>
      /\ UNCHANGED <<slots, wakeups, transfers, requested, granted, over, owner>>
    BY DEF Refuse, busVars
<1>2. /\ now \in Nat /\ calling \in Banks \cup {NoBank} /\ stalledCallers \subseteq Callers
    BY DEF IInv, Typed, TypeOK
<1>3. busP!IInv'
    BY <1>1, BusSame DEF IInv
<1>4. \A d \in Banks : Transfers(d)' = Transfers(d)
    BY <1>1 DEF Transfers
<1> QED
    BY <1>1, <1>2, <1>3, <1>4, StillSame

LEMMA StutterStep ==
    ASSUME IInv, UNCHANGED vars
    PROVE  IInv'
<1>1. /\ UNCHANGED <<setting, now, events, bank, count, calling, requests, queueSizes, stalled, stalledCallers>>
      /\ UNCHANGED <<slots, wakeups, transfers, requested, granted, over, owner>>
    BY DEF vars, memVars, busVars
<1>2. /\ now \in Nat /\ calling \in Banks \cup {NoBank} /\ stalledCallers \subseteq Callers
      /\ stalledCallers # {} => stalled
    BY DEF IInv, Typed, TypeOK, Sizes, SizesAgree
<1>3. busP!IInv'
    BY <1>1, BusSame DEF IInv
<1>4. \A d \in Banks : Transfers(d)' = Transfers(d)
    BY <1>1 DEF Transfers
<1> QED
    BY <1>1, <1>2, <1>3, <1>4, StillSame

LEMMA AdvanceStep ==
    ASSUME IInv, Advance
    PROVE  IInv'
<1>1. /\ now' = now + 1 /\ \A w \in wakeups : w.time > now
      /\ UNCHANGED <<setting, events, bank, count, calling, requests, queueSizes, stalled, stalledCallers>>
      /\ UNCHANGED <<slots, wakeups, transfers, requested, granted, over, owner>>
    BY DEF Advance, memVars, busVars
<1>2. /\ now \in Nat /\ calling \in Banks \cup {NoBank} /\ stalledCallers \subseteq Callers
      /\ (stalledCallers # {} => stalled) /\ busP!IInv
    BY DEF IInv, Typed, TypeOK, Sizes, SizesAgree
<1>3. BusLatency \in Nat
    BY MemoryAssumption
<1>4. busP!IInv'
    <2>1. CASE now < BusLatency
        <3>1. UNCHANGED busP!vars
            BY <1>1, <1>2, <1>3, <2>1 DEF busP!vars
        <3> QED
            BY <1>2, <3>1, BusConstants, busP!NextIInv
    <2>2. CASE ~(now < BusLatency)
        <3>1. busP!Tick
            BY <1>1, <1>2, <1>3, <2>2 DEF busP!Tick
        <3> QED
            BY <1>2, <3>1, BusConstants, busP!TickStep
    <2> QED
        BY <2>1, <2>2
<1>5. \A d \in Banks : Transfers(d)' = Transfers(d)
    BY <1>1 DEF Transfers
<1>6. now' \in Nat /\ now' >= now
    BY <1>1, <1>2
<1> QED
    BY <1>1, <1>2, <1>4, <1>5, <1>6, StillSame

LEMMA BusEventStep ==
    ASSUME IInv, BusEvent
    PROVE  IInv'
<1> DEFINE t == slots[Min(DOMAIN slots)]
<1>1. /\ calling = NoBank /\ bus!Process /\ calling' = owner[t]
      /\ UNCHANGED <<setting, now, events, bank, count, owner, requests, queueSizes, stalled, stalledCallers>>
    BY DEF BusEvent, memVars
<1>2. /\ now \in Nat /\ stalledCallers \subseteq Callers /\ owner \in Seq(Banks) /\ Len(owner) = transfers
      /\ (stalledCallers # {} => stalled) /\ busP!IInv /\ NoBank \notin Banks
    BY MemoryAssumption DEF IInv, Typed, TypeOK, Sizes, SizesAgree
<1>3. /\ busP!IInv' /\ t \in 1 .. transfers /\ t \notin over /\ over' = over \cup {t}
      /\ transfers' = transfers /\ transfers \in Nat
    BY <1>1, <1>2, BusOver
<1> HIDE DEF t
<1>4. calling' \in Banks
    BY <1>1, <1>2, <1>3
<1>5. ASSUME NEW c \in Banks PROVE Transfers(c)' = Transfers(c)
    <2>1. Transfers(c)' = Cardinality(OpenOf(transfers, over \cup {t}, owner, c))
                            + (IF owner[t] = c THEN 1 ELSE 0)
        BY <1>1, <1>3 DEF Transfers, OpenOf
    <2>2. Transfers(c) = Cardinality(OpenOf(transfers, over, owner, c))
        <3>1. Cardinality(OpenOf(transfers, over, owner, c)) \in Nat
            BY <1>3, OpenCount
        <3> QED
            BY <1>1, <1>2, <3>1, TransfersAre
    <2>3. Cardinality(OpenOf(transfers, over \cup {t}, owner, c)) =
              IF owner[t] = c THEN Cardinality(OpenOf(transfers, over, owner, c)) - 1
              ELSE Cardinality(OpenOf(transfers, over, owner, c))
        BY <1>3, OpenOver
    <2>4. Cardinality(OpenOf(transfers, over, owner, c)) \in Nat
        BY <1>3, OpenCount
    <2> QED
        BY <2>1, <2>2, <2>3, <2>4
<1> QED
    BY <1>1, <1>2, <1>3, <1>4, <1>5, StillSame
\* What a new request i does to its bank.
IsTaken(b, i, input, k2, m) ==
    /\ bank' = [bank EXCEPT ![b] = k2]
    /\ Body(b, k2, requests', Transfers(b), m)
    /\ Queued(k2) \subseteq Queued(bank[b]) \cup {i}
    /\ bank[b].notifications \subseteq k2.notifications /\ k2.state = bank[b].state
    /\ IsForwarded(input) => i \in k2.notifications
    /\ EventStep(b, m)
    /\ bank[b].state = "OPENING" => \A e \in DOMAIN events' : IsBank(e, b) => e \in DOMAIN events

LEMMA ForwardIs ==
    ASSUME IInv, NEW i \in Nat \ {0}, i \notin DOMAIN requests, NEW input, NEW b \in Banks,
           i \in DOMAIN requests', requests'[i].bank = b,
           \A j \in DOMAIN requests : j \in DOMAIN requests' /\ requests'[j] = requests[j],
           Forward(i, b)
    PROVE  \E k2, m : IsTaken(b, i, input, k2, m)
<1> DEFINE k == bank[b]
           t == Transfers(b)
           n == N(events, b)
           k2 == [k EXCEPT !.notifications = k.notifications \cup {i}]
           S == IF k.notifications = {} THEN {Event(0, b, "QUEUE")} ELSE {}
<1>1. /\ Body(b, k, requests, t, n) /\ k \in Bank /\ t \in Nat /\ n \in Nat /\ Requests(requests)
      /\ now \in Nat /\ Counted(events)
    BY BankIs
<1>2. bank' = [bank EXCEPT ![b] = k2]
    BY DEF Forward
<1>3. events' = IF k.notifications = {} THEN events (+) SetToBag({Event(0, b, "QUEUE")}) ELSE events
    BY DEF Forward
<1>4. /\ Body(b, k2, requests', t, n) /\ Queued(k2) = Queued(k) /\ k2.state = k.state
      /\ k2.notifications = k.notifications \cup {i}
    <2> HIDE DEF t, n, k
    <2> QED
        BY <1>1, BodyForward
<1> HIDE DEF k2
<1>5. Left(b, events, n)
    BY EventNone
<1>6. EventStep(b, n) /\ \A e \in DOMAIN events' : IsBank(e, b) => e \in DOMAIN events
    <2>1. CASE k.notifications = {}
        <3> DEFINE R == {Event(0, b, "QUEUE")}
        <3>1. Adds(b, R) /\ \A e \in R : e.kind # "BANK"
            BY <1>1 DEF Adds, Events, Event
        <3>2. events' = events (+) SetToBag(R)
            BY <1>3, <2>1
        <3> HIDE DEF R, n
        <3>3. /\ EventStep(b, IF \E e \in R : e.kind = "BANK" THEN n + 1 ELSE n)
              /\ DOMAIN events' = DOMAIN events \cup R
            BY <1>5, <3>1, <3>2, EventsCome
        <3> QED
            BY <3>1, <3>3 DEF IsBank
    <2>2. CASE k.notifications # {}
        BY <1>1, <1>3, <2>2, BankIs DEF EventStep
    <2> QED
        BY <2>1, <2>2
<1>7. IsTaken(b, i, input, k2, n)
    BY <1>2, <1>4, <1>6 DEF IsTaken
<1> QED
    BY <1>7

LEMMA EnqueueIs ==
    ASSUME IInv, NEW i \in Nat \ {0}, i \notin DOMAIN requests, NEW input \in Request,
           i \in DOMAIN requests', requests'[i].bank = input.bank,
           \A j \in DOMAIN requests : j \in DOMAIN requests' /\ requests'[j] = requests[j],
           ~IsForwarded(input), Enqueue(i, input)
    PROVE  \E k2, m : IsTaken(input.bank, i, input, k2, m)
<1> DEFINE b == input.bank
           p == input.priority
           k == bank[b]
           t == Transfers(b)
           n == N(events, b)
           pipes == IsOpen(k) /\ k.current # 0 /\ input.row = k.row /\ k.nextPipelineEvent < now
           x == IF pipes THEN now ELSE k.nextPipelineEvent
           k2 == [k EXCEPT !.queue = [k.queue EXCEPT ![p] = Append(k.queue[p], i)],
                           !.nextPipelineEvent = x]
           S == (IF Wakes(k) THEN {Event(0, b, "BANK")} ELSE {})
                   \cup (IF pipes THEN {Event(0, b, "PIPELINE")} ELSE {})
           m == IF Wakes(k) THEN n + 1 ELSE n
<1>1. b \in Banks /\ p \in Priorities
    BY DEF Request
<1>2. /\ Body(b, k, requests, t, n) /\ k \in Bank /\ t \in Nat /\ n \in Nat /\ Requests(requests)
      /\ now \in Nat
    BY <1>1, BankIs
<1>3. x \in Nat
    BY <1>2, BankFields
<1>4. bank' = [bank EXCEPT ![b] = k2] /\ events' = events (+) SetToBag(S)
    BY DEF Enqueue
<1>5. /\ Body(b, k2, requests', t, m) /\ Queued(k2) = Queued(k) \cup {i}
      /\ k2.state = k.state /\ k2.notifications = k.notifications
    <2> HIDE DEF b, p, k, t, n, x
    <2>1. requests'[i].bank = b
        BY DEF b
    <2>2. IsQueued(b, k, requests', i, k2, t, m)
        BY <1>1, <1>2, <1>3, <2>1, BodyEnqueue
    <2> HIDE DEF k2, m
    <2> QED
        BY <2>2 DEF IsQueued
<1> HIDE DEF k2
<1>6. Left(b, events, n)
    BY <1>1, EventNone
<1> DEFINE bankEvent == Event(0, b, "BANK")
           pipeEvent == Event(0, b, "PIPELINE")
<1>7. /\ bankEvent \in Events /\ bankEvent.bank = b /\ bankEvent.kind = "BANK"
      /\ pipeEvent \in Events /\ pipeEvent.bank = b /\ pipeEvent.kind = "PIPELINE"
    BY <1>1, <1>2 DEF Events, Event
<1>8. /\ \A e \in S : (e = bankEvent /\ Wakes(k)) \/ e = pipeEvent
      /\ Wakes(k) => bankEvent \in S
    OBVIOUS
<1>9. events' = events (+) SetToBag(S)
    BY <1>4
<1> HIDE DEF S, bankEvent, pipeEvent
<1>10. Adds(b, S)
    <2>1. \A e \in S : e \in Events /\ e.bank = b
        BY <1>7, <1>8
    <2>2. \A e, f \in S : e.kind = "BANK" /\ f.kind = "BANK" => e = f
        BY <1>7, <1>8
    <2> QED
        BY <2>1, <2>2 DEF Adds
<1>11. /\ (\E e \in S : e.kind = "BANK") <=> Wakes(k)
       /\ \A e \in S : e.kind = "BANK" => Wakes(k)
    BY <1>7, <1>8
<1>12. /\ EventStep(b, m)
       /\ bank[b].state = "OPENING" => \A e \in DOMAIN events' : IsBank(e, b) => e \in DOMAIN events
    <2>1. /\ EventStep(b, IF \E e \in S : e.kind = "BANK" THEN n + 1 ELSE n)
          /\ DOMAIN events' = DOMAIN events \cup S
        <3> HIDE DEF b, n
        <3> QED
            BY <1>1, <1>6, <1>9, <1>10, EventsCome
    <2> QED
        BY <1>11, <2>1 DEF Wakes, IsBank
<1>13. IsTaken(b, i, input, k2, m)
    BY <1>4, <1>5, <1>12 DEF IsTaken
<1> QED
    BY <1>13

LEMMA AccessStep ==
    ASSUME IInv, NEW input \in Inputs, Access(input)
    PROVE  IInv'
<1> DEFINE i == count + 1
           b == input.bank
           k == bank[b]
<1>1. /\ count < MaxRequests /\ count' = i
      /\ requests' = [j \in DOMAIN requests \cup {i} |-> IF j = i THEN input ELSE requests[j]]
      /\ IF IsForwarded(input) THEN Forward(i, b) ELSE Enqueue(i, input)
      /\ UNCHANGED <<setting, now, calling, stalledCallers>>
      /\ UNCHANGED <<slots, wakeups, transfers, requested, granted, over, owner>>
    BY DEF Access, busVars
<1>2. input \in Request /\ b \in Banks
    BY MemoryAssumption DEF Request
<1>3. Typed /\ Sizes /\ Timed /\ busP!IInv /\ ReadsSeeWrites /\ TypeOK
    BY DEF IInv, Typed
<1>4. /\ i \in Nat \ {0} /\ i \notin DOMAIN requests /\ Requests(requests) /\ count \in Nat
      /\ DOMAIN requests \subseteq 1 .. count
    BY <1>3, FewRequests DEF TypeOK
<1>5. /\ Requests(requests') /\ DOMAIN requests' = DOMAIN requests \cup {i} /\ requests'[i] = input
      /\ \A j \in DOMAIN requests : requests'[j] = requests[j]
    BY <1>1, <1>2, <1>4, NewRequest
<1> HIDE DEF i
<1>6. PICK k2, m : IsTaken(b, i, input, k2, m)
    <2>1. CASE IsForwarded(input)
        BY <1>1, <1>2, <1>4, <1>5, <2>1, ForwardIs
    <2>2. CASE ~IsForwarded(input)
        BY <1>1, <1>2, <1>4, <1>5, <2>2, EnqueueIs
    <2> QED
        BY <2>1, <2>2
<1>7. /\ bank' = [bank EXCEPT ![b] = k2] /\ Body(b, k2, requests', Transfers(b), m)
      /\ Queued(k2) \subseteq Queued(k) \cup {i} /\ k.notifications \subseteq k2.notifications
      /\ k2.state = k.state
      /\ IsForwarded(input) => i \in k2.notifications
      /\ EventStep(b, m)
      /\ k.state = "OPENING" => \A e \in DOMAIN events' : IsBank(e, b) => e \in DOMAIN events
    BY <1>6 DEF IsTaken
<1>8. bank'[b] = k2 /\ bank' = [bank EXCEPT ![b] = bank'[b]] /\ bank \in [Banks -> Bank]
    BY <1>2, <1>7, BankBecomes, BankIs
<1>9. \A c \in Banks : Transfers(c)' = Transfers(c)
    BY <1>1 DEF Transfers
<1>10. BanksInv' /\ \A c \in Banks : c # b => bank'[c] = bank[c]
    <2>1. Body(b, bank'[b], requests', Transfers(b)', N(events', b))
        BY <1>2, <1>7, <1>8, <1>9 DEF EventStep
    <2>2. \A c \in Banks : c # b => Transfers(c)' = Transfers(c) /\ N(events', c) = N(events, c)
        BY <1>7, <1>9 DEF EventStep
    <2> QED
        BY <1>2, <1>5, <1>8, <2>1, <2>2, OneBank
<1>11. /\ Sizes' /\ Queues' = Queues /\ DOMAIN queueSizes' = Queues /\ stalled' \in BOOLEAN
       /\ \A q \in Queues : queueSizes'[q] \in 0 .. setting.maxQueueSize
    BY <1>3, SizesAccess
<1>12. Typed'
    <2>1. bank' \in [Banks -> Bank]
        BY <1>2, <1>7, <1>8 DEF Body
    <2>2. IsABag(events') /\ BagToSet(events') \subseteq Events
        BY <1>7 DEF EventStep, Counted, BagToSet
    <2>3. count' \in 0 .. MaxRequests /\ DOMAIN requests' \subseteq 1 .. count'
        BY <1>1, <1>4, <1>5, MemoryAssumption DEF i
    <2>4. TypeOK'
        BY <1>1, <1>3, <1>11, <2>1, <2>2, <2>3 DEF TypeOK, Events
    <2>5. \A c \in Banks : IsFiniteSet(BankCopies(events', c))
        BY <1>7 DEF EventStep, Counted
    <2> QED
        BY <1>1, <1>3, <1>5, <1>11, <2>4, <2>5 DEF Typed, Requests
<1>13. busP!IInv'
    BY <1>1, <1>3, BusSame
<1>14. Timed'
    <2>1. \A c \in Banks : bank'[c].state = bank[c].state
        BY <1>7, <1>8, <1>10
    <2>2. ASSUME NEW e \in DOMAIN events', e.kind = "BANK", bank'[e.bank].state = "OPENING"
          PROVE  e.time >= BusLatency
        <3>1. e.bank \in Banks
            BY <1>7 DEF EventStep, Events
        <3>2. e \in DOMAIN events /\ bank[e.bank].state = "OPENING"
            BY <1>7, <2>1, <2>2, <3>1 DEF EventStep, IsBank
        <3> QED
            BY <1>3, <2>2, <3>2 DEF Timed, BagToSet
    <2> QED
        BY <1>1, <1>3, <2>1, <2>2 DEF Timed, BagToSet
<1>15. ReadsSeeWrites'
    <2> SUFFICES ASSUME NEW j \in DOMAIN requests', NEW w \in DOMAIN requests', w < j,
                        requests'[j].read, ~requests'[w].read,
                        requests'[j].bank = requests'[w].bank,
                        SameBlock(requests'[j], requests'[w]),
                        w \in Queued(bank'[requests'[w].bank])
                 PROVE  j \in bank'[requests'[j].bank].notifications
        BY DEF ReadsSeeWrites
    <2> DEFINE c == requests'[j].bank
    <2>1. w \in DOMAIN requests /\ requests'[w] = requests[w] /\ w # i
        BY <1>4, <1>5 DEF i
    <2>2. c \in Banks
        BY <1>5 DEF Requests, Request
    <2>3. w \in Queued(bank[c])
        BY <1>7, <1>8, <1>10, <2>1, <2>2
    <2>4. CASE j = i
        <3>1. c = b /\ input.read /\ SameBlock(input, requests[w]) /\ ~requests[w].read
            BY <1>5, <2>1, <2>4
        <3>2. IsForwarded(input)
            BY <2>3, <3>1 DEF IsForwarded
        <3> QED
            BY <1>7, <1>8, <2>4, <3>1, <3>2
    <2>5. CASE j # i
        <3>1. j \in DOMAIN requests /\ requests'[j] = requests[j]
            BY <1>5, <2>5
        <3>2. j \in bank[c].notifications
            BY <1>3, <2>1, <2>3, <3>1 DEF ReadsSeeWrites
        <3> QED
            BY <1>7, <1>8, <1>10, <2>2, <3>2
    <2> QED
        BY <2>4, <2>5
<1> QED
    BY <1>10, <1>11, <1>12, <1>13, <1>14, <1>15 DEF IInv
LEMMA InitIInv == Init => IInv
<1> SUFFICES ASSUME Init PROVE IInv
    OBVIOUS
<1> DEFINE q0 == [p \in Priorities |-> <<>>]
           k0 == [state |-> "CLOSED", row |-> 0, current |-> 0, pipeline |-> <<>>,
                  queue |-> q0, dirty |-> {}, nextPipelineEvent |-> 0, notifications |-> {}]
<1>1. /\ setting \in Settings /\ now = 0 /\ events = EmptyBag /\ bank = [b \in Banks |-> k0]
      /\ requests = <<>> /\ count = 0 /\ queueSizes = [q \in Queues |-> 0]
      /\ stalled = FALSE /\ stalledCallers = {} /\ calling = NoBank /\ owner = <<>>
      /\ slots = <<>> /\ wakeups = {} /\ transfers = 0
      /\ requested = <<>> /\ granted = <<>> /\ over = {}
    BY DEF Init, Queues
<1>2. /\ MaxRequests \in Nat /\ BusLatency \in Nat \ {0} /\ NoBank \notin Banks
      /\ setting.maxQueueSize \in Nat \ {0}
    BY <1>1, MemoryAssumption
<1>3. DOMAIN events = {} /\ IsABag(events)
    BY <1>1 DEF EmptyBag, SetToBag, IsABag
<1>4. q0 \in [Priorities -> Seq(Nat)] /\ \A p \in Priorities : q0[p] = <<>>
    OBVIOUS
<1>5. k0 \in Bank
    BY <1>4 DEF Bank
<1>6. /\ k0.queue = q0 /\ k0.state = "CLOSED" /\ k0.current = 0 /\ k0.pipeline = <<>>
      /\ k0.dirty = {} /\ k0.notifications = {}
    OBVIOUS
<1> HIDE DEF k0, q0
<1>7. Queued(k0) = {} /\ Started(k0) = {}
    BY <1>4, <1>6 DEF Queued, Started, Range
<1>8. \A b \in Banks : Mine(b, k0, requests)
    BY <1>4, <1>6, <1>7 DEF Mine, Injective, Range
<1>9. \A b \in Banks : Transfers(b) = 0
    <2> SUFFICES ASSUME NEW b \in Banks PROVE Transfers(b) = 0
        OBVIOUS
    <2>1. {t \in 1 .. transfers : t \notin over /\ owner[t] = b} = {}
        BY <1>1
    <2> QED
        BY <1>1, <1>2, <2>1, FS_EmptySet DEF Transfers
<1>10. \A b \in Banks : BankCopies(events, b) = {}
    BY <1>3 DEF BankCopies, BagToSet
<1>11. \A b \in Banks : BankEvents(b) = 0
    BY <1>10, FS_EmptySet DEF BankEvents
<1>12. BanksInv
    <2> SUFFICES ASSUME NEW b \in Banks PROVE Body(b, k0, requests, 0, 0)
        BY <1>1, <1>9, <1>11 DEF BanksInv
    <2> QED
        BY <1>5, <1>6, <1>7, <1>8, BodyShut
<1>13. Typed
    <2>1. TypeOK
        <3>1. bank \in [Banks -> Bank] /\ BagToSet(events) = {}
            BY <1>1, <1>3, <1>5 DEF BagToSet
        <3>2. DOMAIN requests = {} /\ owner \in Seq(Banks)
            BY <1>1
        <3>3. \A q \in DOMAIN queueSizes : queueSizes[q] \in 0 .. setting.maxQueueSize
            BY <1>1, <1>2
        <3>4. now \in Nat /\ count \in 0 .. MaxRequests
            BY <1>1, <1>2
        <3>5. stalled \in BOOLEAN /\ stalledCallers \subseteq Callers /\ calling \in Banks \cup {NoBank}
            BY <1>1, Zenon
        <3> QED
            BY <1>1, <1>3, <3>1, <3>2, <3>3, <3>4, <3>5 DEF TypeOK
    <2>2. \A b \in Banks : IsFiniteSet(BankCopies(events, b))
        BY <1>10, FS_EmptySet
    <2> QED
        BY <1>1, <2>1, <2>2 DEF Typed
<1>14. Timed
    BY <1>1, <1>3, <1>6 DEF Timed, BagToSet
<1>15. Sizes
    <2>1. \A q : {i \in DOMAIN requests : QueueOf(requests[i].bank) = q} = {}
        BY <1>1
    <2>2. \A q \in DOMAIN queueSizes : ~Full(queueSizes[q]) /\ queueSizes[q] = 0
        BY <1>1, <1>2 DEF Full
    <2> QED
        BY <1>1, <2>1, <2>2, FS_EmptySet DEF Sizes, SizesAgree
<1>16. ReadsSeeWrites
    BY <1>1 DEF ReadsSeeWrites
<1>17. busP!IInv
    <2>1. busP!Init
        BY <1>1, <1>2 DEF busP!Init
    <2> QED
        BY <2>1, BusConstants, busP!InitIInv
<1> QED
    BY <1>12, <1>13, <1>14, <1>15, <1>16, <1>17 DEF IInv

LEMMA NextIInv == IInv /\ [Next]_vars => IInv'
<1> SUFFICES ASSUME IInv, [Next]_vars PROVE IInv'
    OBVIOUS
<1>1. ASSUME NEW c \in Callers, Refuse(c) PROVE IInv'
    BY <1>1, RefuseStep
<1>2. ASSUME NEW input \in Inputs, Access(input) PROVE IInv'
    BY <1>2, AccessStep
<1>3. ASSUME NEW b \in Banks, BankEvent(b) PROVE IInv'
    BY <1>3, OpenStep, OpenedStep, ContinueStep, ClosedStep, NotifyStep, PipelineStep DEF BankEvent
<1>4. CASE BusEvent
    BY <1>4, BusEventStep
<1>5. ASSUME NEW b \in Banks, TransferCompleted(b) PROVE IInv'
    BY <1>5, TransferCompletedStep
<1>6. CASE Advance
    BY <1>6, AdvanceStep
<1>7. CASE UNCHANGED vars
    BY <1>7, StutterStep
<1> QED
    BY <1>1, <1>2, <1>3, <1>4, <1>5, <1>6, <1>7 DEF Next

\* The inductive invariant of the memory, its bus and its banks (Memory.cpp, Bank.cpp,
\* Bus.cpp).
THEOREM Invariance == Spec => []IInv
BY InitIInv, NextIInv, PTL DEF Spec

\* What the handlers leave behind keeps its type, and no queue grows beyond its
\* limit (Memory.cpp 157-239).
THEOREM TypeCorrect == Spec => []TypeOK
<1>1. IInv => TypeOK
    BY DEF IInv, Typed
<1> QED
    BY <1>1, Invariance, PTL

\* The sizes of the queues are the numbers of their requests and those refused are
\* remembered while one is full; every bank waits for one thing for each request it
\* has started, which is what the assertions of process and transferCompleted ask
\* (Bank.cpp 461, 468, 584); and what it has started is for the open row.
THEOREM BanksAlwaysAgree == Spec => []BanksAgree
<1>1. IInv => OneStepAhead
    <2> SUFFICES ASSUME IInv, NEW b \in Banks
                 PROVE  LET k == bank[b]
                            reads == k.current # 0 /\ requests[k.current].read
                        IN CASE k.state = "CLOSED" ->
                                  k.current = 0 /\ Transfers(b) = 0
                                  /\ BankEvents(b) = IF Queued(k) = {} THEN 0 ELSE 1
                             [] k.state = "OPENING" -> k.current # 0 /\ Transfers(b) = 0 /\ BankEvents(b) = 1
                             [] k.state = "CLOSING" -> Transfers(b) = 0 /\ BankEvents(b) = 1
                             [] IsOpen(k) /\ k.current = 0 ->
                                  k.pipeline = <<>> /\ Transfers(b) = 0
                                  /\ BankEvents(b) = IF Queued(k) = {} THEN 0 ELSE 1
                             [] OTHER ->
                                  /\ Transfers(b) + BankEvents(b) = 1 + Len(k.pipeline)
                                  /\ reads => BankEvents(b) = 0
        BY DEF OneStepAhead
    <2> DEFINE k == bank[b]
               t == Transfers(b)
               n == BankEvents(b)
    <2>1. Ahead(k, requests, t, n) /\ k.state \in {"CLOSED", "OPENING", "OPEN_CLEAN", "OPEN_DIRTY", "CLOSING"}
        BY BankFields DEF IInv, BanksInv, Body
    <2> HIDE DEF k, t, n
    <2>2. k.state = "CLOSED" => k.current = 0 /\ t = 0 /\ n = IF Queued(k) = {} THEN 0 ELSE 1
        BY <2>1 DEF Ahead, IsOpen
    <2>3. k.state = "OPENING" => k.current # 0 /\ t = 0 /\ n = 1
        BY <2>1 DEF Ahead, IsOpen
    <2>4. k.state = "CLOSING" => t = 0 /\ n = 1
        BY <2>1 DEF Ahead, IsOpen
    <2>5. IsOpen(k) /\ k.current = 0 =>
              k.pipeline = <<>> /\ t = 0 /\ n = IF Queued(k) = {} THEN 0 ELSE 1
        BY <2>1 DEF Ahead, IsOpen
    <2>6. IsOpen(k) /\ k.current # 0 =>
              t + n = 1 + Len(k.pipeline) /\ (requests[k.current].read => n = 0)
        BY <2>1 DEF Ahead
    <2>7. k.state \in {"CLOSED", "OPENING", "CLOSING"} \/ IsOpen(k)
        BY <2>1 DEF IsOpen
    <2> QED
        BY <2>2, <2>3, <2>4, <2>5, <2>6, <2>7 DEF k, t, n, IsOpen
<1>2. IInv => RowsAgree
    <2> SUFFICES ASSUME IInv, NEW b \in Banks
                 PROVE  LET k == bank[b]
                            started == (Range(k.pipeline) \cup {k.current}) \ {0}
                        IN /\ IsOpen(k) => \A i, j \in started :
                                  IsHit(k, i) /\ requests[i].read = requests[j].read
                           /\ (k.dirty # {}) <=> (k.state = "OPEN_DIRTY")
                           /\ IsOpen(k) => \A i \in started : requests[i].read \/ requests[i].column \in k.dirty
        BY DEF RowsAgree
    <2> DEFINE k == bank[b]
    <2>1. Rows(k, requests)
        BY DEF IInv, BanksInv, Body
    <2>2. (Range(k.pipeline) \cup {k.current}) \ {0} \subseteq Started(k)
        BY DEF Started
    <2> HIDE DEF k
    <2>3. LET started == (Range(k.pipeline) \cup {k.current}) \ {0}
          IN /\ IsOpen(k) => \A i, j \in started :
                    IsHit(k, i) /\ requests[i].read = requests[j].read
             /\ (k.dirty # {}) <=> (k.state = "OPEN_DIRTY")
             /\ IsOpen(k) => \A i \in started : requests[i].read \/ requests[i].column \in k.dirty
        BY <2>1, <2>2 DEF Rows, IsHit
    <2> QED
        BY <2>3 DEF k
<1>3. IInv => BanksAgree
    BY <1>1, <1>2 DEF IInv, Sizes, BanksAgree
<1> QED
    BY <1>3, Invariance, PTL

\* A read never gets the old contents of its block: while an earlier write of it is
\* queued, the read is one of those the write has answered (Bank.cpp 184-207).
THEOREM ReadsAlwaysSeeWrites == Spec => []ReadsSeeWrites
<1>1. IInv => ReadsSeeWrites
    BY DEF IInv
<1> QED
    BY <1>1, Invariance, PTL

-----------------------------------------------------------------------------
(* The bus *)

\* What a step of the memory is to the bus.
BusDoes == bus!Works \/ UNCHANGED bus!vars

LEMMA TransferBooks ==
    ASSUME NEW b, NEW i, Transfer(b, i)
    PROVE  BusDoes
<1> DEFINE d == IF requests[i].read THEN AccessLatency ELSE 0
<1>1. bus!Schedule(d) /\ d \in {0, AccessLatency}
    BY DEF Transfer
<1> QED
    BY <1>1, Zenon DEF BusDoes, bus!Works

LEMMA BusIdle ==
    ASSUME UNCHANGED <<now, busVars>>
    PROVE  BusDoes
<1>1. UNCHANGED bus!vars
    BY DEF busVars, bus!vars
<1> QED
    BY <1>1 DEF BusDoes

LEMMA NextRequestBooks ==
    ASSUME NEW b, NEW base, NextRequest(b, base)
    PROVE  BusDoes
<1>1. now' = now /\ (UNCHANGED busVars \/ \E i : Transfer(b, i))
    BY Zenon DEF NextRequest
<1> QED
    BY <1>1, TransferBooks, BusIdle

LEMMA AdvanceTicks ==
    ASSUME IInv, Advance
    PROVE  BusDoes
<1>1. now' = now + 1 /\ (\A w \in wakeups : w.time > now)
      /\ UNCHANGED <<slots, wakeups, transfers, requested, granted, over>>
    BY DEF Advance, busVars
<1>2. now \in Nat /\ BusLatency \in Nat
    BY MemoryAssumption DEF IInv, Typed, TypeOK
<1>3. CASE now < BusLatency
    <2>1. UNCHANGED bus!vars
        BY <1>1, <1>2, <1>3 DEF bus!vars
    <2> QED
        BY <2>1 DEF BusDoes
<1>4. CASE ~(now < BusLatency)
    <2>1. bus!Tick
        BY <1>1, <1>2, <1>4 DEF bus!Tick
    <2> QED
        BY <2>1 DEF BusDoes, bus!Works
<1> QED
    BY <1>3, <1>4

\* The banks book the bus and are called back as Bus says, and before BusLatency
\* nothing is booked (Bus.cpp:31): a step of the memory is a step of the bus or none.
THEOREM BusIsUsedRightly == Spec => UsesBus
<1>1. Init => bus!Init
    BY MemoryAssumption DEF Init, bus!Init
<1>2. IInv /\ [Next]_vars => [bus!Works]_(bus!vars)
    <2> SUFFICES ASSUME IInv, [Next]_vars PROVE BusDoes
        BY DEF BusDoes
    <2>1. ASSUME NEW c \in Callers, Refuse(c) PROVE BusDoes
        BY <2>1, BusIdle DEF Refuse
    <2>2. ASSUME NEW input \in Inputs, Access(input) PROVE BusDoes
        BY <2>2, BusIdle DEF Access
    <2>3. ASSUME NEW b \in Banks, BankEvent(b) PROVE BusDoes
        <3>1. CASE Open(b) \/ Closed(b) \/ Notify(b)
            BY <3>1, BusIdle DEF Open, Closed, Notify
        <3>2. CASE Opened(b)
            BY <3>2, TransferBooks DEF Opened
        <3>3. CASE Continue(b)
            BY <3>3, NextRequestBooks DEF Continue
        <3>4. CASE Pipeline(b)
            <4>1. now' = now /\ (UNCHANGED busVars \/ \E i : Transfer(b, i))
                BY <3>4, Zenon DEF Pipeline
            <4> QED
                BY <4>1, TransferBooks, BusIdle
        <3> QED
            BY <2>3, <3>1, <3>2, <3>3, <3>4 DEF BankEvent
    <2>4. CASE BusEvent
        BY <2>4 DEF BusEvent, BusDoes, bus!Works
    <2>5. ASSUME NEW b \in Banks, TransferCompleted(b) PROVE BusDoes
        <3>1. NextRequest(b, events) \/ UNCHANGED <<now, busVars>>
            BY <2>5, Zenon DEF TransferCompleted
        <3> QED
            BY <3>1, NextRequestBooks, BusIdle
    <2>6. CASE Advance
        BY <2>6, AdvanceTicks
    <2>7. CASE UNCHANGED vars
        BY <2>7, BusIdle DEF vars
    <2> QED
        BY <2>1, <2>2, <2>3, <2>4, <2>5, <2>6, <2>7 DEF Next
<1>3. IInv => (now < BusLatency => transfers = 0)
    BY DEF IInv, Timed
<1> QED
    BY <1>1, <1>2, <1>3, Invariance, PTL DEF Spec, UsesBus, bus!Unbounded

\* And so what is proved of the bus holds here: no two transfers of the banks share a
\* cycle of the bus, and the assertions of Bus::process cannot fail.
THEOREM BusIsExclusiveHere == Spec => [](busP!NoOverlap /\ busP!DueFirst)
<1>1. IInv => busP!NoOverlap
    BY DEF IInv, busP!IInv
<1>2. IInv => busP!DueFirst
    BY BusConstants, busP!FirstIsDue DEF IInv, busP!DueFirst
<1>3. IInv => busP!NoOverlap /\ busP!DueFirst
    BY <1>1, <1>2
<1> QED
    BY <1>3, Invariance, PTL
=============================================================================
