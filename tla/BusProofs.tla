----------------------------- MODULE BusProofs -----------------------------
(***************************************************************************)
(* Proofs about Bus, for every latency and every set of delays.  NoOverlap *)
(* is about all the transfers ever booked, the code looks at the pending   *)
(* ones only; the invariant ties the two together: the queue holds exactly *)
(* the transfers not yet called back, at the slots they were granted, and  *)
(* the others ended in the past.                                           *)
(***************************************************************************)
EXTENDS Bus, TLAPS, WellFoundedInduction

Open == Transfers \ completed

QueueInv ==
    /\ \A k \in Booked : queue[k] \in Open /\ granted[queue[k]] = k
    /\ \A i \in Open : granted[i] \in Booked /\ queue[granted[i]] = i

WakeupInv ==
    /\ \A w \in wakeups : w.of \in Open /\ w.time = granted[w.of] + Latency
    /\ \A i \in Open : [time |-> granted[i] + Latency, of |-> i] \in wakeups

TimeInv ==
    /\ now >= Latency
    /\ \A i \in Open : granted[i] + Latency >= now
    /\ \A i \in completed : granted[i] + Latency <= now
    /\ \A i \in Transfers : granted[i] >= requested[i]

IInv ==
    /\ TypeOK
    /\ \E b \in Nat : \A k \in Booked : k <= b
    /\ QueueInv
    /\ WakeupInv
    /\ TimeInv
    /\ NoOverlap

-----------------------------------------------------------------------------

LEMMA MinNat ==
  ASSUME NEW S \in SUBSET Nat, S # {}
  PROVE  Min(S) \in S /\ \A y \in S : Min(S) <= y
<1>1. PICK x \in S : \A y \in S : ~ (<<y, x>> \in OpToRel(<, Nat))
  BY NatLessThanWellFounded, WFMin
<1>2. \A y \in S : x <= y
  <2>1. SUFFICES ASSUME NEW y \in S, ~ (x <= y)
                 PROVE  FALSE
    OBVIOUS
  <2>2. y \in Nat /\ x \in Nat /\ y < x
    BY <2>1
  <2>3. <<y, x>> \in OpToRel(<, Nat)
    BY <2>2 DEF OpToRel
  <2> QED
    BY <1>1, <2>3
<1> QED
  BY <1>2 DEF Min

\* A finite non-empty set of naturals has a greatest element: the one nearest
\* to any upper bound of it.
LEMMA LastOne ==
  ASSUME NEW S \in SUBSET Nat, S # {}, NEW b \in Nat, \A y \in S : y <= b
  PROVE  \E x \in S : \A y \in S : y <= x
<1> DEFINE T == {b - y : y \in S}
<1>1. T \in SUBSET Nat /\ T # {}
  <2>1. \A y \in S : b - y \in Nat
    OBVIOUS
  <2> QED
    BY <2>1
<1>2. Min(T) \in T /\ \A z \in T : Min(T) <= z
  BY <1>1, MinNat
<1>3. PICK x \in S : Min(T) = b - x
  BY <1>2
<1>4. \A y \in S : b - x <= b - y
  BY <1>2, <1>3
<1> QED
  BY <1>4

\* What schedule computes: a slot no earlier than asked for, clear of all that
\* is booked, and right behind a booked one if it is later than asked for.
LEMMA FreeSlotIsFree ==
  ASSUME Booked \subseteq Nat, \E b \in Nat : \A k \in Booked : k <= b,
         NEW start \in Nat, start >= Latency,
         \A a, b \in Booked : a # b => a >= b + Latency \/ b >= a + Latency
  PROVE  /\ FreeSlot(start) \in Nat
         /\ FreeSlot(start) >= start
         /\ \A k \in Booked : FreeSlot(start) >= k + Latency \/ k >= FreeSlot(start) + Latency
<1> USE BusAssumption
<1>1. CASE Candidates(start) = {}
  <2>1. FreeSlot(start) = start
    BY <1>1 DEF FreeSlot
  <2>2. \A k \in Booked : k < start - Latency
    BY <1>1 DEF Candidates
  <2> QED
    BY <2>1, <2>2
<1>2. CASE Candidates(start) # {}
  <2> DEFINE C == Candidates(start)
             S == {k \in C : StopsAt(k, start)}
  <2>1. C \in SUBSET Nat /\ C # {} /\ C \in SUBSET Booked
    BY <1>2 DEF Candidates
  <2>2. PICK last \in C : \A y \in C : y <= last
    <3>1. PICK b \in Nat : \A y \in C : y <= b
      BY <2>1
    <3> HIDE DEF C
    <3> QED
      BY <2>1, <3>1, LastOne
  <2>3. last \in S
    <3>1. \A next \in Booked : next > last => next \in C
      BY <2>1, <2>2 DEF Candidates
    <3> QED
      BY <2>1, <2>2, <3>1 DEF StopsAt
  <2>4. S \in SUBSET Nat /\ S # {}
    BY <2>1, <2>3
  <2> DEFINE it == Min(S)
  <2>5. it \in S
    BY <2>4, MinNat
  <2>6. FreeSlot(start) = it + Latency
    BY <1>2 DEF FreeSlot
  <2> HIDE DEF it
  <2>7. it \in Booked /\ it \in Nat /\ it >= start - Latency
        /\ \A next \in Booked : next > it => next >= it + 2 * Latency
    BY <2>1, <2>5 DEF StopsAt, Candidates
  <2>8. \A k \in Booked : k \in Nat /\ (k < it => it >= k + Latency)
    BY <2>7
  <2>9. \A k \in Booked : it + Latency >= k + Latency \/ k >= it + Latency + Latency
    BY <2>7, <2>8
  <2> QED
    BY <2>6, <2>7, <2>9
<1> QED
  BY <1>1, <1>2

-----------------------------------------------------------------------------

LEMMA ScheduleStep ==
  ASSUME IInv, NEW delay \in Delays, Schedule(delay)
  PROVE  IInv'
<1> USE BusAssumption
<1> DEFINE start == now + delay
           slot == FreeSlot(start)
           t == count + 1
<1>1. /\ queue' = IF slot \in Booked THEN queue
                  ELSE [k \in Booked \cup {slot} |-> IF k = slot THEN t ELSE queue[k]]
      /\ wakeups' = wakeups \cup {[time |-> slot + Latency, of |-> t]}
      /\ count' = t
      /\ requested' = [i \in 1 .. t |-> IF i = t THEN start ELSE requested[i]]
      /\ granted' = [i \in 1 .. t |-> IF i = t THEN slot ELSE granted[i]]
      /\ UNCHANGED <<now, completed>>
  BY DEF Schedule
<1>2. /\ now \in Nat /\ count \in Nat /\ t \in Nat /\ start \in Nat /\ start >= Latency /\ start >= now
      /\ Booked \subseteq Nat
      /\ Transfers' = Transfers \cup {t} /\ t \notin Transfers /\ 1 .. t = Transfers \cup {t}
      /\ Open \subseteq Transfers /\ completed \subseteq Transfers
  BY <1>1 DEF IInv, TypeOK, TimeInv, Transfers, Open
<1>3. Open' = Open \cup {t}
  BY <1>1, <1>2 DEF Open
<1>4. \A a, b \in Booked : a # b => a >= b + Latency \/ b >= a + Latency
  <2>1. SUFFICES ASSUME NEW a \in Booked, NEW b \in Booked, a # b
                 PROVE  a >= b + Latency \/ b >= a + Latency
    OBVIOUS
  <2>2. /\ queue[a] \in Transfers /\ granted[queue[a]] = a
        /\ queue[b] \in Transfers /\ granted[queue[b]] = b
    BY <1>2 DEF IInv, QueueInv
  <2>3. queue[a] # queue[b]
    BY <2>1, <2>2
  <2> QED
    BY <2>2, <2>3 DEF IInv, NoOverlap
<1>5. /\ slot \in Nat /\ slot >= start
      /\ \A k \in Booked : slot >= k + Latency \/ k >= slot + Latency
  BY <1>2, <1>4, FreeSlotIsFree DEF IInv
<1> HIDE DEF slot, start
<1>6. slot \notin Booked
  BY <1>2, <1>5
<1>7. /\ Booked' = Booked \cup {slot}
      /\ queue'[slot] = t
      /\ \A k \in Booked : queue'[k] = queue[k]
  BY <1>1, <1>6 DEF Booked
<1>8. /\ granted'[t] = slot /\ requested'[t] = start
      /\ \A i \in Transfers : granted'[i] = granted[i] /\ requested'[i] = requested[i]
  BY <1>1, <1>2
<1>9. \A i \in Transfers : granted[i] \in Nat /\ requested[i] \in Nat
  BY DEF IInv, TypeOK
<1>10. TypeOK'
  <2>1. granted' \in [Transfers' -> Nat] /\ requested' \in [Transfers' -> Nat]
    BY <1>1, <1>2, <1>5, <1>9
  <2>2. wakeups' \subseteq [time : Nat, of : Transfers']
    BY <1>1, <1>2, <1>5 DEF IInv, TypeOK
  <2>3. \A k \in Booked' : queue'[k] \in Transfers'
    BY <1>2, <1>7 DEF IInv, TypeOK
  <2> QED
    BY <1>1, <1>2, <1>5, <1>7, <2>1, <2>2, <2>3 DEF IInv, TypeOK
<1>11. QueueInv'
  <2>1. \A k \in Booked' : queue'[k] \in Open' /\ granted'[queue'[k]] = k
    BY <1>2, <1>3, <1>7, <1>8 DEF IInv, QueueInv
  <2>2. granted'[t] \in Booked' /\ queue'[granted'[t]] = t
    BY <1>7, <1>8
  <2>3. \A i \in Open : granted'[i] \in Booked /\ queue'[granted'[i]] = i
    <3>1. \A i \in Open : granted'[i] = granted[i]
      BY <1>2, <1>8
    <3> QED
      BY <1>7, <3>1 DEF IInv, QueueInv
  <2> QED
    BY <1>3, <1>7, <2>1, <2>2, <2>3 DEF QueueInv
<1>12. WakeupInv'
  <2>1. \A w \in wakeups' : w.of \in Open' /\ w.time = granted'[w.of] + Latency
    BY <1>1, <1>2, <1>3, <1>8 DEF IInv, WakeupInv
  <2>2. \A i \in Open' : [time |-> granted'[i] + Latency, of |-> i] \in wakeups'
    BY <1>1, <1>2, <1>3, <1>8 DEF IInv, WakeupInv
  <2> QED
    BY <2>1, <2>2 DEF WakeupInv
<1>13. TimeInv'
  <2>1. \A i \in Open' : granted'[i] + Latency >= now
    BY <1>2, <1>3, <1>5, <1>8 DEF IInv, TimeInv
  <2>2. \A i \in completed : granted'[i] + Latency <= now
    BY <1>2, <1>8 DEF IInv, TimeInv
  <2>3. \A i \in Transfers' : granted'[i] >= requested'[i]
    BY <1>2, <1>5, <1>8 DEF IInv, TimeInv
  <2> QED
    BY <1>1, <2>1, <2>2, <2>3 DEF IInv, TimeInv
<1>14. NoOverlap'
  <2>1. \A i \in Transfers : slot >= granted[i] + Latency \/ granted[i] >= slot + Latency
    <3>1. SUFFICES ASSUME NEW i \in Transfers
                   PROVE  slot >= granted[i] + Latency \/ granted[i] >= slot + Latency
      OBVIOUS
    <3>2. CASE i \in completed
      BY <1>2, <1>5, <1>9, <3>2 DEF IInv, TimeInv
    <3>3. CASE i \in Open
      BY <1>5, <3>3 DEF IInv, QueueInv
    <3> QED
      BY <3>2, <3>3 DEF Open
  <2> QED
    BY <1>2, <1>8, <2>1 DEF IInv, NoOverlap
<1>15. \E b \in Nat : \A k \in Booked' : k <= b
  <2>1. PICK b \in Nat : \A k \in Booked : k <= b
    BY DEF IInv
  <2>2. b + slot \in Nat /\ \A k \in Booked' : k <= b + slot
    BY <1>2, <1>5, <1>7, <2>1
  <2> QED
    BY <2>2
<1> QED
  BY <1>10, <1>11, <1>12, <1>13, <1>14, <1>15 DEF IInv

\* The first slot of the queue is over exactly when an event is due.
LEMMA FirstIsDue ==
  ASSUME IInv, NEW w \in wakeups, w.time = now
  PROVE  /\ Booked # {}
         /\ Min(Booked) \in Booked
         /\ Min(Booked) = now - Latency
         /\ queue[Min(Booked)] = w.of
<1> USE BusAssumption
<1> DEFINE g == granted[w.of]
<1>1. w.of \in Open /\ g + Latency = now
  BY DEF IInv, WakeupInv
<1>2. g \in Booked /\ queue[g] = w.of /\ Booked \in SUBSET Nat /\ g \in Nat /\ now \in Nat
  BY <1>1 DEF IInv, QueueInv, TypeOK
<1>3. Min(Booked) \in Booked /\ \A y \in Booked : Min(Booked) <= y
  BY <1>2, MinNat
<1> DEFINE m == Min(Booked)
<1>4. queue[m] \in Open /\ granted[queue[m]] = m
  BY <1>3 DEF IInv, QueueInv
<1>5. m + Latency >= now
  BY <1>4 DEF IInv, TimeInv
<1>6. m = g
  <2>1. m \in Nat /\ m <= g
    BY <1>2, <1>3
  <2> HIDE DEF m, g
  <2> QED
    BY <1>1, <1>2, <1>5, <2>1
<1> QED
  BY <1>1, <1>2, <1>3, <1>6

LEMMA ProcessStep ==
  ASSUME IInv, Process
  PROVE  IInv'
<1> USE BusAssumption
<1> DEFINE first == Min(Booked)
<1>1. PICK w \in wakeups : w.time = now /\ wakeups' = wakeups \ {w}
  BY DEF Process
<1>2. /\ queue' = Restrict(queue, Booked \ {first})
      /\ completed' = completed \cup {queue[first]}
      /\ UNCHANGED <<now, count, requested, granted>>
  BY DEF Process
<1>3. /\ first \in Booked /\ first = now - Latency /\ queue[first] = w.of
  BY <1>1, FirstIsDue
<1> HIDE DEF first
<1>4. w.of \in Open /\ granted[w.of] = first /\ w.time = first + Latency
  BY <1>3 DEF IInv, WakeupInv, QueueInv
<1>5. /\ Booked' = Booked \ {first}
      /\ \A k \in Booked' : queue'[k] = queue[k]
  BY <1>2 DEF Restrict, Booked
<1>6. Transfers' = Transfers /\ Open' = Open \ {w.of} /\ Open \subseteq Transfers
  BY <1>2, <1>3 DEF Transfers, Open
<1>7. /\ now \in Nat /\ Booked \subseteq Nat /\ first \in Nat
      /\ \A i \in Transfers : granted[i] \in Nat /\ requested[i] \in Nat
  BY <1>3 DEF IInv, TypeOK
<1>8. TypeOK'
  <2>1. wakeups' \subseteq [time : Nat, of : Transfers']
    BY <1>1, <1>6 DEF IInv, TypeOK
  <2>2. completed' \subseteq Transfers'
    BY <1>2, <1>3, <1>4, <1>6 DEF IInv, TypeOK
  <2>3. \A k \in Booked' : k \in Nat /\ queue'[k] \in Transfers'
    BY <1>5, <1>6, <1>7 DEF IInv, TypeOK
  <2> QED
    BY <1>2, <1>6, <2>1, <2>2, <2>3 DEF IInv, TypeOK
<1>9. QueueInv'
  <2>1. \A k \in Booked' : queue'[k] \in Open' /\ granted'[queue'[k]] = k
    BY <1>2, <1>4, <1>5, <1>6 DEF IInv, QueueInv
  <2>2. \A i \in Open' : granted'[i] \in Booked' /\ queue'[granted'[i]] = i
    BY <1>2, <1>3, <1>4, <1>5, <1>6 DEF IInv, QueueInv
  <2> QED
    BY <2>1, <2>2 DEF QueueInv
<1>10. WakeupInv'
  <2>1. \A v \in wakeups' : v.of \in Open' /\ v.time = granted'[v.of] + Latency
    <3>1. SUFFICES ASSUME NEW v \in wakeups, v # w PROVE v.of # w.of
      BY <1>1, <1>2, <1>6 DEF IInv, WakeupInv
    <3>2. v \in [time : Nat, of : Transfers] /\ w \in [time : Nat, of : Transfers]
      BY <3>1 DEF IInv, TypeOK
    <3>3. v.of = w.of => v.time = w.time
      BY <3>1 DEF IInv, WakeupInv
    <3> QED
      BY <3>1, <3>2, <3>3
  <2>2. \A i \in Open' : [time |-> granted'[i] + Latency, of |-> i] \in wakeups'
    BY <1>1, <1>2, <1>6 DEF IInv, WakeupInv
  <2> QED
    BY <2>1, <2>2 DEF WakeupInv
<1>11. TimeInv'
  BY <1>2, <1>3, <1>4, <1>6, <1>7 DEF IInv, TimeInv
<1>12. NoOverlap'
  BY <1>2, <1>6 DEF IInv, NoOverlap
<1>13. \E b \in Nat : \A k \in Booked' : k <= b
  BY <1>5 DEF IInv
<1> QED
  BY <1>8, <1>9, <1>10, <1>11, <1>12, <1>13 DEF IInv

LEMMA TickStep ==
  ASSUME IInv, Tick
  PROVE  IInv'
<1> USE BusAssumption
<1>1. /\ \A w \in wakeups : w.time > now
      /\ now' = now + 1
      /\ UNCHANGED <<queue, wakeups, count, requested, granted, completed>>
  BY DEF Tick
<1>2. Transfers' = Transfers /\ Open' = Open /\ Booked' = Booked /\ now \in Nat
  BY <1>1 DEF Booked, Transfers, Open, IInv, TypeOK
<1>3. \A i \in Transfers : granted[i] \in Nat
  BY DEF IInv, TypeOK
<1>4. \A i \in Open : granted[i] + Latency > now
  BY <1>1 DEF IInv, WakeupInv
<1>5. TimeInv'
  <2>1. completed \subseteq Transfers /\ Open \subseteq Transfers
    BY DEF IInv, TypeOK, Open
  <2> QED
    BY <1>1, <1>2, <1>3, <1>4, <2>1 DEF IInv, TimeInv
<1>6. TypeOK' /\ QueueInv' /\ WakeupInv' /\ NoOverlap'
  BY <1>1, <1>2 DEF IInv, TypeOK, QueueInv, WakeupInv, NoOverlap
<1> QED
  BY <1>2, <1>5, <1>6 DEF IInv

LEMMA InitIInv == Init => IInv
<1> SUFFICES ASSUME Init PROVE IInv
  OBVIOUS
<1>1. /\ now = Start /\ queue = <<>> /\ wakeups = {} /\ count = 0
      /\ requested = <<>> /\ granted = <<>> /\ completed = {}
  BY DEF Init
<1>2. Transfers = {} /\ Open = {} /\ Booked = {}
  BY <1>1 DEF Transfers, Open, Booked
<1>3. granted \in [Transfers -> Nat] /\ requested \in [Transfers -> Nat]
  BY <1>1, <1>2
<1> QED
  BY <1>1, <1>2, <1>3, BusAssumption
     DEF IInv, TypeOK, QueueInv, WakeupInv, TimeInv, NoOverlap

LEMMA NextIInv == IInv /\ [Next]_vars => IInv'
<1> SUFFICES ASSUME IInv, [Next]_vars PROVE IInv'
  OBVIOUS
<1>1. ASSUME NEW delay \in Delays, Schedule(delay) PROVE IInv'
  BY <1>1, ScheduleStep
<1>2. CASE Process
  BY <1>2, ProcessStep
<1>3. CASE Advance
  BY <1>3, TickStep DEF Advance
<1>4. CASE UNCHANGED vars
  BY <1>4 DEF vars, IInv, TypeOK, QueueInv, WakeupInv, TimeInv, NoOverlap, Transfers, Open, Booked
<1> QED
  BY <1>1, <1>2, <1>3, <1>4 DEF Next

THEOREM Invariance == Spec => []IInv
  BY InitIInv, NextIInv, PTL DEF Spec

\* The queue, the events and what the banks were told keep their types.
THEOREM TypeCorrect == Spec => []TypeOK
  BY Invariance, PTL DEF IInv

\* No two transfers share a cycle of the bus, for every latency and every
\* mixture of delays.
THEOREM BusIsExclusive == Spec => []NoOverlap
  BY Invariance, PTL DEF IInv

\* The assertions of Bus::process cannot fail.
THEOREM AssertionsHold == Spec => []DueFirst
<1>1. IInv => DueFirst
  BY FirstIsDue DEF DueFirst
<1> QED
  BY <1>1, Invariance, PTL

\* A bank is called back exactly when schedule told it, and not too early.
THEOREM PromisesKept == Spec => CalledBackOnTime
<1> DEFINE OnTime == \A i \in completed' \ completed :
                        granted[i] >= requested[i] /\ now = granted[i] + Latency
<1>1. IInv /\ [Next]_vars => [OnTime]_vars
  <2>1. SUFFICES ASSUME IInv, Next PROVE OnTime
    OBVIOUS
  <2>2. CASE Process
    <3>1. PICK w \in wakeups : w.time = now
      BY <2>2 DEF Process
    <3>2. completed' = completed \cup {w.of}
      BY <2>1, <2>2, <3>1, FirstIsDue DEF Process
    <3>3. w.of \in Transfers /\ w.time = granted[w.of] + Latency
      BY <2>1 DEF IInv, WakeupInv, Open
    <3> QED
      BY <2>1, <3>1, <3>2, <3>3 DEF IInv, TimeInv
  <2>3. CASE completed' = completed
    BY <2>3
  <2> QED
    BY <2>1, <2>2, <2>3 DEF Next, Schedule, Advance, Tick
<1> QED
  BY <1>1, Invariance, PTL DEF Spec, CalledBackOnTime
=============================================================================
