---------------------------- MODULE EngineProofs ----------------------------
(***************************************************************************)
(* Proofs about Engine, for every choice of periods and delays.  TypeOK    *)
(* and WindowInv are not inductive by themselves: that a rescheduled       *)
(* periodic event is never due in the past needs the next statistics and   *)
(* progress times to be no earlier than any periodic event in the queue.   *)
(* Then that Engine implements EventQueue: the ring and the heap together  *)
(* deliver each event once, at its time, in the order EventQueue promises. *)
(***************************************************************************)
EXTENDS Engine, TLAPS, SequenceTheorems, FiniteSetTheorems, WellFoundedInduction

\* A periodic event comes no later than what it serves, statistics due at s
\* and progress due at p.
TimelyFor(e, s, p) ==
    e.tick => /\ s # 0 => e.time <= s
              /\ p # 0 => e.time <= p

Timely(e) == TimelyFor(e, statsNextEvent, progressNextEvent)

TickInv ==
    /\ \A s \in Slots : \A i \in DOMAIN currentEvents[s] : Timely(currentEvents[s][i])
    /\ \A e \in events : Timely(e)
    /\ pc = "handler" => Timely(current)
    /\ statsNextEvent = 0 => StatsPeriod = 0
    /\ progressNextEvent = 0 => ProgressPeriod = 0

IInv ==
    /\ TypeOK
    /\ IsFiniteSet(events)
    /\ pc = "handler" => current \in Event
    /\ WindowInv
    /\ TickInv

-----------------------------------------------------------------------------
(* Slots and minima *)

LEMMA SlotType == \A t \in Nat : Slot(t) \in Slots
  BY DEF Slot, Slots, CurrentSize

\* Two cycles of one window have different slots.
LEMMA SlotInjective ==
  ASSUME NEW t \in Nat, NEW a \in t .. t + CurrentSize - 1,
         NEW b \in t .. t + CurrentSize - 1, Slot(a) = Slot(b)
  PROVE  a = b
  BY DEF Slot, CurrentSize

LEMMA MinNat ==
  ASSUME NEW S \in SUBSET Nat, S # {}
  PROVE  Min(S) \in S /\ \A y \in S : Min(S) <= y
<1>1. PICK x \in S : \A y \in S : ~ (<<y, x>> \in OpToRel(<, Nat))
  BY NatLessThanWellFounded, WFMin
<1>2. \A y \in S : x <= y
  <2>1. SUFFICES ASSUME NEW y \in S, ~ (x <= y)
                 PROVE  FALSE
    OBVIOUS
  <2>2. y \in Nat /\ x \in Nat /\ y < x
    BY <2>1
  <2>3. <<y, x>> \in OpToRel(<, Nat)
    BY <2>2 DEF OpToRel
  <2> QED
    BY <1>1, <2>3
<1> QED
  BY <1>2 DEF Min
-----------------------------------------------------------------------------
(* Scheduling *)

LEMMA EnqueueStep ==
  ASSUME IInv, NEW d \in Nat, NEW tick \in BOOLEAN, Enqueue(d, tick)
  PROVE  /\ NewEvent(d, tick) \in Event
         /\ currentEvents' \in [Slots -> Seq(Event)]
         /\ \A s \in Slots : \A i \in DOMAIN currentEvents'[s] :
               \/ i \in DOMAIN currentEvents[s] /\ currentEvents'[s][i] = currentEvents[s][i]
               \/ /\ currentEvents'[s][i] = NewEvent(d, tick)
                  /\ d < CurrentSize
                  /\ s = Slot(timestamp + d)
         /\ events' \in SUBSET Event
         /\ IsFiniteSet(events')
         /\ \A e \in events' : e \in events \/ (e = NewEvent(d, tick) /\ d >= CurrentSize)
         /\ added' \in Nat
<1> DEFINE e == NewEvent(d, tick)
<1>1. e \in Event /\ e.time = timestamp + d
  BY DEF IInv, TypeOK, NewEvent, Event
<1>2. IsFiniteSet(events) /\ events \in SUBSET Event /\ added \in Nat
      /\ currentEvents \in [Slots -> Seq(Event)] /\ timestamp \in Nat
  BY DEF IInv, TypeOK
<1>3. added' \in Nat
  BY <1>2 DEF Enqueue
<1>4. CASE d < CurrentSize
  <2> DEFINE t == Slot(timestamp + d)
  <2>1. /\ currentEvents' = [currentEvents EXCEPT ![t] = Append(@, e)]
        /\ events' = events
    BY <1>1, <1>4 DEF Enqueue
  <2>2. t \in Slots
    BY <1>2, SlotType
  <2>3. /\ currentEvents'[t] = Append(currentEvents[t], e)
        /\ \A s \in Slots : s # t => currentEvents'[s] = currentEvents[s]
    BY <1>2, <2>1, <2>2
  <2>4. currentEvents[t] \in Seq(Event)
    BY <1>2, <2>2
  <2> HIDE DEF t
  <2>5. Append(currentEvents[t], e) \in Seq(Event)
    BY <1>1, <2>4, AppendProperties
  <2>6. \A i \in DOMAIN Append(currentEvents[t], e) :
           \/ i \in DOMAIN currentEvents[t] /\ Append(currentEvents[t], e)[i] = currentEvents[t][i]
           \/ Append(currentEvents[t], e)[i] = e
    BY <1>1, <2>4, AppendProperties, LenProperties
  <2>7. currentEvents' \in [Slots -> Seq(Event)]
    BY <1>2, <2>1, <2>5
  <2>8. \A s \in Slots : \A i \in DOMAIN currentEvents'[s] :
           \/ i \in DOMAIN currentEvents[s] /\ currentEvents'[s][i] = currentEvents[s][i]
           \/ currentEvents'[s][i] = e /\ s = t
    BY <2>3, <2>6
  <2> QED
    BY <1>1, <1>2, <1>3, <1>4, <2>1, <2>7, <2>8 DEF t
<1>5. CASE ~ (d < CurrentSize)
  <2>1. events' = events \cup {e} /\ currentEvents' = currentEvents
    BY <1>5 DEF Enqueue
  <2>2. IsFiniteSet(events')
    BY <1>2, <2>1, FS_AddElement
  <2>3. d >= CurrentSize
    BY <1>5 DEF CurrentSize
  <2> QED
    BY <1>1, <1>2, <1>3, <2>1, <2>2, <2>3
<1> QED
  BY <1>4, <1>5

\* The cycle the loop goes to, and the events it has in store for it.
LEMMA NextTimeMin ==
  ASSUME IInv, Pending # {}
  PROVE  /\ NextTime \in Nat
         /\ NextTime >= timestamp
         /\ \A e \in Pending : e.time >= NextTime
         /\ NextTime # timestamp =>
               /\ currentEvents[Slot(timestamp)] = <<>>
               /\ \E e \in Pending : e.time = NextTime
         /\ NextTime = timestamp => currentEvents[Slot(timestamp)] # <<>>
<1> USE DEF IInv
<1>1. timestamp \in Nat /\ events \in SUBSET Event
      /\ currentEvents \in [Slots -> Seq(Event)]
  BY DEF TypeOK
<1>2. \A e \in events : e \in Event /\ e.time \in Nat /\ e.time > timestamp
  BY <1>1 DEF WindowInv, Event
<1>3. \A s \in Slots : \A i \in DOMAIN currentEvents[s] :
         /\ currentEvents[s][i].time \in timestamp .. timestamp + CurrentSize - 1
         /\ Slot(currentEvents[s][i].time) = s
  BY DEF WindowInv
<1>4. \A e \in InRing :
         /\ e.time \in timestamp .. timestamp + CurrentSize - 1
         /\ currentEvents[Slot(e.time)] # <<>>
  <2>1. SUFFICES ASSUME NEW s \in Slots, NEW i \in DOMAIN currentEvents[s]
                 PROVE  LET e == currentEvents[s][i] IN
                        /\ e.time \in timestamp .. timestamp + CurrentSize - 1
                        /\ currentEvents[Slot(e.time)] # <<>>
    BY DEF InRing, Range
  <2>2. currentEvents[s] # <<>>
    BY <1>1, <2>1
  <2> QED
    BY <1>3, <2>2
<1>5. Near \in SUBSET Nat /\ \A t \in Near : t > timestamp
  BY <1>1 DEF Near, CurrentSize
<1>6. \A e \in Pending : e.time # timestamp /\ e.time \in timestamp .. timestamp + CurrentSize - 1
                         => e.time \in Near
  BY <1>1, <1>2, <1>4 DEF Near, Pending, Due, CurrentSize
<1>7. CASE currentEvents[Slot(timestamp)] # <<>>
  <2>1. NextTime = timestamp
    BY <1>7 DEF NextTime
  <2> QED
    BY <1>1, <1>2, <1>4, <1>7, <2>1 DEF Pending, CurrentSize
<1>8. CASE currentEvents[Slot(timestamp)] = <<>> /\ Near # {}
  <2>1. NextTime = Min(Near)
    BY <1>8 DEF NextTime
  <2>2. NextTime \in Near /\ \A t \in Near : NextTime <= t
    BY <1>5, <1>8, <2>1, MinNat
  <2>3. NextTime \in timestamp + 1 .. timestamp + CurrentSize - 1
    BY <2>2 DEF Near
  <2>4. \A e \in Pending : e.time >= NextTime
    <3>1. SUFFICES ASSUME NEW e \in Pending, e.time < NextTime
                   PROVE  FALSE
      BY <1>1, <1>2, <1>4, <2>3 DEF Pending, CurrentSize
    <3>2. e.time \in timestamp .. timestamp + CurrentSize - 1 /\ e.time \in Nat
      BY <1>1, <1>2, <1>4, <2>3, <3>1 DEF Pending, CurrentSize
    <3>3. e.time # timestamp
      BY <1>2, <1>4, <1>8 DEF Pending
    <3> QED
      BY <1>1, <1>6, <2>2, <2>3, <3>1, <3>2, <3>3 DEF CurrentSize
  <2>5. \E e \in Pending : e.time = NextTime
    <3>1. CASE Due(NextTime) # {}
      BY <3>1 DEF Due, Pending
    <3>2. CASE currentEvents[Slot(NextTime)] # <<>>
      <4> DEFINE s == Slot(NextTime)
      <4>1. s \in Slots
        BY <1>1, <2>3, SlotType DEF CurrentSize
      <4>2. currentEvents[s] \in Seq(Event) /\ currentEvents[s] # <<>>
        BY <1>1, <3>2, <4>1
      <4>3. 1 \in DOMAIN currentEvents[s]
        BY <4>2, EmptySeq, LenProperties
      <4>4. currentEvents[s][1].time = NextTime
        <5>1. /\ currentEvents[s][1].time \in timestamp .. timestamp + CurrentSize - 1
              /\ Slot(currentEvents[s][1].time) = Slot(NextTime)
          BY <1>3, <4>1, <4>3
        <5>2. NextTime \in timestamp .. timestamp + CurrentSize - 1
          BY <1>1, <2>3 DEF CurrentSize
        <5> QED
          BY <1>1, <5>1, <5>2, SlotInjective
      <4>5. currentEvents[s][1] \in Pending
        BY <4>1, <4>3 DEF Pending, InRing, Range
      <4> QED
        BY <4>4, <4>5
    <3> QED
      BY <2>2, <3>1, <3>2 DEF Near
  <2> QED
    BY <1>1, <1>8, <2>3, <2>4, <2>5 DEF CurrentSize
<1>9. CASE currentEvents[Slot(timestamp)] = <<>> /\ Near = {}
  <2> DEFINE T == {e.time : e \in events}
  <2>1. NextTime = Min(T)
    BY <1>9 DEF NextTime
  <2>2. InRing = {}
    <3>1. SUFFICES ASSUME NEW e \in InRing PROVE FALSE
      OBVIOUS
    <3>2. e.time # timestamp
      BY <1>4, <1>9
    <3> QED
      BY <1>4, <1>6, <1>9, <3>2 DEF Pending
  <2>3. T \in SUBSET Nat /\ T # {}
    BY <1>2, <2>2 DEF Pending
  <2>4. NextTime \in T /\ \A t \in T : NextTime <= t
    BY <2>1, <2>3, MinNat
  <2> QED
    BY <1>1, <1>2, <1>9, <2>2, <2>4 DEF Pending
<1> QED
  BY <1>7, <1>8, <1>9

\* An order of a finite set of events is a sequence of just these events.
LEMMA OrdersAreSequences ==
  ASSUME NEW S \in SUBSET Event, IsFiniteSet(S), NEW p \in Orders(S)
  PROVE  /\ p \in Seq(Event)
         /\ \A i \in DOMAIN p : p[i] \in S
         /\ p = <<>> <=> S = {}
<1>1. Cardinality(S) \in Nat
  BY FS_CardinalityType
<1>2. p \in [1 .. Cardinality(S) -> S] /\ S = {p[i] : i \in DOMAIN p}
  BY DEF Orders, Range
<1>3. p \in Seq(S)
  BY <1>1, <1>2, SeqDef
<1>4. p \in Seq(Event)
  BY <1>3, SeqMonotonic
<1>5. Len(p) \in Nat /\ DOMAIN p = 1 .. Len(p)
  BY <1>3, LenProperties
<1>6. p = <<>> <=> S = {}
  <2>1. ASSUME p = <<>> PROVE S = {}
    <3>1. Len(p) = 0
      BY <2>1, EmptySeq
    <3> QED
      BY <1>2, <1>5, <3>1
  <2>2. ASSUME S = {} PROVE p = <<>>
    <3>1. p # <<>> => Len(p) \in Nat \ {0}
      BY <1>3, EmptySeq
    <3>2. 1 \in DOMAIN p => p[1] \in S
      BY <1>2
    <3> QED
      BY <1>5, <2>2, <3>1, <3>2
  <2> QED
    BY <2>1, <2>2
<1> QED
  BY <1>2, <1>4, <1>6

-----------------------------------------------------------------------------
(* The loop *)

LEMMA DispatchStep ==
  ASSUME IInv, Dispatch
  PROVE  IInv'
<1> DEFINE t == NextTime
           fetched == IF t = timestamp THEN {} ELSE Due(t)
           slot == currentEvents[Slot(t)]
<1>1. /\ pc = "loop" /\ pc' = "handler"
      /\ Pending # {}
      /\ UNCHANGED <<done, statsNextEvent, progressNextEvent, added, componentAdds>>
  BY DEF Dispatch
<1>2. PICK p \in Orders(fetched) :
         /\ timestamp' = t
         /\ current' = Head(p \o slot)
         /\ currentEvents' = [currentEvents EXCEPT ![Slot(t)] = Tail(p \o slot)]
         /\ events' = events \ fetched
  BY DEF Dispatch
<1>3. /\ timestamp \in Nat /\ events \in SUBSET Event /\ IsFiniteSet(events)
      /\ currentEvents \in [Slots -> Seq(Event)]
  BY DEF IInv, TypeOK
<1>4. /\ t \in Nat
      /\ t >= timestamp
      /\ \A e \in Pending : e.time >= t
      /\ t # timestamp =>
            /\ currentEvents[Slot(timestamp)] = <<>>
            /\ \E e \in Pending : e.time = t
      /\ t = timestamp => slot # <<>>
  BY <1>1, NextTimeMin
<1> HIDE DEF t
<1>5. Slot(t) \in Slots /\ slot \in Seq(Event)
  BY <1>3, <1>4, SlotType
<1>6. /\ \A s \in Slots : \A i \in DOMAIN currentEvents[s] :
            /\ currentEvents[s][i] \in Pending
            /\ currentEvents[s][i] \in Event
            /\ currentEvents[s][i].time \in timestamp .. timestamp + CurrentSize - 1
            /\ Slot(currentEvents[s][i].time) = s
            /\ Timely(currentEvents[s][i])
  <2>1. SUFFICES ASSUME NEW s \in Slots, NEW i \in DOMAIN currentEvents[s]
                 PROVE  currentEvents[s][i] \in Pending /\ currentEvents[s][i] \in Event
    BY DEF IInv, WindowInv, TickInv
  <2>2. currentEvents[s] \in Seq(Event)
    BY <1>3
  <2> QED
    BY <2>2, LenProperties, ElementOfSeq DEF Pending, InRing, Range
\* What is left in the ring lies in the window that starts at t.
<1>7. \A s \in Slots : \A i \in DOMAIN currentEvents[s] :
         currentEvents[s][i].time \in t .. t + CurrentSize - 1
  BY <1>3, <1>4, <1>6 DEF CurrentSize
<1>8. \A i \in DOMAIN slot : slot[i].time = t /\ slot[i] \in Event /\ Timely(slot[i])
  <2>1. SUFFICES ASSUME NEW i \in DOMAIN slot PROVE slot[i].time = t
    BY <1>5, <1>6
  <2>2. slot[i].time \in t .. t + CurrentSize - 1 /\ Slot(slot[i].time) = Slot(t)
    BY <1>5, <1>6, <1>7
  <2>3. t \in t .. t + CurrentSize - 1
    BY <1>4 DEF CurrentSize
  <2> QED
    BY <1>4, <2>2, <2>3, SlotInjective
<1>9. fetched \in SUBSET events /\ fetched \in SUBSET Event /\ IsFiniteSet(fetched)
      /\ \A e \in fetched : e.time = t /\ e \in Event /\ Timely(e)
  <2>1. fetched \in SUBSET events /\ \A e \in fetched : e.time = t
    BY DEF Due
  <2> QED
    BY <1>3, <2>1, FS_Subset DEF IInv, TickInv
<1> HIDE DEF fetched
<1>10. /\ p \in Seq(Event)
       /\ \A i \in DOMAIN p : p[i] \in fetched
       /\ p = <<>> <=> fetched = {}
  BY <1>9, OrdersAreSequences
<1> DEFINE list == p \o slot
<1>11. /\ list \in Seq(Event) /\ Len(list) \in Nat /\ DOMAIN list = 1 .. Len(list)
       /\ \A i \in DOMAIN list : list[i].time = t /\ list[i] \in Event /\ Timely(list[i])
  <2>1. /\ list \in Seq(Event)
        /\ Len(list) = Len(p) + Len(slot)
        /\ \A i \in 1 .. Len(p) + Len(slot) :
              list[i] = IF i <= Len(p) THEN p[i] ELSE slot[i - Len(p)]
    BY <1>5, <1>10, ConcatProperties
  <2>2. /\ Len(p) \in Nat /\ DOMAIN p = 1 .. Len(p)
        /\ Len(slot) \in Nat /\ DOMAIN slot = 1 .. Len(slot)
        /\ DOMAIN list = 1 .. Len(list)
    BY <1>5, <1>10, <2>1, LenProperties
  <2>3. \A i \in DOMAIN list : \/ i \in DOMAIN p /\ list[i] = p[i]
                               \/ i - Len(p) \in DOMAIN slot /\ list[i] = slot[i - Len(p)]
    <3> HIDE DEF list
    <3> QED
      BY <2>1, <2>2
  <2>4. \A i \in DOMAIN list : list[i].time = t /\ list[i] \in Event /\ Timely(list[i])
    <3> HIDE DEF list
    <3> QED
      BY <2>3, <1>8, <1>9, <1>10
  <2> QED
    BY <2>1, <2>2, <2>4
<1>12. list # <<>>
  <2>1. CASE t = timestamp
    BY <1>4, <1>5, <1>10, <2>1, ConcatEqualIffEmpty
  <2>2. CASE t # timestamp
    <3>1. PICK e \in Pending : e.time = t
      BY <1>4, <2>2
    <3>2. CASE e \in events
      <4>1. fetched # {}
        BY <2>2, <3>1, <3>2 DEF fetched, Due
      <4> QED
        BY <1>5, <1>10, <4>1, ConcatEqualIffEmpty
    <3>3. CASE e \in InRing
      <4> PICK s \in Slots : e \in Range(currentEvents[s])
        BY <3>3 DEF InRing
      <4>1. PICK i \in DOMAIN currentEvents[s] : e = currentEvents[s][i]
        BY DEF Range
      <4>2. s = Slot(t)
        BY <1>6, <3>1, <4>1
      <4>3. slot # <<>>
        BY <4>1, <4>2
      <4> QED
        BY <1>5, <1>10, <4>3, ConcatEqualIffEmpty
    <3> QED
      BY <3>2, <3>3 DEF Pending
  <2> QED
    BY <2>1, <2>2
<1> HIDE DEF list
<1>13. /\ Head(list) = list[1] /\ 1 \in DOMAIN list
       /\ Tail(list) \in Seq(Event)
       /\ \A i \in DOMAIN Tail(list) : i + 1 \in DOMAIN list /\ Tail(list)[i] = list[i + 1]
  <2>1. Len(list) \in Nat \ {0}
    BY <1>11, <1>12, EmptySeq
  <2>2. /\ Tail(list) \in Seq(Event)
        /\ Len(Tail(list)) = Len(list) - 1
        /\ \A i \in 1 .. Len(Tail(list)) : Tail(list)[i] = list[i + 1]
    BY <1>11, <1>12, HeadTailProperties
  <2>3. DOMAIN Tail(list) = 1 .. Len(Tail(list))
    BY <2>2, LenProperties
  <2> QED
    BY <1>11, <2>1, <2>2, <2>3
<1>14. current' \in Event /\ current'.time = t /\ Timely(current')
  BY <1>2, <1>11, <1>13 DEF list
<1>15. currentEvents' \in [Slots -> Seq(Event)]
  BY <1>2, <1>3, <1>13 DEF list
<1>16. \A s \in Slots : \A i \in DOMAIN currentEvents'[s] :
          LET e == currentEvents'[s][i] IN
          /\ e.time \in t .. t + CurrentSize - 1
          /\ Slot(e.time) = s
          /\ Timely(e)
  <2>1. SUFFICES ASSUME NEW s \in Slots, NEW i \in DOMAIN currentEvents'[s]
                 PROVE  LET e == currentEvents'[s][i] IN
                        /\ e.time \in t .. t + CurrentSize - 1
                        /\ Slot(e.time) = s
                        /\ Timely(e)
    OBVIOUS
  <2>2. CASE s = Slot(t)
    <3>1. currentEvents'[s] = Tail(list)
      BY <1>2, <1>3, <1>5, <2>2 DEF list
    <3>2. PICK j \in DOMAIN list : currentEvents'[s][i] = list[j]
      BY <1>13, <2>1, <3>1
    <3> QED
      BY <1>4, <1>11, <2>2, <3>2 DEF CurrentSize
  <2>3. CASE s # Slot(t)
    <3>1. currentEvents'[s] = currentEvents[s]
      BY <1>2, <1>3, <2>3
    <3> QED
      BY <1>6, <1>7, <2>1, <3>1
  <2> QED
    BY <2>2, <2>3
<1>17. events' \in SUBSET Event /\ IsFiniteSet(events')
  BY <1>2, <1>3, FS_Difference
<1>18. \A e \in events' : e.time > t /\ Timely(e)
  <2>1. SUFFICES ASSUME NEW e \in events' PROVE e.time > t /\ Timely(e)
    OBVIOUS
  <2>2. e \in events /\ e \notin fetched /\ e.time \in Nat
    BY <1>2, <1>3, <2>1 DEF Event
  <2>3. e.time >= t /\ e.time > timestamp /\ Timely(e)
    BY <1>4, <2>2 DEF Pending, IInv, WindowInv, TickInv
  <2>4. e.time # t
    BY <1>3, <2>2, <2>3 DEF fetched, Due
  <2> QED
    BY <1>4, <2>2, <2>3, <2>4
<1>19. TypeOK'
  BY <1>1, <1>2, <1>4, <1>14, <1>15, <1>17 DEF IInv, TypeOK
<1>20. WindowInv'
  BY <1>2, <1>14, <1>16, <1>18 DEF WindowInv
<1>21. TickInv'
  <2>1. \A e : Timely(e) <=> Timely(e)'
    BY <1>1 DEF Timely
  <2> QED
    BY <1>1, <1>14, <1>16, <1>18, <2>1 DEF IInv, TickInv, Timely
<1> QED
  BY <1>14, <1>17, <1>19, <1>20, <1>21 DEF IInv

LEMMA AddEventStep ==
  ASSUME IInv, NEW delay \in Delays, AddEvent(delay)
  PROVE  IInv'
<1>1. /\ pc \in {"setup", "handler"}
      /\ componentAdds < MaxEvents
      /\ Enqueue(delay, FALSE)
      /\ componentAdds' = componentAdds + 1
      /\ UNCHANGED <<timestamp, current, done, pc, statsNextEvent, progressNextEvent>>
  BY DEF AddEvent
<1>2. delay \in Nat /\ timestamp \in Nat
  BY EngineAssumption DEF IInv, TypeOK
<1> DEFINE n == NewEvent(delay, FALSE)
<1>3. n.time = timestamp + delay /\ Timely(n)
  BY DEF NewEvent, Timely, TimelyFor
<1> HIDE DEF n
<1>4. /\ n \in Event
      /\ currentEvents' \in [Slots -> Seq(Event)]
      /\ \A s \in Slots : \A i \in DOMAIN currentEvents'[s] :
            \/ i \in DOMAIN currentEvents[s] /\ currentEvents'[s][i] = currentEvents[s][i]
            \/ currentEvents'[s][i] = n /\ delay < CurrentSize /\ s = Slot(timestamp + delay)
      /\ events' \in SUBSET Event
      /\ IsFiniteSet(events')
      /\ \A e \in events' : e \in events \/ (e = n /\ delay >= CurrentSize)
      /\ added' \in Nat
  BY <1>1, <1>2, EnqueueStep DEF n
<1>5. TypeOK'
  BY <1>1, <1>4, EngineAssumption DEF IInv, TypeOK
<1>6. WindowInv'
  <2>1. timestamp + delay \in timestamp .. timestamp + CurrentSize - 1 \/ delay >= CurrentSize
    BY <1>2 DEF CurrentSize
  <2>2. \A s \in Slots : \A i \in DOMAIN currentEvents'[s] :
          LET e == currentEvents'[s][i] IN
          /\ e.time \in timestamp .. timestamp + CurrentSize - 1
          /\ Slot(e.time) = s
    BY <1>2, <1>3, <1>4, <2>1 DEF IInv, WindowInv, CurrentSize
  <2>3. \A e \in events' : e.time > timestamp
    BY <1>2, <1>3, <1>4 DEF IInv, WindowInv, CurrentSize
  <2> QED
    BY <1>1, <2>2, <2>3 DEF IInv, WindowInv
<1>7. TickInv'
  <2>1. \A e : Timely(e) <=> Timely(e)'
    BY <1>1 DEF Timely
  <2>2. \A s \in Slots : \A i \in DOMAIN currentEvents'[s] : Timely(currentEvents'[s][i])
    BY <1>3, <1>4 DEF IInv, TickInv
  <2>3. \A e \in events' : Timely(e)
    BY <1>3, <1>4 DEF IInv, TickInv
  <2> QED
    BY <1>1, <2>1, <2>2, <2>3 DEF IInv, TickInv, Timely
<1> QED
  BY <1>1, <1>4, <1>5, <1>6, <1>7 DEF IInv

LEMMA ProcessTickStep ==
  ASSUME IInv, ProcessTick
  PROVE  IInv'
<1> DEFINE s == IF timestamp = statsNextEvent THEN statsNextEvent + StatsPeriod
                ELSE statsNextEvent
           p == IF timestamp = progressNextEvent THEN progressNextEvent + ProgressPeriod
                ELSE progressNextEvent
           d == NextTick(s, p) - timestamp
           n == NewEvent(d, TRUE)
<1>1. /\ pc = "handler" /\ pc' = "loop"
      /\ current.tick
      /\ statsNextEvent' = s
      /\ progressNextEvent' = p
      /\ \/ NextTick(s, p) # 0 /\ Enqueue(d, TRUE)
         \/ UNCHANGED <<currentEvents, events, added>>
      /\ current' = NoEvent
      /\ UNCHANGED <<timestamp, done, componentAdds>>
  BY DEF ProcessTick
<1>2. /\ timestamp \in Nat /\ statsNextEvent \in Nat /\ progressNextEvent \in Nat
      /\ StatsPeriod \in Nat /\ ProgressPeriod \in Nat
  BY EngineAssumption DEF IInv, TypeOK
<1>3. /\ current.time = timestamp
      /\ statsNextEvent # 0 => timestamp <= statsNextEvent
      /\ progressNextEvent # 0 => timestamp <= progressNextEvent
      /\ statsNextEvent = 0 => StatsPeriod = 0
      /\ progressNextEvent = 0 => ProgressPeriod = 0
  BY <1>1 DEF IInv, WindowInv, TickInv, Timely, TimelyFor
<1>4. /\ s \in Nat /\ p \in Nat
      /\ s >= statsNextEvent /\ p >= progressNextEvent
      /\ s # 0 => statsNextEvent # 0 /\ timestamp <= s
      /\ p # 0 => progressNextEvent # 0 /\ timestamp <= p
      /\ s = 0 => StatsPeriod = 0
      /\ p = 0 => ProgressPeriod = 0
  BY <1>2, <1>3
<1> HIDE DEF s, p
\* What was timely stays timely: the next times only grow.
<1>5. \A e \in Event : Timely(e) => TimelyFor(e, s, p)
  BY <1>1, <1>2, <1>4 DEF Timely, TimelyFor, Event
<1>6. CASE UNCHANGED <<currentEvents, events, added>>
  <2>1. TypeOK' /\ WindowInv'
    BY <1>1, <1>4, <1>6 DEF IInv, TypeOK, WindowInv
  <2>2. \A r \in Slots : \A i \in DOMAIN currentEvents[r] : currentEvents[r][i] \in Event
    BY ElementOfSeq, LenProperties DEF IInv, TypeOK
  <2>3. \A e \in events : e \in Event
    BY DEF IInv, TypeOK
  <2>4. TickInv'
    BY <1>1, <1>4, <1>5, <1>6, <2>2, <2>3 DEF IInv, TickInv, Timely
  <2> QED
    BY <1>1, <1>6, <2>1, <2>4 DEF IInv
<1>7. CASE NextTick(s, p) # 0 /\ Enqueue(d, TRUE)
  <2>1. /\ NextTick(s, p) \in Nat
        /\ NextTick(s, p) >= timestamp
        /\ s # 0 => NextTick(s, p) <= s
        /\ p # 0 => NextTick(s, p) <= p
    BY <1>2, <1>4, <1>7 DEF NextTick
  <2>2. d \in Nat /\ timestamp + d = NextTick(s, p)
    BY <1>2, <2>1
  <2> HIDE DEF d
  <2>3. n.time = timestamp + d /\ TimelyFor(n, s, p)
    BY <1>1, <2>1, <2>2 DEF NewEvent, TimelyFor
  <2>4. /\ n \in Event
        /\ currentEvents' \in [Slots -> Seq(Event)]
        /\ \A r \in Slots : \A i \in DOMAIN currentEvents'[r] :
              \/ i \in DOMAIN currentEvents[r] /\ currentEvents'[r][i] = currentEvents[r][i]
              \/ currentEvents'[r][i] = n /\ d < CurrentSize /\ r = Slot(timestamp + d)
        /\ events' \in SUBSET Event
        /\ IsFiniteSet(events')
        /\ \A e \in events' : e \in events \/ (e = n /\ d >= CurrentSize)
        /\ added' \in Nat
    BY <1>7, <2>2, EnqueueStep
  <2> HIDE DEF n
  <2>5. TypeOK'
    BY <1>1, <1>4, <2>4 DEF IInv, TypeOK
  <2>6. WindowInv'
    <3>1. timestamp + d \in timestamp .. timestamp + CurrentSize - 1 \/ d >= CurrentSize
      BY <1>2, <2>2 DEF CurrentSize
    <3>2. \A r \in Slots : \A i \in DOMAIN currentEvents'[r] :
            LET e == currentEvents'[r][i] IN
            /\ e.time \in timestamp .. timestamp + CurrentSize - 1
            /\ Slot(e.time) = r
      BY <1>2, <2>2, <2>3, <2>4, <3>1 DEF IInv, WindowInv, CurrentSize
    <3>3. \A e \in events' : e.time > timestamp
      BY <1>2, <2>2, <2>3, <2>4 DEF IInv, WindowInv, CurrentSize
    <3> QED
      BY <1>1, <3>2, <3>3 DEF IInv, WindowInv
  <2>7. TickInv'
    <3>1. \A r \in Slots : \A i \in DOMAIN currentEvents[r] :
             currentEvents[r][i] \in Event /\ TimelyFor(currentEvents[r][i], s, p)
      BY <1>5, ElementOfSeq, LenProperties DEF IInv, TypeOK, TickInv
    <3>2. \A e \in events : TimelyFor(e, s, p)
      BY <1>5 DEF IInv, TypeOK, TickInv
    <3>3. \A r \in Slots : \A i \in DOMAIN currentEvents'[r] : TimelyFor(currentEvents'[r][i], s, p)
      BY <2>3, <2>4, <3>1
    <3>4. \A e \in events' : TimelyFor(e, s, p)
      BY <2>3, <2>4, <3>2
    <3> QED
      BY <1>1, <1>4, <3>3, <3>4 DEF TickInv, Timely
  <2> QED
    BY <1>1, <2>4, <2>5, <2>6, <2>7 DEF IInv
<1> QED
  BY <1>1, <1>6, <1>7

-----------------------------------------------------------------------------

LEMMA InitIInv == Init => IInv
<1> SUFFICES ASSUME Init PROVE IInv
  OBVIOUS
<1> DEFINE first == NextTick(StatsPeriod, ProgressPeriod)
           e == [time |-> first, at |-> 0, seq |-> 0, tick |-> TRUE]
<1>1. /\ timestamp = 0 /\ current = NoEvent /\ done = FALSE /\ pc = "setup"
      /\ currentEvents = [s \in Slots |->
             IF first \in 1 .. CurrentSize - 1 /\ s = first THEN <<e>> ELSE <<>>]
      /\ events = IF first >= CurrentSize THEN {e} ELSE {}
      /\ statsNextEvent = StatsPeriod /\ progressNextEvent = ProgressPeriod
      /\ added = 1 /\ componentAdds = 0
  BY DEF Init
<1>2. /\ first \in Nat
      /\ StatsPeriod # 0 => first <= StatsPeriod
      /\ ProgressPeriod # 0 => first <= ProgressPeriod
  BY EngineAssumption DEF NextTick
<1> HIDE DEF first
<1>3. e \in Event /\ e.time = first /\ Timely(e)
  BY <1>1, <1>2 DEF Event, Timely, TimelyFor
<1> HIDE DEF e
<1>4. <<e>> \in Seq(Event) /\ <<>> \in Seq(Event)
  BY <1>3
<1>5. currentEvents \in [Slots -> Seq(Event)]
  BY <1>1, <1>4
<1>6. IsFiniteSet(events)
  BY <1>1, FS_EmptySet, FS_Singleton
<1>7. TypeOK
  <2>1. events \in SUBSET Event
    BY <1>1, <1>3
  <2>2. componentAdds \in 0 .. MaxEvents
    BY <1>1, EngineAssumption
  <2> QED
    BY <1>1, <1>5, <2>1, <2>2, EngineAssumption DEF TypeOK
<1>8. \A s \in Slots : \A i \in DOMAIN currentEvents[s] :
         /\ currentEvents[s][i] = e
         /\ s = first
         /\ first \in 1 .. CurrentSize - 1
  BY <1>1
<1>9. first \in 1 .. CurrentSize - 1 => Slot(first) = first /\ first \in 0 .. 0 + CurrentSize - 1
  BY DEF Slot, CurrentSize
<1>10. WindowInv
  <2>1. \A s \in Slots : \A i \in DOMAIN currentEvents[s] :
          LET f == currentEvents[s][i] IN
          /\ f.time \in timestamp .. timestamp + CurrentSize - 1
          /\ Slot(f.time) = s
    BY <1>1, <1>3, <1>8, <1>9
  <2>2. \A f \in events : f.time > timestamp
    BY <1>1, <1>2, <1>3 DEF CurrentSize
  <2> QED
    BY <1>1, <2>1, <2>2 DEF WindowInv
<1>11. TickInv
  BY <1>1, <1>3, <1>8 DEF TickInv
<1> QED
  BY <1>1, <1>6, <1>7, <1>10, <1>11 DEF IInv

LEMMA NextIInv == IInv /\ [Next]_vars => IInv'
<1> SUFFICES ASSUME IInv, [Next]_vars PROVE IInv'
  OBVIOUS
<1>1. ASSUME NEW delay \in Delays, AddEvent(delay) PROVE IInv'
  BY <1>1, AddEventStep
<1>2. CASE Quit
  BY <1>2 DEF Quit, IInv, TypeOK, WindowInv, TickInv, Timely, TimelyFor
<1>3. CASE Run
  BY <1>3 DEF Run, IInv, TypeOK, WindowInv, TickInv, Timely, TimelyFor
<1>4. CASE Dispatch
  BY <1>4, DispatchStep
<1>5. CASE HandlerReturns
  BY <1>5 DEF HandlerReturns, IInv, TypeOK, WindowInv, TickInv, Timely, TimelyFor
<1>6. CASE ProcessTick
  BY <1>6, ProcessTickStep
<1>7. CASE End
  BY <1>7 DEF End, IInv, TypeOK, WindowInv, TickInv, Timely, TimelyFor
<1>8. CASE UNCHANGED vars
  BY <1>8 DEF vars, IInv, TypeOK, WindowInv, TickInv, Timely, TimelyFor
<1> QED
  BY <1>1, <1>2, <1>3, <1>4, <1>5, <1>6, <1>7, <1>8 DEF Next

THEOREM Invariance == Spec => []IInv
  BY InitIInv, NextIInv, PTL DEF Spec

\* The variables of the engine keep their types.  In particular the delay with
\* which the engine reschedules itself, a difference of unsigned numbers in
\* Engine::process, never underflows, whatever the two periods are.
THEOREM TypeCorrect == Spec => []TypeOK
  BY Invariance, PTL DEF IInv

\* The ring never mixes two cycles and no heap event is overdue, so the
\* assertion in Engine::run that the event it pops is due cannot fail.
THEOREM WindowCorrect == Spec => []WindowInv
  BY Invariance, PTL DEF IInv

-----------------------------------------------------------------------------
(* Order: Engine implements EventQueue *)


IsFar(e) == e.time - e.at >= CurrentSize

\* e may be in front of f in a list of the ring.
Ordered(e, f) == e # f /\ (e.seq < f.seq \/ (IsFar(e) /\ IsFar(f)))

\* What has been added later has a greater number.
AgeInv ==
    /\ \A e \in Pending : e.seq < added /\ e.at <= timestamp
    /\ \A e, f \in Pending : /\ e.at < f.at => e.seq < f.seq
                             /\ e.seq = f.seq => e = f

\* The heap holds what was added far ahead, the ring after the present cycle
\* what was added within its window, and each list is in order.
OrderInv ==
    /\ pc # "handler" => current = NoEvent
    /\ AgeInv
    /\ \A e \in events : IsFar(e)
    /\ \A e \in InRing : e.time # timestamp => ~IsFar(e)
    /\ \A s \in Slots : \A i, j \in DOMAIN currentEvents[s] :
          i < j => Ordered(currentEvents[s][i], currentEvents[s][j])

-----------------------------------------------------------------------------
(* Lists *)

LEMMA RingTypes ==
  ASSUME IInv
  PROVE  /\ timestamp \in Nat /\ added \in Nat
         /\ \A e \in events : e \in Event /\ e \in Pending /\ e.time > timestamp
         /\ \A s \in Slots : currentEvents[s] \in Seq(Event)
         /\ \A s \in Slots : \A i \in DOMAIN currentEvents[s] :
               LET e == currentEvents[s][i] IN
               /\ e \in InRing /\ e \in Pending /\ e \in Event
               /\ e.time \in timestamp .. timestamp + CurrentSize - 1
               /\ Slot(e.time) = s
         /\ \A e \in InRing : \E s \in Slots : \E i \in DOMAIN currentEvents[s] : e = currentEvents[s][i]
         /\ \A e \in Pending : /\ e \in Event /\ e.time \in Nat /\ e.at \in Nat /\ e.seq \in Nat
                               /\ e.time >= timestamp
<1>1. timestamp \in Nat /\ added \in Nat /\ events \in SUBSET Event
      /\ currentEvents \in [Slots -> Seq(Event)]
  BY DEF IInv, TypeOK
<1>2. \A e \in events : e \in Event /\ e \in Pending /\ e.time > timestamp
  BY <1>1 DEF IInv, WindowInv, Pending
<1>3. \A s \in Slots : \A i \in DOMAIN currentEvents[s] :
         LET e == currentEvents[s][i] IN
         /\ e \in InRing /\ e \in Pending /\ e \in Event
         /\ e.time \in timestamp .. timestamp + CurrentSize - 1
         /\ Slot(e.time) = s
  <2> TAKE s \in Slots
  <2> TAKE i \in DOMAIN currentEvents[s]
  <2>1. currentEvents[s] \in Seq(Event)
    BY <1>1
  <2>2. currentEvents[s][i] \in Event
    BY <2>1, LenProperties, ElementOfSeq
  <2>3. currentEvents[s][i] \in InRing
    BY DEF InRing, Range
  <2> QED
    BY <2>2, <2>3 DEF IInv, WindowInv, Pending
<1>4. \A e \in InRing : \E s \in Slots : \E i \in DOMAIN currentEvents[s] : e = currentEvents[s][i]
  BY DEF InRing, Range
<1>5. \A e \in Pending : e \in Event /\ e.time >= timestamp
  BY <1>1, <1>2, <1>3, <1>4 DEF Pending, CurrentSize, Event
<1> QED
  BY <1>1, <1>2, <1>3, <1>4, <1>5 DEF Event

\* An order of a finite set has each of its events once.
LEMMA OrdersAreInjective ==
  ASSUME NEW S, IsFiniteSet(S), NEW p \in Orders(S)
  PROVE  /\ \A e \in S : \E i \in DOMAIN p : p[i] = e
         /\ \A i, j \in DOMAIN p : i # j => p[i] # p[j]
<1>1. Cardinality(S) \in Nat
  BY FS_CardinalityType
<1>2. p \in [1 .. Cardinality(S) -> S] /\ S = {p[i] : i \in DOMAIN p}
  BY DEF Orders, Range
<1>3. p \in Surjection(1 .. Cardinality(S), S)
  BY <1>2 DEF Surjection
<1>4. /\ IsFiniteSet(1 .. Cardinality(S))
      /\ Cardinality(1 .. Cardinality(S)) = Cardinality(S)
  BY <1>1, FS_Interval
<1>5. p \in Injection(1 .. Cardinality(S), S)
  BY <1>3, <1>4, FS_SurjSameCardinalityImpliesInj
<1> QED
  BY <1>2, <1>5 DEF Injection, IsInjective

\* The list that the loop takes its next event from.
LEMMA DispatchedList ==
  ASSUME IInv, OrderInv, Dispatch
  PROVE  \E list \in Seq(Event) :
            /\ list # <<>>
            /\ current' = Head(list)
            /\ currentEvents' = [currentEvents EXCEPT ![Slot(NextTime)] = Tail(list)]
            /\ \A i \in DOMAIN list : list[i] \in Pending /\ list[i].time = NextTime
            /\ \A e \in Pending : e.time = NextTime => \E i \in DOMAIN list : list[i] = e
            /\ \A i, j \in DOMAIN list : i < j => Ordered(list[i], list[j])
            /\ events' = {e \in events : e.time # NextTime}
<1> DEFINE t == NextTime
           fetched == IF t = timestamp THEN {} ELSE Due(t)
           slot == currentEvents[Slot(t)]
<1>1. Pending # {}
  BY DEF Dispatch
<1>2. PICK p \in Orders(fetched) :
         /\ timestamp' = t
         /\ current' = Head(p \o slot)
         /\ currentEvents' = [currentEvents EXCEPT ![Slot(t)] = Tail(p \o slot)]
         /\ events' = events \ fetched
  BY DEF Dispatch
<1>3. /\ t \in Nat
      /\ t >= timestamp
      /\ \A e \in Pending : e.time >= t
      /\ t # timestamp => \E e \in Pending : e.time = t
      /\ t = timestamp => slot # <<>>
  BY <1>1, NextTimeMin
<1> HIDE DEF t
<1>4. /\ Slot(t) \in Slots /\ slot \in Seq(Event)
      /\ Len(slot) \in Nat /\ DOMAIN slot = 1 .. Len(slot)
  BY <1>3, SlotType, RingTypes, LenProperties
<1>5. \A i \in DOMAIN slot : slot[i] \in Pending /\ slot[i] \in InRing /\ slot[i].time = t
  <2> TAKE i \in DOMAIN slot
  <2>1. /\ slot[i] \in Pending /\ slot[i] \in InRing
        /\ slot[i].time \in timestamp .. timestamp + CurrentSize - 1 /\ Slot(slot[i].time) = Slot(t)
    BY <1>4, RingTypes
  <2>2. slot[i].time \in t .. t + CurrentSize - 1 /\ t \in t .. t + CurrentSize - 1
    BY <1>3, <2>1, RingTypes DEF CurrentSize
  <2> QED
    BY <1>3, <2>1, <2>2, SlotInjective
<1>6. fetched = {e \in events : e.time = t}
  BY <1>3, RingTypes DEF Due
<1> HIDE DEF fetched
<1>7. /\ fetched \in SUBSET Event /\ IsFiniteSet(fetched)
      /\ \A e \in fetched : e \in Pending /\ e.time = t /\ IsFar(e) /\ t # timestamp
  BY <1>3, <1>6, RingTypes, FS_Subset DEF IInv, OrderInv
<1>8. /\ p \in Seq(Event) /\ Len(p) \in Nat /\ DOMAIN p = 1 .. Len(p)
      /\ \A i \in DOMAIN p : p[i] \in fetched
      /\ \A e \in fetched : \E i \in DOMAIN p : p[i] = e
      /\ \A i, j \in DOMAIN p : i # j => p[i] # p[j]
  <2>1. p \in Seq(Event) /\ \A i \in DOMAIN p : p[i] \in fetched
    BY <1>7, OrdersAreSequences
  <2> QED
    BY <1>7, <2>1, OrdersAreInjective, LenProperties
<1> DEFINE list == p \o slot
<1>9. /\ list \in Seq(Event)
      /\ Len(list) = Len(p) + Len(slot)
      /\ DOMAIN list = 1 .. Len(p) + Len(slot)
      /\ \A i \in 1 .. Len(p) + Len(slot) :
            list[i] = IF i <= Len(p) THEN p[i] ELSE slot[i - Len(p)]
  <2>1. /\ list \in Seq(Event)
        /\ Len(list) = Len(p) + Len(slot)
        /\ \A i \in 1 .. Len(p) + Len(slot) :
              list[i] = IF i <= Len(p) THEN p[i] ELSE slot[i - Len(p)]
    BY <1>4, <1>8, ConcatProperties
  <2>2. DOMAIN list = 1 .. Len(list)
    BY <2>1, LenProperties
  <2> QED
    BY <2>1, <2>2
<1> HIDE DEF list
<1>10. \A i \in DOMAIN list : list[i] \in Pending /\ list[i].time = t
  <2> TAKE i \in DOMAIN list
  <2>1. CASE i <= Len(p)
    BY <1>4, <1>7, <1>8, <1>9, <2>1
  <2>2. CASE i > Len(p)
    <3>1. i - Len(p) \in DOMAIN slot /\ list[i] = slot[i - Len(p)]
      BY <1>4, <1>8, <1>9, <2>2
    <3> QED
      BY <1>5, <3>1
  <2> QED
    BY <1>8, <1>9, <2>1, <2>2
<1>11. \A e \in Pending : e.time = t => \E i \in DOMAIN list : list[i] = e
  <2> SUFFICES ASSUME NEW e \in Pending, e.time = t
               PROVE  \E i \in DOMAIN list : list[i] = e
    OBVIOUS
  <2>1. CASE e \in events
    <3>1. PICK i \in DOMAIN p : p[i] = e
      BY <1>6, <1>8, <2>1
    <3> QED
      BY <1>4, <1>8, <1>9, <3>1
  <2>2. CASE e \in InRing
    <3>1. PICK i \in DOMAIN slot : slot[i] = e
      BY <2>2, RingTypes
    <3>2. i + Len(p) \in DOMAIN list /\ list[i + Len(p)] = e
      BY <1>4, <1>8, <1>9, <3>1
    <3> QED
      BY <3>2
  <2> QED
    BY <2>1, <2>2 DEF Pending
<1>12. \A i, j \in DOMAIN list : i < j => Ordered(list[i], list[j])
  <2> SUFFICES ASSUME NEW i \in DOMAIN list, NEW j \in DOMAIN list, i < j
               PROVE  Ordered(list[i], list[j])
    OBVIOUS
  <2>1. CASE j <= Len(p)
    <3>1. i \in DOMAIN p /\ j \in DOMAIN p /\ list[i] = p[i] /\ list[j] = p[j] /\ i # j
      BY <1>4, <1>8, <1>9, <2>1
    <3> QED
      BY <1>7, <1>8, <3>1 DEF Ordered
  <2>2. CASE i > Len(p)
    <3>1. /\ i - Len(p) \in DOMAIN slot /\ list[i] = slot[i - Len(p)]
          /\ j - Len(p) \in DOMAIN slot /\ list[j] = slot[j - Len(p)]
          /\ i - Len(p) < j - Len(p)
      BY <1>4, <1>8, <1>9, <2>2
    <3> QED
      BY <1>4, <3>1 DEF OrderInv
  <2>3. CASE i <= Len(p) /\ j > Len(p)
    <3>1. /\ i \in DOMAIN p /\ list[i] = p[i]
          /\ j - Len(p) \in DOMAIN slot /\ list[j] = slot[j - Len(p)]
      BY <1>4, <1>8, <1>9, <2>3
    <3>2. list[i] \in fetched /\ list[j] \in InRing /\ list[j].time = t
      BY <1>5, <1>8, <3>1
    <3>3. IsFar(list[i]) /\ ~IsFar(list[j])
      BY <1>7, <3>2 DEF OrderInv
    <3>4. list[i].at < list[j].at
      BY <1>3, <1>10, <3>3, RingTypes DEF IsFar, CurrentSize
    <3>5. list[i].seq < list[j].seq
      BY <1>10, <3>4 DEF OrderInv, AgeInv
    <3> QED
      BY <3>3, <3>5 DEF Ordered
  <2> QED
    BY <1>4, <1>8, <1>9, <2>1, <2>2, <2>3
<1>13. list # <<>>
  <2>1. \E i \in DOMAIN list : TRUE
    <3>1. CASE t = timestamp
      <4>1. Len(slot) # 0
        BY <1>3, <1>4, <3>1, EmptySeq
      <4>2. 1 \in DOMAIN list
        BY <1>4, <1>8, <1>9, <4>1
      <4> QED
        BY <4>2
    <3>2. CASE t # timestamp
      BY <1>3, <1>11, <3>2
    <3> QED
      BY <3>1, <3>2
  <2>2. Len(<<>>) = 0
    BY EmptySeq
  <2> QED
    BY <1>4, <1>8, <1>9, <2>1, <2>2
<1>14. events' = {e \in events : e.time # t}
  BY <1>2, <1>6
<1> QED
  BY <1>2, <1>9, <1>10, <1>11, <1>12, <1>13, <1>14 DEF list, t

-----------------------------------------------------------------------------
(* Steps *)

\* An event that has just been added is the last of its list.
LEMMA EnqueueOrder ==
  ASSUME IInv, OrderInv, NEW d \in Nat, NEW tick \in BOOLEAN, Enqueue(d, tick),
         UNCHANGED timestamp, pc' # "handler" => current' = NoEvent
  PROVE  /\ OrderInv'
         /\ Pending' = Pending \cup {NewEvent(d, tick)}
<1> DEFINE n == NewEvent(d, tick)
<1>1. n.time = timestamp + d /\ n.at = timestamp /\ n.seq = added /\ n \in Event
  BY RingTypes DEF NewEvent, Event
<1>2. added' = added + 1
  BY DEF Enqueue
<1>3. currentEvents \in [Slots -> Seq(Event)]
  BY DEF IInv, TypeOK
<1>4. CASE d < CurrentSize
  <2> DEFINE t == Slot(timestamp + d)
  <2>1. /\ currentEvents' = [currentEvents EXCEPT ![t] = Append(@, n)]
        /\ events' = events
    BY <1>1, <1>4 DEF Enqueue
  <2>2. t \in Slots
    BY RingTypes, SlotType
  <2> HIDE DEF t, n
  <2>3. /\ Len(currentEvents[t]) \in Nat
        /\ DOMAIN currentEvents[t] = 1 .. Len(currentEvents[t])
        /\ DOMAIN Append(currentEvents[t], n) = 1 .. Len(currentEvents[t]) + 1
        /\ \A i \in 1 .. Len(currentEvents[t]) : Append(currentEvents[t], n)[i] = currentEvents[t][i]
        /\ Append(currentEvents[t], n)[Len(currentEvents[t]) + 1] = n
    <3>1. currentEvents[t] \in Seq(Event)
      BY <1>3, <2>2
    <3>2. Append(currentEvents[t], n) \in Seq(Event)
      BY <1>1, <3>1, AppendProperties
    <3> QED
      BY <1>1, <3>1, <3>2, AppendProperties, LenProperties
  <2>4. /\ currentEvents'[t] = Append(currentEvents[t], n)
        /\ \A s \in Slots : s # t => currentEvents'[s] = currentEvents[s]
    BY <1>3, <2>1, <2>2
  <2>5. InRing' = InRing \cup {n}
    <3>1. Range(Append(currentEvents[t], n)) = Range(currentEvents[t]) \cup {n}
      <4>1. \A e \in Range(currentEvents[t]) : e \in Range(Append(currentEvents[t], n))
        BY <2>3 DEF Range
      <4>2. n \in Range(Append(currentEvents[t], n))
        BY <2>3 DEF Range
      <4>3. \A i \in 1 .. Len(currentEvents[t]) + 1 :
               i \in 1 .. Len(currentEvents[t]) \/ i = Len(currentEvents[t]) + 1
        BY <2>3
      <4>4. \A e \in Range(Append(currentEvents[t], n)) : e \in Range(currentEvents[t]) \cup {n}
        BY <2>3, <4>3 DEF Range
      <4> QED
        BY <4>1, <4>2, <4>4
    <3>2. \A s \in Slots : Range(currentEvents'[s]) = IF s = t THEN Range(currentEvents[s]) \cup {n}
                                                      ELSE Range(currentEvents[s])
      BY <2>4, <3>1
    <3>3. InRing' = UNION {Range(currentEvents'[s]) : s \in Slots}
      BY DEF InRing
    <3>4. \A e : e \in InRing' <=> \E s \in Slots : e \in Range(currentEvents'[s])
      BY <3>3
    <3>5. \A e : e \in InRing <=> \E s \in Slots : e \in Range(currentEvents[s])
      BY DEF InRing
    <3> QED
      BY <2>2, <3>2, <3>4, <3>5
  <2>6. Pending' = Pending \cup {n}
    BY <2>1, <2>5 DEF Pending
  <2>7. AgeInv'
    BY <1>1, <1>2, <2>6, RingTypes DEF OrderInv, AgeInv
  <2>8. ~IsFar(n)
    BY <1>1, <1>4, RingTypes DEF IsFar, CurrentSize
  <2>9. \A s \in Slots : \A i, j \in DOMAIN currentEvents'[s] :
           i < j => Ordered(currentEvents'[s][i], currentEvents'[s][j])
    <3> SUFFICES ASSUME NEW s \in Slots, NEW i \in DOMAIN currentEvents'[s],
                        NEW j \in DOMAIN currentEvents'[s], i < j
                 PROVE  Ordered(currentEvents'[s][i], currentEvents'[s][j])
      OBVIOUS
    <3>1. CASE s # t
      BY <2>4, <3>1 DEF OrderInv
    <3>2. CASE s = t /\ j <= Len(currentEvents[t])
      <4>1. /\ i \in DOMAIN currentEvents[t] /\ currentEvents'[t][i] = currentEvents[t][i]
            /\ j \in DOMAIN currentEvents[t] /\ currentEvents'[t][j] = currentEvents[t][j]
        BY <2>3, <2>4, <3>2
      <4> QED
        BY <2>2, <3>2, <4>1 DEF OrderInv
    <3>3. CASE s = t /\ j = Len(currentEvents[t]) + 1
      <4>1. /\ i \in DOMAIN currentEvents[t] /\ currentEvents'[t][i] = currentEvents[t][i]
            /\ currentEvents'[t][j] = n
        BY <2>3, <2>4, <3>3
      <4>2. currentEvents[t][i] \in Pending
        BY <2>2, <4>1, RingTypes
      <4>3. currentEvents[t][i].seq < added /\ currentEvents[t][i].seq \in Nat
        BY <4>2, RingTypes DEF OrderInv, AgeInv
      <4>4. currentEvents[t][i] # n
        BY <1>1, <4>3, RingTypes
      <4> QED
        BY <1>1, <3>3, <4>1, <4>3, <4>4 DEF Ordered
    <3> QED
      BY <2>3, <2>4, <3>1, <3>2, <3>3
  <2>10. \A e \in InRing' : e.time # timestamp => ~IsFar(e)
    BY <2>5, <2>8 DEF OrderInv
  <2>11. OrderInv'
    BY <2>1, <2>7, <2>9, <2>10 DEF OrderInv
  <2> QED
    BY <2>6, <2>11 DEF n
<1>5. CASE ~ (d < CurrentSize)
  <2>1. events' = events \cup {n} /\ currentEvents' = currentEvents
    BY <1>5 DEF Enqueue
  <2> HIDE DEF n
  <2>2. InRing' = InRing
    BY <2>1 DEF InRing
  <2>3. Pending' = Pending \cup {n}
    BY <2>1, <2>2 DEF Pending
  <2>4. AgeInv'
    BY <1>1, <1>2, <2>3, RingTypes DEF OrderInv, AgeInv
  <2>5. IsFar(n)
    BY <1>1, <1>5, RingTypes DEF IsFar, CurrentSize
  <2>6. OrderInv'
    BY <2>1, <2>2, <2>4, <2>5 DEF OrderInv
  <2> QED
    BY <2>3, <2>6 DEF n
<1> QED
  BY <1>4, <1>5

\* The loop takes one event away, and none is to come before it.
LEMMA DispatchOrder ==
  ASSUME IInv, OrderInv, Dispatch
  PROVE  /\ OrderInv'
         /\ current' \in Pending
         /\ current'.time = timestamp'
         /\ \A f \in Pending : ~EQ!Before(f, current')
         /\ Pending' = Pending \ {current'}
<1> DEFINE t == NextTime
<1>1. /\ timestamp' = t /\ pc' = "handler" /\ added' = added /\ Pending # {}
  BY DEF Dispatch
<1>2. /\ t \in Nat /\ t >= timestamp
      /\ \A e \in Pending : e.time >= t
      /\ t # timestamp => currentEvents[Slot(timestamp)] = <<>>
  BY <1>1, NextTimeMin
<1>3. PICK list \in Seq(Event) :
         /\ list # <<>>
         /\ current' = Head(list)
         /\ currentEvents' = [currentEvents EXCEPT ![Slot(t)] = Tail(list)]
         /\ \A i \in DOMAIN list : list[i] \in Pending /\ list[i].time = t
         /\ \A e \in Pending : e.time = t => \E i \in DOMAIN list : list[i] = e
         /\ \A i, j \in DOMAIN list : i < j => Ordered(list[i], list[j])
         /\ events' = {e \in events : e.time # t}
  BY DispatchedList
<1> HIDE DEF t
<1>4. /\ Len(list) \in Nat \ {0} /\ DOMAIN list = 1 .. Len(list)
      /\ Head(list) = list[1]
      /\ DOMAIN Tail(list) = 1 .. Len(list) - 1
      /\ \A i \in 1 .. Len(list) - 1 : Tail(list)[i] = list[i + 1]
  <2>1. /\ Len(list) \in Nat \ {0} /\ DOMAIN list = 1 .. Len(list)
    BY <1>3, EmptySeq, LenProperties
  <2>2. /\ Tail(list) \in Seq(Event) /\ Len(Tail(list)) = Len(list) - 1
        /\ \A i \in 1 .. Len(Tail(list)) : Tail(list)[i] = list[i + 1]
    BY <1>3, HeadTailProperties
  <2>3. DOMAIN Tail(list) = 1 .. Len(list) - 1
    BY <2>2, LenProperties
  <2> QED
    BY <2>1, <2>2, <2>3
<1>5. current' = list[1] /\ current' \in Pending /\ current'.time = t
  BY <1>3, <1>4
<1>6. \A f \in Pending : ~EQ!Before(f, current')
  <2> SUFFICES ASSUME NEW f \in Pending, EQ!Before(f, current') PROVE FALSE
    OBVIOUS
  <2>1. f.time = t
    BY <1>2, <1>5, RingTypes DEF EQ!Before
  <2>2. PICK i \in DOMAIN list : list[i] = f
    BY <1>3, <2>1
  <2>3. f.seq < current'.seq /\ ~(IsFar(f) /\ IsFar(current'))
    BY <1>5, <2>1, RingTypes DEF EQ!Before, EQ!IsFar, IsFar
  <2>4. i # 1
    BY <1>5, <2>2, <2>3, RingTypes
  <2>5. Ordered(current', f)
    BY <1>3, <1>4, <1>5, <2>2, <2>4
  <2> QED
    BY <1>5, <2>3, <2>5, RingTypes DEF Ordered
<1>7. Slot(t) \in Slots /\ currentEvents \in [Slots -> Seq(Event)]
  BY <1>2, SlotType DEF IInv, TypeOK
<1>8. /\ currentEvents'[Slot(t)] = Tail(list)
      /\ \A s \in Slots : s # Slot(t) => currentEvents'[s] = currentEvents[s]
  BY <1>3, <1>7
\* What is in the ring has an index in the list, or is in another slot.
<1>9. \A e \in InRing' : \/ \E i \in DOMAIN list : i # 1 /\ e = list[i]
                         \/ e \in InRing /\ e.time # t
  <2> SUFFICES ASSUME NEW s \in Slots, NEW i \in DOMAIN currentEvents'[s]
               PROVE  \/ \E j \in DOMAIN list : j # 1 /\ currentEvents'[s][i] = list[j]
                      \/ currentEvents'[s][i] \in InRing /\ currentEvents'[s][i].time # t
    BY DEF InRing, Range
  <2>1. CASE s = Slot(t)
    <3>1. i + 1 \in DOMAIN list /\ i + 1 # 1 /\ currentEvents'[s][i] = list[i + 1]
      BY <1>4, <1>8, <2>1
    <3> QED
      BY <3>1
  <2>2. CASE s # Slot(t)
    BY <1>8, <2>2, RingTypes
  <2> QED
    BY <2>1, <2>2
<1>10. \A i \in DOMAIN list : i # 1 => list[i] \in InRing'
  <2> SUFFICES ASSUME NEW i \in DOMAIN list, i # 1 PROVE list[i] \in InRing'
    OBVIOUS
  <2>1. i - 1 \in DOMAIN Tail(list) /\ Tail(list)[i - 1] = list[i]
    BY <1>4
  <2>2. list[i] \in Range(currentEvents'[Slot(t)])
    BY <1>8, <2>1 DEF Range
  <2> QED
    BY <1>7, <2>2 DEF InRing
<1>11. \A e \in InRing : e.time # t => e \in InRing'
  <2> SUFFICES ASSUME NEW e \in InRing, e.time # t PROVE e \in InRing'
    OBVIOUS
  <2>1. PICK s \in Slots : \E i \in DOMAIN currentEvents[s] : e = currentEvents[s][i]
    BY RingTypes
  <2>2. s # Slot(t)
    <3> SUFFICES ASSUME s = Slot(t) PROVE FALSE
      OBVIOUS
    <3>1. Slot(e.time) = Slot(t) /\ e.time \in timestamp .. timestamp + CurrentSize - 1 /\ e.time >= t
      BY <1>2, <2>1, RingTypes
    <3>2. e.time \in t .. t + CurrentSize - 1 /\ t \in t .. t + CurrentSize - 1
      BY <1>2, <3>1, RingTypes DEF CurrentSize
    <3> QED
      BY <1>2, <3>1, <3>2, SlotInjective
  <2> QED
    BY <1>8, <2>1, <2>2 DEF InRing, Range
<1>12. Pending' = Pending \ {current'}
  <2>1. \A e \in Pending : e # current' => e \in Pending'
    <3> SUFFICES ASSUME NEW e \in Pending, e # current' PROVE e \in InRing' \cup events'
      BY DEF Pending
    <3>1. CASE e.time = t
      BY <1>3, <1>5, <1>10, <3>1
    <3>2. CASE e.time # t
      BY <1>3, <1>11, <3>2 DEF Pending
    <3> QED
      BY <3>1, <3>2
  <2>2. \A i \in DOMAIN list : i # 1 => list[i] \in Pending /\ list[i] # current'
    BY <1>3, <1>4, <1>5 DEF Ordered
  <2>3. \A e \in Pending' : e \in Pending /\ e # current'
    <3> SUFFICES ASSUME NEW e \in InRing' \cup events' PROVE e \in Pending /\ e # current'
      BY DEF Pending
    <3> QED
      BY <1>3, <1>5, <1>9, <2>2 DEF Pending
  <2> QED
    BY <2>1, <2>3
<1>13. OrderInv'
  <2>1. AgeInv'
    BY <1>1, <1>2, <1>12, RingTypes DEF OrderInv, AgeInv
  <2>2. \A e \in events' : IsFar(e)
    BY <1>3 DEF OrderInv
  <2>3. \A e \in InRing' : e.time # t => ~IsFar(e)
    <3> SUFFICES ASSUME NEW e \in InRing, e.time # t PROVE ~IsFar(e)
      BY <1>3, <1>9
    <3>1. e.time # timestamp
      <4> SUFFICES ASSUME e.time = timestamp PROVE FALSE
        OBVIOUS
      <4>1. PICK s \in Slots : \E i \in DOMAIN currentEvents[s] : e = currentEvents[s][i]
        BY RingTypes
      <4>2. s = Slot(timestamp)
        BY <4>1, RingTypes
      <4>3. currentEvents[s] = <<>>
        BY <1>2, <4>2
      <4> QED
        BY <4>1, <4>3
    <3> QED
      BY <3>1 DEF OrderInv
  <2>4. \A s \in Slots : \A i, j \in DOMAIN currentEvents'[s] :
           i < j => Ordered(currentEvents'[s][i], currentEvents'[s][j])
    <3> SUFFICES ASSUME NEW s \in Slots, NEW i \in DOMAIN currentEvents'[s],
                        NEW j \in DOMAIN currentEvents'[s], i < j
                 PROVE  Ordered(currentEvents'[s][i], currentEvents'[s][j])
      OBVIOUS
    <3>1. CASE s # Slot(t)
      BY <1>8, <3>1 DEF OrderInv
    <3>2. CASE s = Slot(t)
      <4>1. /\ i + 1 \in DOMAIN list /\ currentEvents'[s][i] = list[i + 1]
            /\ j + 1 \in DOMAIN list /\ currentEvents'[s][j] = list[j + 1]
            /\ i + 1 < j + 1
        BY <1>4, <1>8, <3>2
      <4> QED
        BY <1>3, <4>1
    <3> QED
      BY <3>1, <3>2
  <2> QED
    BY <1>1, <2>1, <2>2, <2>3, <2>4 DEF OrderInv
<1> QED
  BY <1>1, <1>5, <1>6, <1>12, <1>13

\* The engine reschedules itself for a time that is not past.
LEMMA ReschedulesAhead ==
  ASSUME IInv, ProcessTick
  PROVE  LET s == IF timestamp = statsNextEvent THEN statsNextEvent + StatsPeriod
                  ELSE statsNextEvent
             p == IF timestamp = progressNextEvent THEN progressNextEvent + ProgressPeriod
                  ELSE progressNextEvent
         IN NextTick(s, p) # 0 => NextTick(s, p) - timestamp \in Nat
<1>1. /\ timestamp \in Nat /\ statsNextEvent \in Nat /\ progressNextEvent \in Nat
      /\ StatsPeriod \in Nat /\ ProgressPeriod \in Nat
  BY EngineAssumption DEF IInv, TypeOK
<1>2. /\ statsNextEvent # 0 => timestamp <= statsNextEvent
      /\ progressNextEvent # 0 => timestamp <= progressNextEvent
      /\ statsNextEvent = 0 => StatsPeriod = 0
      /\ progressNextEvent = 0 => ProgressPeriod = 0
  BY DEF ProcessTick, IInv, WindowInv, TickInv, Timely, TimelyFor
<1> QED
  BY <1>1, <1>2 DEF NextTick

-----------------------------------------------------------------------------
(* The refinement *)

LEMMA InitOrder == Init => OrderInv /\ EQ!Init
<1> SUFFICES ASSUME Init PROVE OrderInv /\ EQ!Init
  OBVIOUS
<1> DEFINE first == NextTick(StatsPeriod, ProgressPeriod)
           e == [time |-> first, at |-> 0, seq |-> 0, tick |-> TRUE]
<1>1. first \in Nat
  BY EngineAssumption DEF NextTick
<1>2. /\ timestamp = 0 /\ current = NoEvent /\ done = FALSE /\ pc = "setup" /\ added = 1
      /\ currentEvents = [s \in Slots |->
             IF first \in 1 .. CurrentSize - 1 /\ s = first THEN <<e>> ELSE <<>>]
      /\ events = IF first >= CurrentSize THEN {e} ELSE {}
  BY DEF Init
<1> HIDE DEF first
<1>3. e.time = first /\ e.at = 0 /\ e.seq = 0
  OBVIOUS
<1> HIDE DEF e
<1>4. \A f \in InRing : f = e /\ first < CurrentSize
  BY <1>1, <1>2 DEF InRing, Range, CurrentSize
<1>5. \A s \in Slots : \A i, j \in DOMAIN currentEvents[s] : ~(i < j)
  BY <1>2
<1>6. \A f \in Pending : f = e
  BY <1>2, <1>4 DEF Pending
<1>7. AgeInv
  BY <1>2, <1>3, <1>6 DEF AgeInv
<1>8. OrderInv
  BY <1>1, <1>2, <1>3, <1>4, <1>5, <1>7 DEF OrderInv, IsFar, CurrentSize
<1>9. EQ!Init
  BY <1>1, <1>2, <1>3, <1>6 DEF EQ!Init
<1> QED
  BY <1>8, <1>9

LEMMA NextOrder ==
  ASSUME IInv, OrderInv, [Next]_vars
  PROVE  OrderInv' /\ [EQ!Next]_(EQ!vars)
<1> DEFINE Same == UNCHANGED <<timestamp, currentEvents, events, added>>
<1>1. ASSUME Same, pc' # "handler" => current' = NoEvent
      PROVE  OrderInv' /\ Pending' = Pending
  BY <1>1 DEF OrderInv, AgeInv, Pending, InRing
\* What EventQueue asks of an event that is added.
<1>2. ASSUME NEW d \in Nat, NEW tick \in BOOLEAN, Enqueue(d, tick), UNCHANGED timestamp,
             Pending' = Pending \cup {NewEvent(d, tick)}
      PROVE  \E e \in Pending' : /\ e.at = timestamp /\ e.time >= timestamp
                                 /\ \A f \in Pending : f.seq < e.seq
                                 /\ Pending' = Pending \cup {e}
  <2>1. LET n == NewEvent(d, tick) IN n.at = timestamp /\ n.time = timestamp + d /\ n.seq = added
    BY DEF NewEvent
  <2> QED
    BY <1>2, <2>1, RingTypes DEF OrderInv, AgeInv
<1>3. ASSUME NEW delay \in Delays, AddEvent(delay)
      PROVE  OrderInv' /\ [EQ!Next]_(EQ!vars)
  <2>1. delay \in Nat /\ Enqueue(delay, FALSE) /\ UNCHANGED <<timestamp, current, done, pc>>
    BY <1>3, EngineAssumption DEF AddEvent
  <2>2. OrderInv' /\ Pending' = Pending \cup {NewEvent(delay, FALSE)}
    <3>1. pc' # "handler" => current' = NoEvent
      BY <2>1 DEF OrderInv
    <3> QED
      BY <2>1, <3>1, EnqueueOrder
  <2>3. EQ!Add
    BY <1>2, <2>1, <2>2 DEF EQ!Add
  <2> QED
    BY <2>2, <2>3 DEF EQ!Next
<1>4. CASE Quit
  <2>1. Same /\ UNCHANGED <<pc, current>> /\ done' = TRUE
    BY <1>4 DEF Quit
  <2>2. OrderInv' /\ Pending' = Pending
    BY <1>1, <2>1 DEF OrderInv
  <2> QED
    BY <2>1, <2>2 DEF EQ!Next, EQ!Quit
<1>5. CASE Run \/ End
  <2>1. Same /\ UNCHANGED <<current, done>> /\ pc # "handler"
    BY <1>5 DEF Run, End
  <2>2. OrderInv' /\ Pending' = Pending
    BY <1>1, <2>1 DEF OrderInv
  <2> QED
    BY <2>1, <2>2 DEF EQ!vars
<1>6. CASE Dispatch
  <2>1. /\ OrderInv' /\ current' \in Pending /\ current'.time = timestamp'
        /\ \A f \in Pending : ~EQ!Before(f, current')
        /\ Pending' = Pending \ {current'}
    BY <1>6, DispatchOrder
  <2>2. ~done /\ current = NoEvent /\ UNCHANGED done
    BY <1>6 DEF Dispatch, OrderInv
  <2>3. EQ!Deliver
    BY <2>1, <2>2 DEF EQ!Deliver
  <2> QED
    BY <2>1, <2>3 DEF EQ!Next
<1>7. CASE HandlerReturns
  <2>1. Same /\ current' = NoEvent /\ UNCHANGED done
    BY <1>7 DEF HandlerReturns
  <2>2. OrderInv' /\ Pending' = Pending
    BY <1>1, <2>1
  <2> QED
    BY <2>1, <2>2 DEF EQ!Next, EQ!Finish, EQ!vars
<1>8. CASE ProcessTick
  <2> DEFINE s == IF timestamp = statsNextEvent THEN statsNextEvent + StatsPeriod
                  ELSE statsNextEvent
             p == IF timestamp = progressNextEvent THEN progressNextEvent + ProgressPeriod
                  ELSE progressNextEvent
             d == NextTick(s, p) - timestamp
  <2>1. /\ \/ NextTick(s, p) # 0 /\ Enqueue(d, TRUE)
           \/ UNCHANGED <<currentEvents, events, added>>
        /\ current' = NoEvent /\ UNCHANGED <<timestamp, done>>
    BY <1>8 DEF ProcessTick
  <2>2. CASE UNCHANGED <<currentEvents, events, added>>
    <3>1. OrderInv' /\ Pending' = Pending
      BY <1>1, <2>1, <2>2
    <3> QED
      BY <2>1, <3>1 DEF EQ!Next, EQ!Finish, EQ!vars
  <2>3. CASE NextTick(s, p) # 0 /\ Enqueue(d, TRUE)
    <3>1. d \in Nat
      BY <1>8, <2>3, ReschedulesAhead
    <3> HIDE DEF d
    <3>2. OrderInv' /\ Pending' = Pending \cup {NewEvent(d, TRUE)}
      BY <2>1, <2>3, <3>1, EnqueueOrder
    <3>3. EQ!Add \/ EQ!FinishAndAdd
      BY <1>2, <2>1, <2>3, <3>1, <3>2 DEF EQ!Add, EQ!FinishAndAdd
    <3> QED
      BY <3>2, <3>3 DEF EQ!Next
  <2> QED
    BY <2>1, <2>2, <2>3
<1>9. CASE UNCHANGED vars
  <2>1. Same /\ UNCHANGED <<current, done, pc>>
    BY <1>9 DEF vars
  <2>2. OrderInv' /\ Pending' = Pending
    BY <1>1, <2>1 DEF OrderInv
  <2> QED
    BY <2>1, <2>2 DEF EQ!vars
<1> QED
  BY <1>3, <1>4, <1>5, <1>6, <1>7, <1>8, <1>9 DEF Next

\* Ring and heap together are an event queue: every event that a component adds is
\* delivered once, at its time, and events of one cycle in the order in which they
\* were added, unless both come from the heap.
THEOREM Refinement == Spec => ImplementsEventQueue
<1>1. Init => OrderInv /\ EQ!Init
  BY InitOrder
<1>2. IInv /\ OrderInv /\ [Next]_vars => OrderInv' /\ [EQ!Next]_(EQ!vars)
  BY NextOrder
<1> QED
  BY <1>1, <1>2, Invariance, PTL DEF Spec, ImplementsEventQueue, EQ!Spec
=============================================================================
