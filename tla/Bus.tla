-------------------------------- MODULE Bus --------------------------------
(***************************************************************************)
(* The data bus the banks of a channel share (src/Bus.cpp).  A bank books  *)
(* the bus for Latency cycles with schedule, which returns how long it has *)
(* to wait; the bus calls it back when the transfer is over.  A transfer   *)
(* is one call of schedule, numbered in the order of the calls; a bank may *)
(* have several outstanding, because it pipelines column accesses.         *)
(***************************************************************************)
EXTENDS Integers, FiniteSets, FiniteSetsExt, Functions

CONSTANTS
    Latency,      \* cycles a transfer holds the bus
    Delays,       \* 0 for a write, the column access latency for a read
    Start,        \* the cycle of the first call
    MaxTransfers, \* bound on the calls
    MaxTime       \* bound on the time that passes with no transfer booked

\* schedule looks up the unsigned start - latency, so a start before Latency
\* would wrap.  No call comes that early: a row has to be opened first.
ASSUME BusAssumption ==
    /\ Latency \in Nat \ {0}
    /\ Delays \subseteq Nat
    /\ Start \in Nat /\ Start >= Latency
    /\ MaxTransfers \in Nat
    /\ MaxTime \in Nat

VARIABLES
    now,
    queue,     \* the booked slots: start cycle to transfer
    wakeups,   \* the events the bus scheduled for itself
    count,     \* transfers so far
    requested, \* the start each asked for
    granted,   \* the start each was given
    completed  \* the transfers whose bank was called back

vars == <<now, queue, wakeups, count, requested, granted, completed>>

Transfers == 1 .. count
Booked == DOMAIN queue

-----------------------------------------------------------------------------
(* schedule *)

\* The slots from lower_bound(start - latency) on.
Candidates(start) == {k \in Booked : k >= start - Latency}

\* Mutant: a gap is taken as soon as the transfer before it is over.
StopsAtAnyGap(k, start) ==
    \A next \in Booked : next > k => start >= k + Latency /\ next >= k + Latency

\* The loop stops at k: it is the last, or it ends just at start and leaves a
\* gap for a transfer before the next.
StopsAt(k, start) ==
    \A next \in Booked : next > k => start >= k + Latency /\ next >= k + 2 * Latency

\* Mutant: the transfer goes in front of the first slot looked at, which may be
\* before cycle 0.
FreeSlotInFront(start) ==
    IF Candidates(start) = {} THEN start ELSE Min(Candidates(start)) - Latency

FreeSlot(start) ==
    IF Candidates(start) = {} THEN start
    ELSE Min({k \in Candidates(start) : StopsAt(k, start)}) + Latency

Schedule(delay) ==
    LET start == now + delay
        slot == FreeSlot(start)
        t == count + 1
    IN /\ t <= MaxTransfers
       /\ queue' = IF slot \in Booked THEN queue  \* emplace does not overwrite
                   ELSE [k \in Booked \cup {slot} |-> IF k = slot THEN t ELSE queue[k]]
       /\ wakeups' = wakeups \cup {[time |-> slot + Latency, of |-> t]}
       /\ count' = t
       /\ requested' = [i \in 1 .. t |-> IF i = t THEN start ELSE requested[i]]
       /\ granted' = [i \in 1 .. t |-> IF i = t THEN slot ELSE granted[i]]
       /\ UNCHANGED <<now, completed>>

-----------------------------------------------------------------------------

\* Mutant: the last slot of the queue is taken to be over.
ProcessLast ==
    /\ Booked # {}
    /\ \E w \in wakeups :
          /\ w.time = now
          /\ wakeups' = wakeups \ {w}
    /\ LET last == Max(Booked) IN
       /\ queue' = Restrict(queue, Booked \ {last})
       /\ completed' = completed \cup {queue[last]}
    /\ UNCHANGED <<now, count, requested, granted>>

\* The event of a transfer: whatever slot comes first is taken to be over.
Process ==
    /\ Booked # {}
    /\ \E w \in wakeups :
          /\ w.time = now
          /\ wakeups' = wakeups \ {w}
    /\ LET first == Min(Booked) IN
       /\ queue' = Restrict(queue, Booked \ {first})
       /\ completed' = completed \cup {queue[first]}
    /\ UNCHANGED <<now, count, requested, granted>>

\* The engine moves on when no event of this cycle is left.
Tick ==
    /\ \A w \in wakeups : w.time > now
    /\ now' = now + 1
    /\ UNCHANGED <<queue, wakeups, count, requested, granted, completed>>

Advance == Tick /\ (wakeups # {} \/ now < MaxTime)

Init ==
    /\ now = Start
    /\ queue = <<>>
    /\ wakeups = {}
    /\ count = 0
    /\ requested = <<>>
    /\ granted = <<>>
    /\ completed = {}

Next == (\E delay \in Delays : Schedule(delay)) \/ Process \/ Advance

Spec == Init /\ [][Next]_vars

\* Without the bound on idle time: what a bus does whose banks set the pace.
Works == (\E delay \in Delays : Schedule(delay)) \/ Process \/ Tick
Unbounded == Init /\ [][Works]_vars

-----------------------------------------------------------------------------
(* Properties *)

\* What schedule and process leave behind keeps its type: no slot starts at a
\* negative cycle, and every slot and event belongs to a transfer.
TypeOK ==
    /\ now \in Nat
    /\ Booked \subseteq Nat
    /\ \A k \in Booked : queue[k] \in Transfers
    /\ wakeups \subseteq [time : Nat, of : Transfers]
    /\ count \in Nat
    /\ requested \in [Transfers -> Nat]
    /\ granted \in [Transfers -> Nat]
    /\ completed \subseteq Transfers

\* No two transfers ever use the bus in the same cycle, whatever gaps were
\* filled and in whatever order the slots were booked.
NoOverlap ==
    \A i, j \in Transfers :
        i # j => granted[i] >= granted[j] + Latency \/ granted[j] >= granted[i] + Latency

\* The assertions of Bus::process: when an event of the bus is due the queue is
\* not empty, and its first slot is the one that ends now.
DueFirst ==
    \A w \in wakeups : w.time = now => Booked # {} /\ Min(Booked) = now - Latency

\* The delay schedule returns is a promise: the bank, which computes its
\* pipeline times from it, is called back exactly Latency cycles after the
\* start it was given, and that is no earlier than it asked for.
CalledBackOnTime ==
    [][\A i \in completed' \ completed :
          granted[i] >= requested[i] /\ now = granted[i] + Latency]_vars
=============================================================================
