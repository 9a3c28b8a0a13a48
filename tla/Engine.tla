------------------------------- MODULE Engine -------------------------------
(***************************************************************************)
(* The discrete-event engine (src/Engine.cpp).  Events due within the next *)
(* CurrentSize cycles sit in a ring of FIFO lists, one per cycle; the      *)
(* others in a heap, from which they move to the ring when time reaches    *)
(* them.  run() is the loop Advance-pop-execute; the handlers it executes  *)
(* call addEvent and quit, which are actions of their own here, enabled    *)
(* while a handler runs.  The engine is itself a handler: it reschedules a *)
(* periodic event that prints statistics and progress.                     *)
(***************************************************************************)
EXTENDS Integers, Sequences, FiniteSets, FiniteSetsExt

CONSTANTS
    StatsPeriod,    \* cycles between statistics, 0 for none
    ProgressPeriod, \* cycles between progress lines, 0 for none
    Delays,         \* the delays components schedule with
    MaxEvents,      \* bound on the events the components add
    NoEvent

ASSUME EngineAssumption ==
    /\ StatsPeriod \in Nat
    /\ ProgressPeriod \in Nat
    /\ Delays \subseteq Nat
    /\ MaxEvents \in Nat

CurrentSize == 4

VARIABLES
    timestamp,
    currentEvents, \* the ring: lists of events, slot = time modulo CurrentSize
    events,        \* the heap
    current,       \* the event whose handler is running
    done,
    pc,            \* "setup" before run(), "loop" at its head, "handler", "ended"
    statsNextEvent,
    progressNextEvent,
    added,         \* how many events were ever added, the next sequence number
    componentAdds  \* how many of those by components, for the bound

vars == <<timestamp, currentEvents, events, current, done, pc,
          statsNextEvent, progressNextEvent, added, componentAdds>>

Slots == 0 .. CurrentSize - 1
Slot(t) == t % CurrentSize

\* at and seq record when, and as which event in order, an event was added;
\* the code does not store them, the ordering properties need them.
Event == [time : Nat, at : Nat, seq : Nat, tick : BOOLEAN]

InRing == UNION {Range(currentEvents[s]) : s \in Slots}
Pending == InRing \cup events

-----------------------------------------------------------------------------
(* Scheduling *)

\* Mutant: the delay is taken back from the present time.
NewEventBackdated(delay, tick) ==
    [time |-> timestamp - delay, at |-> timestamp, seq |-> added, tick |-> tick]

NewEvent(delay, tick) ==
    [time |-> timestamp + delay, at |-> timestamp, seq |-> added, tick |-> tick]

\* Mutant: an event a whole turn of the ring ahead goes into the ring.
EnqueueOneTooFar(delay, tick) ==
    LET e == NewEvent(delay, tick) IN
    /\ IF delay <= CurrentSize
       THEN /\ currentEvents' = [currentEvents EXCEPT ![Slot(e.time)] = Append(@, e)]
            /\ UNCHANGED events
       ELSE /\ events' = events \cup {e}
            /\ UNCHANGED currentEvents
    /\ added' = added + 1

Enqueue(delay, tick) ==
    LET e == NewEvent(delay, tick) IN
    /\ IF delay < CurrentSize
       THEN /\ currentEvents' = [currentEvents EXCEPT ![Slot(e.time)] = Append(@, e)]
            /\ UNCHANGED events
       ELSE /\ events' = events \cup {e}
            /\ UNCHANGED currentEvents
    /\ added' = added + 1

\* A component, or a handler it runs, adds an event.
AddEvent(delay) ==
    /\ pc \in {"setup", "handler"}
    /\ pc = "handler" => ~current.tick
    /\ componentAdds < MaxEvents
    /\ Enqueue(delay, FALSE)
    /\ componentAdds' = componentAdds + 1
    /\ UNCHANGED <<timestamp, current, done, pc, statsNextEvent, progressNextEvent>>

Quit ==
    /\ pc = "handler"
    /\ ~current.tick
    /\ done' = TRUE
    /\ UNCHANGED <<timestamp, currentEvents, events, current, pc,
                   statsNextEvent, progressNextEvent, added, componentAdds>>

-----------------------------------------------------------------------------
(* The loop of run() *)

Run ==
    /\ pc = "setup"
    /\ pc' = "loop"
    /\ UNCHANGED <<timestamp, currentEvents, events, current, done,
                   statsNextEvent, progressNextEvent, added, componentAdds>>

Due(t) == {e \in events : e.time = t}

\* The orders in which a heap may give back events of equal time.
Orders(S) == {p \in [1 .. Cardinality(S) -> S] : Range(p) = S}

\* The cycles of the ring, after the present one, that have an event.
Near ==
    {t \in timestamp + 1 .. timestamp + CurrentSize - 1 :
        currentEvents[Slot(t)] # <<>> \/ Due(t) # {}}

NextTime ==
    IF currentEvents[Slot(timestamp)] # <<>> THEN timestamp
    ELSE IF Near # {} THEN Min(Near)
    ELSE Min({e.time : e \in events})

\* Mutant: events that come from the heap go behind those of the ring.
DispatchRingFirst ==
    /\ pc = "loop"
    /\ ~done
    /\ Pending # {}
    /\ LET t == NextTime
           fetched == IF t = timestamp THEN {} ELSE Due(t)
       IN \E p \in Orders(fetched) :
             LET list == currentEvents[Slot(t)] \o p IN
             /\ timestamp' = t
             /\ current' = Head(list)
             /\ currentEvents' = [currentEvents EXCEPT ![Slot(t)] = Tail(list)]
             /\ events' = events \ fetched
    /\ pc' = "handler"
    /\ UNCHANGED <<done, statsNextEvent, progressNextEvent, added, componentAdds>>

\* Events that come from the heap go in front of those of the ring.
Dispatch ==
    /\ pc = "loop"
    /\ ~done
    /\ Pending # {}
    /\ LET t == NextTime
           fetched == IF t = timestamp THEN {} ELSE Due(t)
       IN \E p \in Orders(fetched) :
             LET list == p \o currentEvents[Slot(t)] IN
             /\ timestamp' = t
             /\ current' = Head(list)
             /\ currentEvents' = [currentEvents EXCEPT ![Slot(t)] = Tail(list)]
             /\ events' = events \ fetched
    /\ pc' = "handler"
    /\ UNCHANGED <<done, statsNextEvent, progressNextEvent, added, componentAdds>>

HandlerReturns ==
    /\ pc = "handler"
    /\ ~current.tick
    /\ current' = NoEvent
    /\ pc' = "loop"
    /\ UNCHANGED <<timestamp, currentEvents, events, done,
                   statsNextEvent, progressNextEvent, added, componentAdds>>

\* When the next periodic event is due, 0 if there is none.
NextTick(s, p) ==
    IF s = 0 THEN p
    ELSE IF p = 0 \/ s < p THEN s ELSE p

\* Engine::process.
ProcessTick ==
    /\ pc = "handler"
    /\ current.tick
    /\ LET s == IF timestamp = statsNextEvent THEN statsNextEvent + StatsPeriod
                ELSE statsNextEvent
           p == IF timestamp = progressNextEvent THEN progressNextEvent + ProgressPeriod
                ELSE progressNextEvent
       IN /\ statsNextEvent' = s
          /\ progressNextEvent' = p
          /\ IF Pending # {} /\ NextTick(s, p) # 0
             THEN Enqueue(NextTick(s, p) - timestamp, TRUE)
             ELSE UNCHANGED <<currentEvents, events, added>>
    /\ current' = NoEvent
    /\ pc' = "loop"
    /\ UNCHANGED <<timestamp, done, componentAdds>>

\* Mutant: run() returns only when told to.
EndOnQuitOnly ==
    /\ pc = "loop"
    /\ done
    /\ pc' = "ended"
    /\ UNCHANGED <<timestamp, currentEvents, events, current, done,
                   statsNextEvent, progressNextEvent, added, componentAdds>>

End ==
    /\ pc = "loop"
    /\ done \/ Pending = {}
    /\ pc' = "ended"
    /\ UNCHANGED <<timestamp, currentEvents, events, current, done,
                   statsNextEvent, progressNextEvent, added, componentAdds>>

-----------------------------------------------------------------------------

\* The constructor schedules the first periodic event.
Init ==
    LET first == NextTick(StatsPeriod, ProgressPeriod)
        e == [time |-> first, at |-> 0, seq |-> 0, tick |-> TRUE]
    IN /\ timestamp = 0
       /\ currentEvents = [s \in Slots |->
             IF first \in 1 .. CurrentSize - 1 /\ s = first THEN <<e>> ELSE <<>>]
       /\ events = IF first >= CurrentSize THEN {e} ELSE {}
       /\ current = NoEvent
       /\ done = FALSE
       /\ pc = "setup"
       /\ statsNextEvent = StatsPeriod
       /\ progressNextEvent = ProgressPeriod
       /\ added = 1
       /\ componentAdds = 0

Next ==
    \/ \E delay \in Delays : AddEvent(delay)
    \/ Quit
    \/ Run
    \/ Dispatch
    \/ HandlerReturns
    \/ ProcessTick
    \/ End

\* Weak fairness of Next: run() is a loop of one thread, it keeps going.
Spec == Init /\ [][Next]_vars
FairSpec == Spec /\ WF_vars(Next)
-----------------------------------------------------------------------------
(* Properties *)

\* What addEvent and run() leave behind keeps its type: no event is due at a
\* negative time, and the ring has a list for every slot.
TypeOK ==
    /\ timestamp \in Nat
    /\ currentEvents \in [Slots -> Seq(Event)]
    /\ events \in SUBSET Event
    /\ current \in Event \cup {NoEvent}
    /\ done \in BOOLEAN
    /\ pc \in {"setup", "loop", "handler", "ended"}
    /\ statsNextEvent \in Nat
    /\ progressNextEvent \in Nat
    /\ added \in Nat
    /\ componentAdds \in 0 .. MaxEvents

\* A slot of the ring never mixes cycles: what it holds is due within the
\* window that starts now, in the cycle the slot stands for; and the heap holds
\* nothing that is due already.  run() relies on it: it moves heap events only
\* when it enters their cycle, and asserts that the event it pops is due.
WindowInv ==
    /\ \A s \in Slots : \A i \in DOMAIN currentEvents[s] :
          LET e == currentEvents[s][i] IN
          /\ e.time \in timestamp .. timestamp + CurrentSize - 1
          /\ Slot(e.time) = s
    /\ \A e \in events : e.time > timestamp
    /\ pc = "handler" => current.time = timestamp

EQ == INSTANCE EventQueue WITH
    Far <- CurrentSize, now <- timestamp, pending <- Pending

\* Ring and heap together behave as one event queue: each event is delivered
\* once, at its time, in the order EventQueue promises.
ImplementsEventQueue == EQ!Spec

\* run() returns once the components stop scheduling: the periodic event does
\* not keep the simulation alive.
Terminates == <>(pc = "ended")
=============================================================================
