----------------------------- MODULE EventQueue -----------------------------
(***************************************************************************)
(* What the components of the simulator rely on when they call             *)
(* Engine::addEvent: a set of pending events that are delivered one at a   *)
(* time, each exactly once and at its own time, with time never going      *)
(* back.  Events of one cycle come in the order they were added, except    *)
(* that two events both added Far or more cycles ahead may be swapped: the *)
(* engine keeps those in a std::priority_queue, which is not stable.       *)
(***************************************************************************)
EXTENDS Integers

CONSTANTS
    Far,     \* the delay from which the order of equal times is not kept
    NoEvent  \* no event is being processed

VARIABLES
    now,     \* simulated time
    pending, \* the events added and not yet delivered
    current, \* the event being processed, or NoEvent
    done     \* the simulation was told to stop

vars == <<now, pending, current, done>>

IsFar(e) == e.time - e.at >= Far

\* e must be delivered before f.
Before(e, f) ==
    \/ e.time < f.time
    \/ /\ e.time = f.time
       /\ e.seq < f.seq
       /\ ~(IsFar(e) /\ IsFar(f))

Init ==
    /\ now = 0
    /\ current = NoEvent
    /\ done = FALSE
    /\ \A e \in pending : e.time >= now

Add ==
    /\ \E e \in pending' :
          /\ e.at = now
          /\ e.time >= now
          /\ \A f \in pending : f.seq < e.seq
          /\ pending' = pending \cup {e}
    /\ UNCHANGED <<now, current, done>>

Deliver ==
    /\ ~done
    /\ current = NoEvent
    /\ \E e \in pending :
          /\ \A f \in pending : ~Before(f, e)
          /\ now' = e.time
          /\ pending' = pending \ {e}
          /\ current' = e
    /\ UNCHANGED done

Finish ==
    /\ current # NoEvent
    /\ current' = NoEvent
    /\ UNCHANGED <<now, pending, done>>

\* The engine's own periodic event finishes and schedules its successor in
\* one step.
FinishAndAdd ==
    /\ current # NoEvent
    /\ current' = NoEvent
    /\ \E e \in pending' :
          /\ e.at = now
          /\ e.time >= now
          /\ \A f \in pending : f.seq < e.seq
          /\ pending' = pending \cup {e}
    /\ UNCHANGED <<now, done>>

Quit ==
    /\ done' = TRUE
    /\ UNCHANGED <<now, pending, current>>

Next == Add \/ Deliver \/ Finish \/ FinishAndAdd \/ Quit

Spec == Init /\ [][Next]_vars
=============================================================================
