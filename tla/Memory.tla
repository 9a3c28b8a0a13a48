------------------------------- MODULE Memory -------------------------------
(***************************************************************************)
(* A memory: DRAM or PCM (src/Memory.cpp), its banks (src/Bank.cpp) and    *)
(* the bus they share (module Bus).  The memory takes a request while no   *)
(* queue is full, and otherwise refuses it and calls unstall when one is   *)
(* completed.  A bank opens a row, transfers blocks from or to the open    *)
(* row, several in a pipeline while they are alike, and closes the row     *)
(* when that was written, or reads destroy it.  Each handler is an action. *)
(* A call that the bus makes is a step of its own, and nothing else        *)
(* happens until it returns (calling).  The events of one cycle may come   *)
(* in any order here; the engine fixes one.  Callers are external: caches  *)
(* and the hybrid memory, which never call from inside a callback.         *)
(***************************************************************************)
EXTENDS Integers, FiniteSets, FiniteSetsExt, SequencesExt, Functions, Bags

CONSTANTS
    Banks, NoBank,
    Callers,
    Inputs,       \* what is requested: bank, row, column, read, priority (0 is the highest)
    Settings,     \* the settings to choose from: policy, destructive, longClose,
                  \* globalQueue, maxQueueSize
    OpenLatency, CloseLatency, AccessLatency, BusLatency,
    MaxRequests,  \* bound on the requests
    MaxTime       \* bound on the time that passes with nothing to do

Priorities == {0, 1}

\* The bus is never booked for a start before BusLatency: a row is opened first.
ASSUME MemoryAssumption ==
    /\ NoBank \notin Banks
    /\ Inputs \subseteq [bank : Banks, row : Nat, column : Nat, read : BOOLEAN, priority : Priorities]
    /\ Settings \subseteq [policy : {"OPEN_PAGE", "CLOSED_PAGE"}, destructive : BOOLEAN,
                           longClose : BOOLEAN, globalQueue : BOOLEAN, maxQueueSize : Nat \ {0}]
    /\ OpenLatency \in Nat /\ CloseLatency \in Nat \ {0} /\ AccessLatency \in Nat
    /\ BusLatency \in Nat \ {0} /\ BusLatency <= OpenLatency
    /\ MaxRequests \in Nat /\ MaxTime \in Nat

VARIABLES
    setting,        \* fixed from the start
    now,
    events,         \* the bag of the banks' pending events
    bank,           \* the banks
    requests,       \* the requests accepted and not completed, numbered
    count,          \* requests so far
    queueSizes,
    stalled, stalledCallers,
    calling,        \* the bank whose transferCompleted the bus calls
    owner,          \* the bank of each transfer
    slots, wakeups, transfers, requested, granted, over \* the bus

busVars == <<slots, wakeups, transfers, requested, granted, over, owner>>
memVars == <<requests, queueSizes, stalled, stalledCallers>>
vars == <<setting, now, events, bank, count, calling, memVars, busVars>>

\* The bus' own clock starts when the first transfer can: before that it is idle.
bus == INSTANCE Bus WITH
    Latency <- BusLatency,
    Delays <- {0, AccessLatency},
    Start <- BusLatency,
    MaxTransfers <- MaxRequests,
    now <- IF now < BusLatency THEN BusLatency ELSE now,
    queue <- slots, count <- transfers, completed <- over

\* A bank.  current is 0 when currentRequestValid is false; the queue has a list
\* for each priority; notifications are reads answered from a queued write.
Bank == [state : {"CLOSED", "OPENING", "OPEN_CLEAN", "OPEN_DIRTY", "CLOSING"}, row : Nat,
         current : Nat, pipeline : Seq(Nat), queue : [Priorities -> Seq(Nat)],
         dirty : SUBSET Nat, nextPipelineEvent : Nat, notifications : SUBSET Nat]

IsOpen(k) == k.state \in {"OPEN_CLEAN", "OPEN_DIRTY"}
Queued(k) == UNION {Range(k.queue[p]) : p \in Priorities}
IsHit(k, i) == requests[i].row = k.row
SameBlock(r, s) == r.row = s.row /\ r.column = s.column

Event(delay, b, kind) == [time |-> now + delay, bank |-> b, kind |-> kind]
Due(b, kind) == BagIn(Event(0, b, kind), events)
\* The event that is processed goes, those in new come.
Process(b, kind, new) ==
    events' = (events (-) SetToBag({Event(0, b, kind)})) (+) SetToBag(new)

-----------------------------------------------------------------------------
(* Requests *)

QueueOf(b) == IF setting.globalQueue THEN NoBank ELSE b

Refuse(c) ==
    /\ stalled
    /\ stalledCallers' = stalledCallers \cup {c}
    /\ UNCHANGED <<setting, now, events, bank, count, calling, requests, queueSizes, stalled, busVars>>

\* Mutant: a queue is full only beyond its size.
FullLate(size) == size > setting.maxQueueSize

Full(size) == size = setting.maxQueueSize

\* Mutant: only the requests of its own priority are looked at.
IsForwardedOwn(r) ==
    r.read /\ \E w \in Range(bank[r.bank].queue[r.priority]) :
                 ~requests[w].read /\ SameBlock(r, requests[w])

\* A read of a block that a queued write has new contents for.
IsForwarded(r) ==
    r.read /\ \E w \in Queued(bank[r.bank]) : ~requests[w].read /\ SameBlock(r, requests[w])

\* Bank::access of a request that is answered at once.
Forward(i, b) ==
    /\ bank' = [bank EXCEPT ![b].notifications = @ \cup {i}]
    /\ events' = IF bank[b].notifications = {} THEN events (+) SetToBag({Event(0, b, "QUEUE")})
                 ELSE events

\* Mutant: the queue is not looked at, so that a bank may be woken up twice.
WakesAgain(k) == k.state \in {"CLOSED", "OPEN_CLEAN", "OPEN_DIRTY"} /\ k.current = 0

Wakes(k) ==
    k.state \in {"CLOSED", "OPEN_CLEAN", "OPEN_DIRTY"} /\ k.current = 0 /\ Queued(k) = {}

\* Bank::access of any other.  An idle bank is woken up; one that is busy in the
\* same row may start it in the pipeline.
Enqueue(i, r) ==
    LET b == r.bank
        k == bank[b]
        pipes == IsOpen(k) /\ k.current # 0 /\ r.row = k.row /\ k.nextPipelineEvent < now
    IN /\ bank' = [bank EXCEPT ![b].queue[r.priority] = Append(@, i),
                               ![b].nextPipelineEvent = IF pipes THEN now ELSE @]
       /\ events' = events (+) SetToBag((IF Wakes(k) THEN {Event(0, b, "BANK")} ELSE {})
                                        \cup (IF pipes THEN {Event(0, b, "PIPELINE")} ELSE {}))

Access(input) ==
    LET i == count + 1
        b == input.bank
        size == queueSizes[QueueOf(b)] + 1
    IN /\ ~stalled /\ count < MaxRequests
       /\ count' = i
       /\ requests' = [j \in DOMAIN requests \cup {i} |-> IF j = i THEN input ELSE requests[j]]
       /\ IF IsForwarded(input) THEN Forward(i, b) ELSE Enqueue(i, input)
       /\ queueSizes' = [queueSizes EXCEPT ![QueueOf(b)] = size]
       /\ stalled' = Full(size)
       /\ UNCHANGED <<setting, now, calling, stalledCallers, busVars>>

Unstalls(b, S) == S # {} /\ Full(queueSizes[QueueOf(b)])

\* Memory::accessCompleted for the requests S of bank b.  The callers stalled are
\* called before the size goes down; they try again in an event of their own.
Complete(b, S) ==
    /\ requests' = Restrict(requests, DOMAIN requests \ S)
    /\ queueSizes' = [queueSizes EXCEPT ![QueueOf(b)] = @ - Cardinality(S)]
    /\ stalled' = (stalled /\ ~Unstalls(b, S))
    /\ stalledCallers' = IF Unstalls(b, S) THEN {} ELSE stalledCallers

-----------------------------------------------------------------------------
(* The steps of a bank *)

\* The list of the highest priority, and what selectNextRequest takes from it:
\* the first request for the open row, or the first one.
Best(k) == k.queue[Min({p \in Priorities : k.queue[p] # <<>>})]
Hits(k) == {n \in DOMAIN Best(k) : IsHit(k, Best(k)[n])}
Selected(k) == IF IsOpen(k) /\ Hits(k) # {} THEN Best(k)[Min(Hits(k))] ELSE Head(Best(k))
Without(s, i) ==
    IF i \in Range(s) THEN RemoveAt(s, CHOOSE n \in DOMAIN s : s[n] = i) ELSE s
Unqueued(k, i) == [k EXCEPT !.queue = [p \in Priorities |-> Without(@[p], i)]]

\* Request i, which hits the open row, gets the bus.  A read has to get the row's
\* contents first; when it is on the bus the next one can follow.
Transfer(b, i) ==
    /\ UNCHANGED now
    /\ bus!Schedule(IF requests[i].read THEN AccessLatency ELSE 0)
    /\ owner' = Append(owner, b)
PipelineTime == bus!FreeSlot(now + AccessLatency) - AccessLatency + BusLatency
Transferring(k, i) ==
    IF requests[i].read THEN [k EXCEPT !.nextPipelineEvent = PipelineTime]
    ELSE [k EXCEPT !.state = "OPEN_DIRTY", !.dirty = @ \cup {requests[i].column}]
TransferEvents(b, i) ==
    IF requests[i].read THEN {[time |-> PipelineTime, bank |-> b, kind |-> "PIPELINE"]} ELSE {}

\* Mutant: a row is open at once.
OpenEventNow(b) == {Event(0, b, "BANK")}

OpenEvent(b) == {Event(OpenLatency, b, "BANK")}
Opening(k) == [k EXCEPT !.state = "OPENING", !.row = requests[k.current].row]
CloseTime(k) ==
    IF k.state = "OPEN_DIRTY" /\ setting.longClose THEN CloseLatency * Cardinality(k.dirty)
    ELSE CloseLatency
NeedsClose(k) == k.state = "OPEN_DIRTY" \/ setting.destructive

Open(b) ==
    LET k == bank[b]
        i == Selected(k)
    IN /\ Due(b, "BANK") /\ k.state = "CLOSED"
       /\ bank' = [bank EXCEPT ![b] = Opening([Unqueued(k, i) EXCEPT !.current = i])]
       /\ Process(b, "BANK", OpenEvent(b))
       /\ UNCHANGED <<setting, now, count, calling, memVars, busVars>>

Opened(b) ==
    LET k == bank[b] IN
    /\ Due(b, "BANK") /\ k.state = "OPENING"
    /\ bank' = [bank EXCEPT ![b] = Transferring([k EXCEPT !.state = "OPEN_CLEAN"], k.current)]
    /\ Transfer(b, k.current)
    /\ Process(b, "BANK", TransferEvents(b, k.current))
    /\ UNCHANGED <<setting, now, count, calling, memVars>>

Closing(k) ==
    [k EXCEPT !.state = "CLOSING", !.dirty = IF k.state = "OPEN_DIRTY" THEN {} ELSE @]

\* changeState of an open bank: what follows the current request, which then is
\* completed.  base is the bag of the events that are left.
NextRequest(b, base) ==
    LET old == bank[b].current
        k == [bank[b] EXCEPT !.current = 0]
        i == Selected(k)
        next == [Unqueued(k, i) EXCEPT !.current = i]
        idle == k.pipeline = <<>> /\ Queued(k) = {}
        selects == k.pipeline = <<>> /\ Queued(k) # {}
        Becomes(new, later) == bank' = [bank EXCEPT ![b] = new] /\ events' = base (+) SetToBag(later)
    IN /\ \/ /\ k.pipeline # <<>>
             /\ Becomes([k EXCEPT !.current = Head(k.pipeline), !.pipeline = Tail(@)], {})
             /\ UNCHANGED busVars
          \/ /\ selects /\ IsHit(k, i)
             /\ Becomes(Transferring(next, i), TransferEvents(b, i))
             /\ Transfer(b, i)
          \/ /\ selects /\ ~IsHit(k, i) /\ NeedsClose(k)
             /\ Becomes(Closing(next), {Event(CloseTime(k), b, "BANK")})
             /\ UNCHANGED busVars
          \/ /\ selects /\ ~IsHit(k, i) /\ ~NeedsClose(k)
             /\ Becomes(Opening(next), OpenEvent(b))
             /\ UNCHANGED busVars
          \/ /\ idle /\ setting.policy = "CLOSED_PAGE" /\ NeedsClose(k)
             /\ Becomes(Closing(k), {Event(CloseTime(k), b, "BANK")})
             /\ UNCHANGED busVars
          \/ /\ idle /\ (setting.policy = "OPEN_PAGE" \/ ~NeedsClose(k))
             /\ Becomes(k, {})
             /\ UNCHANGED busVars
       /\ Complete(b, {old} \ {0})
       /\ UNCHANGED <<setting, now, count>>

\* The event of an idle bank that was woken up, or of a write that has ended.
Continue(b) ==
    /\ Due(b, "BANK") /\ IsOpen(bank[b])
    /\ bank[b].current # 0 => ~requests[bank[b].current].read
    /\ NextRequest(b, events (-) SetToBag({Event(0, b, "BANK")}))
    /\ UNCHANGED calling

Closed(b) ==
    LET k == bank[b]
        i == IF k.current # 0 THEN k.current ELSE Selected(k)
        opens == k.current # 0 \/ Queued(k) # {}
    IN /\ Due(b, "BANK") /\ k.state = "CLOSING"
       /\ bank' = [bank EXCEPT ![b] =
             IF opens THEN Opening([Unqueued(k, i) EXCEPT !.current = i])
             ELSE [k EXCEPT !.state = "CLOSED"]]
       /\ Process(b, "BANK", IF opens THEN OpenEvent(b) ELSE {})
       /\ UNCHANGED <<setting, now, count, calling, memVars, busVars>>

\* Mutant: the first read is answered and all are forgotten.
NotifyFirst(b) ==
    /\ Due(b, "QUEUE")
    /\ bank' = [bank EXCEPT ![b].notifications = {}]
    /\ Process(b, "QUEUE", {})
    /\ Complete(b, {Min(bank[b].notifications)})
    /\ UNCHANGED <<setting, now, count, calling, busVars>>

\* The QUEUE event.
Notify(b) ==
    /\ Due(b, "QUEUE")
    /\ bank' = [bank EXCEPT ![b].notifications = {}]
    /\ Process(b, "QUEUE", {})
    /\ Complete(b, bank[b].notifications)
    /\ UNCHANGED <<setting, now, count, calling, busVars>>

Alike(k, prev) ==
    {n \in Hits(k) : requests[Best(k)[n]].read = requests[prev].read}

\* The PIPELINE event: a request for the open row of the kind that is under way is
\* started too.
Pipeline(b) ==
    LET k == bank[b]
        prev == IF k.pipeline = <<>> THEN k.current ELSE k.pipeline[Len(k.pipeline)]
        starts == /\ IsOpen(k) /\ k.current # 0 /\ k.nextPipelineEvent = now
                  /\ Queued(k) # {} /\ Alike(k, prev) # {}
    IN /\ Due(b, "PIPELINE")
       /\ IF starts
          THEN LET i == Best(k)[Min(Alike(k, prev))] IN
               /\ bank' = [bank EXCEPT ![b] =
                     Transferring([Unqueued(k, i) EXCEPT !.pipeline = Append(@, i)], i)]
               /\ Transfer(b, i)
               /\ Process(b, "PIPELINE", TransferEvents(b, i))
          ELSE /\ Process(b, "PIPELINE", {})
               /\ UNCHANGED <<bank, busVars>>
       /\ UNCHANGED <<setting, now, count, calling, memVars>>

-----------------------------------------------------------------------------
(* The bus *)

\* Bus::process ends by calling the bank whose transfer is over.
BusEvent ==
    /\ calling = NoBank
    /\ UNCHANGED <<setting, now, events, bank, count, memVars, owner>>
    /\ bus!Process
    /\ calling' = owner[slots[Min(DOMAIN slots)]]

\* A read is completed; a write takes a while to get into the row, and in the
\* meantime the next can follow on the bus.
TransferCompleted(b) ==
    /\ calling = b
    /\ IF requests[bank[b].current].read
       THEN NextRequest(b, events)
       ELSE /\ bank' = [bank EXCEPT ![b].nextPipelineEvent = now]
            /\ events' = events (+) SetToBag({Event(AccessLatency, b, "BANK"), Event(0, b, "PIPELINE")})
            /\ UNCHANGED <<setting, now, count, memVars, busVars>>
    /\ calling' = NoBank

-----------------------------------------------------------------------------
(* The specification *)

Advance ==
    /\ calling = NoBank
    /\ \A e \in BagToSet(events) : e.time > now
    /\ \A w \in wakeups : w.time > now
    /\ events # EmptyBag \/ wakeups # {} \/ now < MaxTime
    /\ now' = now + 1
    /\ UNCHANGED <<setting, events, bank, count, calling, memVars, busVars>>

Init ==
    /\ setting \in Settings
    /\ now = 0 /\ events = EmptyBag
    /\ bank = [b \in Banks |->
          [state |-> "CLOSED", row |-> 0, current |-> 0, pipeline |-> <<>>,
           queue |-> [p \in Priorities |-> <<>>], dirty |-> {}, nextPipelineEvent |-> 0,
           notifications |-> {}]]
    /\ requests = <<>> /\ count = 0
    /\ queueSizes = [q \in IF setting.globalQueue THEN {NoBank} ELSE Banks |-> 0]
    /\ stalled = FALSE /\ stalledCallers = {}
    /\ calling = NoBank /\ owner = <<>>
    /\ slots = <<>> /\ wakeups = {} /\ transfers = 0
    /\ requested = <<>> /\ granted = <<>> /\ over = {}

BankEvent(b) == Open(b) \/ Opened(b) \/ Continue(b) \/ Closed(b) \/ Notify(b) \/ Pipeline(b)

Next ==
    \/ calling = NoBank /\ \E c \in Callers : Refuse(c)
    \/ calling = NoBank /\ \E input \in Inputs : Access(input)
    \/ calling = NoBank /\ \E b \in Banks : BankEvent(b)
    \/ BusEvent
    \/ \E b \in Banks : TransferCompleted(b)
    \/ Advance

Spec == Init /\ [][Next]_vars

\* The engine delivers every event, and a call returns.
FairSpec ==
    /\ Spec
    /\ \A b \in Banks : WF_vars(calling = NoBank /\ BankEvent(b)) /\ WF_vars(TransferCompleted(b))
    /\ WF_vars(BusEvent) /\ WF_vars(Advance)

-----------------------------------------------------------------------------
(* Properties *)

\* What the handlers leave behind keeps its type; the queues keep to their limit.
TypeOK ==
    /\ setting \in Settings /\ now \in Nat /\ count \in 0 .. MaxRequests
    /\ IsABag(events)
    /\ BagToSet(events) \subseteq [time : Nat, bank : Banks, kind : {"BANK", "QUEUE", "PIPELINE"}]
    /\ bank \in [Banks -> Bank]
    /\ DOMAIN requests \subseteq 1 .. count
    /\ \A q \in DOMAIN queueSizes : queueSizes[q] \in 0 .. setting.maxQueueSize
    /\ stalled \in BOOLEAN /\ stalledCallers \subseteq Callers
    /\ calling \in Banks \cup {NoBank} /\ owner \in Seq(Banks)

\* The size of a queue is the number of its requests, wherever they are; requests
\* are refused exactly while a queue is full, and no caller is forgotten that was
\* refused (Memory.cpp 157-239).
SizesAgree ==
    /\ \A q \in DOMAIN queueSizes :
          queueSizes[q] = Cardinality({i \in DOMAIN requests : QueueOf(requests[i].bank) = q})
    /\ stalled <=> \E q \in DOMAIN queueSizes : Full(queueSizes[q])
    /\ stalledCallers # {} => stalled

\* The transfers of a bank that are not over, with the one it is being called for.
Transfers(b) ==
    Cardinality({t \in 1 .. transfers : t \notin over /\ owner[t] = b})
        + (IF calling = b THEN 1 ELSE 0)
BankCopies(B, b) ==
    UNION {{e} \X (1 .. B[e]) : e \in {x \in BagToSet(B) : x.bank = b /\ x.kind = "BANK"}}
BankEvents(b) == Cardinality(BankCopies(events, b))

\* Every bank has exactly one thing to wait for, for each request it has started:
\* never none, it would stop; never two, the assertions of process and
\* transferCompleted would fail (Bank.cpp 461, 468, 584).
OneStepAhead ==
    \A b \in Banks :
        LET k == bank[b]
            reads == k.current # 0 /\ requests[k.current].read
        IN CASE k.state = "CLOSED" ->
                  k.current = 0 /\ Transfers(b) = 0
                  /\ BankEvents(b) = IF Queued(k) = {} THEN 0 ELSE 1
             [] k.state = "OPENING" -> k.current # 0 /\ Transfers(b) = 0 /\ BankEvents(b) = 1
             [] k.state = "CLOSING" -> Transfers(b) = 0 /\ BankEvents(b) = 1
             [] IsOpen(k) /\ k.current = 0 ->
                  k.pipeline = <<>> /\ Transfers(b) = 0
                  /\ BankEvents(b) = IF Queued(k) = {} THEN 0 ELSE 1
             [] OTHER ->
                  /\ Transfers(b) + BankEvents(b) = 1 + Len(k.pipeline)
                  /\ reads => BankEvents(b) = 0

\* What is under way in an open bank is alike and for the open row, and a row that
\* was written is not left without being closed.
RowsAgree ==
    \A b \in Banks :
        LET k == bank[b]
            started == (Range(k.pipeline) \cup {k.current}) \ {0}
        IN /\ IsOpen(k) => \A i, j \in started :
                  IsHit(k, i) /\ requests[i].read = requests[j].read
           /\ (k.dirty # {}) <=> (k.state = "OPEN_DIRTY")
           /\ IsOpen(k) => \A i \in started : requests[i].read \/ requests[i].column \in k.dirty

\* However requests are refused, pipelined, forwarded and completed, the queues, the
\* banks' events and their rows tell the same story.
BanksAgree == SizesAgree /\ OneStepAhead /\ RowsAgree

\* A read does not get the old contents of its block: no earlier write of the block
\* still waits while the read has gone ahead or is to (Bank.cpp 184-207).
ReadsSeeWrites ==
    \A i, w \in DOMAIN requests :
        /\ w < i /\ requests[i].read /\ ~requests[w].read
        /\ requests[i].bank = requests[w].bank /\ SameBlock(requests[i], requests[w])
        /\ w \in Queued(bank[requests[w].bank])
        => i \in bank[requests[i].bank].notifications

\* The banks use the bus as Bus requires, and never before a row can be open: what
\* is proved of Bus holds here, and start - latency does not wrap (Bus.cpp:31).
UsesBus == bus!Unbounded /\ [](now < BusLatency => transfers = 0)

\* A request that was accepted is completed, and a caller that was refused is called.
EveryoneServed ==
    /\ \A i \in 1 .. MaxRequests : i \in DOMAIN requests ~> i \notin DOMAIN requests
    /\ \A c \in Callers : c \in stalledCallers ~> c \notin stalledCallers
=============================================================================
