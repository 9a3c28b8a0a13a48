------------------------------- MODULE OOOCPU -------------------------------
(***************************************************************************)
(* The out-of-order core (OOOCPU in src/CPU.cpp): it issues the entries of *)
(* a trace through a reorder buffer, waits for the caches' answers, keeps  *)
(* the requests that a cache refuses, pauses at pages that the memory      *)
(* manager holds, and drains the requests for a page that is to be moved.  *)
(* What happens in one cycle is kept in one of two slots and processed in  *)
(* the next cycle, while the other slot fills.  The parts of the core's    *)
(* PROCESS event are operators from one state of the core to the next (c). *)
(* External here: the two caches, which refuse and answer as they like;    *)
(* the manager, which holds a page, drains it and later frees it.          *)
(***************************************************************************)
EXTENDS Integers, Sequences, FiniteSets, SequencesExt

CONSTANTS
    Pages,
    Trace,         \* by timestamp: the pages of the instruction's blocks, the data accesses
    RobSize, IssueWidth,
    Accepts,       \* how many requests a cache may take during one event
    MaxHolds       \* bound: how often the manager holds a page

ASSUME CPUAssumption ==
    /\ RobSize \in Nat \ {0} /\ IssueWidth \in Nat \ {0} /\ MaxHolds \in Nat
    /\ Accepts \subseteq Nat /\ Accepts # {}
    /\ Trace \in Seq([instr : Seq(Pages), data : Seq([page : Pages, read : BOOLEAN])])
    /\ \A g \in DOMAIN Trace : Trace[g].instr # <<>>

Entries == 0 .. RobSize - 1
States == {"FETCHING", "DATA", "DONE"}
CacheNames == {"instr", "data"}

VARIABLES
    cpu,        \* the core, with the events it has added for this cycle (now) and the next
    odd,        \* whether the cycle is an odd one
    atCache,    \* external: the reads that the caches have, and the caches that are to unstall the core
    held,       \* external: the manager's view of a page: "open", "drain", "flush"
    waiting,    \* external: the pages for which the core is listed to be resumed
    holds       \* how often the manager has held a page

vars == <<cpu, odd, atCache, held, waiting, holds>>

\* A request for the i-th block or datum of the g-th timestamp.
Request(kind, g, i) == [kind |-> kind, g |-> g, i |-> i]
PageOf(r) == IF r.kind = "instr" THEN Trace[r.g].instr[r.i] ELSE Trace[r.g].data[r.i].page
IsRead(r) == r.kind = "instr" \/ Trace[r.g].data[r.i].read
EntryOf(r) == (r.g - 1) % RobSize
Requests(kind, g) ==
    LET n == IF kind = "instr" THEN Len(Trace[g].instr) ELSE Len(Trace[g].data)
    IN [i \in 1 .. n |-> Request(kind, g, i)]

\* A loop over seq, step by step.
InTurn(Step(_, _), w, seq) ==
    LET after[n \in 0 .. Len(seq)] == IF n = 0 THEN w ELSE Step(after[n - 1], seq[n])
    IN after[Len(seq)]

\* The core in the middle of an event, with what the event may still find outside.
Now == [cpu |-> cpu, atCache |-> atCache, waiting |-> waiting]
Becomes(w) == cpu' = w.cpu /\ atCache' = w.atCache /\ waiting' = w.waiting

Slot == IF odd THEN 1 ELSE 0
Fail(w, what, ok) == IF ok \/ w.cpu.failed # "" THEN w ELSE [w EXCEPT !.cpu.failed = what]

\* scheduleEvent: one PROCESS event in the next cycle.
ScheduleEvent(w) ==
    IF w.cpu.slots[Slot].scheduled THEN w
    ELSE [w EXCEPT !.cpu.slots[Slot].scheduled = TRUE, !.cpu.next.process = @ + 1]

-----------------------------------------------------------------------------
(* Requests to the caches *)

\* The cache takes the request, or lists the core to be unstalled.
Take(w, r) ==
    IF w.cpu.quota[r.kind] = 0 THEN [w EXCEPT !.atCache.unstall = @ \cup {r.kind}]
    ELSE [w EXCEPT !.cpu.quota[r.kind] = @ - 1,
                   !.atCache.reads = IF IsRead(r) THEN @ \cup {r} ELSE @]

\* Requests go in order: behind a stalled one they stall.
Send(w, r) ==
    LET asked == IF w.cpu.stalled[r.kind] = <<>> THEN Take(w, r) ELSE w IN
    IF w.cpu.stalled[r.kind] = <<>> /\ w.cpu.quota[r.kind] > 0 THEN asked
    ELSE [asked EXCEPT !.cpu.stalled[r.kind] = Append(@, r)]

\* Mutant: each request that goes adds a DRAIN event, not the last one only.
DrainedEach(w, r) ==
    LET p == PageOf(r) IN
    IF p \notin DOMAIN w.cpu.drains THEN w
    ELSE Fail([w EXCEPT !.cpu.drains[p] = @ - 1, !.cpu.next.drain = @ + 1],
              "drain", w.cpu.drains[p] > 0)

\* A request that a drain waits for has gone to its cache.
Drained(w, r) ==
    LET p == PageOf(r) IN
    IF p \notin DOMAIN w.cpu.drains THEN w
    ELSE Fail([w EXCEPT !.cpu.drains[p] = @ - 1,
                        !.cpu.next.drain = IF w.cpu.drains[p] = 1 THEN @ + 1 ELSE @],
              "drain", w.cpu.drains[p] > 0)

\* unstallInstr, unstallData: until the cache refuses one.
UnstallOne(w, r) ==
    IF w.cpu.stalled[r.kind] = <<>> \/ Head(w.cpu.stalled[r.kind]) # r THEN w
    ELSE IF w.cpu.quota[r.kind] = 0 THEN Take(w, r)
    ELSE Drained([Take(w, r) EXCEPT !.cpu.stalled[r.kind] = Tail(@)], r)

Unstall(w, kind) ==
    IF ~w.cpu.slots[1 - Slot].unstall[kind] THEN w
    ELSE InTurn(UnstallOne, [w EXCEPT !.cpu.slots[1 - Slot].unstall[kind] = FALSE], w.cpu.stalled[kind])

\* A request that the manager lets pass goes to its cache.
PassInstr(w, r) == Send([w EXCEPT !.cpu.rob[EntryOf(r)].instrPause = @ \ {r.i}], r)

PassData(w, r) ==
    LET e == EntryOf(r)
        passed == Send([w EXCEPT !.cpu.rob[e].dataPause = @ \ {r.i}], r)
    IN IF IsRead(r) THEN Fail([passed EXCEPT !.cpu.lsq = @ \cup {r}], "lsq", r \notin w.cpu.lsq)
       ELSE [passed EXCEPT !.cpu.rob[e].dataLeft = @ - 1]

\* manager->access says that the page is held: the core is listed.
Listed(w, r) == [w EXCEPT !.waiting = @ \cup {PageOf(r)}]
IsHeld(r) == held[PageOf(r)] # "open"

-----------------------------------------------------------------------------
(* The parts of the PROCESS event *)

DoneIfNothingLeft(w, e) == IF w.cpu.rob[e].dataLeft = 0 THEN [w EXCEPT !.cpu.rob[e].state = "DONE"] ELSE w

RetryInstr(w, r) ==
    IF r.i \notin w.cpu.rob[EntryOf(r)].instrPause THEN w
    ELSE IF IsHeld(r) THEN Listed(w, r) ELSE PassInstr(w, r)

RetryData(w, r) ==
    IF r.i \notin w.cpu.rob[EntryOf(r)].dataPause THEN w
    ELSE IF IsHeld(r) THEN Listed(w, r) ELSE PassData(w, r)

\* An instruction pauser behind one that pauses again stays, too.
ResumeInstr(w, e) ==
    LET tried == InTurn(RetryInstr, w, Requests("instr", w.cpu.rob[e].g))
        stays == tried.cpu.instrPausers # <<>> \/ tried.cpu.rob[e].instrPause # {}
    IN IF stays THEN [tried EXCEPT !.cpu.instrPausers = Append(@, e)] ELSE tried

ResumeData(w, e) ==
    LET tried == DoneIfNothingLeft(InTurn(RetryData, w, Requests("data", w.cpu.rob[e].g)), e)
    IN IF tried.cpu.rob[e].dataPause = {} THEN tried ELSE [tried EXCEPT !.cpu.dataPausers = Append(@, e)]

\* Each pauser is taken from its list, and put back if it stays.
ResumePrivate(w) ==
    IF ~w.cpu.slots[1 - Slot].resumed THEN w
    ELSE LET w0 == Fail([w EXCEPT !.cpu.slots[1 - Slot].resumed = FALSE], "resume",
                        w.cpu.instrPausers # <<>> \/ w.cpu.dataPausers # <<>>)
             w1 == InTurn(ResumeInstr, [w0 EXCEPT !.cpu.instrPausers = <<>>], w0.cpu.instrPausers)
         IN InTurn(ResumeData, [w1 EXCEPT !.cpu.dataPausers = <<>>], w1.cpu.dataPausers)

\* The data accesses of an entry whose instruction has come.
IssueData(w, r) ==
    IF IsHeld(r)
    THEN [Listed(w, r) EXCEPT !.cpu.rob[EntryOf(r)].dataPause = @ \cup {r.i},
                              !.cpu.dataPausers = Append(@, EntryOf(r))]
    ELSE PassData(w, r)

InstrAnswer(w, r) ==
    LET e == EntryOf(r)
        ok == /\ e \in Range(w.cpu.fetchEntry)
              /\ w.cpu.rob[e].state = "FETCHING" /\ w.cpu.rob[e].g = r.g
        w1 == [w EXCEPT !.cpu.rob[e].instrLeft = @ - 1]
    IN IF ~ok THEN Fail(w, "processInstr", FALSE)
       ELSE IF w1.cpu.rob[e].instrLeft > 0 THEN w1
       ELSE DoneIfNothingLeft(InTurn(IssueData, [w1 EXCEPT !.cpu.rob[e].state = "DATA"],
                                       Requests("data", r.g)), e)

ProcessInstr(w) ==
    InTurn(InstrAnswer, [w EXCEPT !.cpu.slots[1 - Slot].instr = <<>>], w.cpu.slots[1 - Slot].instr)

\* Mutant: an entry is done with the answer to one of its reads.
DataAnswerDone(w, r) ==
    [w EXCEPT !.cpu.rob[EntryOf(r)].dataLeft = @ - 1, !.cpu.rob[EntryOf(r)].state = "DONE",
              !.cpu.lsq = @ \ {r}]

DataAnswer(w, r) ==
    LET e == EntryOf(r) IN
    Fail(DoneIfNothingLeft([w EXCEPT !.cpu.rob[e].dataLeft = @ - 1, !.cpu.lsq = @ \ {r}], e),
         "processData", r \in w.cpu.lsq /\ w.cpu.rob[e].state = "DATA" /\ w.cpu.rob[e].g = r.g)

ProcessData(w) ==
    InTurn(DataAnswer, [w EXCEPT !.cpu.slots[1 - Slot].data = <<>>], w.cpu.slots[1 - Slot].data)

\* One more timestamp of the trace gets the entry at the head.
FetchInstr(w, r) ==
    IF IsHeld(r)
    THEN [Listed(w, r) EXCEPT !.cpu.rob[EntryOf(r)].instrPause = @ \cup {r.i},
                              !.cpu.instrPausers = Append(@, EntryOf(r))]
    ELSE PassInstr(w, r)

NewEntry(g) == [g |-> g, instrPause |-> {}, dataPause |-> {}, instrLeft |-> Len(Trace[g].instr),
                dataLeft |-> Len(Trace[g].data), state |-> "FETCHING"]

FetchOne(w, n) ==
    LET g == w.cpu.read + 1
        e == w.cpu.head
        head == (e + 1) % RobSize
        fetched == InTurn(FetchInstr, [w EXCEPT !.cpu.rob[e] = NewEntry(g)], Requests("instr", g))
    IN IF g \notin DOMAIN Trace \/ w.cpu.full THEN w
       ELSE [fetched EXCEPT !.cpu.read = g, !.cpu.fetchEntry = Append(@, e),
                            !.cpu.head = head, !.cpu.full = head = w.cpu.tail]

MayFetch(w) ==
    /\ \A n \in DOMAIN w.cpu.fetchEntry : w.cpu.rob[w.cpu.fetchEntry[n]].state # "FETCHING"
    /\ w.cpu.read < Len(Trace) /\ ~w.cpu.full
    /\ w.cpu.instrPausers = <<>> /\ \A kind \in CacheNames : w.cpu.stalled[kind] = <<>>

Fetch(w) ==
    IF MayFetch(w)
    THEN InTurn(FetchOne, [w EXCEPT !.cpu.fetchEntry = <<>>], [n \in 1 .. IssueWidth |-> n])
    ELSE w

\* The last entry of the trace is the last in the buffer: the core has finished.
CommitOne(w, n) ==
    LET last == w.cpu.read = Len(Trace) /\ w.cpu.tail = (Len(Trace) - 1) % RobSize
        next == (w.cpu.tail + 1) % RobSize
    IN IF (w.cpu.head = w.cpu.tail /\ ~w.cpu.full) \/ w.cpu.rob[w.cpu.tail].state # "DONE" THEN w
       ELSE Fail([w EXCEPT !.cpu.tail = next, !.cpu.full = FALSE, !.cpu.commits = @ + 1,
                           !.cpu.finished = IF last THEN @ + 1 ELSE @],
                 "commit", last => w.cpu.head = next)

\* Mutant: the core waits for a message to go on.
CommitQuietly(w) == InTurn(CommitOne, [w EXCEPT !.cpu.commits = 0], [n \in 1 .. IssueWidth |-> n])

\* The entry at the new tail may be a stale one: then there is one more event.
Commit(w) ==
    LET c == InTurn(CommitOne, [w EXCEPT !.cpu.commits = 0], [n \in 1 .. IssueWidth |-> n]) IN
    IF c.cpu.commits > 0 /\ c.cpu.rob[c.cpu.tail].state = "DONE" THEN ScheduleEvent(c) ELSE c

ProcessSlot(w) ==
    LET w0 == Fail([w EXCEPT !.cpu.slots[1 - Slot].scheduled = FALSE], "scheduled",
                   w.cpu.slots[1 - Slot].scheduled)
        w1 == Unstall(Unstall(ResumePrivate(w0), "instr"), "data")
    IN Commit(ProcessData(Fetch(ProcessInstr(w1))))

-----------------------------------------------------------------------------
(* The events of a cycle *)

Process ==
    /\ cpu.now.process > 0
    /\ \E quota \in [CacheNames -> Accepts] :
           Becomes([ProcessSlot([Now EXCEPT !.cpu.quota = quota, !.cpu.now.process = @ - 1])
                    EXCEPT !.cpu.quota = [k \in CacheNames |-> 0], !.cpu.commits = 0])
    /\ UNCHANGED <<odd, held, holds>>

\* Of the drains with nothing left one, in the code the first in the order of the
\* pages, is complete; there must be one.
NothingLeft == {p \in DOMAIN cpu.drains : cpu.drains[p] = 0}

DrainEvent ==
    /\ cpu.now.drain > 0
    /\ IF NothingLeft = {} THEN cpu' = Fail(Now, "noDrain", FALSE).cpu /\ UNCHANGED held
       ELSE \E p \in NothingLeft :
                /\ cpu' = [cpu EXCEPT !.now.drain = @ - 1,
                                      !.drains = [q \in DOMAIN @ \ {p} |-> @[q]]]
                /\ held' = [held EXCEPT ![p] = "flush"]
    /\ UNCHANGED <<odd, atCache, waiting, holds>>

\* accessCompleted
Complete(r) ==
    /\ r \in atCache.reads
    /\ Becomes(ScheduleEvent([Now EXCEPT !.atCache.reads = @ \ {r},
                                         !.cpu.slots[Slot][r.kind] = Append(@, r)]))
    /\ UNCHANGED <<odd, held, holds>>

\* unstall
UnstallCPU(kind) ==
    /\ kind \in atCache.unstall
    /\ Becomes(ScheduleEvent([Now EXCEPT !.atCache.unstall = @ \ {kind},
                                         !.cpu.slots[Slot].unstall[kind] = TRUE]))
    /\ UNCHANGED <<odd, held, holds>>

Hits(list, p) == Cardinality({n \in DOMAIN list : PageOf(list[n]) = p})

DrainEntry(p, hits) ==
    LET w == [Now EXCEPT !.cpu.drains = [q \in DOMAIN @ \cup {p} |-> IF q = p THEN hits ELSE @[q]],
                         !.cpu.next.drain = IF hits = 0 THEN @ + 1 ELSE @]
    IN cpu' = Fail(w, "drainTwice", p \notin DOMAIN cpu.drains).cpu

\* Mutant: only the data requests are counted.
DrainData(p) == DrainEntry(p, Hits(cpu.stalled.data, p))

\* drain: the requests for the page that are stalled are waited for; it has no drain yet.
Drain(p) == DrainEntry(p, Hits(cpu.stalled.instr, p) + Hits(cpu.stalled.data, p))

\* The manager holds a page, and then drains it.
Hold(p) ==
    /\ held[p] = "open" /\ holds < MaxHolds
    /\ holds' = holds + 1 /\ held' = [held EXCEPT ![p] = "drain"]
    /\ Drain(p)
    /\ UNCHANGED <<odd, atCache, waiting>>

\* unstallCpus: the core is resumed if it is listed for the page.
Free(p) ==
    /\ held[p] = "flush"
    /\ held' = [held EXCEPT ![p] = "open"]
    /\ Becomes(IF p \notin waiting THEN Now
               ELSE ScheduleEvent([Now EXCEPT !.cpu.slots[Slot].resumed = TRUE, !.waiting = @ \ {p}]))
    /\ UNCHANGED <<odd, holds>>

\* Engine: the next cycle begins when no event of this one is left.
Tick ==
    /\ cpu.now = [process |-> 0, drain |-> 0]
    /\ cpu' = [cpu EXCEPT !.now = cpu.next, !.next = [process |-> 0, drain |-> 0]]
    /\ odd' = ~odd
    /\ UNCHANGED <<atCache, held, waiting, holds>>

-----------------------------------------------------------------------------
(* The specification *)

EmptySlot == [scheduled |-> FALSE, resumed |-> FALSE, unstall |-> [k \in CacheNames |-> FALSE],
              instr |-> <<>>, data |-> <<>>]

\* The buffer is not initialized: the states of its entries are anything.
Init ==
    /\ \E states \in [Entries -> States] :
           cpu = [rob |-> [e \in Entries |-> [g |-> 0, instrPause |-> {}, dataPause |-> {}, instrLeft |-> 0,
                                              dataLeft |-> 0, state |-> states[e]]],
                  head |-> 0, tail |-> 0, full |-> FALSE, fetchEntry |-> <<>>, read |-> 0, lsq |-> {},
                  instrPausers |-> <<>>, dataPausers |-> <<>>, stalled |-> [k \in CacheNames |-> <<>>],
                  drains |-> [p \in {} |-> 0],
                  slots |-> [n \in {0, 1} |-> [EmptySlot EXCEPT !.scheduled = n = 0]],
                  now |-> [process |-> 0, drain |-> 0], next |-> [process |-> 1, drain |-> 0],
                  quota |-> [k \in CacheNames |-> 0], commits |-> 0, finished |-> 0, failed |-> ""]
    /\ odd = FALSE
    /\ atCache = [reads |-> {}, unstall |-> {}]
    /\ held = [p \in Pages |-> "open"] /\ waiting = {} /\ holds = 0

\* The program stops at a failed assertion.
Next ==
    /\ cpu.failed = ""
    /\ \/ Process \/ DrainEvent \/ Tick
       \/ \E r \in atCache.reads : Complete(r)
       \/ \E kind \in CacheNames : UnstallCPU(kind)
       \/ \E p \in Pages : Hold(p) \/ Free(p)

Spec == Init /\ [][Next]_vars

-----------------------------------------------------------------------------
(* Properties *)

\* No assertion of the core fails but that of resumePrivate (CPU.cpp:226): a PROCESS
\* event has been scheduled (134), a DRAIN event finds a drain with nothing left
\* (162), a page has one drain (218) which counts what is left (320, 344), a read is
\* put into the queue of loads once (278, 420) and is there when it is answered, with
\* its entry in wait of it (456, 475, 482), an instruction's answer finds its entry
\* (the loop up to 393), and the last entry is the last one (584).  The assertions at
\* 168, 176 and 528 are about the events' types, the caches and the manager.
AssertionsHold == cpu.failed \in {"", "resume"}

\* A resumed core has a paused entry (CPU.cpp:226).
ResumedHasPausers == cpu.failed # "resume"

Stalled == Range(cpu.stalled.instr) \cup Range(cpu.stalled.data)
Window == LET used == IF cpu.full THEN RobSize ELSE (cpu.head - cpu.tail) % RobSize
          IN {(cpu.tail + n) % RobSize : n \in 0 .. used - 1}

Messages == UNION {Range(cpu.slots[n].instr) \cup Range(cpu.slots[n].data) : n \in {0, 1}}
Outstanding(e, kind) ==
    {r \in Stalled \cup atCache.reads \cup Messages : r.kind = kind /\ IsRead(r) /\ r.g = cpu.rob[e].g}

EntryAgrees(e) ==
    LET entry == cpu.rob[e]
        asked == Outstanding(e, "instr")
        reads == Outstanding(e, "data")
    IN /\ entry.state = "FETCHING" =>
              /\ entry.instrLeft = Cardinality(asked) + Cardinality(entry.instrPause)
              /\ entry.instrLeft > 0 /\ reads = {}
              /\ entry.instrPause # {} => e \in Range(cpu.instrPausers)
       /\ entry.state = "DATA" =>
              /\ asked = {} /\ reads \subseteq cpu.lsq
              /\ entry.dataLeft = Cardinality(reads) + Cardinality(entry.dataPause)
              /\ entry.dataLeft > 0
              /\ entry.dataPause # {} => e \in Range(cpu.dataPausers)
       /\ entry.state = "DONE" => asked = {} /\ reads = {} /\ entry.dataPause = {}

HasEntry(r) == EntryOf(r) \in Window /\ cpu.rob[EntryOf(r)].g = r.g

\* Every answer that an entry of the reorder buffer waits for is under way exactly once:
\* as a paused access, a stalled request, a read at a cache or a message; and no
\* entry that is done, or committed, waits for one.  A paused entry is one that a
\* resume will find.
EntriesAgree ==
    cpu.failed = "" =>
        (\A e \in Window : EntryAgrees(e)) /\ \A r \in atCache.reads \cup Messages : HasEntry(r)

\* While a page is flushed and moved, the core has no request for it that it has yet
\* to send: the drain has waited for each of them, and the manager has let no other
\* pass.
QuietWhileFlushed == \A p \in Pages : held[p] = "flush" => \A r \in Stalled : PageOf(r) # p

\* Nothing is left for good: when no event is under way, the caches have answered
\* and the manager holds no page, the whole trace has been committed and the core
\* has finished once.
RestsWhenDone ==
    /\ cpu.failed = "" /\ cpu.now = cpu.next /\ cpu.now = [process |-> 0, drain |-> 0]
    /\ atCache = [reads |-> {}, unstall |-> {}] /\ \A p \in Pages : held[p] = "open"
    => /\ cpu.finished = 1 /\ cpu.read = Len(Trace) /\ Stalled = {}
       /\ cpu.lsq = {} /\ cpu.instrPausers = <<>> /\ cpu.dataPausers = <<>> /\ waiting = {}
=============================================================================
