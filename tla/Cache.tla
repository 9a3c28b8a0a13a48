-------------------------------- MODULE Cache --------------------------------
(***************************************************************************)
(* The two levels of caches (Cache in src/Cache.cpp): first-level caches   *)
(* over a shared second level over the memory.  A cache has one request    *)
(* per block, which the later accesses to the block join.  A block that    *)
(* the second level evicts, or that the memory manager flushes, is flushed *)
(* from the first levels before.  Every handler of the code is an operator *)
(* from one state of the caches to the next, since handlers call each      *)
(* other: a record w stands for the state in the middle of an event.       *)
(* External here: the cores, which access the first levels at any time and *)
(* wait when they are refused; the memory, which may be full and answers   *)
(* in any order; the manager, which keeps the cores from a block while it  *)
(* flushes it.  One set of each cache is modelled, least recently used     *)
(* line first, and no remapped pages (CacheModel) and no pinned blocks.    *)
(***************************************************************************)
EXTENDS Integers, Sequences, FiniteSets, SequencesExt

CONSTANTS
    Blocks,
    L1s,           \* the first-level caches, in the order of prevLevels
    Ways,          \* the lines of a set: [l1 |-> , l2 |-> ]
    Penalty,       \* the latency of the tags of each cache
    MaxQueueSize,  \* [l1 |-> , l2 |-> ]
    MemorySize,    \* how many requests the memory holds
    CurrentSize,   \* the cycles of the engine's ring; what is due later goes through its heap
    MaxAccesses, MaxFlushes    \* bounds: accesses of the cores, flushes of the manager

None == "none"
L2 == "L2"
Firsts == Range(L1s)
Caches == Firsts \cup {L2}

ASSUME CacheAssumption ==
    /\ L2 \notin Firsts /\ Len(L1s) > 0 /\ IsInjective(L1s)
    /\ \A k \in {"l1", "l2"} : Ways[k] \in Nat \ {0} /\ MaxQueueSize[k] \in Nat \ {0}
    /\ \A c \in Caches : Penalty[c] \in Nat
    /\ MemorySize \in Nat \ {0} /\ CurrentSize \in Nat \ {0, 1}
    /\ MaxAccesses \in Nat /\ MaxFlushes \in Nat

VARIABLES
    cache,       \* the caches
    events,      \* the engine's events by the cycles until they are due, as they were added
    memory,      \* external: the requests the memory has, and whether L2 is to be unstalled
    reads,       \* external: the cores' reads that wait for an answer
    flushing,    \* external: the blocks the manager is flushing
    failed,      \* the assertion that has stopped the program
    defects,     \* history: which of the three known defects have occurred
    unwritten,   \* history: blocks written in a cache and not yet to the memory
    flushed,     \* history: blocks flushed with a guarantee and not accessed since
    accesses, flushes   \* how often the cores and the manager have acted

vars == <<cache, events, memory, reads, flushing, failed, defects, unwritten, flushed, accesses, flushes>>

Now == [cache |-> cache, events |-> events, memory |-> memory, reads |-> reads, flushing |-> flushing,
        failed |-> failed, defects |-> defects,
        unwritten |-> unwritten, flushed |-> flushed]

Becomes(w) ==
    /\ cache' = w.cache /\ events' = w.events /\ memory' = w.memory /\ reads' = w.reads
    /\ flushing' = w.flushing /\ failed' = w.failed /\ defects' = w.defects
    /\ unwritten' = w.unwritten /\ flushed' = w.flushed

Level(c) == IF c = L2 THEN "l2" ELSE "l1"
Prev(c) == IF c = L2 THEN L1s ELSE <<>>

Without(f, x) == [y \in DOMAIN f \ {x} |-> f[y]]
With(f, x, v) == [y \in DOMAIN f \cup {x} |-> IF y = x THEN v ELSE f[y]]

Fails(w, assertion) == [w EXCEPT !.failed = assertion]

\* Engine::addEvent: an event goes to the ring, or to the heap.
AddEvent(w, delay, c, type, b) ==
    LET n == Cardinality({i \in DOMAIN w.events : w.events[i].due <= delay})
    IN [w EXCEPT !.events = InsertAt(@, n + 1, [due |-> delay, heap |-> delay >= CurrentSize,
                                                cache |-> c, type |-> type, block |-> b])]

\* Engine::run: of the events of a cycle those of the heap come first, in any order;
\* then those of the ring, in the order in which they were added.
DueEvents(es) == {i \in DOMAIN es : es[i].due = 0}
NextEvents(es) ==
    LET fromHeap == {i \in DueEvents(es) : es[i].heap}
    IN IF fromHeap # {} THEN fromHeap ELSE {i \in DueEvents(es) : i = 1}

-----------------------------------------------------------------------------
(* The lines of a cache (CacheModel and Set) *)

Held(w, c) == {w.cache[c].lines[i].block : i \in DOMAIN w.cache[c].lines}
IsDirty(w, c, b) == \E i \in DOMAIN w.cache[c].lines :
                        w.cache[c].lines[i] = [block |-> b, dirty |-> TRUE]
Others(lines, b) == SelectSeq(lines, LAMBDA l : l.block # b)

Result(w, c, b) ==
    IF b \in Held(w, c) THEN "HIT"
    ELSE IF Len(w.cache[c].lines) < Ways[Level(c)] THEN "MISS_WITHOUT_EVICTION"
    ELSE IF Head(w.cache[c].lines).dirty THEN "MISS_WITH_WRITEBACK"
    ELSE "MISS_WITH_EVICTION"

Evicts(result) == result \in {"MISS_WITH_EVICTION", "MISS_WITH_WRITEBACK"}

\* Mutant: nothing is evicted.
TouchedOnTop(w, c, b, read) ==
    Append(Others(w.cache[c].lines, b), [block |-> b, dirty |-> ~read \/ IsDirty(w, c, b)])

\* CacheModel::access: the line becomes the most recent one, in the place of the
\* least recent if the set is full.
Touched(w, c, b, read) ==
    LET lines == w.cache[c].lines
        rest == IF Evicts(Result(w, c, b)) THEN Tail(lines) ELSE Others(lines, b)
    IN Append(rest, [block |-> b, dirty |-> ~read \/ IsDirty(w, c, b)])

FlushResult(w, c, b) ==
    IF b \notin Held(w, c) THEN "NO_EVICTION" ELSE IF IsDirty(w, c, b) THEN "WRITEBACK" ELSE "EVICTION"

-----------------------------------------------------------------------------
(* Requests *)

NewRequest(w, c, b) ==
    LET result == Result(w, c, b) IN
    [result |-> result, evicted |-> IF Evicts(result) THEN Head(w.cache[c].lines).block ELSE None,
     callers |-> <<>>, numCallers |-> 0, tag |-> TRUE, read |-> FALSE, flush |-> FALSE,
     repeatFlush |-> FALSE]

\* A new request looks up the tags.  One that joins a request whose answers have
\* been given, and that waits for a flush, is a hit.
Lookup(w, c, b, read) ==
    IF b \notin DOMAIN w.cache[c].requests
    THEN AddEvent([w EXCEPT !.cache[c].requests = With(@, b, NewRequest(w, c, b)),
                            !.cache[c].lines = Touched(w, c, b, read),
                            !.unwritten = IF read THEN @ ELSE @ \cup {b}],
                  Penalty[c], c, "ACCESS", b)
    ELSE IF w.cache[c].requests[b].callers = <<>>
    THEN AddEvent([w EXCEPT !.cache[c].requests[b].result = "HIT"], 0, c, "ACCESS", b)
    ELSE w

Accepts(w, c) == w.cache[c].queueSize < MaxQueueSize[Level(c)]

\* Cache::access.  An access to a block that is being flushed repeats the flush.
Access(w, c, b, read, caller) ==
    IF ~Accepts(w, c) THEN [w EXCEPT !.cache[c].stalledCallers = @ \cup {caller}]
    ELSE LET repeating == IF b \in DOMAIN w.cache[c].flushes
                          THEN [w EXCEPT !.cache[c].flushes[b].repeat = TRUE] ELSE w
         IN [Lookup(repeating, c, b, read) EXCEPT
                !.cache[c].queueSize = @ + 1,
                !.cache[c].requests[b].numCallers = @ + 1,
                !.cache[c].requests[b].callers = Append(@, [read |-> read, from |-> caller])]

MemoryLoad(w) == Len(w.memory.pending)

\* The next level, which takes a request or will unstall the cache.
NextAccepts(w, c) == IF c = L2 THEN MemoryLoad(w) < MemorySize ELSE Accepts(w, L2)
ToNext(w, c, b, read) ==
    IF c # L2 THEN Access(w, L2, b, read, c)
    ELSE IF ~NextAccepts(w, c) THEN [w EXCEPT !.memory.registered = TRUE]
    ELSE [w EXCEPT !.memory.pending = Append(@, [block |-> b, read |-> read]),
                   !.unwritten = IF read THEN @ ELSE @ \ {b}]

SentAtOnce(w, c) == w.cache[c].stalled = <<>> /\ NextAccepts(w, c)

\* A request goes to the next level, or to the end of the stalled requests.
Send(w, c, b, read) ==
    LET tried == IF w.cache[c].stalled = <<>> THEN ToNext(w, c, b, read) ELSE w
    IN IF SentAtOnce(w, c) THEN tried
       ELSE [tried EXCEPT !.cache[c].stalled =
                 Append(@, [block |-> b, read |-> read, flushing |-> FALSE])]

\* The writeback of a block that is being flushed is counted by the flush.
SendVictim(w, c, b) ==
    LET sent == Send(w, c, b, FALSE) IN
    IF SentAtOnce(w, c) \/ b \notin DOMAIN w.cache[c].flushes THEN sent
    ELSE [sent EXCEPT !.cache[c].stalled[Len(sent.cache[c].stalled)].flushing = TRUE,
                      !.cache[c].flushes[b].stalledLeft = @ + 1]

\* cacheModel.flush, for a flush that starts or is repeated.
StartFlush(w, c, b) ==
    AddEvent([w EXCEPT !.cache[c].flushes[b].result = FlushResult(w, c, b),
                       !.cache[c].flushes[b].repeat = FALSE,
                       !.cache[c].lines = Others(@, b)],
             Penalty[c], c, "FLUSH", b)

\* The callers that were refused, from the one whose turn it is.
InTurn(callers, k) == LET n == Len(callers) IN
                      [i \in 1 .. n |-> callers[((i + k - 1) % n) + 1]]

\* Mutant: they are not taken off the list.
UnstallCallersAgain(w, c) ==
    IF Accepts(w, c) THEN w
    ELSE FoldLeft(LAMBDA v, p : AddEvent(v, 1, p, "UNSTALL", None), w,
                  SelectSeq(Prev(c), LAMBDA p : p \in w.cache[c].stalledCallers))

UnstallCallers(w, c) ==
    LET refused == SelectSeq(Prev(c), LAMBDA p : p \in w.cache[c].stalledCallers)
        turn == IF w.cache[c].next >= Cardinality(w.cache[c].stalledCallers) THEN 0 ELSE w.cache[c].next
    IN IF Accepts(w, c) THEN w
       ELSE [FoldLeft(LAMBDA v, p : AddEvent(v, 1, p, "UNSTALL", None), w, InTurn(refused, turn))
                EXCEPT !.cache[c].stalledCallers = {}, !.cache[c].next = turn + 1]

\* Mutants: one access is taken off the queue; nobody is called back.
FinishOne(w, c, b) ==
    LET r == w.cache[c].requests[b]
        repeated == IF r.repeatFlush THEN StartFlush(w, c, b) ELSE w
    IN [UnstallCallers(repeated, c) EXCEPT !.cache[c].queueSize = @ - 1,
                                           !.cache[c].requests = Without(@, b)]
FinishQuietly(w, c, b) ==
    LET r == w.cache[c].requests[b]
        repeated == IF r.repeatFlush THEN StartFlush(w, c, b) ELSE w
    IN [repeated EXCEPT !.cache[c].queueSize = @ - r.numCallers,
                        !.cache[c].requests = Without(@, b)]

\* The request has its answers and nothing is left to flush.
Finish(w, c, b) ==
    LET r == w.cache[c].requests[b]
        repeated == IF r.repeatFlush THEN StartFlush(w, c, b) ELSE w
    IN IF r.repeatFlush /\ ~(b \in DOMAIN w.cache[c].flushes /\ w.cache[c].flushes[b].repeat)
       THEN Fails(w, "REPEAT")
       ELSE [UnstallCallers(repeated, c) EXCEPT !.cache[c].queueSize = @ - r.numCallers,
                                                !.cache[c].requests = Without(@, b),
                                                !.defects = IF r.callers = <<>> THEN @ ELSE @ \cup {"LATE"}]

\* Mutant: although its victim is still being flushed.
FinishIfRead(w, c, b) == IF w.cache[c].requests[b].read THEN w ELSE Finish(w, c, b)

FinishIfDone(w, c, b) ==
    LET r == w.cache[c].requests[b] IN
    IF r.read \/ r.flush THEN w ELSE Finish(w, c, b)

\* Reads are answered; a write needs no answer.
AnswerCores(w, c, b) ==
    LET n == Len(SelectSeq(w.cache[c].requests[b].callers, LAMBDA k : k.read))
    IN [w EXCEPT !.cache[c].requests[b].callers = <<>>, !.reads[c][b] = @ - n]

\* Cache::accessCompleted, where Answer is what the callers do.
Completed(w, c, b, Answer(_, _, _)) ==
    IF b \notin DOMAIN w.cache[c].requests THEN Fails(w, "COMPLETED")
    ELSE LET answered == Answer([w EXCEPT !.cache[c].requests[b].read = FALSE], c, b)
         IN IF answered.cache[c].requests[b].flush THEN answered ELSE Finish(answered, c, b)

AnswerFirsts(w, c, b) ==
    FoldLeft(LAMBDA v, k : IF k.read THEN Completed(v, k.from, b, AnswerCores) ELSE v,
             [w EXCEPT !.cache[c].requests[b].callers = <<>>], w.cache[c].requests[b].callers)

Answer(w, c, b) == IF c = L2 THEN AnswerFirsts(w, c, b) ELSE AnswerCores(w, c, b)
AccessCompleted(w, b) == Completed(w, L2, b, AnswerFirsts)

-----------------------------------------------------------------------------
(* Flushes *)

\* Mutant: what is stalled is not waited for.
FlushUncounted(w, c, b, guarantee) ==
    LET new == [result |-> "NO_EVICTION", guarantee |-> guarantee, repeat |-> FALSE, dirty |-> FALSE,
                done |-> FALSE, stalledLeft |-> 0]
    IN IF b \in DOMAIN w.cache[c].flushes
       THEN [w EXCEPT !.cache[c].flushes[b].guarantee = @ \/ guarantee]
       ELSE StartFlush([w EXCEPT !.cache[c].flushes = With(@, b, new)], c, b)

\* Cache::flush.  What is stalled for the block is counted, each time.
Flush(w, c, b, guarantee) ==
    LET new == [result |-> "NO_EVICTION", guarantee |-> guarantee, repeat |-> FALSE, dirty |-> FALSE,
                done |-> FALSE, stalledLeft |-> 0]
        begun == IF b \in DOMAIN w.cache[c].flushes
                 THEN [w EXCEPT !.cache[c].flushes[b].guarantee = @ \/ guarantee]
                 ELSE StartFlush([w EXCEPT !.cache[c].flushes = With(@, b, new)], c, b)
        stalled == Len(SelectSeq(w.cache[c].stalled, LAMBDA s : s.block = b))
    IN [begun EXCEPT
           !.defects = IF b \in DOMAIN w.cache[c].flushes /\ stalled > 0 THEN @ \cup {"RECOUNT"} ELSE @,
           !.cache[c].flushes[b].stalledLeft = @ + stalled,
           !.cache[c].stalled = [i \in DOMAIN @ |-> [@[i] EXCEPT !.flushing = @ \/ w.cache[c].stalled[i].block = b]]]

FlushPrev(w, c, b, guarantee) == FoldLeft(LAMBDA v, p : Flush(v, p, b, guarantee), w, Prev(c))

\* A flush of the levels before, on behalf of a request or a flush; a second one
\* joins the first, and is sent again only if it is the first with a guarantee.
FlushOut(w, c, b, type, orig, new, guarantee) ==
    LET entry == [type |-> type, block |-> orig] IN
    IF b \notin DOMAIN w.cache[c].outgoing
    THEN FlushPrev([w EXCEPT !.cache[c].outgoing =
                        With(@, b, [for |-> <<entry>>, left |-> Len(Prev(c)),
                                    dirty |-> new.dirty, guarantee |-> new.guarantee])],
                   c, b, guarantee)
    ELSE LET joined == [w EXCEPT !.cache[c].outgoing[b].for = Append(@, entry),
                                 !.defects = IF type = "ACCESS" /\ new.dirty /\ ~w.cache[c].outgoing[b].dirty
                                             THEN @ \cup {"VICTIM"} ELSE @]
         IN IF guarantee /\ ~w.cache[c].outgoing[b].guarantee
            THEN FlushPrev([joined EXCEPT !.cache[c].outgoing[b].guarantee = TRUE,
                                          !.cache[c].outgoing[b].left = Len(Prev(c))], c, b, TRUE)
            ELSE joined

\* External: the manager's flushCompleted.  It writes a dirty block to the memory itself.
TellManager(w, b, dirty) ==
    [w EXCEPT !.flushing = @ \ {b}, !.flushed = @ \cup {b},
              !.unwritten = IF dirty THEN @ \ {b} ELSE @]

FlushDone(w, c, b, Tell(_, _, _)) ==
    LET f == w.cache[c].flushes[b] IN
    IF f.stalledLeft > 0 THEN [w EXCEPT !.cache[c].flushes[b].done = TRUE]
    ELSE Tell([w EXCEPT !.cache[c].flushes = Without(@, b)], b, f.dirty)

\* An access came while the block was flushed: once more, after the access.
FlushEnds(w, c, b, Tell(_, _, _)) ==
    IF ~(w.cache[c].flushes[b].guarantee /\ w.cache[c].flushes[b].repeat) THEN FlushDone(w, c, b, Tell)
    ELSE IF b \in DOMAIN w.cache[c].requests THEN [w EXCEPT !.cache[c].requests[b].repeatFlush = TRUE]
    ELSE StartFlush(w, c, b)

\* Mutant: it is not written back.
VictimForgotten(w, b, dirty) == FinishIfDone([w EXCEPT !.cache[L2].requests[b].flush = FALSE], L2, b)

\* A request's victim is flushed from the levels before.
VictimFlushed(w, b, dirty) ==
    IF b \notin DOMAIN w.cache[L2].requests THEN Fails(w, "VICTIM")
    ELSE LET over == [w EXCEPT !.cache[L2].requests[b].flush = FALSE]
             sent == IF dirty THEN Send(over, L2, w.cache[L2].requests[b].evicted, FALSE) ELSE over
         IN FinishIfDone(sent, L2, b)

\* Cache::flushCompleted, of the second level.
FlushCompleted(w, b, dirtyThere) ==
    LET out == w.cache[L2].outgoing[b]
        dirty == out.dirty \/ dirtyThere
        Tell(v, entry) ==
            IF entry.type = "ACCESS" THEN VictimFlushed(v, entry.block, dirty)
            ELSE IF b \notin DOMAIN v.cache[L2].flushes THEN Fails(v, "FLUSHED")
            ELSE FlushEnds([v EXCEPT !.cache[L2].flushes[b].dirty = @ \/ dirty], L2, b, TellManager)
    IN IF b \notin DOMAIN w.cache[L2].outgoing THEN Fails(w, "OUTGOING")
       ELSE IF out.left > 1
       THEN [w EXCEPT !.cache[L2].outgoing[b].left = @ - 1, !.cache[L2].outgoing[b].dirty = dirty]
       ELSE [FoldLeft(Tell, w, out.for) EXCEPT !.cache[L2].outgoing = Without(@, b)]

-----------------------------------------------------------------------------
(* Events *)

\* A read of the next level, unless the block is being flushed from the levels before.
Fetch(w, c, b) ==
    IF b \in DOMAIN w.cache[c].outgoing THEN w
    ELSE Send([w EXCEPT !.cache[c].requests[b].read = TRUE], c, b, TRUE)

\* The victim of a miss: flushed from the levels before, or written to the next.
Evict(w, c, b) ==
    LET r == w.cache[c].requests[b]
        writeback == r.result = "MISS_WITH_WRITEBACK"
    IN IF Prev(c) # <<>>
       THEN FlushOut([w EXCEPT !.cache[c].requests[b].flush = TRUE], c, r.evicted, "ACCESS", b,
                     [guarantee |-> writeback, dirty |-> writeback], FALSE)
       ELSE IF writeback THEN SendVictim(w, c, r.evicted) ELSE w

AccessEvent(w, c, b) ==
    IF b \notin DOMAIN w.cache[c].requests THEN Fails(w, "ACCESS")
    ELSE LET result == w.cache[c].requests[b].result
             seen == [w EXCEPT !.cache[c].requests[b].tag = FALSE]
             fetched == IF result = "HIT" THEN seen ELSE Fetch(seen, c, b)
             evicted == IF Evicts(result) THEN Evict(fetched, c, b) ELSE fetched
             answered == IF evicted.cache[c].requests[b].read THEN evicted ELSE Answer(evicted, c, b)
         IN FinishIfDone(answered, c, b)

\* The arguments dirty and guarantee of OutgoingFlushRequest are in the order of
\* the call, not of the constructor.
FlushLooked(w, c, b, Tell(_, _, _)) ==
    IF b \notin DOMAIN w.cache[c].flushes THEN Fails(w, "FLUSH")
    ELSE LET found == [w EXCEPT !.cache[c].flushes[b].dirty =
                           @ \/ w.cache[c].flushes[b].result = "WRITEBACK"]
             f == found.cache[c].flushes[b]
         IN IF f.result = "NO_EVICTION" /\ ~f.guarantee THEN FlushDone(found, c, b, Tell)
            ELSE IF Prev(c) = <<>> THEN FlushEnds(found, c, b, Tell)
            ELSE FlushOut(found, c, b, "FLUSH", None,
                          [guarantee |-> f.dirty /\ f.result # "NO_EVICTION", dirty |-> f.guarantee],
                          f.guarantee)

FlushEvent(w, c, b) ==
    IF c = L2 THEN FlushLooked(w, c, b, TellManager) ELSE FlushLooked(w, c, b, FlushCompleted)

\* The first of the stalled requests is sent again, and the next if it is taken.
SentAgain(w, c, Tell(_, _, _)) ==
    IF w.cache[c].stalled = <<>> THEN Fails(w, "UNSTALL")
    ELSE LET s == Head(w.cache[c].stalled)
             sent == ToNext(w, c, s.block, s.read)
             counted == [sent EXCEPT !.cache[c].flushes[s.block].stalledLeft = @ - 1]
             f == counted.cache[c].flushes[s.block]
             told == IF ~s.flushing THEN sent
                     ELSE IF f.done THEN FlushDone(counted, c, s.block, Tell) ELSE counted
             taken == [told EXCEPT !.cache[c].stalled = Tail(@)]
         IN IF ~NextAccepts(w, c) THEN sent
            ELSE IF s.flushing /\ s.block \notin DOMAIN w.cache[c].flushes THEN Fails(w, "STALLED")
            ELSE IF taken.cache[c].stalled = <<>> THEN taken
            ELSE AddEvent(taken, 0, c, "UNSTALL", None)

UnstallEvent(w, c) ==
    IF c = L2 THEN SentAgain(w, c, TellManager) ELSE SentAgain(w, c, FlushCompleted)

\* Cache::process.
Handle(w, e) ==
    CASE e.type = "ACCESS" -> AccessEvent(w, e.cache, e.block)
      [] e.type = "FLUSH" -> FlushEvent(w, e.cache, e.block)
      [] e.type = "UNSTALL" -> UnstallEvent(w, e.cache)

-----------------------------------------------------------------------------
(* The specification *)

\* A core accesses its cache, and waits if it is refused.
CoreAccesses(c, b, read) ==
    /\ accesses < MaxAccesses /\ failed = None
    /\ c \notin cache[c].stalledCallers
    /\ b \notin flushing
    /\ LET w == Access(Now, c, b, read, c) IN
       Becomes([w EXCEPT !.flushed = @ \ {b},
                         !.reads[c][b] = IF read /\ Accepts(Now, c) THEN @ + 1 ELSE @])
    /\ accesses' = accesses + 1
    /\ UNCHANGED flushes

ManagerFlushes(b) ==
    /\ flushes < MaxFlushes /\ failed = None
    /\ b \notin flushing
    /\ Becomes([Flush(Now, L2, b, TRUE) EXCEPT !.flushing = @ \cup {b}])
    /\ flushes' = flushes + 1
    /\ UNCHANGED accesses

\* The memory completes one of its requests, and unstalls the cache if it was full.
MemoryCompletes(i) ==
    LET m == memory.pending[i]
        full == MemoryLoad(Now) = MemorySize /\ memory.registered
        left == [Now EXCEPT !.memory.pending = RemoveAt(@, i)]
        done == IF m.read THEN AccessCompleted(left, m.block) ELSE left
    IN /\ failed = None /\ i \in DOMAIN memory.pending
       /\ Becomes(IF ~full THEN done
                  ELSE AddEvent([done EXCEPT !.memory.registered = FALSE], 1, L2, "UNSTALL", None))
       /\ UNCHANGED <<accesses, flushes>>

Process ==
    /\ failed = None
    /\ \E i \in NextEvents(events) :
           Becomes(Handle([Now EXCEPT !.events = RemoveAt(@, i)], events[i]))
    /\ UNCHANGED <<accesses, flushes>>

Advance ==
    /\ events # <<>> /\ failed = None
    /\ Head(events).due > 0
    /\ events' = [i \in DOMAIN events |-> [events[i] EXCEPT !.due = @ - 1]]
    /\ UNCHANGED <<cache, memory, reads, flushing, failed, defects, unwritten, flushed, accesses, flushes>>

Init ==
    /\ cache = [c \in Caches |-> [lines |-> <<>>, requests |-> <<>>, flushes |-> <<>>, outgoing |-> <<>>,
                                  queueSize |-> 0, stalledCallers |-> {}, next |-> 0, stalled |-> <<>>]]
    /\ events = <<>>
    /\ memory = [pending |-> <<>>, registered |-> FALSE]
    /\ reads = [c \in Firsts |-> [b \in Blocks |-> 0]]
    /\ flushing = {} /\ failed = None /\ defects = {} /\ unwritten = {} /\ flushed = {}
    /\ accesses = 0 /\ flushes = 0

Next ==
    \/ \E c \in Firsts, b \in Blocks, read \in BOOLEAN : CoreAccesses(c, b, read)
    \/ \E b \in Blocks : ManagerFlushes(b)
    \/ \E i \in DOMAIN memory.pending : MemoryCompletes(i)
    \/ Process
    \/ Advance

Spec == Init /\ [][Next]_vars

-----------------------------------------------------------------------------
(* Properties *)

Request == [result : {"HIT", "MISS_WITHOUT_EVICTION", "MISS_WITH_EVICTION", "MISS_WITH_WRITEBACK"},
            evicted : Blocks \cup {None}, callers : Seq([read : BOOLEAN, from : Firsts]),
            numCallers : Nat, tag : BOOLEAN, read : BOOLEAN, flush : BOOLEAN, repeatFlush : BOOLEAN]

FlushRequest == [result : {"NO_EVICTION", "EVICTION", "WRITEBACK"}, guarantee : BOOLEAN,
                 repeat : BOOLEAN, dirty : BOOLEAN, done : BOOLEAN, stalledLeft : Nat]

\* The maps are keyed by blocks, a set never holds a block twice or more lines
\* than it has, and no count of the caches goes below zero.
TypeOK ==
    /\ \A c \in Caches :
           /\ \A b \in DOMAIN cache[c].requests : b \in Blocks /\ cache[c].requests[b] \in Request
           /\ \A b \in DOMAIN cache[c].flushes : b \in Blocks /\ cache[c].flushes[b] \in FlushRequest
           /\ cache[c].lines \in Seq([block : Blocks, dirty : BOOLEAN])
           /\ Len(cache[c].lines) <= Ways[Level(c)]
           /\ Cardinality(Held(Now, c)) = Len(cache[c].lines)
           /\ cache[c].stalled \in Seq([block : Blocks, read : BOOLEAN, flushing : BOOLEAN])
           /\ cache[c].stalledCallers \subseteq Firsts
           /\ cache[c].queueSize \in Nat /\ cache[c].next \in Nat
    /\ reads \in [Firsts -> [Blocks -> Nat]]
    /\ MemoryLoad(Now) <= MemorySize
    /\ unwritten \cup flushed \cup flushing \subseteq Blocks

\* No access has been forgotten so far.
Sound == failed = None /\ "LATE" \notin defects

\* The assertions of the handlers hold, up to an access that is forgotten:
\* every event, answer and notification finds the entry that it is for
\* (Cache.cpp 641, 692, 731, 823, 892, 1065, 1071, 1125, 1133, 1166, 1190).
AssertionsHold == failed # None => "LATE" \in defects

\* The assertion of the ACCESS event alone (731: "myassert(it != requests.end())").
AccessFindsRequest == failed # "ACCESS"

\* A copy counts a block as read when its read is answered, and forgets those who
\* wait if it is written before (HybridMemory.cpp 237-252, 271-294): it would have to
\* be that no write of a block is behind a read of it at the memory.
ReadsGoFirst == \A i, j \in DOMAIN memory.pending :
    i < j /\ memory.pending[i].block = memory.pending[j].block /\ memory.pending[i].read
        => memory.pending[j].read

SumOf(f) == FoldFunctionOnSet(LAMBDA r, n : r.numCallers + n, 0, f, DOMAIN f)

\* The read of a block is under way: stalled, or with the next level.
ReadUnderWay(c, b) ==
    \/ \E i \in DOMAIN cache[c].stalled : cache[c].stalled[i].block = b /\ cache[c].stalled[i].read
    \/ c = L2 /\ [block |-> b, read |-> TRUE] \in Range(memory.pending)
    \/ c # L2 /\ b \in DOMAIN cache[L2].requests
              /\ [read |-> TRUE, from |-> c] \in Range(cache[L2].requests[b].callers)

\* The queue counts the accesses of its requests, someone is refused only by a
\* full queue, and a request waits for a read exactly when there is one under way.
RequestsAgree == Sound => \A c \in Caches :
    /\ cache[c].queueSize = SumOf(cache[c].requests)
    /\ cache[c].queueSize <= MaxQueueSize[Level(c)]
    /\ cache[c].stalledCallers # {} => ~Accepts(Now, c)
    /\ \A b \in Blocks :
           ReadUnderWay(c, b) <=> b \in DOMAIN cache[c].requests /\ cache[c].requests[b].read

\* A cache with stalled requests will be woken exactly once, and one without is
\* not woken: the UNSTALL event asserts that there is a request (1064-1065).
StalledAreWoken == Sound => \A c \in Caches :
    Cardinality({i \in DOMAIN events : events[i].cache = c /\ events[i].type = "UNSTALL"})
    + (IF c = L2 THEN (IF memory.registered THEN 1 ELSE 0)
       ELSE IF c \in cache[L2].stalledCallers THEN 1 ELSE 0)
    = IF cache[c].stalled = <<>> THEN 0 ELSE 1

\* Something in c still knows that b was written.
DirtyIn(c, b) ==
    \/ IsDirty(Now, c, b)
    \/ \E i \in DOMAIN cache[c].stalled : cache[c].stalled[i].block = b /\ ~cache[c].stalled[i].read
    \/ \E x \in DOMAIN cache[c].requests :
           /\ cache[c].requests[x].evicted = b /\ cache[c].requests[x].tag
           /\ cache[c].requests[x].result = "MISS_WITH_WRITEBACK"
    \/ b \in DOMAIN cache[c].outgoing /\ cache[c].outgoing[b].dirty
    \/ b \in DOMAIN cache[c].flushes
           /\ (cache[c].flushes[b].dirty \/ cache[c].flushes[b].result = "WRITEBACK")

\* A block that was written in a cache is not forgotten on its way to the memory
\* through evictions, flushes and stalls, however they cross (except where a dirty
\* victim joins a flush that began for a clean one, 798-806).
WritesKept == Sound /\ "VICTIM" \notin defects => \A b \in unwritten : \E c \in Caches : DirtyIn(c, b)

\* When the manager is told that a flush is over, no cache holds the block and no
\* first level has a request of it left (in L2, a victim that flushCompleted writes
\* back may be stalled: it is not counted, 1140-1143).
FlushedIsGone == Sound => \A b \in flushed : \A c \in Caches :
    /\ b \notin Held(Now, c)
    /\ \A i \in DOMAIN cache[c].stalled :
           cache[c].stalled[i].block = b => c = L2 /\ ~cache[c].stalled[i].flushing
    /\ \A x \in DOMAIN cache[c].requests : cache[c].requests[x].evicted = b => ~cache[c].requests[x].tag

\* Every request of L2 waits for the flush of its victim, and every such flush
\* for a stalled request of a first level that L2 does not accept.
Ring ==
    /\ ~Accepts(Now, L2)
    /\ \A b \in DOMAIN cache[L2].requests :
           LET victim == cache[L2].requests[b].evicted IN
           /\ cache[L2].requests[b].flush
           /\ \E c \in cache[L2].stalledCallers :
                  /\ victim \in DOMAIN cache[c].flushes
                  /\ cache[c].flushes[victim].done /\ cache[c].flushes[victim].stalledLeft > 0

\* When no event and no answer of the memory is to come, nobody is left waiting:
\* every read is answered, every flush has ended and every refused caller has been
\* called back.  The only ring of waits is the one above (and a flush that has
\* counted a stalled request twice waits for ever, 1112-1117).
RestsWhenDone == Sound /\ "RECOUNT" \notin defects /\ events = <<>> /\ memory.pending = <<>> =>
    \/ Ring
    \/ /\ \A c \in Caches : /\ cache[c].requests = <<>> /\ cache[c].flushes = <<>>
                            /\ cache[c].outgoing = <<>> /\ cache[c].stalled = <<>>
                            /\ cache[c].stalledCallers = {}
       /\ \A c \in Firsts, b \in Blocks : reads[c][b] = 0
       /\ flushing = {}
=============================================================================
