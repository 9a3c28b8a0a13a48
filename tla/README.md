# HMMsim in TLA+

HMMsim simulates a computer whose main memory is part DRAM, part phase-change
memory (PCM): cores fed from instruction traces, caches, DRAM and PCM made of
banks and buses, and a manager that migrates pages between the two memories
while they are used. The simulator is one thread around an event queue, but
what it simulates is concurrent: requests, refusals, page copies, flushes and
drains are long sequences of callbacks whose order nobody fixed. This directory
holds TLA+ modules that model these protocols, TLC configurations that check
them on small instances, and proofs that TLAPS checks.

Line numbers below are lines of the files under `src/`.

## The system

| component | state | operations | talks to |
|---|---|---|---|
| Engine (`Engine.cpp`) | time, ring of four lists of events, heap, `done`, next statistics and progress | `addEvent`, `run`, `quit`, its own periodic `process` | calls `process` of every component |
| Bus (`Bus.cpp`) | booked slots by start cycle | `schedule`, `process` | banks; calls back `transferCompleted` |
| Bank, MemoryMapping (`Bank.cpp`) | open row, row state machine, queue by priority, pipeline | `access`, `process`, `transferCompleted` | Bus, Memory |
| Memory, Staller (`Memory.cpp`) | size of each queue, with a limit, stalled callers | `access` (may refuse), `accessCompleted` | banks; answers its callers, and calls `unstall` of those it refused |
| HybridMemory (`HybridMemory.cpp`, class `HybridMemory`) | migration table (state of each block being copied), dirty maps, reads waiting, lists of copies that stalled | `access`, `copyPage`, `rollback`, `finishMigration`, `accessCompleted`, `unstall`, `process` | DRAM and PCM memories, the manager, the last cache |
| HybridMemoryManager (`MemoryManager.cpp`) | page tables and their inverse, free lists, migration table, flush queue, refused writebacks, stalled cores | `allocate`, `access`, `copyCompleted`, `flushCompleted`, `remapCompleted`, `drainCompleted`, `unstall`, `process` | HybridMemory, caches, cores, policies |
| Cache (`Cache.cpp`, class `Cache`) | requests by block, flushes of the levels before, flushes asked for, stalled requests, refused callers | `access`, `accessCompleted`, `flush`, `flushCompleted`, `unstall`, `process` | the levels before and after, the cores, the manager |
| CacheModel, Set (`Cache.cpp`) | tags and dirty marks by set, the remap table and its inverse | `access`, `flush`, `makeDirty`, `remap` | Cache |
| OOOCPU (`CPU.cpp`) | reorder buffer, loads under way, stalled requests, paused entries, drains | `process`, `accessCompleted`, `unstall`, `resume`, `drain` | the trace, two caches, the manager |
| Migration policies (`Migration.cpp`) | lists of pages by access count, victims, history | `allocate`, `migrate`, `demote`, `done`, `monitor`, `selectPage` | the manager |
| CacheMemory, OldHybridMemory(+Manager), SimpleMemoryManager, IOCPU | variants of the above | as above | as above |
| Partition | shares of DRAM per process | periodic | the manager |
| Counter, TraceHandler, Statistics, Arguments, Error, trace tools | counters, files, options | | |

Components interact in four ways, and every module below is about one or more:

- **events**: `addEvent(delay, handler)`; the engine later calls the handler.
  Events of a cycle run in the order they were added in.
- **callbacks**: a request carries the component to call when it completes.
- **refusal**: a component that is full returns `false` and must later call
  `unstall` of everyone it refused. A refused caller has no event: if `unstall`
  does not come it waits for ever.
- **two-phase hand-over** of a page: cores drain, the cache flushes or remaps
  the page, then the page table changes, and the cores that were kept waiting
  are resumed.

What makes each component correct, and hard:

- *Engine*: an event runs once, at its time, first come first served within a
  cycle, although it may travel through the heap, the ring, or both; the
  periodic event does not keep the simulation alive.
- *Bus*: no two transfers at once, each bank called back when it was told. Slots
  are booked out of order and into gaps.
- *HybridMemory*: the latest contents of a block are never lost between the
  source, the buffer and the destination, whatever requests come while it is
  copied, rolled back, or stopped because a memory is full; the copy ends, once;
  everyone waiting is answered.
- *HybridMemoryManager*: a frame has one owner (page, destination, free list);
  a page moves only while nobody uses it; one demotion at a time, and none lost;
  all cores are resumed.
- *Memory and Bank*: a queue's size is what it holds, and nobody who was refused
  is forgotten; the row state machine waits for exactly one thing per request it
  started; a read never gets contents older than a write that still waits.
- *Cache*: accesses, evictions and flushes of one block cross over two levels,
  each waiting for others; a written block must reach the memory, a flushed one
  must be gone, queues count what is in them, and nobody waits for ever.
- *CacheModel*: blocks of a page that moved stay in the sets of its old address;
  two tables must find them from either side as long as one is held.
- *OOOCPU*: answers, refusals, pauses and resumptions of one entry arrive in any
  order, and an entry is reused only when nothing for it is under way.
- *Policies*: their lists must keep in step with what the manager does with the
  pages, and the pages they place in DRAM within their share.

`PROJECT.json` lists the hazards line by line, with the properties that cover
each, and what is known of those that do go wrong.

## Modules

| module | models | refines / uses |
|---|---|---|
| `EventQueue` | what the engine promises: a set of events, each run at its time, in the order added | |
| `Engine` | `Engine.cpp`: ring, heap, loop, periodic event, `quit` | implements `EventQueue` |
| `Bus` | `Bus.cpp` | |
| `Memory` | `Memory.cpp` (class `Memory`) and `Bank.cpp`: queues, rows, pipeline | composes `Bus` (`INSTANCE`); callers external |
| `PageCopy` | `HybridMemory.cpp`: how pages are copied under requests | memories and manager external |
| `PageMigration` | `MemoryManager.cpp`: how pages are placed, flushed and moved | memory, cache, cores, policy external |
| `Cache` | `Cache.cpp` (class `Cache`): two first levels over a second one | cores, memory, manager external |
| `CacheContents` | what the tags of a cache promise: blocks held, dirty or not, and what is evicted | |
| `CacheModel` | `Cache.cpp` (classes `CacheModel`, `Set`): sets and remap tables | implements `CacheContents` |
| `OOOCPU` | `CPU.cpp` (class `OOOCPU`) | caches and manager external |
| `Placement` | what every policy promises: a page in one memory, DRAM within its share | |
| `PolicyQueues` | the lists of pages that the policies share | |
| `MultiQueue` | `Migration.cpp` (`MultiQueueMigrationPolicy` and its base) | implements `Placement`; manager external |
| `OldPolicies` | `Migration.cpp` (the five `Old...` policies) | implements `Placement`; manager external |
| `EngineProofs`, `BusProofs`, `MemoryProofs`, `MultiQueueProofs`, `PageMigrationProofs`, `PageCopyProofs`, `CacheModelProofs`, `OOOCPUProofs` | theorems | |
| `MC...` | constants for TLC | |

Operators whose comment starts with *Mutant* are deliberate mistakes (a dropped
guard, a missing reset). No specification uses them; each is put in the place
of the definition after it, to see that a property notices.

### Engine and EventQueue

`currentEvents` is the ring, `events` the heap, `current` the event whose
handler runs. An iteration of `run` is one action per branch: it takes
from the list of the present cycle, or moves on in time, putting
what the heap holds for the new cycle in front and what it holds for the rest of
the window into its slots (Engine.cpp 60-110). Handlers are arbitrary: while one
runs, any number of `addEvent` calls with any of `Delays` may happen, and
`quit`. `at` and `seq` are history: when, and as which event, one was added.

`EventQueue` knows only the set of pending events. The refinement maps the union
of ring and heap to it. The order it promises is the one the code keeps: in a
cycle, what was added a ring's length or more before (through the heap, in no
particular order among themselves) comes first, then first in, first out. The
heap is a `priority_queue`, not stable: events that reached it for the same
cycle come in any order, and the model leaves that order open.

### Bus

`schedule` is one action: first slot at or after the requested start that leaves
`Latency` cycles to both neighbours, found by walking the map as the code does.
`process` takes the first slot of the map whatever event woke it up.
Transfers are numbered; who called is not modelled, because a bank may have
several outstanding.

### Memory

One record per bank: row state, `current`, `pipeline`, the queue by priority, dirty
columns, `nextPipelineEvent` and `notifications`, as in `Bank.H`. `Access` is
`Memory::access` with `Bank::access`: a read that a queued write answers
(`Forward`) or a request for the queue (`Enqueue`), which may wake the bank or add
to its pipeline. `changeState` is one action per row state: `Open`, `Opened`,
`Closed`, and `NextRequest` for an open row, reached from the bank's event
(`Continue`) and from the end of a read's transfer (`TransferCompleted`), each
ending in `Complete`, which is `Memory::accessCompleted`. `Pipeline` and `Notify`
are the other two events.

`Memory` instantiates `Bus` for its bus, so that `schedule` is `bus!Schedule`,
part of the bank's step. `Bus::process` calls the bank as its last act; the
model makes that a step of its own (`calling`), before which nothing else can
happen. `owner` says which bank asked for a transfer. Events of one cycle come in
any order, more freely than the engine would.

External: the callers. They are not called while in `access`, and what they do
when answered or unstalled they do in an event of their own, as caches and the
hybrid memory do.

### PageCopy

A record per page in the migration table: source and destination, the state of
every block (`NOT_READ`, `READING`, `BUFFERED`, `WRITTEN`), the dirty bits,
`nextRead`, `nextWrite`, and the three counters `leftToRead`,
`leftToCompleteRead`, `leftToWrite`. Counters wrap as the unsigned counters of
the code do (`CounterModulus`). `access` is split by the state of the block it
meets: `ReadUnread`, `ReadJoins`, `ReadBuffered`, `ReadWritten`, `WriteUnread`,
`WriteOvertakes`, ... each with everything that branch calls. `ReadEvent` and
`WriteEvent` are the READ and WRITE cases of `process`, `ReadReturns` is
`accessCompleted`, `MemoryDrains` is `unstall`. `fresh`, and the fields `unread`
and `joined` of an entry, are history: who holds the latest contents of a block,
and which blocks a write has reached before they were read, or while caches waited.

What sim.cpp configures - the threshold, and in which memory the page starts - is
chosen in the initial state from `Settings`, so that one run covers several.

External: a memory accepts or refuses (`Take`, `Refuse`), answers reads in
any order and calls `unstall` after refusing; the manager starts,
rolls back and finishes copies.

### PageMigration

`pages` and `physicalPages` are the page table and its inverse, `migrations` the
table by source frame, `flushQueue` the blocks waiting for the cache in the
order they are sent, `stalledRequests` the writebacks the memory refused. The
handlers: `Allocate`, `StallCpu`, `MigrateOnDemand` (access), `DemoteEvent` and
`RollbackPromotion` (`process`), `CopyPageEvent`, `CopyCompleted`,
`DrainCompleted`, `FlushCompleted`, `RemapCompleted`, `MemoryUnstalls` and
`UnstallEvent`. `FinishFlushing` is the end of a flush, called from three of
them, with the code's case distinction by state and direction.

External: which page the policy picks, when the memory ends a copy, the answers
of the cache in any order and whether a block was dirty, the cores' drains.

### Cache

A record per cache: `lines` (one set, least recently used first), `requests` by
block, `flushes` (those it was asked for), `outgoing` (those it has asked of the
levels before), `stalled`, `stalledCallers`, `queueSize` and whose turn it is.
The handlers of the code call each other across levels - an answer of L2
completes the requests of a first level, whose end may unstall or flush - so
each is an operator from one state of all caches to the next, and an action
applies one. `CoreAccesses` is `access` of a first level, `Process` takes the
first event and is the case distinction of `process` (`AccessEvent`,
`FlushEvent`, `UnstallEvent`), `MemoryCompletes` is `accessCompleted` and
`unstall` called by the memory, `ManagerFlushes` is `flush` of L2.

Events run in the order of the engine (`NextEvents`). What is due within the ring of the
engine is first come, first served. What is due later, which with the defaults is every
ACCESS and FLUSH of L2 (a penalty of 32 cycles, sim.cpp:96, and a ring of 4), goes through
the heap: those due in one cycle run in any order, and before what the ring has for
that cycle (Engine.cpp 68-97). `CurrentSize` is the size of the ring.

An assertion of the code that fails sets `failed`, which stops the model. Two
histories serve the properties: `unwritten`, the blocks whose last write has not
reached the memory, and `defects`, which of four known defects has occurred
(`LATE`, `VICTIM` and `RECOUNT` below; the fourth, the ring, is a predicate).

External: cores access the first levels at any time and wait when they are
refused; the memory is a bounded set of requests answered in any order; the
manager keeps cores from a block while it flushes it. Not modelled: REMAP and
TAG_CHANGE events and pins, which the default flush policy does not use.

### CacheModel and CacheContents

`CacheModel` has the sets with `SetOf` a page's index and offset, a tag that is
`marked` when its page has moved, and the two tables. `Access` (three cases),
`Flush`, `MakeDirty` and `Remap` (a page without marked blocks, and one that has
some) are the methods of the class. `CacheContents` is a cache that knows no
tags: `contents` is a set of blocks. The mapping reads each tag back to the page
it stands for.

The caller is assumed not to move a page to a frame some of whose blocks are
still held under its own address, nor to one whose address marked blocks of
another page still have; `Reuse = TRUE` lifts the latter and makes the assertion of
`remap` fail (Cache.cpp:447). `flush` looks a block up under its own address only
(364-379); pages that have moved are not flushed in the model.

### OOOCPU

`cpu` is the core: the reorder buffer with `head`, `tail` and `full`, each entry
with its state and what it waits for, the stalled requests for each cache, the
two slots of messages, of which one fills while the other is processed, paused
entries, drains, and how much of the trace has been read. `Process` is
the PROCESS event with its parts in the order of the code (resumed entries,
unstalled requests, answers of the instruction cache, fetch, answers of the data
cache, commit), again operators from one state of the core to the next.
`Complete` is `accessCompleted`, `UnstallCPU` is `unstall`, `Hold` is a page the
manager stops cores at, with `drain`, `DrainEvent` reports the end of a drain,
`Free` is `resume`. An assertion of the core that fails sets `failed`; a DRAIN event
that finds no drain with nothing left is such a failure, not a step that is not enabled.

External: a cache takes some number (`Accepts`) of requests in a cycle, refuses the others
and unstalls later; the manager holds pages and frees them after the drain.

The loops of the code over requests, messages and pausers are recursive functions
of how far they have come (`InTurn`), so that they can be reasoned about.

### The policies

`MultiQueue` has a place and an entry per page, the lists of both memories, the
list of victims and the history. `Allocate`, `Migrate`, `Demote` (with
`DemoteNone` when there is no page), `Done` and `Monitor` are the methods the
manager calls; `Monitor` includes the expirations of every list. The base
class's `complete` and `rollback` always answer no. `moving` and `frames` are
the manager's: the migrations under way, and its free frames.

`OldPolicies` is one module for five classes with one interface: `allocate`,
`monitor` and `migrate`, which chooses the page itself. The policy is picked in
the initial state. Where the code dereferences an end iterator, fails an assertion or
names a page of the wrong process, `defect` says which and the model stops: what
the program does from there is not defined.

## Runs

| run | question | states | bounds and why they are enough |
|---|---|---|---|
| `engine` | ring and heap are one event queue; the periodic event neither skips nor keeps the simulation alive | 38 thousand | four events, delays 0, 1, 3, 4 and 6: inside the window, its last cycle, exactly the ring's size, beyond it. Statistics every 3 and progress every 5 cycles, one inside, one outside the window, coming together |
| `bus` | exclusive, called back on time | 278 thousand | four transfers of two cycles, delays 0, 3 and 5: gaps of one, two and three cycles between slots already booked, so that one is too small, one exact, one ample |
| `memory` | banks never stop nor run twice, reads see writes, everyone is answered, the bus is used as proved | 235 thousand | three requests to two banks, of five kinds: two rows, two columns, both priorities, reads and writes; a queue of two fills, one of three lets two requests follow in the pipeline. DRAM and PCM with the defaults of sim.cpp, and DRAM with closed pages and one queue. Opening a row and reading a column take two cycles, a transfer one: longer, as with the defaults |
| `copy` | nothing lost, the copy ends, caches answered | 129 thousand | a page that goes down and up again, with three blocks, so that one is being read, one buffered and one written at once, PCM may fill, three requests; and a promotion with threshold 2, where the chain of reads starts with two blocks left, and with writes to blocks in any state |
| `migration` | one owner per frame, moves guarded, flushes counted | 109 thousand | two pages, two frames on each side, two cores, two blocks, a flush queue of one, a table of two: a promotion, a demotion and a rollback meet, and a flush must wait for another |
| `migration_progress` | cores resume, demotions end | 22 thousand | the same with one core |
| `cache` | queues and wake-ups counted, writes kept, flushes complete, nobody waits for ever | 2.56 million | two blocks over caches of one line and queues of two, a memory of one request, three accesses and a flush: every miss evicts, queues fill at each level, and a flush of the manager meets one for a victim. The penalty of L2 is the ring's size, 4, the least that goes through the heap: its events that are due in one cycle are taken in any order. Those of the first levels are 0 and 1 (by default 0 and 3), within the ring: L2's event and the first levels' come in every order. With penalties 0, 0 and 4, or 0, 3 and 4 (4.0 million states) the same properties hold |
| `cachemodel` | the remap tables name the blocks rightly | 16 thousand | three pages over two indexes, two blocks, sets of two lines; complete, no bound on steps |
| `cpu` | every answer waited for once, drained pages quiet, the trace committed | 318 thousand | four timestamps in a reorder buffer of three entries, so that it wraps; two pages, caches that take 0, 1 or all requests in a cycle, pages held twice |
| `multiqueue` | policy and manager agree on pages and frames | 300 thousand | three pages, two frames, three queues, three migrations, time up to six lifetimes, three settings of the options |
| `oldpolicies` | lists agree; what goes wrong, only where it is known to | 344 thousand | four pages of two processes, two frames, five accesses, each policy with both allocations |
| `cache_lost` | the disagreement 1 below | | the instance of `cache` |

`cachemodel` checks for deadlock. The other runs say `CHECK_DEADLOCK FALSE`: a
simulation ends when no event is left, or when the bound on requests, transfers
or time is reached. That nothing stops too early is what the liveness properties
and `RestsWhenDone` say.

Further configurations show a disagreement each; TLC reports a violation for
`tlc -config X.cfg MCY.tla` with

| configuration | module | violates |
|---|---|---|
| `MCCopyElide` | `MCCopy` | `Coherent` |
| `MCCopyRollback` | `MCCopy` | `AnswersComeFromSource` |
| `MCCopyStall` | `MCCopy` | `StalledReadsListed` |
| `MCCopyThreshold` | `MCCopy` | `AssertionsHold` |
| `MCMigrationUsed` | `MCMigration` | `PcmUsedAgrees` |
| `MCCPUResume` | `MCOOOCPU` | `ResumedHasPausers` |
| `MCPolicyIndex` | `MCMultiQueue` | `IndexInRange` |
| `MCPolicyEvicted` | `MCMultiQueue` | `EvictedKeepCount` |
| `MCCacheRace` | `MCCache` | `ReadsGoFirst` |

Restrictions of the passing runs, each a constant of the module:

- `CalmRollback = TRUE`: a copy is rolled back only with no read under way, and
  is left alone afterwards. The manager does not wait for that; `MCCopyRollback`
  lifts it and shows one consequence.
- `MayFill = {"pcm"}`: only one memory refuses; `MCCopyStall` lets both.
- `Elide = FALSE`, the default; `MCCopyElide` has it on.
- `writeRaces` is false for the demotion of `copy`: the caches are flushed before
  a demotion, so that none holds a line of the page that was written before.
- `UsedModulus = 1` in the two passing migration runs: the counters of memory
  used are left out; `MCMigrationUsed` has them.
- `Reuse = FALSE` in `cachemodel`, see above.
- The delays between the blocks of a copy are 0, the default of `sim.cpp`
  192-195; `fixed_pcm_migration_cost`, partitions and tag changes are off.

### Fairness

- *Engine*: weak fairness of the next step. One thread runs a loop; handlers
  return. The bound on `addEvent` calls is what makes `Terminates` a question
  about the engine: components that always reschedule never end.
- *Memory*: every event of a bank is processed, the bus calls back, time moves on.
- *PageCopy*: every event is processed; a memory answers every read and, having
  refused, calls `unstall`; the manager finishes a migration it is told
  is complete. Nothing is assumed of requests: caches may stop asking at any
  moment, so only copies that read by themselves have to end (`CopyEnds`).
- *PageMigration*: the memory ends the copies that need no requests (demotions
  and rollbacks), cache and cores answer, events are processed. One assumption is
  strong: a memory that has room again and again will sometime take a
  refused writeback. Nothing in the code orders the writebacks of the
  manager before other requests; without this the manager can be starved.
- *Cache*, *OOOCPU*: none. Their runs are finite but for the caches' requests, and
  `RestsWhenDone` says of a state in which nothing is under way that nobody waits:
  it is an invariant, and finds what a liveness property would.

## What the properties say

- `ImplementsEventQueue`, `WindowInv`, `Terminates`: see Engine.
  `WindowInv` implies that the assertion of `run` (the event taken is due) holds.
- Bus: `NoOverlap`, `CalledBackOnTime`; `DueFirst` (both assertions of
  `Bus::process`) is proved.
- Memory: `BanksAgree` has three parts. `SizesAgree`: the size of a queue is the
  number of its requests, and requests are refused exactly while one is full.
  `OneStepAhead`: a bank waits for one event or transfer for each request it has
  started. `RowsAgree`: what is under way in a row is alike, and no written row is
  left without being closed. `ReadsSeeWrites`: a read of a block that an earlier
  write waits for is answered from it. `UsesBus`: the banks' use of the bus is a
  behaviour of `Bus` (`Unbounded`: the bound on idle time is the memory's own here),
  and never starts before a transfer's length - which is
  `BusAssumption`, so the theorems about `Bus` hold of the memory's. `EveryoneServed`.
- PageCopy: `Coherent`: the latest contents of every block are where the entry's
  state says. `CopyAgrees` has four parts: `CountersAgree` (each counter is the
  number of blocks it stands for, less what is under way; blocks written before
  they were read are counted for ever), `AssertionsHold` (of the handlers that
  might run next), `OneChain` (a copy that must read by itself has one pending READ
  event or one place in the stalled list, never two, never none; the same for WRITE
  while blocks are buffered), `CopiedIsComplete`. `CopyEnds`, unless a block was written
  before it was read; `NobodyIsForgotten` (`ReadsAnswered`, unless a write overtook the
  read, and `CallersUnstalled`).
- PageMigration: `EachFrameOnce`: every frame is free, or mapped, or the destination of one
  migration. `TablesAgree` has four parts: `MigrationsAgree` (page flags, table and
  inverse tell the same story), `OneDemotion`, `FlushesAgree` (every count of
  flushes left is the number of blocks queued, sent or refused), `WritebacksWait`.
  `MovesAreGuarded` (the frame of a mapped page changes only when the cores are
  kept away, after drains and flushes). `Progress` (`CpusResume`, `DemotionsEnd`).
- Cache: `AssertionsHold` (all but the one of disagreement 1), `RequestsAgree` (the
  queue size is the accesses of its requests; a request waits for a read exactly
  when one is under way), `StalledAreWoken` (exactly one wake-up for stalled
  requests), `WritesKept`, `FlushedIsGone`, `RestsWhenDone`. Each excludes only the
  defects it names, which are in the list below.
- CacheModel: `TablesAgree`, `ImplementsContents`.
- OOOCPU: `AssertionsHold`: a PROCESS event has been scheduled (CPU.cpp:134), a DRAIN event
  finds a drain with nothing left (162), a page has one drain (218), which counts what
  is left (320, 344), a load enters its queue once (278, 420) and is there when it is
  answered, with its entry in wait of it (456, 475, 482), an instruction's answer finds
  its entry (393), the last entry is the last of the trace (584). Not the one of
  disagreement 11 (226), nor those on the types of events and requests and on what the manager
  returns (168, 176, 528). `EntriesAgree` (what an entry waits for is under way
  exactly once), `QuietWhileFlushed`, `RestsWhenDone`.
- Policies: `BooksAgree` (lists, marks and frames against the manager's),
  `PlacesAgree`, `DefectsAreConfined`, `ImplementsPlacement`.

## Disagreements found

1. *An access to a cache is forgotten* (run `cache_lost`). A request that has had its
   answers but waits for the flush of its victim can be joined by an access
   (Cache.cpp:600-622); if the flush ends before the ACCESS event of the latter,
   `flushCompleted` ends the request with it (1158-1188): nobody is answered,
   and the event fails its assertion (731). Defect `LATE`.
2. *A dirty victim is lost* (defect `VICTIM`). The dirty flag of a victim is
   passed with the flush of the levels before; a victim that joins a flush that began
   for a clean one does not add its own (798-806).
3. *A flush waits for ever* (defect `RECOUNT`). A flush of a block that is being
   flushed counts the stalled requests of the block again (1112-1117). The two
   last arguments of `OutgoingFlushRequest` are swapped in the call (Cache.H:315),
   which is modelled as it is.
4. *A ring of waits* (predicate `Ring`): requests of a full L2 wait for the flush
   of their victims, these for writebacks stalled in a first level, and these
   for room in L2. It takes a queue no larger than the misses under way.
5. *A write can overtake a read* (`MCCacheRace`). A line may be evicted, and its
   write sent, while the read that fetched it is still at the memory. If the
   page is being promoted, this reaches HybridMemory.cpp:271, where caches that
   have joined the read are left without an answer. A dirty line from before the promotion
   reaches 237: the block is never counted as read, and the copy never ends. The
   properties of `copy` say that nothing else does.
6. *`elide_clean_dram_blocks` skips the dirty blocks* (`MCCopyElide`).
   sim.cpp:197 describes the option as eliding clean blocks; HybridMemory.cpp:612
   marks as `WRITTEN` the blocks whose dirty bit is set.
7. *A request after a rollback is sent to the wrong memory* (`MCCopyRollback`).
   A block to be read again is read from PCM (HybridMemory.cpp:216), the
   answer fails the assertion at 522.
8. *`unstall` forgets copies* (`MCCopyStall`). It clears both stalled lists
   although it resumes only copies that wait for the memory that called
   (HybridMemory.cpp:941).
9. *A demotion with `completion_threshold` fails an assertion* (`MCCopyThreshold`).
   access starts the chain of reads that completes a promotion for demotions too
   (HybridMemory.cpp:224), which have one already; the second counts from the
   wrong block and the assertion at 774 fails. sim.cpp:196 documents the option
   for every migration.
10. *PCM used is counted twice* (`MCMigrationUsed`) for a promotion rolled back
    while it is flushed (MemoryManager.cpp:802).
11. *`resume` of a core that has no paused entry* (`MCCPUResume`): two pages resume a
    core in one cycle or two, the first empties the lists, and the assertion at
    CPU.cpp:226 fails.
12. *A policy for one process that is not process 0* indexes beyond its tables
    (`MCPolicyIndex`; Migration.H:58-59 uses 0 for the only process, but pages
    selected for demotion keep their own).
13. *A demoted page loses its count* (`MCPolicyEvicted`). The six arguments at
    Migration.cpp:449 are in the wrong positions: the type of the page becomes its
    expiration, the expiration its count, the count its mark of a demotion; sim.cpp:162
    says that the policy maintains the frequency of evicted pages. No property of a
    passing run depends on the count.
14. In the old policies (`DefectsAreConfined`): first touch uses an end iterator
    (Migration.cpp:1270-1275), the hand of the double clock is lost when its
    list was empty, two LRU looks demoted pages up under process 0 (about 1556) and expects a
    page in an empty list.

Noticed while reading, and modelled as it is: a write that joins a read
does not mark the line dirty (Cache.cpp 576-600; the block then counts as written
only if it is written again, which the history `unwritten` follows); double clock writes
the address of a demoted page for its process (Migration.cpp:1405), into the entries of a
list that nothing reads (`Demoted`); with the REMAP policy cores do
not drain before a page is remapped (MemoryManager.cpp:929-930).

## Proofs

For every value of the constants, under the named assumptions only
(`EngineAssumption`: periods and delays are naturals; `BusAssumption`: latency
positive, first call not before `Latency`; `QueuesAssumption` and `MultiQueueAssumption`: there is a queue besides
the threshold's, a lifetime is positive, shares, bounds and counts are naturals; `PageMigrationAssumption`: the two memories have no frame in common,
there are finitely many cores, bounds and block numbers are positive;
`MemoryAssumption`: inputs and settings have their types, a queue has room for one
request, closing a row takes time, and opening one takes no less than a transfer;
`PageCopyAssumption`: a page has at least two blocks, the counters can count them;
`CacheModelAssumption`: a set has at least one way, a page finitely many blocks and
each an index; `CPUAssumption`: the buffer has an entry, the core issues one at least,
caches may take some number of requests, the trace is a sequence of timestamps, each with
the pages of an instruction and its data):

- `EngineProofs!TypeCorrect`, `WindowCorrect`. `WindowInv` is not inductive by
  itself: that an advance does not jump over an event needs that the next time is
  the least of the heap, which exists only if the heap is finite; that the
  statistics and progress times stay ahead needs that the periodic event is
  pending by then. `IInv` is `TypeOK`, finiteness of the heap, `WindowInv` and
  `TickInv` (a pending periodic event is not later than the next output). The
  steps of `Next` are lemmas of their own.
- `EngineProofs!Refinement`: `Spec => ImplementsEventQueue`, each step of `Engine`
  is a step of `EventQueue` or a stutter. That an event taken from the front of a list
  is one the queue may run next needs more than `WindowInv`: after the present cycle the
  heap has only events added a ring's length or more before, and the ring only
  events added later (`OrderInv`); of two events, the one added later has the greater number
  (`AgeInv`); the lists are in order of numbers, but for what came through the
  heap, which stands in front (`Ordered`).
- `BusProofs!TypeCorrect`, `BusIsExclusive` (`NoOverlap`), `AssertionsHold`
  (`DueFirst`), `PromisesKept` (`CalledBackOnTime`). That the first slot is the
  one that ends needs that each booked slot has its wakeup and the other way
  round (`WakeupInv`), that none was passed over (`TimeInv`), and that slots are
  `Latency` apart, which in turn needs what `schedule` finds: `Candidates` sees
  every slot that could be in the way.
- `MultiQueueProofs!PlacementKept`: whatever only does what `Placement` allows keeps
  each page in one memory, and the frames of DRAM given out and left add up to the share.
  The old policies implement `Placement` on the instance of their run, the multi-queue
  policy always: `BooksKept` (`BooksAgree`), `MultiQueueImplementsPlacement`
  (`ImplementsPlacement`) and `ShareKept`, which combines the two,
  all under `Configured`: the policy has pages for every process
  (it is built for one by default, and indexes with other processes' numbers all the
  same: `MCPolicyIndex`), and a share if DRAM is to be filled first. `Books` says of each list that
  its pages are those with its place (`PagesOf`), none twice (`Distinct`), and those
  that migrate are marked (`Marking`); it takes the migrating pages as a parameter,
  because a promotion or demotion changes both in one step. `FirstFill` is why frames
  cannot run out during allocation: until DRAM is full, nothing has left it.
  `MoveIs` says what taking an entry out of one list and putting it at the end of another does;
  `Kept` (the books are right and every page is in the memory it was in) goes
  through a whole report: the count, then one expiration for each queue. `Report`
  is a recursive function there; that it exists and keeps `Kept` follows from the
  least number at which it would not (`MinNat`).
- `PageMigrationProofs!TypeCorrect`, `EachFrameOwnedOnce` (`EachFrameOnce`),
  `MovesGuarded` (`MovesAreGuarded`). The inductive invariant `IInv` has two halves.
  `Tables` adds to the frames that the table's size counts (`Sized`), that the flags
  the handlers decide by say what the table of migrations says (`Flagged`), and that
  a migration is of the page in its source frame, to the other memory (`Sourced`):
  without these a step could free a frame that is in use. `Flushes` says when a
  flush may end: the counts of a migration are exactly the blocks in the queue, the refused
  writebacks and the draining cores (`Counts`), all of these are for frames that
  are migrating (`References`), and a page that is being copied has none of them, one
  whose cores drain no flush yet (`InTurn`). The heart is `finishFlushing`, which ends any set of
  migrations at once; `FinishFlushingDoes` states its outcome without `CHOOSE`, and
  five actions use it. Cardinalities of places in sequences come first: adding a page's blocks,
  removing the i-th, taking the first n.
- `PageMigrationProofs!TablesAlwaysAgree` (`TablesAgree`). Four parts are added to
  `IInv`, each kept by its own lemmas. `Started`: the memory knows of the copies that
  have begun, each of the others has its `COPY_PAGE` event, and the one demotion or rollback
  is under way or its event due. `Waiting`: each flush waits for a core, a block or a
  writeback. `Filled`: the flush queue leaves no room unused, which needs that
  `sendFlushes` sends exactly the first so many of the blocks not yet sent
  (`FirstOnes`). `Writebacks`: a refused writeback goes where its page will be looked
  for, which holds because it keeps that page's flush from its end; and one wakeup is due.
- `PageCopyProofs!TypeCorrect`, for every configuration; `ReadsAreCoherent`
  (`Coherent`), `CopiesAddUp` (`CountersAgree`, `AssertionsHold`, `CopiedIsComplete`)
  under `Configured`; `CopiesAgree` (`CopyAgrees`) under `Configured` and `OneQueue`.
  Each hypothesis excludes what a run or a configuration shows to go wrong in the code,
  and nothing else: `Configured` is no elision (`MCCopyElide`), rollbacks while no read is under way
  (a rollback sets the counters anew under reads still to be answered, 686), and no demotion
  in a configuration with a threshold; `OneQueue` is one page and one memory
  that refuses requests, or any number of pages and none that does, since a call to unstall
  drops the copies that wait for another memory (`MCCopyStall`), and a threshold below the
  number of blocks, since a promotion begins above it. The instance of `copy` meets both.
  The inductive invariant `IInv` joins what the properties say one by one, because none
  of them is inductive: a counter is exact only if no read is counted twice
  (`Counts`, `Answers`), that only if there is at most one chain of READ events and the cursor is
  not past a block that is left (`ReadLinked`, `ReadCursor`), and a chain ends only
  because the counters are exact; `Held` says of each block which of source, buffer and
  destination has its contents, and that PCM has what a promotion left clean, on which a
  rollback relies. `StalledWait` says that the copies in the list of stalled reads
  cannot be complete while the memory that will call is full, so that `unstall`
  finds their entries; `StalledForOne`, with `OneQueue`, that they wait for that
  very memory. There is one lemma for what each change of an entry does to `Body`, and
  then one for each action.

- `CacheModelProofs!TablesAlwaysAgree` (`TablesAgree`), `CacheImplementsContents`
  (`ImplementsContents`, the refinement of `CacheContents`), both under `~Reuse`: no
  frame is remapped to while blocks marked by its address remain. With `Reuse` the
  assertion of `remap` itself fails (Cache.cpp:447). The cache is seen in three ways: the
  sets, what they hold by address and offset (`Holding`), and what they hold by page
  (`BlocksIn`, which `ContentsAre` shows to be the refinement mapping). `IInv` is `Sound`
  (each block is in the set of its address, the tags of a set differ, there are at
  most `Ways`) and `Books` (of `Holding`, the tables say the truth: one is the
  inverse of the other, counts are exact, a page with an entry holds nothing under its
  own address, marked blocks are found). There is one lemma for each change of a set
  (`Adding`, `Removing`, `Dirtying`, `Retagging`), one for each change of the tables,
  (`BooksAdd`, `BooksDrop` and the four kinds of remap), and then one for each action.

- `MemoryProofs!TypeCorrect`, `BanksAlwaysAgree` (`BanksAgree`), `ReadsAlwaysSeeWrites`
  (`ReadsSeeWrites`), `BusIsUsedRightly` (`UsesBus`) and `BusIsExclusiveHere`, for any
  number of banks and all settings. The invariant `IInv` has four parts that the
  properties lack. The bus's own invariant, `busP!IInv`, taken from an instance of
  `BusProofs`: it says that the slot which ends is that of the bank which is
  called, and it is kept because each step of the memory is a step of the bus. `Timed`: no
  row is open before `BusLatency`, so that no slot is asked for too early. `Sizes`:
  besides `SizesAgree`, only one queue can be full, since a full one refuses all
  requests; `accessCompleted` calls `unstall` when the queue it leaves was full, and
  clears the flag for all. `Body`, of each bank: a request is in one place (`Mine`:
  queued, in the pipeline, current, or answered by a write), which keeps two events from being
  sent for one request; `Ahead` counts events and transfers; `Rows` adds to
  `RowsAgree` that a row which is being opened is that of the request it is opened
  for. The lemmas on `Body` take one bank, its requests and the two numbers, and say what
  each change of a bank does to them; then there is one lemma for
  each action, and `Glue` puts a bank's step, the bus's and the queues' together.

- `OOOCPUProofs!QuietKept` (`QuietWhileFlushed`). The property is not inductive: that
  nothing is stalled when a page is flushed needs that its drain counted right. `PageQuiet` says
  for each page that it is drained exactly while the manager waits for it, that the
  drain counts the requests for it in both stalled queues (`Left`), and that of a
  page that is flushed there is none; `Counted` says that there are as many DRAIN events as
  drains with nothing left, so that the event finds one. Sending may stall a request, and is kept by it only
  because the manager was asked before, for that page: `StallFollows` takes a request
  whose page is not held. What is retried when the core is resumed is looked up by the
  timestamps of the paused entries, which is why `Placed` is needed: a pauser is an
  entry that has been fetched, and its timestamp fits its place in the buffer. Events
  are kept as functions of a state of the core (`Worlds`), and `Good` is the set of the
  states in which all this holds: each part of the PROCESS event leads from `Good` to
  `Good`. A loop is a function of how far it has come; that it exists (`GoingExists`) and
  stays in a set which each step keeps (`StepsReach`) follows from the least number at which
  it would not (`MinNat`). There is one `Set...` lemma for each variable of the core, which
  says what an assignment to it leaves alone, then a lemma for each part and action.
- `OOOCPUProofs!EntriesKept` (`EntriesAgree`) and `AssertionsKept` (`AssertionsHold`).
  Neither is inductive. The run's property speaks of the window of the buffer; an answer
  looks up its entry by a timestamp modulo the size of the buffer, so one has to know
  that the entry is still that instruction's. `AInv` adds to the invariant above
  (`IInv`): one PROCESS event for each slot in use (`Timed`); a request is at most in
  one place - with a cache, stalled, in an answer not yet processed, or paused in
  its entry - and then the entry at its place has its timestamp, and the queue of loads has
  exactly the reads of data that are with a cache, stalled or answered (`Placing`); the counts of
  an entry are the numbers of requests for which it has such a place (`Waits` over `Due`);
  an entry that is not done is in the window, and one whose blocks are awaited is listed
  to be looked at (`Alive`); an entry with paused accesses is listed to be tried again
  (`Pausing`), and a listed one has some (`Pending`), without which it would not be listed
  anew when it is tried; entries pause only requests of their own (`Shaped`), and only
  reads are answered (`Kinds`). Within a PROCESS event this holds only up to what
  the event is about: `Fine` has as parameters the requests still to be sent (X), the
  answers taken from the slot and not yet counted (Y), the entries whose counts have
  just been changed and may be zero (B), the one being fetched (E) and the pausers
  being tried (Zi, Zd). Each loop of the event empties one of these, one element at
  a time (`RestIs`, `RestLess`, and the lemma on the loop, as `IssueDataTurns`); each part
  of the event leads from `Fine` with some of them to `Fine` with fewer, and the event from `AInv` to `AInv`. That the assertions of
  `AssertionsHold` do not fail is a part of each step: an answer finds its entry waiting
  (`InstrAwaited`), so its count is above zero and its state is the right one; a load that
  is sent is not in the queue of loads, and one that is answered is, by `Placing`; a DRAIN event
  finds a drain with nothing left (`DrainFound`) by `Counted`.

Only model-checked: liveness everywhere (liveness under fairness, and `ENABLED`, are out
of reach of the prover); what is said of `Cache` and the old policies; and
that an `OOOCPU` with nothing left to happen has committed its trace (`RestsWhenDone`).
Every safety property of the runs `engine`, `bus`, `memory`, `copy`, `migration`, `multiqueue` and
`cachemodel` is proved, for `copy`, `multiqueue` and `cachemodel` under the hypotheses
above, and of the core's run every one but `RestsWhenDone`. `Cache` and `OldPolicies` use
folds, `SelectSeq` and `RECURSIVE` operators, of which the installed provers cannot prove what
they compute; their loops would first have to be written as functions of how far they
have come, as those of `OOOCPU` are (`InTurn`).

## Not modelled

- *Cache*: the REMAP and TAG_CHANGE events and pins (the default flush policy and
  manager do not use them); more than one set (sets interact only through the
  queues, which two blocks fill); changing the tag of a block in `CacheModel`, and
  replacement other than least recently used.
- *HybridMemory*: `fixed_pcm_migration_cost` and delays between the blocks of a copy.
- *HybridMemoryManager*: `changeTags` (starts with an assertion that is false),
  partitions, monitors, statistics.
- *OldHybridMemory* and its manager: superseded; they copy one page at a time.
- *CacheMemory*: unfinished in the code - a write that hits is never completed, one that
  misses fails an assertion (Memory.cpp 385-660).
- *IOCPU*: its `accessCompleted` has another signature than the callback's, so
  that it is never called.
- *SimpleMemoryManager*, *Staller*, *MemoryMapping*, *Counter*: a table, a delay, bit
  fields, counters; no protocol.
- *Partition*: floating-point decisions on how much DRAM a process gets.
- Trace and option parsing, statistics, compression, `sim.cpp` and the stand-alone trace
  tools: input and output.
- The composition of the modules: each takes its neighbours as external and as
  free as the code lets them be, but `Memory`, which contains its `Bus`. A
  composition of `PageMigration` with `PageCopy` or of `PageCopy` with `Cache` is out of TLC's
  reach with instances large enough for their cases to happen.
