---------------------------- MODULE PageMigration ----------------------------
(***************************************************************************)
(* The manager of the hybrid memory (HybridMemoryManager in                *)
(* src/MemoryManager.cpp).  It maps the processes' pages to frames of DRAM *)
(* and PCM, and migrates them.  A request may start the promotion of its   *)
(* page to DRAM; one demotion to PCM at a time is started by the DEMOTE    *)
(* event, or the rollback of a promotion in its place.  A migration goes   *)
(* through the states FLUSH_BEFORE (demotions only, by the policy), COPY   *)
(* and FLUSH_AFTER; while a page is flushed the cores that access it wait. *)
(* Around the manager, and external here: the migration policy, which      *)
(* chooses; the hybrid memory, which copies (PageCopy) and may refuse the  *)
(* writebacks of flushed blocks; the last level cache, which answers       *)
(* flushes in any order; the cores, which drain.  The free lists are sets: *)
(* which of the free frames is taken makes no difference.                  *)
(***************************************************************************)
EXTENDS Integers, Sequences, FiniteSets, SequencesExt

CONSTANTS
    Pages,             \* virtual pages
    DramFrames, PcmFrames,
    Cpus,
    NumBlocks,         \* blocks of a page
    FlushPolicies,     \* the flush policies to choose from
    SuppressWritebacks,
    MaxFlushQueueSize,
    MaxTableSize,
    UsedModulus        \* the counters of memory used are unsigned; 1 leaves them out

Frames == DramFrames \cup PcmFrames
Blocks == 0 .. NumBlocks - 1

ASSUME PageMigrationAssumption ==
    /\ DramFrames \cap PcmFrames = {}
    /\ IsFiniteSet(Cpus) /\ Cpus # {}
    /\ NumBlocks \in Nat \ {0}
    /\ FlushPolicies \subseteq {"FLUSH_PCM_BEFORE", "FLUSH_ONLY_AFTER", "REMAP"}
    /\ SuppressWritebacks \in BOOLEAN
    /\ MaxFlushQueueSize \in Nat \ {0}
    /\ MaxTableSize \in Nat \ {0}
    /\ UsedModulus \in Nat \ {0}

VARIABLES
    flushPolicy,      \* fixed from the start
    pages,            \* the mapped pages: their frame, and two flags
    physicalPages,    \* the inverse: the page in a frame
    dramFree, pcmFree,
    migrations,       \* by source frame
    migrationTableSize,
    demoting,         \* a demotion or a rollback is under way
    events,           \* how many events of a kind are pending
    coresFinished,    \* every core has come to its end
    flushQueue,       \* the blocks to flush, in order; sent to the cache or not yet
    stalledRequests,  \* the writebacks the memory has refused
    stalledCpus,      \* the cores waiting for a page
    used,             \* dram- and pcmMemorySizeUsedPerPid, in pages
    copies,           \* external: the migrations the memory knows of
    drains,           \* external: the cores that are draining for a frame
    remaps,           \* external: the frames the cache is remapping
    registered        \* external: the memory will call unstall

tableVars == <<pages, physicalPages, dramFree, pcmFree, used>>
flushVars == <<flushQueue, stalledRequests, registered>>
drainVars == <<flushPolicy, drains, remaps>>
vars == <<tableVars, flushVars, drainVars, migrations, migrationTableSize, demoting,
          events, coresFinished, stalledCpus, copies>>

Mapped == DOMAIN pages
Migrating == DOMAIN migrations
InDram(f) == f \in DramFrames
Kinds == {"DEMOTE", "COPY_PAGE", "UNSTALL"}

Migration == [virtualPage : Pages, dest : Frames,
              state : {"FLUSH_BEFORE", "COPY", "FLUSH_AFTER"},
              rolledBack : BOOLEAN, needsCopying : BOOLEAN,
              drainsLeft : Nat, flushesLeft : Nat, stalledLeft : Nat]

NewMigration(v, dest, state) ==
    [virtualPage |-> v, dest |-> dest, state |-> state,
     rolledBack |-> FALSE, needsCopying |-> FALSE,
     drainsLeft |-> 0, flushesLeft |-> 0, stalledLeft |-> 0]

\* f with the entries of g added to it, or in the place of its own.
With(f, g) == [x \in DOMAIN f \cup DOMAIN g |-> IF x \in DOMAIN g THEN g[x] ELSE f[x]]
Entry(x, y) == [z \in {x} |-> y]
Without(f, S) == [x \in DOMAIN f \ S |-> f[x]]

AddEvent(k) == events' = [events EXCEPT ![k] = @ + 1]
TakeEvent(k) == events' = [events EXCEPT ![k] = @ - 1]

Use(dram, pcm) == used' = [dram |-> (used.dram + dram) % UsedModulus,
                           pcm |-> (used.pcm + pcm) % UsedModulus]

-----------------------------------------------------------------------------
(* Accesses of the cores *)

\* Mutant: the frame stays in the free list.
AllocateWithoutPop(v) == \E f \in dramFree \cup pcmFree :
    /\ v \notin Mapped
    /\ pages' = With(pages, Entry(v, [frame |-> f, isMigrating |-> FALSE, stallOnAccess |-> FALSE]))
    /\ physicalPages' = With(physicalPages, Entry(f, v))
    /\ UNCHANGED <<flushVars, drainVars, migrations, migrationTableSize, demoting, events, dramFree,
                   pcmFree, used, coresFinished, stalledCpus, copies>>

\* A page is mapped when it is first accessed, to the memory the policy says.
Allocate(v) == \E f \in dramFree \cup pcmFree :
    /\ v \notin Mapped
    /\ pages' = With(pages, Entry(v, [frame |-> f, isMigrating |-> FALSE, stallOnAccess |-> FALSE]))
    /\ physicalPages' = With(physicalPages, Entry(f, v))
    /\ dramFree' = dramFree \ {f} /\ pcmFree' = pcmFree \ {f}
    /\ IF InDram(f) THEN Use(1, 0) ELSE Use(0, 1)
    /\ UNCHANGED <<flushVars, drainVars, migrations, migrationTableSize, demoting, events,
                   coresFinished, stalledCpus, copies>>

\* access, to a page that is being flushed.
StallCpu(c, v) ==
    /\ v \in Mapped /\ pages[v].stallOnAccess
    /\ c \notin stalledCpus[v]
    /\ stalledCpus' = [stalledCpus EXCEPT ![v] = @ \cup {c}]
    /\ UNCHANGED <<tableVars, flushVars, drainVars, migrations, migrationTableSize, demoting,
                   events, coresFinished, copies>>

\* finish, of the last core.
FinishCores ==
    /\ coresFinished' = TRUE
    /\ UNCHANGED <<tableVars, flushVars, drainVars, migrations, migrationTableSize, demoting,
                   events, stalledCpus, copies>>

-----------------------------------------------------------------------------
(* Starting a migration *)

\* A request that reached the memory has the page promoted (migrateOnDemand).
MigrateOnDemand(f) == \E dest \in dramFree :
    LET v == physicalPages[f] IN
    /\ f \in DOMAIN physicalPages /\ f \in PcmFrames
    /\ ~pages[v].isMigrating
    /\ migrationTableSize < MaxTableSize
    /\ pages' = [pages EXCEPT ![v].isMigrating = TRUE]
    /\ dramFree' = dramFree \ {dest}
    /\ migrations' = With(migrations, Entry(f, NewMigration(v, dest, "COPY")))
    /\ migrationTableSize' = migrationTableSize + 1
    /\ Use(1, 0)
    /\ copies' = copies \cup {f}
    /\ UNCHANGED <<flushVars, drainVars, physicalPages, pcmFree, demoting, events,
                   coresFinished, stalledCpus>>

BlocksOf(f) == [i \in 1 .. NumBlocks |-> [frame |-> f, block |-> i - 1, sent |-> FALSE]]
Sent(q) == {i \in DOMAIN q : q[i].sent}

FlushingButOne(m) == [m EXCEPT !.flushesLeft = @ + NumBlocks - 1]

\* Blocks are flushed in their order, MaxFlushQueueSize at a time.
SendFlushes(q) ==
    [i \in DOMAIN q |->
        [q[i] EXCEPT !.sent = @ \/ Cardinality({j \in 1 .. i : ~q[j].sent}) + Cardinality(Sent(q))
                                       <= MaxFlushQueueSize]]

\* flushPage, after which m is the migration.
FlushPage(f) == flushQueue' = SendFlushes(flushQueue \o BlocksOf(f))
Flushing(m) == [m EXCEPT !.flushesLeft = @ + NumBlocks]

Demote(v) == \E dest \in pcmFree :
    LET f == pages[v].frame
        before == flushPolicy = "FLUSH_PCM_BEFORE"
        m == NewMigration(v, dest, IF before THEN "FLUSH_BEFORE" ELSE "COPY")
    IN /\ v \in Mapped /\ InDram(f)
       /\ ~pages[v].isMigrating
       /\ pages' = [pages EXCEPT ![v].isMigrating = TRUE, ![v].stallOnAccess = @ \/ before]
       /\ pcmFree' = pcmFree \ {dest}
       /\ migrations' = With(migrations, Entry(f, IF before THEN Flushing(m) ELSE m))
       /\ migrationTableSize' = migrationTableSize + 1
       /\ Use(0, 1)
       /\ IF before THEN FlushPage(f) /\ UNCHANGED copies
          ELSE copies' = copies \cup {f} /\ UNCHANGED flushQueue
       /\ UNCHANGED <<physicalPages, dramFree>>

\* The demotion of a page that is being promoted.  The memory is told unless
\* it has finished the copy; then the page is demoted when its flush is over.
RollbackPromotion(v) ==
    LET f == pages[v].frame IN
    /\ v \in Mapped /\ pages[v].isMigrating
    /\ f \in PcmFrames
    /\ migrations' = [migrations EXCEPT ![f].rolledBack = TRUE]
    /\ UNCHANGED <<pages, physicalPages, dramFree, pcmFree, used, migrationTableSize, flushQueue, copies>>

\* The DEMOTE event: selectPolicyAndDemote and startDemotion.  The policy has
\* a page to demote, or the event comes again after a while.
DemoteEvent ==
    /\ events["DEMOTE"] > 0
    /\ ~demoting
    /\ \/ /\ migrationTableSize < MaxTableSize
          /\ \E v \in Pages : Demote(v) \/ RollbackPromotion(v)
          /\ demoting' = TRUE
          /\ TakeEvent("DEMOTE")
       \/ /\ UNCHANGED <<demoting, pages, physicalPages, dramFree, pcmFree, used, migrations,
                         migrationTableSize, flushQueue, copies>>
          /\ IF coresFinished THEN TakeEvent("DEMOTE") ELSE UNCHANGED events
    /\ UNCHANGED <<drainVars, stalledRequests, registered, coresFinished, stalledCpus>>

\* The COPY_PAGE event, once the flush before a demotion is over.
CopyPageEvent == \E f \in Migrating :
    /\ events["COPY_PAGE"] > 0
    /\ migrations[f].needsCopying
    /\ migrations' = [migrations EXCEPT ![f].needsCopying = FALSE]
    /\ copies' = copies \cup {f}
    /\ TakeEvent("COPY_PAGE")
    /\ UNCHANGED <<tableVars, flushVars, drainVars, migrationTableSize, demoting, coresFinished, stalledCpus>>

-----------------------------------------------------------------------------
(* The end of a copy *)

\* Mutant: the cores go on.
StallNobody(v) == UNCHANGED pages

StallOnAccess(v) == pages' = [pages EXCEPT ![v].stallOnAccess = TRUE]

\* copyCompleted: caches hold blocks under the old address, so the page is
\* flushed once no core has a request for it under way, or remapped.
CopyCompleted(f) ==
    /\ f \in copies
    /\ migrations[f].state = "COPY"
    /\ ~migrations[f].rolledBack
    /\ IF flushPolicy = "REMAP"
       THEN /\ remaps' = remaps \cup {f}
            /\ migrations' = [migrations EXCEPT ![f].state = "FLUSH_AFTER"]
            /\ UNCHANGED drains
       ELSE /\ drains' = drains \cup (Cpus \X {f})
            /\ migrations' = [migrations EXCEPT ![f].state = "FLUSH_AFTER",
                                                ![f].drainsLeft = @ + Cardinality(Cpus)]
            /\ UNCHANGED remaps
    /\ StallOnAccess(migrations[f].virtualPage)
    /\ UNCHANGED <<flushPolicy, physicalPages, dramFree, pcmFree, used, flushVars, migrationTableSize,
                   demoting, events, coresFinished, stalledCpus, copies>>

\* copyCompleted, of a promotion that was rolled back: the page stays in PCM.
RollbackCompleted(f) ==
    /\ f \in copies
    /\ migrations[f].state = "COPY"
    /\ migrations[f].rolledBack
    /\ dramFree' = dramFree \cup {migrations[f].dest}
    /\ Use(-1, 0)
    /\ pages' = [pages EXCEPT ![migrations[f].virtualPage].isMigrating = FALSE]
    /\ copies' = copies \ {f}
    /\ demoting' = FALSE
    /\ AddEvent("DEMOTE")
    /\ migrations' = Without(migrations, {f})
    /\ migrationTableSize' = migrationTableSize - 1
    /\ UNCHANGED <<physicalPages, pcmFree, flushVars, drainVars, coresFinished, stalledCpus>>

DrainCompleted(c, f) ==
    LET m == [migrations[f] EXCEPT !.drainsLeft = @ - 1] IN
    /\ drains' = drains \ {<<c, f>>}
    /\ IF m.drainsLeft = 0
       THEN FlushPage(f) /\ migrations' = [migrations EXCEPT ![f] = Flushing(m)]
       ELSE UNCHANGED flushQueue /\ migrations' = [migrations EXCEPT ![f] = m]
    /\ UNCHANGED <<flushPolicy, tableVars, remaps, stalledRequests, registered, migrationTableSize, demoting,
                   events, coresFinished, stalledCpus, copies>>

-----------------------------------------------------------------------------
(* The end of a flush *)

\* finishFlushing, for the frames of F, with m the migrations by then and kind
\* the event that is being processed.  A flush before the copy makes way for it;
\* a flush after it ends the migration, or turns it into a demotion if it was
\* rolled back meanwhile.
FinishFlushing(F, m, kind) ==
    LET rolledBack == {f \in F : m[f].rolledBack}
        before == {f \in F \ rolledBack : m[f].state = "FLUSH_BEFORE"}
        after == F \ (rolledBack \cup before)
        moved == rolledBack \cup after
        toCopy == [f \in before |-> [m[f] EXCEPT !.state = "COPY", !.needsCopying = TRUE]]
        newPlaces == {m[f].dest : f \in moved}
        oldOf(g) == CHOOSE f \in moved : m[f].dest = g
        back == [g \in {m[f].dest : f \in rolledBack} |->
                    NewMigration(m[oldOf(g)].virtualPage, oldOf(g), "COPY")]
        demoted == after \cap DramFrames
    IN /\ pages' = [v \in Mapped |->
              IF pages[v].frame \notin F THEN pages[v]
              ELSE LET f == pages[v].frame IN
                   [frame |-> IF f \in moved THEN m[f].dest ELSE f,
                    isMigrating |-> f \notin after,
                    stallOnAccess |-> FALSE]]
       /\ physicalPages' = With(Without(physicalPages, moved),
                                [g \in newPlaces |-> m[oldOf(g)].virtualPage])
       /\ migrations' = With(With(Without(m, moved), toCopy), back)
       /\ migrationTableSize' = migrationTableSize - Cardinality(after)
       /\ dramFree' = dramFree \cup demoted
       /\ pcmFree' = pcmFree \cup (after \ demoted)
       /\ Use(-Cardinality(demoted), Cardinality(rolledBack) - Cardinality(after \ demoted))
       /\ demoting' = (demoting /\ demoted = {})
       /\ copies' = (copies \ moved) \cup {m[f].dest : f \in rolledBack}
       /\ stalledCpus' = [v \in Pages |->
              IF v \in {m[f].virtualPage : f \in F} THEN {} ELSE stalledCpus[v]]
       /\ events' = [k \in Kinds |-> events[k]
              - (IF k = kind THEN 1 ELSE 0)
              + (CASE k = "COPY_PAGE" -> Cardinality(before)
                   [] k = "DEMOTE" -> Cardinality(demoted)
                   [] OTHER -> 0)]

\* No block is left to flush and no writeback to be accepted.
IsFlushed(m) == m.flushesLeft = 0 /\ m.stalledLeft = 0

\* Mutant: always to the old place.
WritebackToSource(f) == f

\* Writebacks go where the block will be looked for.
WritebackFrame(f) ==
    IF migrations[f].state = "FLUSH_BEFORE" THEN f ELSE migrations[f].dest

\* flushCompleted, of the i-th block of the queue.
FlushCompleted(i, dirty) ==
    LET f == flushQueue[i].frame
        flushed == [migrations[f] EXCEPT !.flushesLeft = @ - 1]
        Continue(m) == FinishFlushing(IF IsFlushed(m) THEN {f} ELSE {},
                                      [migrations EXCEPT ![f] = m], "none")
    IN /\ i \in Sent(flushQueue)
       /\ flushQueue' = SendFlushes(RemoveAt(flushQueue, i))
       /\ \/ /\ ~dirty \/ SuppressWritebacks \/ stalledRequests = <<>>
             /\ Continue(flushed)
             /\ UNCHANGED <<stalledRequests, registered>>
          \/ /\ dirty /\ ~SuppressWritebacks
             /\ stalledRequests' = Append(stalledRequests, [page |-> f, to |-> WritebackFrame(f)])
             /\ registered' = (registered \/ stalledRequests = <<>>)
             /\ Continue([flushed EXCEPT !.stalledLeft = @ + 1])
       /\ UNCHANGED <<drainVars, coresFinished>>

RemapCompleted(f) ==
    /\ f \in remaps
    /\ remaps' = remaps \ {f}
    /\ FinishFlushing({f}, migrations, "none")
    /\ UNCHANGED <<flushPolicy, flushVars, drains, coresFinished>>

\* Mutant: the manager does not try again.
MemoryUnstallsInVain ==
    /\ registered
    /\ registered' = FALSE
    /\ UNCHANGED <<tableVars, flushQueue, stalledRequests, drainVars, migrations, migrationTableSize,
                   demoting, events, coresFinished, stalledCpus, copies>>

\* unstall: the memory has room.
MemoryUnstalls ==
    /\ registered
    /\ registered' = FALSE
    /\ AddEvent("UNSTALL")
    /\ UNCHANGED <<tableVars, flushQueue, stalledRequests, drainVars, migrations, migrationTableSize,
                   demoting, coresFinished, stalledCpus, copies>>

Count(q, f) == Cardinality({i \in DOMAIN q : q[i].page = f})

\* The UNSTALL event: the memory takes n of the writebacks, in their order.
UnstallEvent(n) ==
    LET taken == SubSeq(stalledRequests, 1, n)
        m == [f \in Migrating |-> [migrations[f] EXCEPT !.stalledLeft = @ - Count(taken, f)]]
    IN /\ events["UNSTALL"] > 0
       /\ n <= Len(stalledRequests)
       /\ stalledRequests' = SubSeq(stalledRequests, n + 1, Len(stalledRequests))
       /\ registered' = (registered \/ n < Len(stalledRequests))
       /\ FinishFlushing({f \in Migrating : Count(taken, f) > 0 /\ IsFlushed(m[f])}, m, "UNSTALL")
       /\ UNCHANGED <<flushQueue, drainVars, coresFinished>>

-----------------------------------------------------------------------------
(* The specification *)

Init ==
    /\ flushPolicy \in FlushPolicies
    /\ pages = <<>> /\ physicalPages = <<>>
    /\ dramFree = DramFrames /\ pcmFree = PcmFrames
    /\ migrations = <<>> /\ migrationTableSize = 0
    /\ demoting = FALSE
    /\ events = [k \in Kinds |-> IF k = "DEMOTE" THEN 1 ELSE 0]
    /\ coresFinished = FALSE
    /\ flushQueue = <<>> /\ stalledRequests = <<>>
    /\ stalledCpus = [v \in Pages |-> {}]
    /\ used = [dram |-> 0, pcm |-> 0]
    /\ copies = {} /\ drains = {} /\ remaps = {} /\ registered = FALSE

\* What the manager is told by the memory, the cache and the cores, and its events.
Reaction ==
    \/ \E f \in copies : CopyCompleted(f) \/ RollbackCompleted(f)
    \/ \E d \in drains : DrainCompleted(d[1], d[2])
    \/ \E i \in DOMAIN flushQueue, dirty \in BOOLEAN : FlushCompleted(i, dirty)
    \/ \E f \in remaps : RemapCompleted(f)
    \/ MemoryUnstalls
    \/ \E n \in 0 .. Len(stalledRequests) : UnstallEvent(n)
    \/ CopyPageEvent
    \/ DemoteEvent

Next ==
    \/ \E v \in Pages : Allocate(v)
    \/ \E c \in Cpus, v \in Pages : StallCpu(c, v)
    \/ FinishCores
    \/ \E f \in PcmFrames : MigrateOnDemand(f)
    \/ Reaction

Spec == Init /\ [][Next]_vars

\* A copy that does not wait for requests: a demotion, or a rollback.
CopiesItself(f) == f \in copies /\ (InDram(f) \/ migrations[f].rolledBack)

\* The memory ends such a copy, and a promotion once its blocks are copied; the
\* cache and the cores answer; the memory that has room again and again takes a
\* writeback one day; events are processed.
Fairness ==
    /\ WF_vars(\E f \in copies : CopiesItself(f) /\ (CopyCompleted(f) \/ RollbackCompleted(f)))
    /\ \A f \in Frames : WF_vars(\E d \in drains : d[2] = f /\ DrainCompleted(d[1], f))
    /\ \A f \in Frames : WF_vars(\E i \in DOMAIN flushQueue, dirty \in BOOLEAN :
                                    flushQueue[i].frame = f /\ FlushCompleted(i, dirty))
    /\ \A f \in Frames : WF_vars(RemapCompleted(f))
    /\ WF_vars(MemoryUnstalls)
    /\ SF_vars(\E n \in 1 .. Len(stalledRequests) : UnstallEvent(n))
    /\ WF_vars(\E n \in 0 .. Len(stalledRequests) : UnstallEvent(n))
    /\ WF_vars(CopyPageEvent)

FairSpec == Spec /\ Fairness

-----------------------------------------------------------------------------
(* Properties *)

\* What the manager's handlers leave behind keeps its type: the free lists hold
\* frames of their memory, and no count goes below zero or above its bound.
TypeOK ==
    /\ flushPolicy \in FlushPolicies
    /\ Mapped \subseteq Pages
    /\ \A v \in Mapped : pages[v] \in [frame : Frames, isMigrating : BOOLEAN, stallOnAccess : BOOLEAN]
    /\ DOMAIN physicalPages \subseteq Frames /\ \A f \in DOMAIN physicalPages : physicalPages[f] \in Pages
    /\ dramFree \subseteq DramFrames /\ pcmFree \subseteq PcmFrames
    /\ Migrating \subseteq Frames /\ \A f \in Migrating : migrations[f] \in Migration
    /\ migrationTableSize \in 0 .. MaxTableSize
    /\ demoting \in BOOLEAN /\ coresFinished \in BOOLEAN /\ registered \in BOOLEAN
    /\ events \in [Kinds -> Nat]
    /\ flushQueue \in Seq([frame : Frames, block : Blocks, sent : BOOLEAN])
    /\ stalledRequests \in Seq([page : Frames, to : Frames])
    /\ stalledCpus \in [Pages -> SUBSET Cpus]
    /\ used \in [dram : 0 .. UsedModulus - 1, pcm : 0 .. UsedModulus - 1]
    /\ copies \subseteq Frames /\ remaps \subseteq Frames /\ drains \subseteq Cpus \X Frames

\* The frames that are taken, and the pages they are for.
Destinations == {migrations[f].dest : f \in Migrating}
MappedFrames == {pages[v].frame : v \in Mapped}

\* No frame has two owners and none is lost: it is free, or holds one page, or is
\* the destination of one migration.  The physical map is the inverse of the
\* pages (access 232-262, 276-307, 527-561, 760-850, 897-925).
EachFrameOnce ==
    /\ Frames = dramFree \cup pcmFree \cup MappedFrames \cup Destinations
    /\ (dramFree \cup pcmFree) \cap (MappedFrames \cup Destinations) = {}
    /\ MappedFrames \cap Destinations = {}
    /\ \A f, g \in Migrating : migrations[f].dest = migrations[g].dest => f = g
    /\ DOMAIN physicalPages = MappedFrames
    /\ \A v \in Mapped : physicalPages[pages[v].frame] = v

\* A migration is of the page in its source frame, to the other memory; cores are
\* stopped at the page exactly while it is flushed, or remapped; the memory knows
\* of the migration from the start of the copy to the end; the table size counts.
MigrationsAgree ==
    /\ migrationTableSize = Cardinality(Migrating)
    /\ \A f \in Migrating : f \in MappedFrames /\ physicalPages[f] = migrations[f].virtualPage
    /\ \A f \in Migrating : InDram(f) # InDram(migrations[f].dest)
    /\ \A v \in Mapped : pages[v].isMigrating <=> pages[v].frame \in Migrating
    /\ \A v \in Mapped : pages[v].stallOnAccess <=>
           pages[v].isMigrating /\ migrations[pages[v].frame].state # "COPY"
    /\ copies = {f \in Migrating : migrations[f].state # "FLUSH_BEFORE" /\ ~migrations[f].needsCopying}

\* There is one demotion, or rollback, at a time, and otherwise the event that
\* looks for the next one, which is lost only after the cores have finished
\* (selectPolicyAndDemote, 775, 918).
OneDemotion ==
    /\ Cardinality({f \in Migrating : InDram(f) \/ migrations[f].rolledBack})
           = IF demoting THEN 1 ELSE 0
    /\ IF demoting THEN events["DEMOTE"] = 0
       ELSE events["DEMOTE"] = 1 \/ (events["DEMOTE"] = 0 /\ coresFinished)
    /\ events["COPY_PAGE"] = Cardinality({f \in Migrating : migrations[f].needsCopying})

\* The bounded queue: at most MaxFlushQueueSize blocks are at the cache, it is not
\* left idle, and each migration counts the blocks, writebacks and drains it waits for.
FlushesAgree ==
    /\ Cardinality(Sent(flushQueue)) =
           IF Len(flushQueue) < MaxFlushQueueSize THEN Len(flushQueue) ELSE MaxFlushQueueSize
    /\ \A f \in Migrating :
           /\ migrations[f].flushesLeft = Cardinality({i \in DOMAIN flushQueue : flushQueue[i].frame = f})
           /\ migrations[f].stalledLeft = Count(stalledRequests, f)
           /\ migrations[f].drainsLeft = Cardinality({c \in Cpus : <<c, f>> \in drains})
           /\ migrations[f].state # "COPY" /\ f \notin remaps =>
                  migrations[f].drainsLeft > 0 \/ ~IsFlushed(migrations[f])
    /\ \A i \in DOMAIN flushQueue : flushQueue[i].frame \in Migrating

\* A writeback the memory has refused still belongs to a migration that waits for
\* it, and goes to the frame where its page will be; exactly one wakeup is due.
WritebacksWait ==
    /\ \A i \in DOMAIN stalledRequests :
           /\ stalledRequests[i].page \in Migrating
           /\ LET m == migrations[stalledRequests[i].page] IN
              IF m.state = "FLUSH_BEFORE" THEN stalledRequests[i].to = pages[m.virtualPage].frame
              ELSE m.state = "FLUSH_AFTER" /\ stalledRequests[i].to = m.dest
    /\ events["UNSTALL"] + (IF registered THEN 1 ELSE 0) = IF stalledRequests = <<>> THEN 0 ELSE 1

\* The tables of the manager agree with each other: what is migrating, what is
\* flushed or drained for it, what the memory has refused, what is to be called.
TablesAgree == MigrationsAgree /\ OneDemotion /\ FlushesAgree /\ WritebacksWait

\* The counter of a process's PCM is the frames it has in PCM: its pages', and
\* what is reserved for them ("Size of PCM memory used by process", 141).
PcmUsedAgrees ==
    used.pcm = Cardinality({f \in PcmFrames : f \in MappedFrames \cup Destinations}) % UsedModulus

\* The cores stopped at a page all go on (unstallCpus).
CpusResume == \A v \in Pages : stalledCpus[v] # {} ~> stalledCpus[v] = {}

\* A demotion or a rollback ends, and the next can start.
DemotionsEnd == demoting ~> ~demoting

\* Cores and demotions are held up by each other's flushes, but not for ever.
Progress == CpusResume /\ DemotionsEnd

\* A page changes its frame only while cores are kept from it, and a migration
\* that has finished its copy is not abandoned.
MovesAreGuarded == [][\A v \in Mapped :
    /\ pages'[v].frame # pages[v].frame =>
           pages[v].stallOnAccess /\ drains \cap (Cpus \X {pages[v].frame}) = {}
    /\ pages[v].stallOnAccess /\ ~pages'[v].stallOnAccess =>
           \/ pages'[v].frame = migrations[pages[v].frame].dest
           \/ migrations[pages[v].frame].state = "FLUSH_BEFORE"]_vars
=============================================================================
