------------------------------ MODULE PageCopy ------------------------------
(***************************************************************************)
(* How the hybrid memory copies pages between DRAM and PCM while requests  *)
(* keep coming (src/HybridMemory.cpp).  A page is copied block by block: a *)
(* block is read from the source, buffered, written to the destination.  A *)
(* demotion (DRAM to PCM) reads its blocks itself, one READ event after    *)
(* the other; a promotion (PCM to DRAM) is started by a request and reads  *)
(* what is requested, and the rest once only completionThreshold blocks    *)
(* are left.  WRITE events drain the buffered blocks.  A promotion can be  *)
(* rolled back: source and destination swap, and what was written goes     *)
(* back to PCM.  The two memories are external: they accept a request or   *)
(* refuse it when full, answer reads in any order, and call unstall when   *)
(* they have room.  The manager is external too: when to copy, roll back   *)
(* or finish is its decision (PageMigration models it).  The READ and      *)
(* WRITE events have the delay 0 that is the default (sim.cpp 192-195), so *)
(* that they fire before the COPY event (delay 1), or the end of a flush.  *)
(***************************************************************************)
EXTENDS Integers, Sequences, FiniteSets, SequencesExt

CONSTANTS
    Pages,
    NumBlocks,       \* blocks of a page
    Settings,        \* what to choose from for setting
    Elide,           \* elideCleanDramBlocks
    MayFill,         \* the memories that may refuse requests
    CalmRollback,    \* roll back only when no read is under way, and then let it be
    CounterModulus,  \* the counters are unsigned
    MaxAccesses      \* bound on the requests from the caches

Mems == {"dram", "pcm"}
Blocks == 0 .. NumBlocks - 1

ASSUME PageCopyAssumption ==
    /\ NumBlocks \in Nat /\ NumBlocks > 1
    /\ Settings \subseteq [threshold : Nat, writeRaces : BOOLEAN,
                    inDram : SUBSET Pages, demotable : SUBSET Pages]
    /\ Elide \in BOOLEAN
    /\ MayFill \subseteq Mems
    /\ CalmRollback \in BOOLEAN
    /\ CounterModulus \in Nat /\ CounterModulus > NumBlocks
    /\ MaxAccesses \in Nat

VARIABLES
    setting,        \* fixed from the start: completionThreshold, whether writes may reach
                    \* blocks that are not read yet or are being read for someone, the
                    \* pages that start in DRAM, and those the manager may demote
    migrations,     \* the pages being copied: page to entry
    location,       \* where a page is mapped
    dirties,        \* for promoted pages, the blocks written in DRAM
    events,         \* how many events are pending, per kind and page
    reads,          \* the reads the memories have not answered
    notifications,  \* the reads waiting to be answered from the buffer
    stalledOnRead, stalledOnWrite,
    stalledCallers, \* the memories that have made a cache wait
    full,           \* the memories that refuse requests
    registered,     \* the memories that will call unstall
    fresh,          \* who holds the latest contents of a block
    accesses        \* requests so far, for the bound

placeVars == <<setting, location, dirties>>
stallVars == <<stalledOnRead, stalledOnWrite>>
memVars == <<stalledCallers, full, registered>>
vars == <<migrations, events, reads, notifications, fresh, accesses,
          placeVars, stallVars, memVars>>

Migrating == DOMAIN migrations
Kinds == {"READ", "WRITE", "COPY"}

\* An entry of the migration table.  callers are the blocks a cache waits for
\* while they are read for the copy; copied says that the manager was told.  The
\* last two fields are not in the code, and nothing depends on them: the blocks
\* that a write buffered before they were read, or while caches waited for a read.
Entry == [src : Mems, dest : Mems, rolledBack : BOOLEAN, copied : BOOLEAN,
          state : [Blocks -> {"NOT_READ", "READING", "BUFFERED", "WRITTEN"}],
          dirty : [Blocks -> BOOLEAN],
          callers : SUBSET Blocks,
          leftToRead : Nat, leftToCompleteRead : Nat, leftToWrite : Nat,
          nextRead : Nat \cup {-1}, nextWrite : Blocks \cup {-1},
          unread : SUBSET Blocks, joined : SUBSET Blocks]

NewEntry(src, dest) ==
    [src |-> src, dest |-> dest, rolledBack |-> FALSE, copied |-> FALSE,
     state |-> [b \in Blocks |-> "NOT_READ"],
     dirty |-> [b \in Blocks |-> FALSE],
     callers |-> {},
     leftToRead |-> NumBlocks, leftToCompleteRead |-> NumBlocks, leftToWrite |-> NumBlocks,
     nextRead |-> 0, nextWrite |-> -1,
     unread |-> {}, joined |-> {}]

InState(e, s) == {b \in Blocks : e.state[b] = s}
First(S) == CHOOSE b \in S : \A c \in S : b <= c

\* The counters are decremented as unsigned numbers.
Dec(n) == (n - 1) % CounterModulus

Put(p, e) == [q \in Migrating \cup {p} |-> IF q = p THEN e ELSE migrations[q]]
Without(p) == [q \in Migrating \ {p} |-> migrations[q]]

-----------------------------------------------------------------------------
(* The memories *)

\* accessNextLevel: a cache has to queue behind those that wait already.
Accepts(m) == m \notin stalledCallers /\ m \notin full

\* A memory takes a request; its queue may be full now.
Take(m) == full' \in {full, full \cup ({m} \cap MayFill)}

\* A cache is turned away, to be called when the memory has room.
Refuse(m) ==
    /\ ~Accepts(m)
    /\ stalledCallers' = stalledCallers \cup {m}
    /\ registered' = registered \cup {m}
    /\ UNCHANGED <<full, events, reads, notifications, fresh, placeVars, stallVars>>

Read(p, b, m, demand, partOfMigration) ==
    [page |-> p, block |-> b, from |-> m, demand |-> demand, partOfMigration |-> partOfMigration]

\* A cache waits for the block; it has one request for a block at a time.
Waiting(p, b) ==
    \/ \E r \in reads : r.page = p /\ r.block = b /\ r.demand
    \/ <<p, b>> \in notifications
    \/ p \in Migrating /\ b \in migrations[p].callers

-----------------------------------------------------------------------------
(* Starting the chains of events *)

AddEvents(new) == events' = [k \in DOMAIN events |-> IF k \in new THEN events[k] + 1 ELSE events[k]]
TakeEvent(k, new) ==
    events' = [j \in DOMAIN events |->
        events[j] - (IF j = k THEN 1 ELSE 0) + (IF j \in new THEN 1 ELSE 0)]

\* Mutants: every request from the threshold on starts a chain of READ events,
\* or the threshold is one block late.
AtOrBelowThreshold(e) == e.leftToRead <= setting.threshold /\ InState(e, "NOT_READ") # {}
AtThresholdLate(e) == e.leftToRead = setting.threshold - 1 /\ InState(e, "NOT_READ") # {}

\* With completionThreshold blocks left the copy reads on by itself.  The loop that looks
\* for the first of them counts from the old nextReadBlock.
AtThreshold(e) == e.leftToRead = setting.threshold /\ InState(e, "NOT_READ") # {}
ReadOn(e) == IF AtThreshold(e) THEN [e EXCEPT !.nextRead = @ + First(InState(e, "NOT_READ"))] ELSE e
ReadOnEvent(p, e) == IF AtThreshold(e) THEN {<<"READ", p>>} ELSE {}

\* Mutant: the block after it.
WriteOnNext(e, b) == IF e.nextWrite = -1 THEN [e EXCEPT !.nextWrite = b + 1] ELSE e

\* A block was buffered: there is a WRITE event unless one is on its way.
WriteOn(e, b) == IF e.nextWrite = -1 THEN [e EXCEPT !.nextWrite = b] ELSE e
WriteOnEvent(p, e) == IF e.nextWrite = -1 THEN {<<"WRITE", p>>} ELSE {}

-----------------------------------------------------------------------------
(* access, for a page that is being copied: reads, block state by state *)

ReadUnread(p, b) ==
    LET e == [migrations[p] EXCEPT !.state[b] = "READING", !.leftToRead = Dec(@)] IN
    /\ migrations[p].state[b] = "NOT_READ"
    /\ \/ /\ Refuse(location[p])
          /\ UNCHANGED migrations
       \/ /\ Accepts(location[p])
          /\ Take(location[p])
          /\ migrations' = Put(p, ReadOn(e))
          /\ AddEvents(ReadOnEvent(p, e))
          /\ reads' = reads \cup {Read(p, b, location[p], TRUE, TRUE)}
          /\ UNCHANGED <<notifications, fresh, placeVars, stallVars, stalledCallers, registered>>

ReadJoins(p, b) ==
    /\ migrations[p].state[b] = "READING"
    /\ migrations' = [migrations EXCEPT ![p].callers = @ \cup {b}]
    /\ UNCHANGED <<events, reads, notifications, fresh, placeVars, stallVars, memVars>>

ReadBuffered(p, b) ==
    /\ migrations[p].state[b] = "BUFFERED"
    /\ notifications' = notifications \cup {<<p, b>>}
    /\ UNCHANGED <<migrations, events, reads, fresh, placeVars, stallVars, memVars>>

\* A request that is not part of the copy goes to memory m.
PassRead(p, b, m) ==
    /\ \/ Refuse(m)
       \/ /\ Accepts(m)
          /\ Take(m)
          /\ reads' = reads \cup {Read(p, b, m, TRUE, FALSE)}
          /\ UNCHANGED <<events, notifications, fresh, placeVars, stallVars, stalledCallers, registered>>
    /\ UNCHANGED migrations

ReadWritten(p, b) ==
    /\ migrations[p].state[b] = "WRITTEN"
    /\ PassRead(p, b, migrations[p].dest)

(* and writes *)

WriteUnread(p, b) ==
    LET old == migrations[p]
        e == [old EXCEPT !.state[b] = "BUFFERED", !.dirty[b] = TRUE, !.leftToRead = Dec(@),
                         !.unread = @ \cup {b}]
    IN /\ old.state[b] = "NOT_READ"
       /\ setting.writeRaces
       /\ migrations' = Put(p, WriteOn(ReadOn(e), b))
       /\ AddEvents(ReadOnEvent(p, e) \cup WriteOnEvent(p, e))
       /\ fresh' = [fresh EXCEPT ![p][b] = {"buffer"}]
       /\ UNCHANGED <<reads, notifications, placeVars, stallVars, memVars>>

\* The read still to come is going to be ignored.
WriteOvertakes(p, b) ==
    LET e == [migrations[p] EXCEPT !.state[b] = "BUFFERED", !.dirty[b] = TRUE,
                                   !.joined = @ \cup (migrations[p].callers \cap {b})] IN
    /\ migrations[p].state[b] = "READING"
    /\ migrations' = Put(p, WriteOn(e, b))
    /\ AddEvents(WriteOnEvent(p, e))
    /\ fresh' = [fresh EXCEPT ![p][b] = {"buffer"}]
    /\ UNCHANGED <<reads, notifications, placeVars, stallVars, memVars>>

\* Mutant: the block is not marked as dirty.
WriteBufferedClean(p, b) ==
    /\ migrations[p].state[b] = "BUFFERED"
    /\ fresh' = [fresh EXCEPT ![p][b] = {"buffer"}]
    /\ UNCHANGED <<migrations, events, reads, notifications, placeVars, stallVars, memVars>>

WriteBuffered(p, b) ==
    /\ migrations[p].state[b] = "BUFFERED"
    /\ migrations' = [migrations EXCEPT ![p].dirty[b] = TRUE]
    /\ fresh' = [fresh EXCEPT ![p][b] = {"buffer"}]
    /\ UNCHANGED <<events, reads, notifications, placeVars, stallVars, memVars>>

WriteWritten(p, b) ==
    LET m == migrations[p].dest IN
    /\ migrations[p].state[b] = "WRITTEN"
    /\ \/ /\ Refuse(m)
          /\ UNCHANGED migrations
       \/ /\ Accepts(m)
          /\ Take(m)
          /\ migrations' = [migrations EXCEPT ![p].dirty[b] = TRUE]
          /\ fresh' = [fresh EXCEPT ![p][b] = {m}]
          /\ UNCHANGED <<events, reads, notifications, placeVars, stallVars, stalledCallers, registered>>

-----------------------------------------------------------------------------
(* access, for a page that is not: the manager may start a promotion *)

ReadResident(p, b) == PassRead(p, b, location[p])

WriteResident(p, b) ==
    LET m == location[p] IN
    /\ \/ Refuse(m)
       \/ /\ Accepts(m)
          /\ Take(m)
          /\ fresh' = [fresh EXCEPT ![p][b] = {m}]
          /\ dirties' = IF m = "dram" /\ p \in DOMAIN dirties
                        THEN [dirties EXCEPT ![p] = @ \cup {b}] ELSE dirties
          /\ UNCHANGED <<events, reads, notifications, setting, location, stallVars, stalledCallers,
                         registered>>
    /\ UNCHANGED migrations

\* The entry stays even if PCM refuses the read.
ReadOnDemand(p, b) ==
    LET new == NewEntry("pcm", "dram")
        e == [new EXCEPT !.state[b] = "READING", !.leftToRead = Dec(@)]
    IN /\ location[p] = "pcm"
       /\ \/ /\ Refuse("pcm")
             /\ migrations' = Put(p, new)
          \/ /\ Accepts("pcm")
             /\ Take("pcm")
             /\ migrations' = Put(p, ReadOn(e))
             /\ AddEvents(ReadOnEvent(p, e))
             /\ reads' = reads \cup {Read(p, b, "pcm", TRUE, TRUE)}
             /\ UNCHANGED <<notifications, fresh, placeVars, stallVars, stalledCallers, registered>>

WriteOnDemand(p, b) ==
    LET e == [NewEntry("pcm", "dram") EXCEPT !.state[b] = "BUFFERED", !.dirty[b] = TRUE,
                                             !.leftToRead = Dec(@), !.unread = {b}]
    IN /\ location[p] = "pcm"
       /\ setting.writeRaces
       /\ migrations' = Put(p, WriteOn(ReadOn(e), b))
       /\ AddEvents(ReadOnEvent(p, e) \cup WriteOnEvent(p, e))
       /\ fresh' = [fresh EXCEPT ![p][b] = {"buffer"}]
       /\ UNCHANGED <<reads, notifications, placeVars, stallVars, memVars>>

\* With CalmRollback no cache asks for what is still to be read after a rollback.
Served(p, b) ==
    p \in Migrating /\ migrations[p].rolledBack /\ CalmRollback =>
        migrations[p].state[b] \in {"BUFFERED", "WRITTEN"}

\* A cache reads or writes back a block.
Access(p, b) ==
    /\ accesses < MaxAccesses
    /\ accesses' = accesses + 1
    /\ Served(p, b)
    /\ \/ /\ p \in Migrating
          /\ ~Waiting(p, b)
          /\ ReadUnread(p, b) \/ ReadJoins(p, b) \/ ReadBuffered(p, b) \/ ReadWritten(p, b)
       \/ /\ p \in Migrating
          /\ setting.writeRaces \/ ~Waiting(p, b)
          /\ WriteUnread(p, b) \/ WriteOvertakes(p, b) \/ WriteBuffered(p, b) \/ WriteWritten(p, b)
       \/ /\ p \notin Migrating
          /\ ~Waiting(p, b)
          /\ ReadResident(p, b) \/ ReadOnDemand(p, b)
       \/ /\ p \notin Migrating
          /\ setting.writeRaces \/ ~Waiting(p, b)
          /\ WriteResident(p, b) \/ WriteOnDemand(p, b)

-----------------------------------------------------------------------------
(* The end of a copy *)

\* The manager is told.  It goes on to flush the caches and to map the page to
\* its new place, unless the copy was rolled back: then the entry goes at once,
\* and reads still under way are no longer part of the copy.
Complete(p, e, rest) ==
    IF e.rolledBack
    THEN /\ migrations' = Without(p)
         /\ reads' = {IF r.page = p /\ r.demand THEN [r EXCEPT !.partOfMigration = FALSE] ELSE r
                      : r \in rest}
    ELSE /\ migrations' = Put(p, [e EXCEPT !.copied = TRUE])
         /\ reads' = rest

\* Nothing is left to read, nor to write.
IsComplete(e) == e.leftToCompleteRead = 0 /\ e.leftToWrite = 0

\* The entry e is put back; rest are the unanswered reads.
PutOrComplete(p, e, rest) ==
    IF IsComplete(e) THEN Complete(p, e, rest)
    ELSE migrations' = Put(p, e) /\ reads' = rest

Pending(k, p) == events[<<k, p>>] > 0

CopyEvent(p) ==
    /\ Pending("COPY", p)
    /\ ~Pending("READ", p) /\ ~Pending("WRITE", p)
    /\ p \in Migrating
    /\ TakeEvent(<<"COPY", p>>, {})
    /\ Complete(p, migrations[p], reads)
    /\ UNCHANGED <<notifications, fresh, accesses, placeVars, stallVars, memVars>>

\* The manager has flushed the page from the caches: it is mapped to its new place.
Finish(p) ==
    /\ p \in Migrating /\ migrations[p].copied
    /\ ~Pending("READ", p)
    /\ location' = [location EXCEPT ![p] = migrations[p].dest]
    /\ dirties' = IF migrations[p].dest = "dram"
                  THEN [q \in DOMAIN dirties \cup {p} |->
                           IF q = p THEN {b \in Blocks : migrations[p].dirty[b]} ELSE dirties[q]]
                  ELSE dirties
    /\ migrations' = Without(p)
    /\ UNCHANGED <<setting, events, reads, notifications, fresh, accesses, stallVars, memVars>>

-----------------------------------------------------------------------------
(* Demotion *)

\* copyPage.  With Elide, blocks of a page that was promoted need not be copied.
CopyPage(p) ==
    LET new == NewEntry("dram", "pcm")
        elided == IF Elide /\ p \in DOMAIN dirties THEN dirties[p] ELSE {}
    IN /\ p \in setting.demotable
       /\ p \notin Migrating /\ location[p] = "dram"
       /\ migrations' = Put(p, [new EXCEPT
              !.state = [b \in Blocks |-> IF b \in elided THEN "WRITTEN" ELSE "NOT_READ"],
              !.leftToWrite = @ - Cardinality(elided),
              !.nextRead = IF elided = Blocks THEN -1 ELSE First(Blocks \ elided)])
       /\ dirties' = [q \in DOMAIN dirties \ {p} |-> dirties[q]]
       /\ AddEvents({<<"READ", p>>})
       /\ UNCHANGED <<setting, location, reads, notifications, fresh, accesses, stallVars,
                      memVars>>

\* The copy asks memory m itself: only copies that have stalled go first.
CopyAccepted(m, stalled) == stalled = <<>> /\ m \notin full

\* The page waits for room in m.
Stall(m) ==
    /\ registered' = registered \cup {m}
    /\ UNCHANGED <<full, stalledCallers>>

ReadEvent(p) ==
    LET old == migrations[p]
        from == {b \in InState(old, "NOT_READ") : b >= old.nextRead}
        b == First(from)
        e == [old EXCEPT !.state[b] = "READING", !.leftToRead = Dec(@)]
        left == InState(e, "NOT_READ")
    IN /\ Pending("READ", p)
       /\ p \in Migrating
       /\ \/ /\ old.leftToRead = 0
             /\ TakeEvent(<<"READ", p>>, {})
             /\ UNCHANGED <<migrations, reads, stallVars, memVars>>
          \/ /\ old.leftToRead > 0 /\ from = {}
             /\ old.nextRead \in Blocks
             /\ migrations' = [migrations EXCEPT ![p].nextRead = NumBlocks]
             /\ TakeEvent(<<"READ", p>>, {})
             /\ UNCHANGED <<reads, stallVars, memVars>>
          \/ /\ old.leftToRead > 0 /\ from # {}
             /\ old.nextRead \in Blocks
             /\ CopyAccepted(old.src, stalledOnRead)
             /\ Take(old.src)
             /\ migrations' = Put(p, [e EXCEPT !.nextRead = IF left = {} THEN b ELSE First(left)])
             /\ reads' = reads \cup {Read(p, b, old.src, FALSE, TRUE)}
             /\ TakeEvent(<<"READ", p>>, IF left = {} THEN {} ELSE {<<"READ", p>>})
             /\ UNCHANGED <<stallVars, stalledCallers, registered>>
          \/ /\ old.leftToRead > 0 /\ from # {}
             /\ old.nextRead \in Blocks
             /\ ~CopyAccepted(old.src, stalledOnRead)
             /\ IF stalledOnRead = <<>> THEN Stall(old.src) ELSE UNCHANGED memVars
             /\ migrations' = [migrations EXCEPT ![p].nextRead = b]
             /\ stalledOnRead' = Append(stalledOnRead, p)
             /\ TakeEvent(<<"READ", p>>, {})
             /\ UNCHANGED <<reads, stalledOnWrite>>
       /\ UNCHANGED <<notifications, fresh, accesses, placeVars>>

-----------------------------------------------------------------------------
(* The rest of a copy, in both directions *)

\* The contents of a block go from one holder to another, up to date or not.
Copied(p, b, from, to) ==
    LET at == fresh[p][b] IN
    fresh' = [fresh EXCEPT ![p][b] = IF from \in at THEN at \cup {to} ELSE at \ {to}]

WriteEvent(p) ==
    LET old == migrations[p]
        b == old.nextWrite
        e == [old EXCEPT !.state[b] = "WRITTEN", !.leftToWrite = Dec(@)]
        left == InState(e, "BUFFERED")
        goesOn == e.leftToWrite > 0 /\ left # {}
        next == IF e.leftToWrite = 0 THEN b ELSE IF left = {} THEN -1 ELSE First(left)
    IN /\ Pending("WRITE", p)
       /\ p \in Migrating
       /\ \/ /\ old.leftToWrite = 0
             /\ TakeEvent(<<"WRITE", p>>, {})
             /\ UNCHANGED <<migrations, reads, fresh, stallVars, memVars>>
          \/ /\ old.leftToWrite > 0
             /\ b # -1 /\ old.state[b] = "BUFFERED"
             /\ CopyAccepted(old.dest, stalledOnWrite)
             /\ Take(old.dest)
             /\ Copied(p, b, "buffer", old.dest)
             /\ PutOrComplete(p, [e EXCEPT !.nextWrite = next], reads)
             /\ TakeEvent(<<"WRITE", p>>, IF goesOn THEN {<<"WRITE", p>>} ELSE {})
             /\ UNCHANGED <<stallVars, stalledCallers, registered>>
          \/ /\ old.leftToWrite > 0
             /\ b # -1 /\ old.state[b] = "BUFFERED"
             /\ ~CopyAccepted(old.dest, stalledOnWrite)
             /\ IF stalledOnWrite = <<>> THEN Stall(old.dest) ELSE UNCHANGED memVars
             /\ stalledOnWrite' = Append(stalledOnWrite, p)
             /\ TakeEvent(<<"WRITE", p>>, {})
             /\ UNCHANGED <<migrations, reads, fresh, stalledOnRead>>
       /\ UNCHANGED <<notifications, accesses, placeVars>>

\* Mutant: those that joined a read are not called back.
CallBackNone(e, b) == e

CallBack(e, b) == [e EXCEPT !.callers = @ \ {b}]

\* accessCompleted: a memory answers a read.  Its caller and those that joined
\* it are called back; a block written meanwhile keeps what was written.
ReadReturns(r) ==
    LET p == r.page
        b == r.block
        old == migrations[p]
        counted == [old EXCEPT !.leftToCompleteRead = Dec(@)]
    IN /\ r \in reads
       /\ \/ /\ ~r.partOfMigration
             /\ reads' = reads \ {r}
             /\ UNCHANGED <<migrations, events, fresh>>
          \/ /\ r.partOfMigration
             /\ p \in Migrating /\ old.state[b] = "READING" /\ r.from = old.src
             /\ PutOrComplete(p, WriteOn(CallBack([counted EXCEPT !.state[b] = "BUFFERED"], b), b),
                              reads \ {r})
             /\ AddEvents(WriteOnEvent(p, old))
             /\ Copied(p, b, r.from, "buffer")
          \/ /\ r.partOfMigration
             /\ p \in Migrating /\ old.state[b] \in {"BUFFERED", "WRITTEN"}
             /\ PutOrComplete(p, IF old.state[b] = "WRITTEN" /\ old.rolledBack
                                 THEN CallBack(counted, b) ELSE counted,
                              reads \ {r})
             /\ UNCHANGED <<events, fresh>>
       /\ UNCHANGED <<notifications, accesses, placeVars, stallVars, memVars>>

\* The NOTIFY event answers the reads of buffered blocks.
Notify ==
    /\ notifications # {}
    /\ notifications' = {}
    /\ UNCHANGED <<migrations, events, reads, fresh, accesses, placeVars, stallVars, memVars>>

-----------------------------------------------------------------------------
(* Rolling a promotion back *)

\* No read of the copy is under way or to be sent; if a WRITE event is, it will
\* find a block to write.
IsCalm(p) ==
    /\ \A r \in reads : r.page = p => ~r.partOfMigration
    /\ ~Pending("READ", p) /\ ~Pending("COPY", p)
    /\ Pending("WRITE", p) =>
           \E b \in InState(migrations[p], "BUFFERED") : migrations[p].dirty[b]
    /\ ~Contains(stalledOnRead, p) /\ ~Contains(stalledOnWrite, p)

\* What is dirty in the buffer is written to PCM, what is dirty in DRAM is read
\* and written to PCM, and PCM holds the rest.
Rollback(p) ==
    LET old == migrations[p]
        toRead == {b \in InState(old, "WRITTEN") : old.dirty[b]}
        buffered == {b \in InState(old, "BUFFERED") : old.dirty[b]}
        chain == IF toRead # {} THEN {<<"READ", p>>} ELSE {}
        writing == IF buffered # {} /\ old.nextWrite = -1 THEN {<<"WRITE", p>>} ELSE {}
    IN /\ p \in Migrating /\ old.dest = "dram" /\ ~old.copied
       /\ CalmRollback => IsCalm(p)
       /\ migrations' = Put(p, [old EXCEPT
              !.src = "dram", !.dest = "pcm", !.rolledBack = TRUE, !.unread = {},
              !.state = [b \in Blocks |-> IF b \in toRead THEN "NOT_READ"
                                          ELSE IF b \in buffered THEN "BUFFERED" ELSE "WRITTEN"],
              !.leftToRead = Cardinality(toRead),
              !.leftToCompleteRead = Cardinality(toRead),
              !.leftToWrite = Cardinality(toRead \cup buffered),
              !.nextRead = IF toRead = {} THEN @ ELSE First(toRead),
              !.nextWrite = IF toRead \cup buffered = {} THEN @
                            ELSE IF buffered = {} THEN -1 ELSE First(buffered)])
       /\ AddEvents(IF toRead \cup buffered = {} THEN {<<"COPY", p>>} ELSE chain \cup writing)
       /\ UNCHANGED <<reads, notifications, fresh, accesses, placeVars, stallVars, memVars>>

-----------------------------------------------------------------------------
(* unstall *)

Occurrences(s, p) == Cardinality({i \in DOMAIN s : s[i] = p})

\* Memory m has room.  Of the copies that stalled, those that wait for m try
\* again; both lists are emptied.
MemoryDrains(m) ==
    /\ m \in full
    /\ full' = full \ {m}
    /\ IF m \in registered
       THEN /\ registered' = registered \ {m}
            /\ stalledCallers' = stalledCallers \ {m}
            /\ events' = [kp \in DOMAIN events |-> events[kp] +
                   CASE kp[1] = "READ" /\ Contains(stalledOnRead, kp[2]) ->
                            IF migrations[kp[2]].src = m THEN Occurrences(stalledOnRead, kp[2]) ELSE 0
                     [] kp[1] = "WRITE" /\ Contains(stalledOnWrite, kp[2]) ->
                            IF migrations[kp[2]].dest = m THEN Occurrences(stalledOnWrite, kp[2]) ELSE 0
                     [] OTHER -> 0]
            /\ stalledOnRead' = <<>> /\ stalledOnWrite' = <<>>
       ELSE UNCHANGED <<registered, stalledCallers, events, stallVars>>
    /\ UNCHANGED <<migrations, reads, notifications, fresh, accesses, placeVars>>

-----------------------------------------------------------------------------
(* The specification *)

Init ==
    /\ setting \in Settings
    /\ migrations = <<>>
    /\ location = [p \in Pages |-> IF p \in setting.inDram THEN "dram" ELSE "pcm"]
    /\ dirties = <<>>
    /\ events = [kp \in Kinds \X Pages |-> 0]
    /\ reads = {} /\ notifications = {}
    /\ stalledOnRead = <<>> /\ stalledOnWrite = <<>>
    /\ stalledCallers = {} /\ full = {} /\ registered = {}
    /\ fresh = [p \in Pages |-> [b \in Blocks |-> {location[p]}]]
    /\ accesses = 0

Next ==
    \/ \E p \in Pages, b \in Blocks : Access(p, b)
    \/ \E p \in Pages : CopyPage(p) \/ Rollback(p)
    \/ \E p \in Pages : ReadEvent(p) \/ WriteEvent(p) \/ CopyEvent(p) \/ Finish(p)
    \/ \E r \in reads : ReadReturns(r)
    \/ Notify
    \/ \E m \in Mems : MemoryDrains(m)

Spec == Init /\ [][Next]_vars

\* Every event is processed, a memory answers every read and makes room, and
\* the manager finishes what it was told is complete.
Fairness ==
    /\ \A p \in Pages : WF_vars(ReadEvent(p)) /\ WF_vars(WriteEvent(p))
    /\ \A p \in Pages : WF_vars(CopyEvent(p)) /\ WF_vars(Finish(p))
    /\ \A p \in Pages, b \in Blocks :
           WF_vars(\E r \in reads : r.page = p /\ r.block = b /\ ReadReturns(r))
    /\ WF_vars(Notify)
    /\ \A m \in Mems : WF_vars(MemoryDrains(m))

FairSpec == Spec /\ Fairness

-----------------------------------------------------------------------------
(* Properties *)

\* What access, the events and the callbacks leave behind keeps its type; the
\* next block to write is a block of the page, or none.
TypeOK ==
    /\ setting \in Settings
    /\ Migrating \subseteq Pages /\ \A p \in Migrating : migrations[p] \in Entry
    /\ location \in [Pages -> Mems]
    /\ DOMAIN dirties \subseteq Pages /\ \A p \in DOMAIN dirties : dirties[p] \subseteq Blocks
    /\ events \in [Kinds \X Pages -> Nat]
    /\ reads \subseteq [page : Pages, block : Blocks, from : Mems,
                        demand : BOOLEAN, partOfMigration : BOOLEAN]
    /\ notifications \subseteq Pages \X Blocks
    /\ stalledOnRead \in Seq(Pages) /\ stalledOnWrite \in Seq(Pages)
    /\ stalledCallers \subseteq Mems /\ full \subseteq MayFill /\ registered \subseteq Mems
    /\ fresh \in [Pages -> [Blocks -> SUBSET {"dram", "pcm", "buffer"}]]
    /\ accesses \in 0 .. MaxAccesses

\* Where a read of the block that arrives now gets its contents.
Holder(p, b) ==
    IF p \notin Migrating THEN location[p]
    ELSE CASE migrations[p].state[b] = "NOT_READ" -> location[p]
           [] migrations[p].state[b] = "READING" -> migrations[p].src
           [] migrations[p].state[b] = "BUFFERED" -> "buffer"
           [] migrations[p].state[b] = "WRITTEN" -> migrations[p].dest

\* Whatever is being copied, written and rolled back, a read gets the last
\* contents written to the block (access, 199-316).
Coherent == \A p \in Pages, b \in Blocks :
    Served(p, b) => Holder(p, b) \in fresh[p][b]

\* A block's reads by the copy, of the kind that count.
CountedReads(p) == {r \in reads : r.page = p /\ r.partOfMigration}

\* The three counters of a copy are what the block states and the reads under
\* way say: the copy is complete exactly when they are zero (574, 881).  A block
\* that is written before it is read is counted for ever as still to be read (237).
CountersAgree == \A p \in Migrating :
    LET e == migrations[p] IN
    /\ e.leftToRead = Cardinality(InState(e, "NOT_READ"))
    /\ e.leftToCompleteRead = e.leftToRead + Cardinality(CountedReads(p)) + Cardinality(e.unread)
    /\ e.leftToWrite = NumBlocks - Cardinality(InState(e, "WRITTEN"))

\* The assertions of process and accessCompleted: a pending READ or WRITE event
\* finds its copy, and a block to read or to write (770-774, 822-835); a read of
\* a copy finds the copy, and the block READING from the memory that answers or
\* written meanwhile (517-523).
AssertionsHold ==
    /\ \A p \in Pages, k \in Kinds : Pending(k, p) => p \in Migrating
    /\ \A p \in Migrating :
           /\ Pending("READ", p) /\ migrations[p].leftToRead > 0 => migrations[p].nextRead \in Blocks
           /\ Pending("WRITE", p) /\ migrations[p].leftToWrite > 0 =>
                  migrations[p].nextWrite \in InState(migrations[p], "BUFFERED")
    /\ \A r \in reads : r.partOfMigration =>
           /\ r.page \in Migrating
           /\ migrations[r.page].state[r.block] # "NOT_READ"
           /\ migrations[r.page].state[r.block] = "READING" => r.from = migrations[r.page].src

\* The assertion of accessCompleted on the answer to a block READING (522).
AnswersComeFromSource == \A r \in reads :
    /\ r.partOfMigration /\ r.page \in Migrating
    /\ migrations[r.page].state[r.block] = "READING"
    => r.from = migrations[r.page].src

\* A copy that reads by itself: a demotion or what is rolled back, and a
\* promotion with few blocks left.
ReadsItself(p) ==
    /\ migrations[p].leftToRead > 0
    /\ migrations[p].src = "dram" \/ migrations[p].leftToRead <= setting.threshold

\* Of a copy that has blocks to read or to write there is exactly one event, or
\* one place in the list of those that stalled: it is neither forgotten nor
\* started twice (accessCompleted 526-534, process 797-817, 865-879, unstall).
OneChain == \A p \in Migrating :
    /\ ReadsItself(p) =>
           events[<<"READ", p>>] + Occurrences(stalledOnRead, p) = 1
    /\ events[<<"WRITE", p>>] + Occurrences(stalledOnWrite, p)
           = IF InState(migrations[p], "BUFFERED") # {} THEN 1 ELSE 0

\* The list of pages that stalled while reading holds every copy that reads by
\* itself and has no READ event (HybridMemory.H:117).
StalledReadsListed == \A p \in Migrating :
    ReadsItself(p) /\ ~Pending("READ", p) => Contains(stalledOnRead, p)

\* A page of which the manager was told is in its new place, all of it.
CopiedIsComplete == \A p \in Migrating :
    migrations[p].copied => \A b \in Blocks : migrations[p].dest \in fresh[p][b]

\* Through all requests, stalls and rollbacks a copy is neither dropped nor doubled:
\* what it still has to do, what is under way for it and what it has reported agree.
CopyAgrees == CountersAgree /\ AssertionsHold /\ OneChain /\ CopiedIsComplete

\* A cache that waits for a block is called back (accessCompleted, NOTIFY): some
\* day it no longer waits, and not because the copy it waits for was dropped.  The
\* exception are those whose read a write has overtaken (271).
Overtaken(p, b) == p \in Migrating /\ b \in migrations[p].joined

ReadsAnswered ==
    /\ \A p \in Pages, b \in Blocks : Waiting(p, b) ~> ~Waiting(p, b) \/ Overtaken(p, b)
    /\ [][\A p \in Migrating : p \notin Migrating' =>
              migrations[p].callers \subseteq migrations[p].joined]_vars

\* A copy that reads by itself, or has nothing left to read, ends: the manager's
\* single demotion at a time is not held up for ever.  Only a block that is written
\* before it is read can hold it up (237).
CopyEnds == \A p \in Pages :
    (p \in Migrating /\ (migrations[p].src = "dram" \/ migrations[p].leftToRead <= setting.threshold))
        ~> p \notin Migrating \/ migrations[p].unread # {}

\* A cache that was turned away is called when there is room (unstall 912-931).
CallersUnstalled == \A m \in Mems : m \in stalledCallers ~> m \notin stalledCallers

\* No cache is forgotten, whether it waits for a block or for room.
NobodyIsForgotten == ReadsAnswered /\ CallersUnstalled
=============================================================================
